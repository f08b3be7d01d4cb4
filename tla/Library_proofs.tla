---------------------------- MODULE Library_proofs ----------------------------
(***************************************************************************)
(* The smaller parts of the library, for any number of threads, calls and  *)
(* services: CIoServicePool deals its services in turn while one thread    *)
(* deals at a time; the configuration file of CXMLMapperV2 is emptied only *)
(* after a load that failed, a race of a change with another call or a     *)
(* save to a path of the caller's; a download returns its own result while *)
(* no thread is left behind; the TRUE of the service calls is true; what a *)
(* connection of CCommonSocket reads is what was sent, in order and cut as *)
(* it may be, until a write fails in the middle of a frame; and a date     *)
(* whose text fits in the buffer is read back with its format.             *)
(***************************************************************************)
EXTENDS CommonSocket, IoServicePool, XMLMapper, Downloader, WinService, DateTime,
        SequenceTheorems, WellFoundedInduction, TLAPS

-----------------------------------------------------------------------------
(* Induction and recursion over the naturals, from the principle of the least
   number: what the recursive definitions of the models compute. *)

(* A set of naturals that is not empty has a least element. *)
LEMMA NatLeast ==
  ASSUME NEW T, T \subseteq Nat, T # {}
  PROVE  \E n \in T : \A m \in T : n <= m
<1>1. \E n \in T : \A m \in T : <<m, n>> \notin OpToRel(<, Nat)
  BY NatLessThanWellFounded, WFMin
<1>2. OpToRel(<, Nat) = {ss \in Nat \X Nat : ss[1] < ss[2]}
  BY DEF OpToRel
<1>3. \E n \in T : \A m \in T : <<m, n>> \notin {ss \in Nat \X Nat : ss[1] < ss[2]}
  BY <1>1, <1>2, Zenon
<1>4. \A n, m \in Nat : <<m, n>> \notin {ss \in Nat \X Nat : ss[1] < ss[2]} => n <= m
  OBVIOUS
<1>. QED
  BY <1>3, <1>4, Zenon

(* A set that has 0 and the successor of what it has contains every natural. *)
LEMMA SetInduction ==
  ASSUME NEW S, 0 \in S, \A n \in Nat : n \in S => n + 1 \in S
  PROVE  \A n \in Nat : n \in S
<1>. SUFFICES ASSUME Nat \ S # {} PROVE FALSE
  OBVIOUS
<1>1. PICK n \in Nat \ S : \A m \in Nat \ S : n <= m
  BY NatLeast
<1>2. n - 1 \in Nat
  BY <1>1
<1>3. n - 1 \in S
  BY <1>1, <1>2
<1>. QED
  BY <1>1, <1>2, <1>3

(* f starts from a and goes on as the function g says. *)
Iterates(f, D, a, g) ==
  f \in [Nat -> D] /\ f[0] = a /\ \A n \in Nat : f[n + 1] = g[<<n, f[n]>>]

(* Recursion over the naturals defines a function. *)
LEMMA NatRecursion ==
  ASSUME NEW D, NEW a \in D, NEW g \in [Nat \X D -> D]
  PROVE  \E f : Iterates(f, D, a, g)
<1>. DEFINE Approx(k) == {h \in [0 .. k -> D] :
                             h[0] = a /\ \A i \in 0 .. k - 1 : h[i + 1] = g[<<i, h[i]>>]}
            First(k) == CHOOSE h : h \in Approx(k)
            f == [k \in Nat |-> First(k)[k]]
<1>1. \A k \in Nat : Approx(k) # {}
  <2>. DEFINE S == {k \in Nat : Approx(k) # {}}
  <2>1. 0 \in S
    <3>1. [i \in 0 .. 0 |-> a] \in Approx(0)
      OBVIOUS
    <3>. QED
      BY <3>1
  <2>2. ASSUME NEW k \in Nat, k \in S PROVE k + 1 \in S
    <3>1. PICK h : h \in Approx(k)
      BY <2>2
    <3>. DEFINE e == [i \in 0 .. k + 1 |-> IF i <= k THEN h[i] ELSE g[<<k, h[k]>>]]
    <3>2. h[k] \in D /\ g[<<k, h[k]>>] \in D
      BY <3>1
    <3>3. e \in [0 .. k + 1 -> D] /\ e[0] = a
      BY <3>1, <3>2
    <3>4. ASSUME NEW i \in 0 .. k + 1 - 1 PROVE e[i + 1] = g[<<i, e[i]>>]
      <4>1. CASE i = k
        <5>1. e[k + 1] = g[<<k, h[k]>>] /\ e[k] = h[k]
          OBVIOUS
        <5>. QED
          BY <5>1, <4>1
      <4>2. CASE i # k
        <5>1. i \in 0 .. k - 1
          BY <4>2
        <5>2. h[i + 1] = g[<<i, h[i]>>]
          BY <5>1, <3>1
        <5>3. e[i + 1] = h[i + 1] /\ e[i] = h[i]
          BY <5>1
        <5>. QED
          BY <5>2, <5>3
      <4>. QED
        BY <4>1, <4>2
    <3>. HIDE DEF e
    <3>5. e \in Approx(k + 1)
      BY <3>3, <3>4
    <3>. QED
      BY <3>5
  <2>3. \A k \in Nat : k \in S
    <3>. HIDE DEF S
    <3>. QED
      BY <2>1, <2>2, SetInduction
  <2>. QED
    BY <2>3
<1>2. ASSUME NEW j \in Nat, NEW k \in Nat, j <= k, NEW h \in Approx(j), NEW e \in Approx(k)
      PROVE  \A i \in 0 .. j : h[i] = e[i]
  <2>. DEFINE S == {i \in Nat : i <= j => h[i] = e[i]}
  <2>1. 0 \in S
    BY <1>2
  <2>2. ASSUME NEW i \in Nat, i \in S PROVE i + 1 \in S
    <3>1. SUFFICES ASSUME i + 1 <= j PROVE h[i + 1] = e[i + 1]
      BY <2>2
    <3>2. i \in 0 .. j - 1 /\ i \in 0 .. k - 1
      BY <3>1, <1>2
    <3>3. h[i + 1] = g[<<i, h[i]>>] /\ e[i + 1] = g[<<i, e[i]>>]
      BY <3>2, <1>2
    <3>4. h[i] = e[i]
      BY <2>2, <3>2
    <3>. QED
      BY <3>3, <3>4
  <2>3. \A i \in Nat : i \in S
    <3>. HIDE DEF S
    <3>. QED
      BY <2>1, <2>2, SetInduction
  <2>. QED
    BY <2>3
<1>3. \A k \in Nat : First(k) \in Approx(k)
  BY <1>1, Zenon
<1>4. ASSUME NEW k \in Nat PROVE First(k) \in [0 .. k -> D] /\ First(k)[k] \in D
  <2>1. First(k) \in Approx(k)
    BY <1>3
  <2>. HIDE DEF First
  <2>. QED
    BY <2>1
<1>5. f \in [Nat -> D] /\ f[0] = a
  <2>1. First(0) \in Approx(0)
    BY <1>3
  <2>2. First(0)[0] = a
    <3>. HIDE DEF First
    <3>. QED
      BY <2>1
  <2>. HIDE DEF First
  <2>. QED
    BY <1>4, <2>2
<1>6. ASSUME NEW n \in Nat PROVE f[n + 1] = g[<<n, f[n]>>]
  <2>. HIDE DEF First, Approx
  <2>0. n + 1 \in Nat /\ n <= n + 1 /\ n \in 0 .. n
    OBVIOUS
  <2>1. First(n) \in Approx(n) /\ First(n + 1) \in Approx(n + 1)
    BY <1>3, <2>0
  <2>2. First(n)[n] = First(n + 1)[n]
    BY <2>1, <2>0, <1>2
  <2>. USE DEF Approx
  <2>3. First(n + 1)[n + 1] = g[<<n, First(n + 1)[n]>>]
    BY <2>1
  <2>. QED
    BY <2>2, <2>3
<1>. HIDE DEF f
<1>7. Iterates(f, D, a, g)
  BY <1>5, <1>6 DEF Iterates
<1>. QED
  BY <1>7

(* Max picks the greatest element of a finite set of positions. *)
LEMMA MaxIs ==
  ASSUME NEW k \in Nat, NEW s \in SUBSET (1 .. k), s # {}
  PROVE  Max(s) \in s /\ \A y \in s : y <= Max(s)
<1>. DEFINE T == {m \in Nat : k - m \in s}
<1>1. T # {}
  <2>1. PICK x : x \in s
    OBVIOUS
  <2>2. k - x \in Nat /\ k - (k - x) = x
    BY <2>1
  <2>. QED
    BY <2>1, <2>2
<1>2. PICK m \in T : \A j \in T : m <= j
  BY <1>1, NatLeast
<1>3. k - m \in s
  BY <1>2
<1>4. ASSUME NEW y \in s PROVE k - m >= y
  <2>1. k - y \in Nat /\ k - (k - y) = y
    OBVIOUS
  <2>2. k - y \in T
    BY <2>1
  <2>. QED
    BY <2>2, <1>2
<1>5. \E x \in s : \A y \in s : x >= y
  BY <1>3, <1>4
<1>6. Max(s) \in s /\ \A y \in s : Max(s) >= y
  <2>1. Max(s) = CHOOSE x \in s : \A y \in s : x >= y
    BY DEF Max
  <2>. QED
    BY <1>5, <2>1, Zenon
<1>7. \A y \in s : y \in Int
  OBVIOUS
<1>. QED
  BY <1>6, <1>7

(* The positions up to n are those before it and n. *)
LEMMA MaxOfInterval ==
  ASSUME NEW k \in Nat \ {0}
  PROVE  Max(1 .. k) = k /\ (1 .. k) \ {k} = 1 .. k - 1
<1>1. Max(1 .. k) \in 1 .. k /\ \A y \in 1 .. k : y <= Max(1 .. k)
  BY MaxIs, 1 .. k \in SUBSET (1 .. k), 1 \in 1 .. k
<1>. QED
  BY <1>1

(* it is the function by which FoldLeft is defined: what the fold of g over the
   positions 1 .. n makes of each set of them. *)
IsFold(it, n, D, base, g) ==
  /\ it \in [SUBSET (1 .. n) -> D]
  /\ \A s \in SUBSET (1 .. n) :
       it[s] = IF s = {} THEN base ELSE g[<<it[s \ {Max(s)}], Max(s)>>]

(* A fold over a sequence is defined. *)
LEMMA FoldExists ==
  ASSUME NEW n \in Nat, NEW D, NEW base \in D, NEW g \in [D \X (1 .. n) -> D]
  PROVE  \E it : IsFold(it, n, D, base, g)
<1>. DEFINE Is(it, k) == \A s \in SUBSET (1 .. k) :
              it[s] = IF s = {} THEN base ELSE g[<<it[s \ {Max(s)}], Max(s)>>]
            Some(k) == \E it \in [SUBSET (1 .. k) -> D] : Is(it, k)
            S == {k \in Nat : k <= n => Some(k)}
<1>1. 0 \in S
  <2>1. [s \in SUBSET (1 .. 0) |-> base] \in [SUBSET (1 .. 0) -> D]
    OBVIOUS
  <2>2. Is([s \in SUBSET (1 .. 0) |-> base], 0)
    OBVIOUS
  <2>. QED
    BY <2>1, <2>2
<1>2. ASSUME NEW k \in Nat, k \in S PROVE k + 1 \in S
  <2>. HIDE DEF Some
  <2>. SUFFICES ASSUME k + 1 <= n PROVE Some(k + 1)
    OBVIOUS
  <2>0. Some(k)
    BY <1>2
  <2>. USE DEF Some
  <2>1. PICK it \in [SUBSET (1 .. k) -> D] : Is(it, k)
    BY <2>0, Zenon
  <2>. DEFINE e == [s \in SUBSET (1 .. k + 1) |->
                      IF k + 1 \in s THEN g[<<it[s \ {k + 1}], k + 1>>] ELSE it[s]]
  <2>2. ASSUME NEW s \in SUBSET (1 .. k + 1)
        PROVE  s \ {k + 1} \in SUBSET (1 .. k) /\ (k + 1 \notin s => s \in SUBSET (1 .. k))
    OBVIOUS
  <2>3. e \in [SUBSET (1 .. k + 1) -> D]
    <3>1. ASSUME NEW s \in SUBSET (1 .. k + 1) PROVE e[s] \in D
      <4>1. it[s \ {k + 1}] \in D /\ (k + 1 \notin s => it[s] \in D)
        BY <2>2, <2>1
      <4>2. k + 1 \in 1 .. n
        OBVIOUS
      <4>3. g[<<it[s \ {k + 1}], k + 1>>] \in D
        BY <4>1, <4>2
      <4>. QED
        BY <4>1, <4>3
    <3>. QED
      BY <3>1
  <2>4. ASSUME NEW s \in SUBSET (1 .. k + 1)
        PROVE  e[s] = IF s = {} THEN base ELSE g[<<e[s \ {Max(s)}], Max(s)>>]
    <3>1. CASE k + 1 \in s
      <4>1. Max(s) = k + 1
        <5>1. Max(s) \in s /\ \A y \in s : y <= Max(s)
          BY <3>1, MaxIs
        <5>2. k + 1 <= Max(s) /\ Max(s) \in 1 .. k + 1
          BY <5>1, <3>1
        <5>. QED
          BY <5>2
      <4>2. e[s \ {k + 1}] = it[s \ {k + 1}]
        OBVIOUS
      <4>3. e[s] = g[<<it[s \ {k + 1}], k + 1>>]
        BY <3>1
      <4>. QED
        BY <4>1, <4>2, <4>3, <3>1
    <3>2. CASE k + 1 \notin s
      <4>1. s \in SUBSET (1 .. k) /\ e[s] = it[s]
        BY <2>2, <3>2
      <4>2. CASE s = {}
        BY <4>1, <4>2, <2>1
      <4>3. CASE s # {}
        <5>1. s \ {Max(s)} \in SUBSET (1 .. k + 1) /\ k + 1 \notin s \ {Max(s)}
          BY <3>2
        <5>2. e[s \ {Max(s)}] = it[s \ {Max(s)}]
          BY <5>1
        <5>3. it[s] = g[<<it[s \ {Max(s)}], Max(s)>>]
          BY <4>1, <4>3, <2>1
        <5>. QED
          BY <4>1, <4>3, <5>2, <5>3
      <4>. QED
        BY <4>2, <4>3
    <3>. QED
      BY <3>1, <3>2
  <2>. HIDE DEF e
  <2>. QED
    BY <2>3, <2>4
<1>3. \A k \in Nat : k \in S
  <2>. HIDE DEF S
  <2>. QED
    BY <1>1, <1>2, SetInduction
<1>4. Some(n)
  <2>. HIDE DEF Some
  <2>. QED
    BY <1>3
<1>. QED
  BY <1>4, Zenon DEF IsFold

(* d is what a fold has after each element, and result what it has in the end. *)
RunsTo(d, n, D, base, g, result) ==
  /\ d \in [0 .. n -> D] /\ d[0] = base /\ d[n] = result
  /\ \A k \in 0 .. n - 1 : d[k + 1] = g[<<d[k], k + 1>>]

(* iter folds as g does, as long as what it has got so far is in D. *)
FoldsLike(iter, n, D, base, g) ==
  /\ iter[{}] = base
  /\ \A s \in SUBSET (1 .. n) : s # {} /\ iter[s \ {Max(s)}] \in D =>
       iter[s] = g[<<iter[s \ {Max(s)}], Max(s)>>]

(* A function that folds as g does goes through the elements in their order. *)
LEMMA FoldRuns ==
  ASSUME NEW n \in Nat, NEW D, NEW base \in D, NEW g \in [D \X (1 .. n) -> D], NEW iter,
         FoldsLike(iter, n, D, base, g)
  PROVE  \E d : RunsTo(d, n, D, base, g, iter[1 .. n])
<1>. DEFINE S == {k \in Nat : k <= n => iter[1 .. k] \in D}
<1>1. ASSUME NEW k \in Nat, k + 1 <= n, iter[1 .. k] \in D
      PROVE  iter[1 .. k + 1] = g[<<iter[1 .. k], k + 1>>]
  <2>1. Max(1 .. k + 1) = k + 1 /\ (1 .. k + 1) \ {k + 1} = 1 .. k
    <3>1. k + 1 \in Nat \ {0} /\ (k + 1) - 1 = k
      OBVIOUS
    <3>. QED
      BY <3>1, MaxOfInterval
  <2>2. 1 .. k + 1 \in SUBSET (1 .. n) /\ 1 .. k + 1 # {}
    <3>1. k + 1 \in 1 .. k + 1 /\ \A i \in 1 .. k + 1 : i \in 1 .. n
      BY <1>1
    <3>. QED
      BY <3>1
  <2>3. iter[(1 .. k + 1) \ {Max(1 .. k + 1)}] \in D
    BY <2>1, <1>1
  <2>4. iter[1 .. k + 1] = g[<<iter[(1 .. k + 1) \ {Max(1 .. k + 1)}], Max(1 .. k + 1)>>]
    BY <2>2, <2>3 DEF FoldsLike
  <2>. QED
    BY <2>1, <2>4
<1>2. 0 \in S /\ iter[1 .. 0] = base
  <2>1. 1 .. 0 = {}
    OBVIOUS
  <2>. QED
    BY <2>1 DEF FoldsLike
<1>3. ASSUME NEW k \in Nat, k \in S PROVE k + 1 \in S
  <2>1. SUFFICES ASSUME k + 1 <= n PROVE iter[1 .. k + 1] \in D
    OBVIOUS
  <2>2. iter[1 .. k] \in D /\ k + 1 \in 1 .. n
    BY <2>1, <1>3
  <2>3. iter[1 .. k + 1] = g[<<iter[1 .. k], k + 1>>]
    BY <2>1, <2>2, <1>1
  <2>. QED
    BY <2>2, <2>3
<1>4. \A k \in Nat : k \in S
  <2>. HIDE DEF S
  <2>. QED
    BY <1>2, <1>3, SetInduction
<1>. DEFINE d == [k \in 0 .. n |-> iter[1 .. k]]
<1>5. d \in [0 .. n -> D]
  BY <1>4
<1>6. ASSUME NEW k \in 0 .. n - 1 PROVE d[k + 1] = g[<<d[k], k + 1>>]
  <2>1. k \in Nat /\ k + 1 <= n /\ iter[1 .. k] \in D
    BY <1>4
  <2>2. d[k + 1] = iter[1 .. k + 1] /\ d[k] = iter[1 .. k]
    BY <2>1
  <2>. QED
    BY <2>1, <2>2, <1>1
<1>7. d[0] = base /\ d[n] = iter[1 .. n]
  BY <1>2
<1>. HIDE DEF d
<1>8. RunsTo(d, n, D, base, g, iter[1 .. n])
  BY <1>5, <1>6, <1>7 DEF RunsTo
<1>. QED
  BY <1>8

-----------------------------------------------------------------------------
(* CIoServicePool. *)

Inside == {"increment", "test", "reset"}

(* Types, as far as the argument needs them. *)
PoolTypeOK ==
  /\ poolNext \in Nat /\ poolDealt \in [Service -> Nat]
  /\ poolPc \in [Dealing -> {"idle", "run"} \cup Inside]
  /\ poolOverlap \in BOOLEAN /\ poolWild \in BOOLEAN

(* At most one thread is in getNextIoService. *)
OneInside == \A t, u \in Dealing : poolPc[t] \in Inside /\ poolPc[u] \in Inside => t = u

(* The services before the n-th have been dealt once more than the others. *)
DealtUpTo(n) ==
  \E q \in Nat : \A s \in Service : poolDealt[s] = IF s < n THEN q + 1 ELSE q

(* The service at the next index has been dealt exactly if a thread has read it
   and not yet incremented the index, which is behind the last one only until
   that thread has looked at it again. *)
Round ==
  /\ \A t \in Dealing : poolPc[t] = "increment" => poolNext \in Service /\ DealtUpTo(poolNext + 1)
  /\ \A t \in Dealing : poolPc[t] = "test" => poolNext \in 1 .. Services /\ DealtUpTo(poolNext)
  /\ \A t \in Dealing : poolPc[t] = "reset" => poolNext = Services /\ DealtUpTo(Services)
  /\ (\A t \in Dealing : poolPc[t] \notin Inside) => poolNext \in Service /\ DealtUpTo(poolNext)

PoolInv ==
  /\ PoolTypeOK
  /\ ~poolOverlap => ~poolWild /\ OneInside /\ Round

(* Before the first deal every service has been dealt equally often. *)
LEMMA PoolInitInv == PoolInit => PoolInv
<1> SUFFICES ASSUME PoolInit PROVE PoolInv
  OBVIOUS
<1>1. DealtUpTo(0)
  <2>1. \A s \in Service : poolDealt[s] = IF s < 0 THEN 0 + 1 ELSE 0
    BY DEF PoolInit, Service
  <2>2. QED BY <2>1 DEF DealtUpTo
<1>2. 0 \in Service
  BY IoServicePoolAssumption DEF Service
<1>3. QED
  BY <1>1, <1>2 DEF PoolInit, PoolInv, PoolTypeOK, OneInside, Round, Inside, Service

(* When all services have been dealt equally often, the round can begin anew. *)
LEMMA RoundBeginsAnew ==
  ASSUME PoolTypeOK, DealtUpTo(Services) PROVE DealtUpTo(0)
<1>1. PICK q \in Nat : \A s \in Service : poolDealt[s] = IF s < Services THEN q + 1 ELSE q
  BY DEF DealtUpTo
<1>2. \A s \in Service : poolDealt[s] = IF s < 0 THEN (q + 1) + 1 ELSE q + 1
  BY <1>1, IoServicePoolAssumption DEF Service
<1>3. QED BY <1>2 DEF DealtUpTo

(* Dealing the service whose turn it is takes the round one further. *)
LEMMA RoundGoesOn ==
  ASSUME PoolTypeOK, DealtUpTo(poolNext), poolNext \in Service,
         poolDealt' = [poolDealt EXCEPT ![poolNext] = @ + 1], poolNext' = poolNext
  PROVE  DealtUpTo(poolNext + 1)'
<1>1. PICK q \in Nat : \A s \in Service : poolDealt[s] = IF s < poolNext THEN q + 1 ELSE q
  BY DEF DealtUpTo
<1>2. \A s \in Service : poolDealt'[s] = IF s < poolNext + 1 THEN q + 1 ELSE q
  BY <1>1, IoServicePoolAssumption DEF Service, PoolTypeOK
<1>3. QED BY <1>2 DEF DealtUpTo

(* A step that leaves the deal alone keeps the invariant. *)
LEMMA DealUntouched ==
  ASSUME PoolInv, UNCHANGED <<poolNext, poolDealt, poolPc, poolOverlap, poolWild>>
  PROVE  PoolInv'
BY DEF PoolInv, PoolTypeOK, OneInside, Round, DealtUpTo

(* Every step keeps the invariant. *)
LEMMA PoolStepInv ==
  ASSUME PoolInv, [PoolNext]_poolVars
  PROVE  PoolInv'
<1> USE IoServicePoolAssumption DEF PoolInv, Inside
<1>1. ASSUME NEW t \in Dealing, NEW c \in Communicator, DealRead(t, c) PROVE PoolInv'
  <2>1. PoolTypeOK'
    <3>1. poolDealt' \in [Service -> Nat] /\ poolWild' \in BOOLEAN
      <4>1. CASE poolNext \in Service
        BY <1>1, <4>1 DEF DealRead, PoolTypeOK
      <4>2. CASE poolNext \notin Service
        BY <1>1, <4>2 DEF DealRead, PoolTypeOK
      <4>3. QED BY <4>1, <4>2
    <3>2. poolOverlap' \in BOOLEAN
      BY <1>1 DEF DealRead
    <3>3. poolNext' = poolNext /\ poolPc' = [poolPc EXCEPT ![t] = "increment"]
      BY <1>1 DEF DealRead, PoolGoto
    <3>4. QED BY <3>1, <3>2, <3>3 DEF PoolTypeOK
  <2>2. ASSUME ~poolOverlap' PROVE ~poolWild' /\ OneInside' /\ Round'
    <3>1. ~poolOverlap /\ \A u \in Dealing : poolPc[u] \notin Inside
      BY <1>1, <2>2 DEF DealRead
    <3>2. poolNext \in Service /\ DealtUpTo(poolNext)
      BY <3>1 DEF Round
    <3>3. ~poolWild' /\ poolDealt' = [poolDealt EXCEPT ![poolNext] = @ + 1] /\ poolNext' = poolNext
      BY <1>1, <3>1, <3>2 DEF DealRead
    <3>4. DealtUpTo(poolNext + 1)'
      BY <3>2, <3>3, RoundGoesOn
    <3>5. poolPc' = [poolPc EXCEPT ![t] = "increment"]
      BY <1>1 DEF DealRead, PoolGoto
    <3>6. OneInside'
      BY <3>1, <3>5 DEF OneInside, PoolTypeOK
    <3>7. Round'
      BY <3>1, <3>2, <3>3, <3>4, <3>5 DEF Round, PoolTypeOK
    <3>8. QED BY <3>3, <3>6, <3>7
  <2>3. QED BY <2>1, <2>2
<1>2. ASSUME NEW t \in Dealing, DealIncrement(t) PROVE PoolInv'
  <2>1. /\ poolPc[t] = "increment" /\ poolPc' = [poolPc EXCEPT ![t] = "test"]
        /\ poolNext' = poolNext + 1 /\ UNCHANGED <<poolDealt, poolOverlap, poolWild>>
    BY <1>2 DEF DealIncrement, PoolGoto
  <2>2. PoolTypeOK' /\ (~poolOverlap => OneInside')
    BY <2>1 DEF PoolTypeOK, OneInside
  <2>3. ASSUME ~poolOverlap PROVE Round'
    <3>1. poolNext \in Service /\ DealtUpTo(poolNext + 1)
      BY <2>1, <2>3 DEF Round
    <3>2. poolNext' \in 1 .. Services /\ DealtUpTo(poolNext)'
      BY <2>1, <3>1 DEF DealtUpTo, Service
    <3>3. \A u \in Dealing : u # t => poolPc'[u] \notin Inside
      BY <2>1, <2>3 DEF OneInside, PoolTypeOK
    <3>4. QED BY <2>1, <3>2, <3>3 DEF Round, PoolTypeOK
  <2>4. QED BY <2>1, <2>2, <2>3
<1>3. ASSUME NEW t \in Dealing, DealTest(t) PROVE PoolInv'
  <2>1. PICK l \in {"reset", "run", "idle"} :
          /\ poolPc[t] = "test" /\ poolPc' = [poolPc EXCEPT ![t] = l]
          /\ l = "reset" <=> poolNext = Services
          /\ UNCHANGED <<poolNext, poolDealt, poolOverlap, poolWild>>
    BY <1>3 DEF DealTest, PoolGoto, AfterDeal
  <2>2. PoolTypeOK' /\ (~poolOverlap => OneInside')
    BY <2>1 DEF PoolTypeOK, OneInside
  <2>3. ASSUME ~poolOverlap PROVE Round'
    <3>1. poolNext \in 1 .. Services /\ DealtUpTo(poolNext)
      BY <2>1, <2>3 DEF Round
    <3>2. l # "reset" => poolNext \in Service
      BY <2>1, <3>1 DEF Service
    <3>3. \A u \in Dealing : u # t => poolPc'[u] \notin Inside
      BY <2>1, <2>3 DEF OneInside, PoolTypeOK
    <3>4. DealtUpTo(poolNext)' /\ (l = "reset" => DealtUpTo(Services)')
      BY <2>1, <3>1 DEF DealtUpTo
    <3>5. QED BY <2>1, <3>2, <3>3, <3>4 DEF Round, PoolTypeOK
  <2>4. QED BY <2>1, <2>2, <2>3
<1>4. ASSUME NEW t \in Dealing, DealReset(t) PROVE PoolInv'
  <2>1. PICK l \in {"run", "idle"} :
          /\ poolPc[t] = "reset" /\ poolPc' = [poolPc EXCEPT ![t] = l]
          /\ poolNext' = 0 /\ UNCHANGED <<poolDealt, poolOverlap, poolWild>>
    BY <1>4 DEF DealReset, PoolGoto, AfterDeal
  <2>2. PoolTypeOK' /\ (~poolOverlap => OneInside')
    BY <2>1 DEF PoolTypeOK, OneInside
  <2>3. ASSUME ~poolOverlap PROVE Round'
    <3>1. DealtUpTo(0)
      BY <2>1, <2>3, RoundBeginsAnew DEF Round
    <3>2. poolNext' \in Service /\ DealtUpTo(poolNext)'
      BY <2>1, <3>1 DEF DealtUpTo, Service
    <3>3. \A u \in Dealing : poolPc'[u] \notin Inside
      BY <2>1, <2>3 DEF OneInside, PoolTypeOK
    <3>4. QED BY <3>2, <3>3 DEF Round
  <2>4. QED BY <2>1, <2>2, <2>3
<1>5. ASSUME NEW t \in Dealing, Run(t) PROVE PoolInv'
  <2>1. /\ poolPc[t] = "run" /\ poolPc' = [poolPc EXCEPT ![t] = "idle"]
        /\ UNCHANGED <<poolNext, poolDealt, poolOverlap, poolWild>>
    BY <1>5 DEF Run, PoolGoto
  <2>2. \A u \in Dealing : poolPc'[u] \in Inside \/ poolPc[u] \in Inside => poolPc'[u] = poolPc[u]
    BY <2>1 DEF PoolTypeOK
  <2>3. PoolTypeOK' /\ (OneInside => OneInside')
    BY <2>1, <2>2 DEF PoolTypeOK, OneInside
  <2>4. Round => Round'
    BY <2>1, <2>2 DEF Round, DealtUpTo
  <2>5. QED BY <2>1, <2>3, <2>4
<1>6. ASSUME NEW c \in Communicator, NEW s \in Service,
             Post(c, s) \/ Serve(c, s)
      PROVE  PoolInv'
  BY <1>6, DealUntouched DEF Post, Serve, poolDeal
<1>7. CASE UNCHANGED poolVars
  BY <1>7, DealUntouched DEF poolVars, poolDeal
<1>8. ASSUME NEW c \in Communicator, Destroy(c) PROVE PoolInv'
  BY <1>8, DealUntouched DEF Destroy, poolDeal
<1>9. ASSUME NEW s \in Service, ThreadLeaves(s) PROVE PoolInv'
  BY <1>9, DealUntouched DEF ThreadLeaves, poolDeal
<1>10. QED
  BY <1>1, <1>2, <1>3, <1>4, <1>5, <1>6, <1>7, <1>8, <1>9 DEF PoolNext

(* Wherever a round stands, two services differ by one deal at most. *)
LEMMA RoundIsEven ==
  ASSUME NEW n, DealtUpTo(n) PROVE \A r, s \in Service : poolDealt[r] - poolDealt[s] \in -1 .. 1
<1>1. PICK q \in Nat : \A s \in Service : poolDealt[s] = IF s < n THEN q + 1 ELSE q
  BY DEF DealtUpTo
<1>2. \A s \in Service : poolDealt[s] = q \/ poolDealt[s] = q + 1
  BY <1>1
<1>3. QED BY <1>2

(* As long as no two threads are in getNextIoService at once, it stays within
   the vector and deals every service equally often, give or take one. *)
THEOREM ServicesInTurn == PoolSpec => []PoolRoundRobin
<1>1. PoolInv => PoolRoundRobin
  <2> SUFFICES ASSUME PoolInv, ~poolOverlap
               PROVE  \A r, s \in Service : poolDealt[r] - poolDealt[s] \in -1 .. 1
    BY DEF PoolInv, PoolRoundRobin
  <2>1. CASE \A t \in Dealing : poolPc[t] \notin Inside
    BY <2>1, RoundIsEven DEF PoolInv, Round
  <2>2. ASSUME NEW t \in Dealing, poolPc[t] \in Inside PROVE \E n : DealtUpTo(n)
    BY <2>2 DEF PoolInv, Round, Inside
  <2>3. QED BY <2>1, <2>2, RoundIsEven
<1>2. QED BY <1>1, PoolInitInv, PoolStepInv, PTL DEF PoolSpec

-----------------------------------------------------------------------------
(* CXMLMapperV2. *)

(* t is inside a section of _cs of a getter, a setter or SaveFile. *)
InCs(t) == xmlPc[t] \in {"compile", "lookup", "evaluate", "write", "leave", "save"}

(* Where a thread can be. *)
XmlPcs == {"idle", "enter", "compile", "lookup", "evaluate", "write", "leave", "save", "find",
           "change", "peek", "clear", "unload", "parse"}

(* _cs is entered as often as it was entered and not left: once by the call
   that is inside, and at least once by the setters that an exception ended. *)
CsInv ==
  /\ xmlPc \in [XmlThread -> XmlPcs]
  /\ xmlOwner \in XmlThread \cup {XmlNobody} /\ xmlDepth \in Nat
  /\ xmlDepth = 0 <=> xmlOwner = XmlNobody
  /\ \A t \in XmlThread : InCs(t) => xmlOwner = t
  /\ xmlLeaked \subseteq XmlThread \cap {xmlOwner}
  /\ xmlLeaked = {} /\ xmlOwner # XmlNobody => xmlDepth = 1 /\ InCs(xmlOwner)
  /\ xmlLeaked # {} /\ InCs(xmlOwner) => xmlDepth > 1

(* Which call a thread is in, as far as its place tells. *)
OpAtPc ==
  /\ xmlOp \in [XmlThread -> Operation] /\ xmlPc \in [XmlThread -> XmlPcs]
  /\ \A t \in XmlThread :
       /\ xmlPc[t] \in {"clear", "unload", "parse"} => xmlOp[t] \in Loads
       /\ xmlPc[t] \in {"find", "change"} <=> xmlOp[t] = "setVars" /\ xmlPc[t] # "idle"
       /\ xmlPc[t] = "write" => xmlOp[t] = "set"
       /\ xmlPc[t] = "peek" => xmlOp[t] = "peek"

LEMMA OpAtPcKept == (XmlInit => OpAtPc) /\ (OpAtPc /\ [XmlNext]_xmlVars => OpAtPc')
<1>1. XmlInit => OpAtPc
  BY DEF XmlInit, OpAtPc, Operation, XmlPcs
<1>2. ASSUME OpAtPc, [XmlNext]_xmlVars PROVE OpAtPc'
  <2>1. CASE UNCHANGED xmlVars
    BY <1>2, <2>1 DEF xmlVars, xmlCall, OpAtPc
  <2>2. ASSUME NEW t \in XmlThread, NEW op \in Operation, NEW q \in AnyQuery, CallXml(t, op, q)
        PROVE  OpAtPc'
    BY <1>2, <2>2 DEF CallXml, XmlGoto, InCall, OpAtPc, Operation, Loads, XmlPcs
  <2>3. ASSUME NEW t \in XmlThread, XmlStep(t) PROVE OpAtPc'
    <3>1. /\ xmlOp' = xmlOp
          /\ \E l \in XmlPcs :
               /\ xmlPc' = [xmlPc EXCEPT ![t] = l]
               /\ l \in {"clear", "unload", "parse"} => xmlOp[t] \in Loads
               /\ l # "idle" => (l = "change" <=> xmlOp[t] = "setVars")
               /\ l \notin {"find", "peek"}
               /\ l = "write" => xmlOp[t] = "set"
      <4> USE <1>2 DEF OpAtPc, XmlPcs, XmlGoto, xmlCall
      <4>1. CASE EnterCs(t) \/ LeaveCs(t) \/ Compile(t) \/ FindQuery(t) \/ SaveFile(t)
        BY <4>1 DEF EnterCs, LeaveCs, Compile, FindQuery, SaveFile
      <4>2. CASE GetThrows(t) \/ SetThrows(t) \/ VarsThrow(t) \/ PeekNode(t)
        BY <4>2 DEF GetThrows, SetThrows, VarsThrow, PeekNode
      <4>3. CASE EvaluateQuery(t)
        BY <4>3 DEF EvaluateQuery
      <4>4. CASE SetNodes(t)
        BY <4>4 DEF SetNodes
      <4>5. CASE RefreshXML(t) \/ Unload(t) \/ \E ok \in BOOLEAN : Parse(t, ok)
        BY <4>5 DEF RefreshXML, Unload, Parse, Loads
      <4>6. QED BY <2>3, <4>1, <4>2, <4>3, <4>4, <4>5 DEF XmlStep
    <3>2. QED BY <1>2, <3>1 DEF OpAtPc
  <2>4. QED BY <1>2, <2>1, <2>2, <2>3 DEF XmlNext
<1>3. QED BY <1>1, <1>2

LEMMA CsStep ==
  ASSUME CsInv, OpAtPc, [XmlNext]_xmlVars
  PROVE  CsInv' /\ (xmlLeaked # {} => xmlLeaked' # {} /\ xmlOwner' = xmlOwner)
<1> DEFINE Kept == CsInv' /\ (xmlLeaked # {} => xmlLeaked' # {} /\ xmlOwner' = xmlOwner)
<1> USE XMLMapperAssumption DEF CsInv, InCs, XmlPcs, XmlGoto
<1>1. ASSUME NEW t \in XmlThread, EnterCs(t) PROVE Kept
  BY <1>1 DEF EnterCs, xmlHist
<1>2. ASSUME NEW t \in XmlThread, LeaveCs(t) PROVE Kept
  BY <1>2 DEF LeaveCs, Released, xmlHist
<1>3. ASSUME NEW t \in XmlThread, OpAtPc, GetThrows(t) PROVE Kept
  BY <1>3 DEF GetThrows, Throws, Released, xmlHist, OpAtPc
<1>4. ASSUME NEW t \in XmlThread, OpAtPc, SetThrows(t) PROVE Kept
  <2>1. xmlOwner = t /\ xmlDepth > 0 /\ xmlPc' = [xmlPc EXCEPT ![t] = "idle"]
        /\ xmlLeaked' = xmlLeaked \cup {t} /\ UNCHANGED <<xmlOwner, xmlDepth>>
    BY <1>4 DEF SetThrows, Throws, xmlLock, OpAtPc
  <2>2. QED BY <2>1
<1>5. ASSUME NEW t \in XmlThread, NEW l \in {"lookup", "evaluate", "write", "leave"}, InCs(t),
             xmlPc' = [xmlPc EXCEPT ![t] = l], UNCHANGED <<xmlOwner, xmlDepth, xmlLeaked>>
      PROVE  Kept
  BY <1>5
<1>6. ASSUME NEW t \in XmlThread, ~InCs(t),
             NEW l \in {"idle", "enter", "find", "change", "peek", "clear", "unload", "parse"},
             xmlPc' = [xmlPc EXCEPT ![t] = l], UNCHANGED <<xmlOwner, xmlDepth, xmlLeaked>>
      PROVE  Kept
  BY <1>6
<1>7. ASSUME NEW t \in XmlThread,
             Compile(t) \/ FindQuery(t) \/ EvaluateQuery(t) \/ SetNodes(t) \/ SaveFile(t)
      PROVE  Kept
  <2>1. CASE Compile(t) \/ FindQuery(t) \/ SaveFile(t)
    BY <1>5, <2>1 DEF Compile, FindQuery, SaveFile, xmlLock, xmlHist
  <2>2. CASE EvaluateQuery(t)
    <3>1. UNCHANGED <<xmlOwner, xmlDepth, xmlLeaked>>
      BY <2>2 DEF EvaluateQuery, xmlLock, xmlHist
    <3>2. CASE xmlPc[t] = "find"
      <4>1. ~InCs(t) /\ xmlPc' = [xmlPc EXCEPT ![t] = "change"]
        BY <2>2, <3>2 DEF EvaluateQuery
      <4>2. QED BY <1>6, <3>1, <4>1
    <3>3. CASE xmlPc[t] = "evaluate"
      <4>1. InCs(t) /\ \E l \in {"write", "leave"} : xmlPc' = [xmlPc EXCEPT ![t] = l]
        BY <2>2, <3>3 DEF EvaluateQuery
      <4>2. QED BY <1>5, <3>1, <4>1
    <3>4. QED BY <2>2, <3>2, <3>3 DEF EvaluateQuery
  <2>3. CASE SetNodes(t)
    <3>1. UNCHANGED <<xmlOwner, xmlDepth, xmlLeaked>>
      BY <2>3 DEF SetNodes, xmlLock, xmlHist
    <3>2. CASE xmlPc[t] = "change"
      <4>1. ~InCs(t) /\ xmlPc' = [xmlPc EXCEPT ![t] = "idle"]
        BY <2>3, <3>2 DEF SetNodes
      <4>2. QED BY <1>6, <3>1, <4>1
    <3>3. CASE xmlPc[t] = "write"
      <4>1. InCs(t) /\ xmlPc' = [xmlPc EXCEPT ![t] = "leave"]
        BY <2>3, <3>3 DEF SetNodes
      <4>2. QED BY <1>5, <3>1, <4>1
    <3>4. QED BY <2>3, <3>2, <3>3 DEF SetNodes
  <2>4. QED BY <1>7, <2>1, <2>2, <2>3
<1>8. ASSUME NEW t \in XmlThread,
             VarsThrow(t) \/ PeekNode(t) \/ RefreshXML(t) \/ Unload(t) \/ \E ok \in BOOLEAN : Parse(t, ok)
      PROVE  Kept
  <2>1. CASE VarsThrow(t)
    <3>1. ~InCs(t) /\ xmlPc' = [xmlPc EXCEPT ![t] = "idle"]
      BY <2>1 DEF VarsThrow, Throws, OpAtPc
    <3>2. UNCHANGED <<xmlOwner, xmlDepth, xmlLeaked>>
      BY <2>1 DEF VarsThrow, xmlLock, xmlHist
    <3>3. QED BY <1>6, <3>1, <3>2
  <2>2. CASE ~VarsThrow(t)
    BY <1>6, <1>8, <2>2 DEF PeekNode, RefreshXML, Unload, Parse, xmlLock, xmlHist
  <2>3. QED BY <2>1, <2>2
<1>9. ASSUME NEW t \in XmlThread, NEW op \in Operation, NEW q \in AnyQuery, CallXml(t, op, q)
      PROVE  Kept
  <2>1. PICK l \in {"enter", "find", "peek", "unload", "clear"} : xmlPc' = [xmlPc EXCEPT ![t] = l]
    BY <1>9 DEF CallXml, Operation, Loads
  <2>2. ~InCs(t) /\ UNCHANGED <<xmlOwner, xmlDepth, xmlLeaked>>
    BY <1>9 DEF CallXml, InCall, xmlLock
  <2>3. QED BY <1>6, <2>1, <2>2
<1>10. ASSUME UNCHANGED xmlVars PROVE Kept
  BY <1>10 DEF xmlVars, xmlLock, xmlHist
<1>11. QED
  <2> HIDE DEF Kept, CsInv, InCs, XmlPcs, XmlGoto
  <2>1. ASSUME NEW t \in XmlThread, XmlStep(t) PROVE Kept
    BY <1>1, <1>2, <1>3, <1>4, <1>7, <1>8, <2>1 DEF XmlStep
  <2>2. Kept
    BY <1>9, <1>10, <2>1 DEF XmlNext
  <2>3. QED BY <2>2 DEF Kept

LEMMA CsInvariance == XmlSpec => [](OpAtPc /\ CsInv)
<1>1. XmlInit => OpAtPc /\ CsInv
  BY XMLMapperAssumption, OpAtPcKept DEF XmlInit, CsInv, InCs, XmlPcs
<1>2. OpAtPc /\ CsInv /\ [XmlNext]_xmlVars => OpAtPc' /\ CsInv'
  BY CsStep, OpAtPcKept
<1>3. QED BY <1>1, <1>2, PTL DEF XmlSpec

(* Until a setter ends with an exception, whoever has _cs is inside one of its
   sections and leaves it; the safety half of XmlCallReturns. *)
THEOREM CsHeldInside ==
  XmlSpec => [](xmlLeaked = {} => xmlOwner = XmlNobody \/ InCs(xmlOwner))
<1>1. CsInv => (xmlLeaked = {} => xmlOwner = XmlNobody \/ InCs(xmlOwner))
  BY DEF CsInv
<1>2. QED BY <1>1, CsInvariance, PTL

(* SetDataFromItem leaves _cs neither on its way nor by a handler when its query
   throws: from then on no other thread ever gets into it. *)
THEOREM LeakedForGood ==
  ASSUME NEW t \in XmlThread
  PROVE  XmlSpec => [](t \in xmlLeaked => [](\A u \in XmlThread : InCs(u) => u = t))
<1> DEFINE Leaked == t \in xmlLeaked
           Alone == \A u \in XmlThread : InCs(u) => u = t
<1>1. CsInv /\ Leaked => Alone
  BY DEF CsInv
<1>2. OpAtPc /\ CsInv /\ Leaked /\ [XmlNext]_xmlVars => Leaked'
  <2> SUFFICES ASSUME OpAtPc, CsInv, Leaked, [XmlNext]_xmlVars PROVE Leaked'
    OBVIOUS
  <2>1. CsInv' /\ xmlLeaked' # {} /\ xmlOwner' = xmlOwner
    BY CsStep
  <2>2. QED BY <2>1 DEF CsInv
<1> HIDE DEF Leaked, Alone
<1>3. XmlSpec => [](Leaked => []Alone)
  BY <1>1, <1>2, CsInvariance, PTL DEF XmlSpec
<1>4. QED BY <1>3 DEF Leaked, Alone

(* Types, as far as the argument needs them. *)
XmlTypeOK ==
  /\ xmlDoc \in {"config", "empty"} /\ xmlFile \in {"config", "empty"}
  /\ xmlPath \in BOOLEAN /\ xmlCrashed \in BOOLEAN
  /\ xmlRaced \in BOOLEAN /\ xmlLoadFailed \in BOOLEAN /\ xmlSavedNew \in BOOLEAN
  /\ DOMAIN xmlAsks = XmlThread

(* No two calls in conflict go on at the same time. *)
NoConflict ==
  \A t, u \in XmlThread : t # u /\ InCall(t) /\ InCall(u) => ~Conflict(xmlOp[t], xmlOp[u])

(* A compiled query stays until it is used. *)
QueryThere == \A t \in XmlThread : xmlPc[t] = "lookup" => xmlAsks[t] \in xmlCache

(* Once a file was named, the document is its content between two loads. *)
DocumentThere ==
  xmlPath => xmlDoc = "config" \/ \E t \in XmlThread : xmlPc[t] = "parse"

XmlInv ==
  /\ XmlTypeOK
  /\ ~xmlRaced => ~xmlCrashed /\ NoConflict /\ QueryThere
  /\ ~xmlRaced /\ ~xmlLoadFailed /\ ~xmlSavedNew => xmlFile = "config" /\ DocumentThere

(* A new mapper has no file to lose and nobody in a call. *)
LEMMA XmlInitInv == XmlInit => XmlInv
BY DEF XmlInit, XmlInv, XmlTypeOK, NoConflict, QueryThere, DocumentThere, InCall

(* While no calls in conflict go on, nobody else changes the document that t is
   about to touch: who takes no lock is not there, and who does is not inside. *)
LEMMA NobodyChanges ==
  ASSUME OpAtPc, CsInv, NoConflict, NEW t \in XmlThread, InCall(t), xmlPc[t] # "enter"
  PROVE  ~Changed(t)
<1> SUFFICES ASSUME NEW u \in XmlThread \ {t}, xmlPc[u] \in {"parse", "write", "change"} PROVE FALSE
  BY DEF Changed
<1>1. InCall(u) /\ ~Conflict(xmlOp[t], xmlOp[u])
  BY DEF InCall, NoConflict
<1>2. CASE xmlPc[u] = "parse" \/ xmlPc[u] = "change"
  BY <1>1, <1>2 DEF OpAtPc, Conflict, Unlocked, Changing, Loads
<1>3. CASE xmlPc[u] = "write"
  <2>1. xmlOp[u] = "set" /\ InCs(u)
    BY <1>3 DEF OpAtPc, InCs
  <2>2. ~InCs(t)
    BY <2>1, XMLMapperAssumption DEF CsInv
  <2>3. xmlOp[t] \in Unlocked
    BY <2>2 DEF CsInv, XmlPcs, InCs, InCall, OpAtPc, Unlocked, Loads
  <2>4. QED BY <1>1, <2>1, <2>3 DEF Conflict, Changing
<1>4. QED BY <1>2, <1>3

(* A thread that loads is alone. *)
LEMMA LoadsAlone ==
  ASSUME OpAtPc, NoConflict, NEW t \in XmlThread, xmlPc[t] \in {"clear", "unload", "parse"}
  PROVE  \A u \in XmlThread \ {t} : ~InCall(u)
BY DEF OpAtPc, NoConflict, Conflict, Unlocked, Changing, InCall

(* Every step of a thread inside a call keeps the invariant. *)
LEMMA XmlStepInv ==
  ASSUME OpAtPc, CsInv, XmlInv, NEW t \in XmlThread, XmlStep(t), ~xmlCrashed
  PROVE  XmlInv'
<1>1. ASSUME NEW l, xmlPc[t] # "idle", xmlPc' = [xmlPc EXCEPT ![t] = l], UNCHANGED <<xmlOp, xmlRaced>>
      PROVE  ~xmlRaced' => NoConflict'
  BY <1>1 DEF XmlInv, NoConflict, InCall, OpAtPc
<1>2. ASSUME xmlPc[t] \notin {"idle", "enter"}, TouchDocument(t)
      PROVE  xmlCrashed' \in BOOLEAN /\ (~xmlRaced => ~xmlCrashed')
  <2>1. ~xmlRaced => ~Changed(t)
    BY <1>2, NobodyChanges DEF XmlInv, InCall
  <2>2. QED BY <1>2, <2>1 DEF TouchDocument, Changed
<1>3. ASSUME NEW l, l # "lookup", xmlPc[t] \notin {"idle", "parse"},
             xmlPc' = [xmlPc EXCEPT ![t] = l], UNCHANGED <<xmlData, xmlCache, xmlCall, xmlHist>>,
             xmlCrashed' \in BOOLEAN /\ (~xmlRaced => ~xmlCrashed')
      PROVE  XmlInv'
  <2>1. ~xmlRaced' => NoConflict'
    BY <1>1, <1>3 DEF xmlCall, xmlHist
  <2>2. ~xmlRaced' => QueryThere'
    BY <1>3 DEF XmlInv, QueryThere, xmlCall, xmlHist, OpAtPc
  <2>3. ~xmlRaced' /\ ~xmlLoadFailed' /\ ~xmlSavedNew' => xmlFile' = "config" /\ DocumentThere'
    BY <1>3 DEF XmlInv, DocumentThere, xmlData, xmlHist, OpAtPc
  <2>4. XmlTypeOK'
    BY <1>3 DEF XmlInv, XmlTypeOK, xmlData, xmlHist, xmlCall
  <2>5. QED BY <1>3, <2>1, <2>2, <2>3, <2>4 DEF XmlInv, xmlHist
<1>4. CASE EnterCs(t)
  <2>1. PICK l : l # "lookup" /\ xmlPc' = [xmlPc EXCEPT ![t] = l]
    BY <1>4 DEF EnterCs, XmlGoto
  <2>2. xmlPc[t] = "enter" /\ UNCHANGED <<xmlData, xmlCache, xmlCall, xmlCrashed, xmlHist>>
    BY <1>4 DEF EnterCs
  <2>3. xmlCrashed \in BOOLEAN /\ (~xmlRaced => ~xmlCrashed)
    BY DEF XmlInv, XmlTypeOK
  <2>4. QED BY <1>3, <2>1, <2>2, <2>3
<1>5. CASE LeaveCs(t) \/ GetThrows(t) \/ VarsThrow(t)
  <2>0. PICK l : l = "idle" /\ l # "lookup"
    OBVIOUS
  <2>1. xmlPc[t] \notin {"idle", "parse"} /\ xmlPc' = [xmlPc EXCEPT ![t] = l]
    BY <1>5, <2>0 DEF LeaveCs, GetThrows, VarsThrow, Throws, XmlGoto
  <2>2. UNCHANGED <<xmlData, xmlCache, xmlCall, xmlCrashed, xmlHist>>
    BY <1>5 DEF LeaveCs, GetThrows, VarsThrow
  <2>3. xmlCrashed \in BOOLEAN /\ (~xmlRaced => ~xmlCrashed)
    BY DEF XmlInv, XmlTypeOK
  <2>4. QED BY <1>3, <2>0, <2>1, <2>2, <2>3
<1>6. CASE SetThrows(t)
  <2>1. ~xmlRaced' => NoConflict'
    BY <1>1, <1>6 DEF SetThrows, Throws, XmlGoto, xmlCall
  <2>2. QED
    BY <1>6, <2>1 DEF SetThrows, Throws, XmlGoto, XmlInv, XmlTypeOK, QueryThere, DocumentThere,
                      xmlData, xmlCall, OpAtPc
<1>7. CASE Compile(t)
  <2>1. ~xmlRaced' => NoConflict'
    BY <1>1, <1>7 DEF Compile, XmlGoto, xmlCall, xmlHist
  <2>2. QED
    BY <1>7, <2>1 DEF Compile, XmlGoto, XmlInv, XmlTypeOK, QueryThere, DocumentThere,
                      xmlData, xmlCall, xmlHist, OpAtPc
<1>8. CASE FindQuery(t)
  <2>1. ~xmlRaced' => NoConflict'
    BY <1>1, <1>8 DEF FindQuery, XmlGoto, xmlCall, xmlHist
  <2>2. QED
    BY <1>8, <2>1 DEF FindQuery, XmlGoto, XmlInv, XmlTypeOK, QueryThere, DocumentThere,
                      xmlData, xmlCall, xmlHist, OpAtPc
<1>9. CASE EvaluateQuery(t)
  <2>1. PICK l : l # "lookup" /\ xmlPc' = [xmlPc EXCEPT ![t] = l]
    BY <1>9 DEF EvaluateQuery, XmlGoto
  <2>2. /\ xmlPc[t] \notin {"idle", "enter"} /\ xmlPc[t] \notin {"idle", "parse"}
        /\ TouchDocument(t) /\ UNCHANGED <<xmlData, xmlCache, xmlCall, xmlHist>>
    BY <1>9 DEF EvaluateQuery
  <2>3. xmlCrashed' \in BOOLEAN /\ (~xmlRaced => ~xmlCrashed')
    BY <1>2, <2>2
  <2>4. QED BY <1>3, <2>1, <2>2, <2>3
<1>10. CASE SetNodes(t)
  <2>1. PICK l : l # "lookup" /\ xmlPc' = [xmlPc EXCEPT ![t] = l]
    BY <1>10 DEF SetNodes, XmlGoto
  <2>2. /\ xmlPc[t] \notin {"idle", "enter"} /\ xmlPc[t] \notin {"idle", "parse"}
        /\ TouchDocument(t) /\ UNCHANGED <<xmlData, xmlCache, xmlCall, xmlHist>>
    BY <1>10 DEF SetNodes
  <2>3. xmlCrashed' \in BOOLEAN /\ (~xmlRaced => ~xmlCrashed')
    BY <1>2, <2>2
  <2>4. QED BY <1>3, <2>1, <2>2, <2>3
<1>11. CASE PeekNode(t)
  <2>0. PICK l : l = "idle" /\ l # "lookup"
    OBVIOUS
  <2>1. /\ xmlPc[t] \notin {"idle", "enter"} /\ xmlPc[t] \notin {"idle", "parse"}
        /\ xmlPc' = [xmlPc EXCEPT ![t] = l]
        /\ TouchDocument(t) /\ UNCHANGED <<xmlData, xmlCache, xmlCall, xmlHist>>
    BY <1>11, <2>0 DEF PeekNode, XmlGoto
  <2>2. xmlCrashed' \in BOOLEAN /\ (~xmlRaced => ~xmlCrashed')
    BY <1>2, <2>1
  <2>3. QED BY <1>3, <2>0, <2>1, <2>2
<1>12. CASE SaveFile(t)
  <2>1. ~xmlRaced' => NoConflict'
    BY <1>1, <1>12 DEF SaveFile, XmlGoto, xmlCall
  <2>2. xmlCrashed' \in BOOLEAN /\ (~xmlRaced => ~xmlCrashed')
    BY <1>2, <1>12 DEF SaveFile
  <2>3. ~xmlRaced => \A u \in XmlThread : xmlPc[u] # "parse"
    <3>1. xmlPc[t] = "save" /\ InCall(t)
      BY <1>12 DEF SaveFile, InCall
    <3>2. ~xmlRaced => ~Changed(t)
      BY <3>1, NobodyChanges DEF XmlInv
    <3>3. QED BY <3>1, <3>2 DEF Changed
  <2>4. ~xmlRaced' /\ ~xmlLoadFailed' /\ ~xmlSavedNew' => xmlFile' = "config" /\ DocumentThere'
    <3> SUFFICES ASSUME ~xmlRaced', ~xmlLoadFailed', ~xmlSavedNew'
                 PROVE  xmlFile' = "config" /\ DocumentThere'
      OBVIOUS
    <3>1. ~xmlRaced /\ ~xmlLoadFailed /\ ~xmlSavedNew /\ (xmlOp[t] = "saveTo" => xmlPath)
          /\ UNCHANGED <<xmlDoc, xmlPath>>
      BY <1>12 DEF SaveFile
    <3>2. xmlFile = "config" /\ (xmlPath => xmlDoc = "config")
      BY <2>3, <3>1 DEF XmlInv, DocumentThere
    <3>3. QED BY <1>12, <3>1, <3>2 DEF SaveFile, DocumentThere
  <2>5. XmlTypeOK'
    BY <1>12, <2>2 DEF SaveFile, XmlInv, XmlTypeOK, xmlCall
  <2>6. ~xmlRaced' => QueryThere'
    BY <1>12 DEF SaveFile, XmlGoto, XmlInv, QueryThere, xmlCall, OpAtPc
  <2>7. xmlRaced' = xmlRaced
    BY <1>12 DEF SaveFile
  <2>8. QED BY <2>1, <2>2, <2>4, <2>5, <2>6, <2>7 DEF XmlInv
<1>13. CASE RefreshXML(t)
  <2>1. ~xmlRaced' => NoConflict'
    BY <1>1, <1>13 DEF RefreshXML, XmlGoto, xmlCall, xmlHist
  <2>2. ~xmlRaced => \A u \in XmlThread \ {t} : ~InCall(u)
    BY <1>13, LoadsAlone DEF RefreshXML, XmlInv
  <2>3. QED
    BY <1>13, <2>1, <2>2 DEF RefreshXML, XmlGoto, XmlInv, XmlTypeOK, QueryThere, DocumentThere,
                             InCall, xmlData, xmlCall, xmlHist, OpAtPc
<1>14. CASE Unload(t)
  <2>1. ~xmlRaced' => NoConflict'
    BY <1>1, <1>14 DEF Unload, XmlGoto, xmlCall, xmlHist
  <2>2. xmlCrashed' \in BOOLEAN /\ (~xmlRaced => ~xmlCrashed')
    BY <1>2, <1>14 DEF Unload
  <2>3. QED
    BY <1>14, <2>1, <2>2 DEF Unload, XmlGoto, XmlInv, XmlTypeOK, QueryThere, DocumentThere,
                             xmlCall, xmlHist, OpAtPc
<1>15. ASSUME NEW ok \in BOOLEAN, Parse(t, ok) PROVE XmlInv'
  <2>1. ~xmlRaced' => NoConflict'
    BY <1>1, <1>15 DEF Parse, XmlGoto, xmlCall
  <2>2. xmlCrashed' \in BOOLEAN /\ (~xmlRaced => ~xmlCrashed')
    BY <1>2, <1>15 DEF Parse
  <2>3. ~xmlLoadFailed' => ok /\ ~xmlLoadFailed
    BY <1>15 DEF Parse
  <2>4. QED
    BY <1>15, <2>1, <2>2, <2>3 DEF Parse, XmlGoto, XmlInv, XmlTypeOK, QueryThere, DocumentThere,
                                   xmlCall, OpAtPc
<1>16. QED
  BY <1>4, <1>5, <1>6, <1>7, <1>8, <1>9, <1>10, <1>11, <1>12, <1>13, <1>14, <1>15 DEF XmlStep

(* So does a call: one in conflict with another that goes on is noted as a race. *)
LEMMA XmlCallInv ==
  ASSUME OpAtPc, XmlInv, NEW t \in XmlThread, NEW op \in Operation, NEW q \in AnyQuery,
         CallXml(t, op, q)
  PROVE  XmlInv'
<1>1. /\ xmlPc[t] = "idle" /\ xmlOp' = [xmlOp EXCEPT ![t] = op]
      /\ xmlAsks' = [xmlAsks EXCEPT ![t] = q]
      /\ UNCHANGED <<xmlDoc, xmlFile, xmlPath, xmlCache, xmlCrashed, xmlLoadFailed, xmlSavedNew>>
  BY DEF CallXml, InCall, xmlData
<1>2. PICK l \in {"enter", "find", "peek", "unload", "clear"} : xmlPc' = [xmlPc EXCEPT ![t] = l]
  BY DEF CallXml, XmlGoto, Operation, Loads
<1>3. /\ xmlRaced' \in BOOLEAN
      /\ ~xmlRaced' => ~xmlRaced /\ \A u \in XmlThread \ {t} :
                                       ~(InCall(u) /\ Conflict(op, xmlOp[u]))
  BY DEF CallXml, XmlInv, XmlTypeOK
<1>4. XmlTypeOK'
  BY <1>1, <1>2, <1>3 DEF XmlInv, XmlTypeOK
<1>5. ASSUME ~xmlRaced' PROVE NoConflict'
  <2>1. NoConflict /\ \A u \in XmlThread \ {t} : InCall(u) => ~Conflict(op, xmlOp[u])
    BY <1>3, <1>5 DEF XmlInv
  <2>2. \A a, b : Conflict(a, b) <=> Conflict(b, a)
    BY DEF Conflict
  <2>3. QED
    <3> SUFFICES ASSUME NEW x \in XmlThread, NEW y \in XmlThread, x # y, InCall(x)', InCall(y)'
                 PROVE  ~Conflict(xmlOp'[x], xmlOp'[y])
      BY DEF NoConflict, Conflict
    <3>1. \A z \in XmlThread \ {t} : xmlOp'[z] = xmlOp[z] /\ (InCall(z)' <=> InCall(z))
      BY <1>1, <1>2 DEF InCall, OpAtPc
    <3>2. xmlOp'[t] = op
      BY <1>1 DEF OpAtPc
    <3>3. CASE x = t
      BY <2>1, <3>1, <3>2, <3>3
    <3>4. CASE y = t
      BY <2>1, <2>2, <3>1, <3>2, <3>4
    <3>5. CASE x # t /\ y # t
      BY <2>1, <3>1, <3>5 DEF NoConflict
    <3>6. QED BY <3>3, <3>4, <3>5
<1>6. ASSUME ~xmlRaced' PROVE QueryThere'
  BY <1>1, <1>2, <1>3, <1>6 DEF QueryThere, XmlInv, XmlTypeOK, OpAtPc
<1>7. ASSUME ~xmlRaced', ~xmlLoadFailed', ~xmlSavedNew' PROVE xmlFile' = "config" /\ DocumentThere'
  BY <1>1, <1>2, <1>3, <1>7 DEF DocumentThere, XmlInv, OpAtPc
<1>8. QED BY <1>1, <1>3, <1>4, <1>5, <1>6, <1>7 DEF XmlInv

(* The critical section is enough for the calls that take it: without two calls
   in conflict at the same time nobody meets a query or a document that is not
   there, and the configuration file is overwritten with an empty document only
   after a failed load or by a save to its path before it was loaded. *)
THEOREM ConfigurationSafe == XmlSpec => []XmlSafe
<1>1. OpAtPc /\ CsInv /\ XmlInv /\ [XmlNext]_xmlVars => XmlInv'
  <2> SUFFICES ASSUME OpAtPc, CsInv, XmlInv, [XmlNext]_xmlVars PROVE XmlInv'
    OBVIOUS
  <2>1. CASE XmlNext
    BY <2>1, XmlStepInv, XmlCallInv DEF XmlNext
  <2>2. CASE UNCHANGED xmlVars
    BY <2>2 DEF xmlVars, xmlData, xmlCall, xmlHist, XmlInv, XmlTypeOK,
                NoConflict, QueryThere, DocumentThere, InCall
  <2>3. QED BY <2>1, <2>2
<1>2. XmlInv => XmlSafe
  BY DEF XmlInv, XmlTypeOK, XmlSafe
<1>3. QED BY <1>1, <1>2, XmlInitInv, CsInvariance, PTL DEF XmlSpec

-----------------------------------------------------------------------------
(* CDownloaderByAPI. *)

Begun == {"working", "stored", "done"}
DlTypeOK ==
  /\ dlNow \in 0 .. MaxDownloads /\ dlWaiting \in BOOLEAN /\ (dlWaiting => dlNow > 0)
  /\ dlWorker \in [Download -> {"none", "new"} \cup Begun]
  /\ DOMAIN dlUrl = Download
  /\ dlLeft \in BOOLEAN

(* The safety half of DownloadOutcome. *)
OwnResult == ~dlWaiting /\ dlFinished /\ ~dlLeft => dlAnswer = dlNow /\ dlUrl[dlNow] = dlNow

(* While no thread is left behind, every thread but that of the download under
   way is done, and each has read its own address; the last result is that of
   the thread that stored last. *)
OthersDone ==
  \A n \in Download : /\ n > dlNow => dlWorker[n] = "none"
                      /\ n < dlNow \/ (n = dlNow /\ ~dlWaiting) => dlWorker[n] = "done"
OwnAddress == \A n \in Download : dlWorker[n] \in Begun => dlUrl[n] = n
LastStored ==
  \A n \in Download : n = dlNow /\ dlWorker[n] \in {"stored", "done"} => dlResult = n
DlInv == DlTypeOK /\ (~dlLeft => OthersDone /\ OwnAddress /\ LastStored /\ OwnResult)

LEMMA DlStepInv ==
  ASSUME DlInv, DlNext
  PROVE  DlInv'
<1> USE DownloaderAssumption DEF DlInv, DlTypeOK, Begun, Download, dlEvents, dlThreads, dlReturn
<1>1. CASE DownloadToFile
  BY <1>1 DEF DownloadToFile, OthersDone, OwnAddress, LastStored, OwnResult
<1>2. CASE WakeProgress \/ WakeComplete
  BY <1>2 DEF WakeProgress, WakeComplete, OthersDone, OwnAddress, LastStored, OwnResult
<1>3. CASE TimeOut
  <2>1. dlNow \in Download
    BY <1>3 DEF TimeOut
  <2>2. CASE dlWorker[dlNow] # "done"
    BY <1>3, <2>2 DEF TimeOut
  <2>3. CASE dlWorker[dlNow] = "done"
    BY <1>3, <2>1, <2>3 DEF TimeOut, OthersDone, OwnAddress, LastStored, OwnResult
  <2>4. QED BY <2>2, <2>3
<1>4. ASSUME NEW n \in Download, WorkerBegins(n) PROVE DlInv'
  <2>1. ~dlLeft => n = dlNow /\ dlWaiting
    BY <1>4 DEF WorkerBegins, OthersDone
  <2>2. QED BY <1>4, <2>1 DEF WorkerBegins, OthersDone, OwnAddress, LastStored, OwnResult
<1>5. ASSUME NEW n \in Download, OnProgress(n) PROVE DlInv'
  BY <1>5 DEF OnProgress, OthersDone, OwnAddress, LastStored, OwnResult
<1>6. ASSUME NEW n \in Download, WorkerStores(n) \/ WorkerSignals(n) PROVE DlInv'
  <2>1. ~dlLeft => n = dlNow /\ dlWaiting
    BY <1>6 DEF WorkerStores, WorkerSignals, OthersDone
  <2>2. QED BY <1>6, <2>1 DEF WorkerStores, WorkerSignals, OthersDone, OwnAddress, LastStored,
                             OwnResult
<1>q. QED BY <1>1, <1>2, <1>3, <1>4, <1>5, <1>6 DEF DlNext, DlCaller

(* A download that was waited for to its end returns what its own thread
   stored, for its own address, for any number of downloads of which none was
   abandoned. *)
THEOREM DownloadReturnsOwn == DlSpec => []OwnResult
<1>1. DlInit => DlInv
  <2> SUFFICES ASSUME DlInit PROVE DlInv
    OBVIOUS
  <2>1. DlTypeOK
    <3>1. MaxDownloads \in Nat
      BY DownloaderAssumption
    <3>2. dlNow \in 0 .. MaxDownloads /\ dlWaiting = FALSE /\ dlLeft = FALSE
      BY <3>1 DEF DlInit
    <3>3. DOMAIN dlUrl = Download /\ dlWorker \in [Download -> {"none", "new"} \cup Begun]
      BY DEF DlInit
    <3>4. QED BY <3>2, <3>3 DEF DlTypeOK
  <2>2. \A n \in Download : n > dlNow /\ n # dlNow /\ ~(n < dlNow) /\ dlWorker[n] = "none"
    BY DownloaderAssumption DEF DlInit, Download
  <2>3. OthersDone /\ OwnAddress /\ LastStored /\ OwnResult
    BY <2>2 DEF DlInit, Begun, OthersDone, OwnAddress, LastStored, OwnResult
  <2>4. QED BY <2>1, <2>3 DEF DlInv
<1>2. DlInv /\ [DlNext]_dlVars => DlInv'
  <2>a. CASE UNCHANGED dlVars
    BY <2>a DEF dlVars, dlEvents, dlThreads, dlReturn, DlInv, DlTypeOK, OthersDone, OwnAddress,
                LastStored, OwnResult
  <2>q. QED BY <2>a, DlStepInv
<1>3. DlInv => (~dlLeft => OwnResult)
  BY DEF DlInv
<1>4. (~dlLeft => OwnResult) => OwnResult
  BY DEF OwnResult
<1>q. QED BY <1>1, <1>2, <1>3, <1>4, PTL DEF DlSpec

-----------------------------------------------------------------------------
(* StartServiceFromName and StopServiceFromName. *)

(* The safety half of ServiceAnswer. *)
TrueIsTrue == svcPc = "true" => Goal \in svcWas \/ svcBlind

(* Until a status is stored, nothing was seen; a status that was is not the
   desired one, or the loop would have ended. *)
SvcInv ==
  /\ svcCall \in {"start", "stop"}
  /\ svcPc \notin {"idle"} => svcState \in svcWas
  /\ svcPc \in {"idle", "open", "query"} => svcBlind
  /\ svcPc = "query" => svcCall = "stop"
  /\ svcPc = "control" /\ svcCall = "start" => svcBlind
  /\ svcPc = "poll" => svcBlind \/ svcSs # Goal
  /\ TrueIsTrue

LEMMA SvcStepInv ==
  ASSUME SvcInv, SvcNext
  PROVE  SvcInv'
<1> USE DEF SvcInv, TrueIsTrue, Goal
<1>1. ASSUME NEW call \in {"start", "stop"}, CallService(call) PROVE SvcInv'
  BY <1>1 DEF CallService
<1>2. CASE OpenFails \/ OpenService
  BY <1>2 DEF OpenFails, OpenService
<1>3. ASSUME NEW ok \in BOOLEAN, QueryFirst(ok) PROVE SvcInv'
  BY <1>3 DEF QueryFirst, Query
<1>4. CASE StartService
  BY <1>4 DEF StartService
<1>5. CASE ControlService
  BY <1>5 DEF ControlService
<1>6. ASSUME NEW ok \in BOOLEAN, Poll(ok) PROVE SvcInv'
  BY <1>6 DEF Poll, Query
<1>7. CASE PollEnd
  BY <1>7 DEF PollEnd
<1>8. CASE svcPc \notin {"idle", "true", "false"} /\ ServiceChanges
  BY <1>8 DEF ServiceChanges
<1>q. QED BY <1>1, <1>2, <1>3, <1>4, <1>5, <1>6, <1>7, <1>8 DEF SvcNext, SvcCaller

(* A call that returns TRUE saw, or brought about, the state it was asked for,
   whatever the service did meanwhile and however often it was polled, unless
   no status could be had at all. *)
THEOREM ServiceTrueIsTrue == SvcSpec => []TrueIsTrue
<1>1. SvcInit => SvcInv
  BY DEF SvcInit, SvcInv, TrueIsTrue
<1>2. SvcInv /\ [SvcNext]_svcVars => SvcInv'
  <2>a. CASE UNCHANGED svcVars
    BY <2>a DEF svcVars, SvcInv, TrueIsTrue, Goal
  <2>q. QED BY <2>a, SvcStepInv
<1>3. SvcInv => TrueIsTrue
  BY DEF SvcInv
<1>q. QED BY <1>1, <1>2, <1>3, PTL DEF SvcSpec

-----------------------------------------------------------------------------
(* CCommonSocket.  What has been written and not yet read lies in the buffer and
   on the wire: the frames of the packets that were sent whole, one after the
   other, and behind them whatever follows a write that stopped inside a frame. *)

(* What a header and a body consist of. *)
Byte == (0 .. Base - 1) \cup {encode_header(Len(b))[i] : b \in Body, i \in 1 .. HeaderSize}

(* Types, as far as the argument needs them. *)
SockTypeOK ==
  /\ sockSent \in Seq(Body) /\ sockMissed \in Seq(Seq(Byte)) /\ sockDelivered \in Seq(Seq(Byte))
  /\ sockWire \in Seq(Byte) /\ sockBuf \in Seq(Byte) /\ sockTorn \in BOOLEAN
  /\ sockSlots # "there" => sockDelivered = << >>
  /\ ~sockTorn => Len(Read) <= Len(sockSent)
  /\ sockReading = "body" => HeaderSize <= Len(sockBuf)

(* Written and not yet given to the slots. *)
Stream == sockBuf \o sockWire
FrameLen(b) == HeaderSize + Len(b)

(* The first len bytes of Frame(b) lie in s behind the position at. *)
Lies(s, at, b, len) == \A j \in 1 .. len : s[at + j] = Frame(b)[j]

(* off[k] is where the frame of the k-th packet begins. *)
LaidOut(s, off, d, sent) ==
  /\ off \in [1 .. Len(sent) + 1 -> Nat] /\ off[d + 1] = 0
  /\ \A k, m \in d + 1 .. Len(sent) + 1 : k <= m => off[k] <= off[m]
  /\ \A k \in d + 1 .. Len(sent) : /\ off[k + 1] = off[k] + FrameLen(sent[k])
                                   /\ Lies(s, off[k], sent[k], FrameLen(sent[k]))

(* Behind the frames there is nothing unless the stream is torn, and a body is
   read with the size of the packet that comes next. *)
Arranged(off) ==
  /\ LaidOut(Stream, off, Len(Read), sockSent)
  /\ off[Len(sockSent) + 1] <= Len(Stream)
  /\ ~sockTorn => off[Len(sockSent) + 1] = Len(Stream)
  /\ sockReading = "body" /\ Len(Read) < Len(sockSent) => sockNeed = Len(sockSent[Len(Read) + 1])

(* Once the packets that were sent whole have all been read, anything may come. *)
SockInv == SockTypeOK /\ (Len(Read) <= Len(sockSent) => \E off : Arranged(off))

(* Two sequences one after the other. *)
LEMMA Joined ==
  ASSUME NEW S, NEW u \in Seq(S), NEW w \in Seq(S)
  PROVE  /\ Len(u) \in Nat /\ Len(w) \in Nat
         /\ u \o w \in Seq(S) /\ Len(u \o w) = Len(u) + Len(w)
         /\ \A j \in 1 .. Len(u) : (u \o w)[j] = u[j]
         /\ \A j \in 1 .. Len(w) : (u \o w)[Len(u) + j] = w[j]
OBVIOUS

(* A sequence without its first i elements. *)
LEMMA Rest ==
  ASSUME NEW S, NEW q \in Seq(S), NEW i \in 0 .. Len(q)
  PROVE  /\ SubSeq(q, i + 1, Len(q)) \in Seq(S) /\ Len(SubSeq(q, i + 1, Len(q))) = Len(q) - i
         /\ \A j \in 1 .. Len(q) - i : SubSeq(q, i + 1, Len(q))[j] = q[i + j]
<1>1. Len(q) \in Nat /\ i \in Nat /\ i + 1 \in Int /\ i <= Len(q)
  OBVIOUS
<1>2. \A j \in i + 1 .. Len(q) : q[j] \in S
  BY <1>1
<1>3. PICK z : z = SubSeq(q, i + 1, Len(q))
  OBVIOUS
<1>4. /\ z \in Seq(S) /\ Len(z) = IF i + 1 <= Len(q) THEN Len(q) - (i + 1) + 1 ELSE 0
      /\ \A j \in 1 .. Len(q) - (i + 1) + 1 : z[j] = q[(i + 1) + j - 1]
  BY <1>1, <1>2, <1>3, SubSeqProperties
<1>5. Len(q) - (i + 1) + 1 = Len(q) - i /\ \A j \in Int : (i + 1) + j - 1 = i + j
  BY <1>1
<1>6. Len(z) = Len(q) - i
  <2>1. Len(z) = IF i + 1 <= Len(q) THEN Len(q) - (i + 1) + 1 ELSE 0
    BY <1>4
  <2>2. QED BY <1>1, <2>1
<1>7. ASSUME NEW j \in 1 .. Len(q) - i PROVE z[j] = q[i + j]
  <2>1. j \in Int /\ j \in 1 .. Len(q) - (i + 1) + 1
    BY <1>1, <1>5
  <2>2. QED BY <1>4, <1>5, <2>1
<1>8. QED BY <1>3, <1>4, <1>6, <1>7

(* A frame: the header and the body behind it. *)
LEMMA FrameFacts ==
  ASSUME NEW b \in Body
  PROVE  /\ b \in Seq(Byte) /\ Len(b) \in Nat /\ encode_header(Len(b)) \in Seq(Byte)
         /\ Frame(b) \in Seq(Byte) /\ Len(Frame(b)) = FrameLen(b) /\ FrameLen(b) \in Nat
         /\ \A j \in 1 .. HeaderSize : Frame(b)[j] = encode_header(Len(b))[j]
         /\ \A j \in 1 .. Len(b) : Frame(b)[HeaderSize + j] = b[j]
<1>1. b \in Seq(0 .. Base - 1) /\ HeaderSize \in Nat \ {0}
  BY CommonSocketAssumption
<1>2. b \in Seq(Byte) /\ Len(b) \in Nat
  <2>1. 0 .. Base - 1 \subseteq Byte
    BY DEF Byte
  <2>2. b \in Seq(Byte)
    BY <1>1, <2>1, SeqMonotonic
  <2>3. QED BY <2>2
<1>3. PICK h : h = encode_header(Len(b))
  OBVIOUS
<1>4. DOMAIN h = 1 .. HeaderSize /\ h = [i \in 1 .. HeaderSize |-> h[i]]
  BY <1>3 DEF encode_header
<1>5. \A i \in 1 .. HeaderSize : h[i] \in Byte
  BY <1>3 DEF Byte
<1>6. h \in Seq(Byte) /\ Len(h) = HeaderSize
  BY <1>1, <1>4, <1>5
<1>7. Frame(b) = h \o b
  BY <1>3 DEF Frame
<1>8. /\ Len(h) \in Nat /\ Len(b) \in Nat
      /\ h \o b \in Seq(Byte) /\ Len(h \o b) = Len(h) + Len(b)
      /\ \A j \in 1 .. Len(h) : (h \o b)[j] = h[j]
      /\ \A j \in 1 .. Len(b) : (h \o b)[Len(h) + j] = b[j]
  <2>1. h \in Seq(Byte) /\ b \in Seq(Byte)
    BY <1>2, <1>6
  <2>2. QED BY <2>1, Joined
<1>9. FrameLen(b) \in Nat
  BY <1>1, <1>2 DEF FrameLen
<1>10. QED BY <1>2, <1>3, <1>6, <1>7, <1>8, <1>9 DEF FrameLen

(* What async_read takes from the wire it adds to the buffer. *)
LEMMA StreamKept ==
  ASSUME NEW u \in Seq(Byte), NEW w \in Seq(Byte), NEW n \in 1 .. Len(w)
  PROVE  \E a, z \in Seq(Byte) :
           /\ a = SubSeq(w, 1, n) /\ z = SubSeq(w, n + 1, Len(w))
           /\ u \o a \in Seq(Byte) /\ Len(u \o a) = Len(u) + n /\ (u \o a) \o z = u \o w
<1>1. PICK a : a = SubSeq(w, 1, n)
  OBVIOUS
<1>2. a \in Seq(Byte) /\ Len(a) = n /\ \A j \in 1 .. n : a[j] = w[j]
  BY <1>1
<1>3. n \in 0 .. Len(w) /\ Len(w) \in Nat
  OBVIOUS
<1>4. PICK z : z = SubSeq(w, n + 1, Len(w))
  OBVIOUS
<1>5. /\ z \in Seq(Byte) /\ Len(z) = Len(w) - n
      /\ \A j \in 1 .. Len(w) - n : z[j] = w[n + j]
  BY <1>3, <1>4, Rest
<1>6. /\ a \o z \in Seq(Byte) /\ Len(a \o z) = Len(w)
      /\ \A j \in 1 .. n : (a \o z)[j] = a[j]
      /\ \A j \in 1 .. Len(w) - n : (a \o z)[n + j] = z[j]
  <2>1. a \in Seq(Byte) /\ z \in Seq(Byte)
    BY <1>2, <1>5
  <2>2. /\ a \o z \in Seq(Byte) /\ Len(a \o z) = Len(a) + Len(z)
        /\ \A j \in 1 .. Len(a) : (a \o z)[j] = a[j]
        /\ \A j \in 1 .. Len(z) : (a \o z)[Len(a) + j] = z[j]
    BY <2>1, Joined
  <2>3. Len(a) = n /\ Len(z) = Len(w) - n
    BY <1>2, <1>5
  <2>4. n + (Len(w) - n) = Len(w)
    BY <1>3
  <2>5. QED BY <2>2, <2>3, <2>4, Zenon
<1>7. ASSUME NEW j \in 1 .. Len(w) PROVE (a \o z)[j] = w[j]
  <2>1. CASE j <= n
    <3>1. j \in 1 .. n
      BY <1>3, <2>1
    <3>2. QED BY <1>2, <1>6, <3>1
  <2>2. CASE ~(j <= n)
    <3>1. PICK m \in 1 .. Len(w) - n : n + m = j
      <4>1. j - n \in 1 .. Len(w) - n /\ n + (j - n) = j
        BY <1>3, <2>2
      <4>2. QED BY <4>1, Zenon
    <3>2. QED BY <1>5, <1>6, <3>1
  <2>3. QED BY <2>1, <2>2
<1>8. a \o z = w
  BY <1>6, <1>7, SeqEqual
<1>9. a \in Seq(Byte) /\ z \in Seq(Byte)
  BY <1>2, <1>5
<1>10. (u \o a) \o z = u \o (a \o z)
  BY <1>9, ConcatAssociative, SMTT(30)
<1>11. u \o a \in Seq(Byte) /\ Len(u \o a) = Len(u) + Len(a)
  BY <1>9, Joined
<1>12. QED BY <1>1, <1>2, <1>4, <1>8, <1>9, <1>10, <1>11

(* What lies in a stream stays there when bytes are written behind it. *)
LEMMA LiesOn ==
  ASSUME NEW s \in Seq(Byte), NEW t \in Seq(Byte), NEW at \in Nat, NEW len \in Nat, NEW b,
         at + len <= Len(s), Lies(s, at, b, len)
  PROVE  Lies(s \o t, at, b, len)
<1> SUFFICES ASSUME NEW j \in 1 .. len PROVE (s \o t)[at + j] = Frame(b)[j]
  BY DEF Lies
<1>1. at + j \in 1 .. Len(s)
  OBVIOUS
<1>2. (s \o t)[at + j] = s[at + j]
  BY <1>1, Joined
<1>3. QED BY <1>2 DEF Lies

(* The same when bytes before it are taken away. *)
LEMMA LiesBehind ==
  ASSUME NEW u \in Seq(Byte), NEW w \in Seq(Byte), NEW at \in Nat, NEW len \in Nat, NEW b,
         at + len <= Len(w), Lies(u \o w, Len(u) + at, b, len)
  PROVE  Lies(w, at, b, len)
<1> SUFFICES ASSUME NEW j \in 1 .. len PROVE w[at + j] = Frame(b)[j]
  BY DEF Lies
<1>1. at + j \in 1 .. Len(w) /\ Len(u) + (at + j) = Len(u) + at + j
  OBVIOUS
<1>2. (u \o w)[Len(u) + (at + j)] = w[at + j]
  BY <1>1, Joined
<1>3. QED BY <1>1, <1>2 DEF Lies

(* The same for all packets on their way. *)
LEMMA LaidOn ==
  ASSUME NEW s \in Seq(Byte), NEW t \in Seq(Byte), NEW sent \in Seq(Body),
         NEW d \in 0 .. Len(sent), NEW off, LaidOut(s, off, d, sent), off[Len(sent) + 1] <= Len(s)
  PROVE  LaidOut(s \o t, off, d, sent)
<1> SUFFICES ASSUME NEW k \in d + 1 .. Len(sent)
             PROVE  Lies(s \o t, off[k], sent[k], FrameLen(sent[k]))
  BY DEF LaidOut
<1>1. /\ sent[k] \in Body /\ Len(sent) \in Nat
      /\ {k, k + 1, Len(sent) + 1} \subseteq d + 1 .. Len(sent) + 1
      /\ {k, k + 1, Len(sent) + 1} \subseteq 1 .. Len(sent) + 1 /\ k + 1 <= Len(sent) + 1
  OBVIOUS
<1>2. FrameLen(sent[k]) \in Nat
  BY <1>1, FrameFacts
<1>3. off[k] \in Nat /\ off[k] + FrameLen(sent[k]) <= Len(s)
  <2>1. off[k + 1] <= off[Len(sent) + 1] /\ off[k + 1] = off[k] + FrameLen(sent[k])
    BY <1>1 DEF LaidOut
  <2>2. off[k] \in Nat /\ off[k + 1] \in Nat /\ off[Len(sent) + 1] \in Nat /\ Len(s) \in Nat
    <3>1. off \in [1 .. Len(sent) + 1 -> Nat]
      BY DEF LaidOut
    <3>2. k \in 1 .. Len(sent) + 1 /\ k + 1 \in 1 .. Len(sent) + 1 /\ Len(sent) + 1 \in 1 .. Len(sent) + 1
      BY <1>1
    <3>3. off[k] \in Nat /\ off[k + 1] \in Nat /\ off[Len(sent) + 1] \in Nat
      BY <3>1, <3>2, Zenon
    <3>4. QED BY <3>3
  <2>3. QED BY <2>1, <2>2
<1>4. QED BY <1>2, <1>3, LiesOn DEF LaidOut

(* A packet written behind all others. *)
LEMMA LaidMore ==
  ASSUME NEW s \in Seq(Byte), NEW sent \in Seq(Body), NEW d \in 0 .. Len(sent), NEW off,
         LaidOut(s, off, d, sent), off[Len(sent) + 1] = Len(s), NEW b \in Body
  PROVE  \E g : /\ LaidOut(s \o Frame(b), g, d, Append(sent, b))
                /\ g[Len(Append(sent, b)) + 1] = Len(s \o Frame(b))
<1>1. PICK n \in Nat : n = Len(sent)
  OBVIOUS
<1>2. PICK more : more = Append(sent, b)
  OBVIOUS
<1>3. /\ more \in Seq(Body) /\ Len(more) = n + 1 /\ more[n + 1] = b
      /\ \A k \in 1 .. n : more[k] = sent[k]
  BY <1>1, <1>2
<1>4. PICK t : t = s \o Frame(b)
  OBVIOUS
<1>5. /\ t \in Seq(Byte) /\ Len(t) = Len(s) + FrameLen(b) /\ Len(s) \in Nat /\ FrameLen(b) \in Nat
      /\ Lies(t, Len(s), b, FrameLen(b))
  <2>1. Frame(b) \in Seq(Byte) /\ Len(Frame(b)) = FrameLen(b)
    BY FrameFacts
  <2>2. QED BY <1>4, <2>1, Joined DEF Lies
<1>6. LaidOut(t, off, d, sent)
  BY <1>4, FrameFacts, LaidOn
<1>7. PICK g : g = [k \in 1 .. n + 2 |-> IF k = n + 2 THEN Len(t) ELSE off[k]]
  OBVIOUS
<1>8. off \in [1 .. n + 1 -> Nat] /\ d \in Nat /\ d <= n
  BY <1>1, <1>6 DEF LaidOut
<1>9. /\ g \in [1 .. n + 2 -> Nat] /\ g[n + 2] = Len(t) /\ g[n + 1] = Len(s)
      /\ \A k \in 1 .. n + 1 : g[k] = off[k]
  BY <1>1, <1>5, <1>7, <1>8
<1>10. g[d + 1] = 0
  BY <1>6, <1>8, <1>9 DEF LaidOut
<1>11. ASSUME NEW k \in d + 1 .. n + 2, NEW m \in d + 1 .. n + 2, k <= m PROVE g[k] <= g[m]
  <2>1. ASSUME NEW i \in d + 1 .. n + 1 PROVE off[i] <= Len(s)
    <3>1. i <= n + 1 /\ n + 1 \in d + 1 .. n + 1
      BY <1>8
    <3>2. QED BY <1>1, <1>6, <3>1 DEF LaidOut
  <2>2. CASE m = n + 2 /\ k # n + 2
    <3>1. k \in d + 1 .. n + 1 /\ k \in 1 .. n + 1
      BY <1>8, <2>2
    <3>2. g[k] = off[k] /\ off[k] <= Len(s) /\ off[k] \in Nat
      BY <1>8, <1>9, <2>1, <3>1
    <3>3. QED BY <1>5, <1>9, <2>2, <3>2
  <2>3. CASE k = m
    BY <1>8, <1>9, <2>3
  <2>4. CASE m # n + 2 /\ k # m
    <3>1. /\ k \in d + 1 .. n + 1 /\ m \in d + 1 .. n + 1
          /\ k \in 1 .. n + 1 /\ m \in 1 .. n + 1
      BY <1>8, <1>11, <2>4
    <3>2. QED BY <1>1, <1>6, <1>9, <1>11, <3>1 DEF LaidOut
  <2>5. QED BY <2>2, <2>3, <2>4
<1>12. ASSUME NEW k \in d + 1 .. n + 1
       PROVE  g[k + 1] = g[k] + FrameLen(more[k]) /\ Lies(t, g[k], more[k], FrameLen(more[k]))
  <2>1. CASE k = n + 1
    BY <1>3, <1>5, <1>9, <2>1
  <2>2. CASE k # n + 1
    <3>1. k \in d + 1 .. n /\ k \in 1 .. n + 1 /\ k + 1 \in 1 .. n + 1 /\ k \in 1 .. n
      BY <1>8, <2>2
    <3>2. off[k + 1] = off[k] + FrameLen(sent[k]) /\ Lies(t, off[k], sent[k], FrameLen(sent[k]))
      BY <1>1, <1>6, <3>1 DEF LaidOut
    <3>3. QED BY <1>3, <1>9, <3>1, <3>2
  <2>3. QED BY <2>1, <2>2
<1>13. LaidOut(t, g, d, more)
  <2>1. Len(more) + 1 = n + 2
    BY <1>3
  <2>2. QED BY <1>3, <1>9, <1>10, <1>11, <1>12, <2>1 DEF LaidOut
<1>14. g[Len(more) + 1] = Len(t)
  BY <1>3, <1>9
<1>15. QED BY <1>2, <1>4, <1>13, <1>14

(* The slots have got the first packet, and its frame is gone. *)
LEMMA LaidLess ==
  ASSUME NEW u \in Seq(Byte), NEW w \in Seq(Byte), NEW sent \in Seq(Body), NEW d \in Nat,
         d < Len(sent), NEW off, LaidOut(u \o w, off, d, sent),
         off[Len(sent) + 1] <= Len(u \o w), Len(u) = FrameLen(sent[d + 1])
  PROVE  \E g : LaidOut(w, g, d + 1, sent) /\ g[Len(sent) + 1] = off[Len(sent) + 1] - Len(u)
<1>1. PICK n \in Nat : n = Len(sent)
  OBVIOUS
<1>2. PICK z \in Nat : z = Len(u)
  OBVIOUS
<1>3. off \in [1 .. n + 1 -> Nat] /\ d < n /\ off[n + 1] <= z + Len(w) /\ Len(w) \in Nat
  BY <1>1, <1>2, Joined DEF LaidOut
<1>4. /\ \A k, m \in d + 1 .. n + 1 : k <= m => off[k] <= off[m]
      /\ \A k \in d + 1 .. n : /\ off[k + 1] = off[k] + FrameLen(sent[k])
                               /\ Lies(u \o w, off[k], sent[k], FrameLen(sent[k]))
      /\ off[d + 1] = 0
  BY <1>1 DEF LaidOut
<1>5. off[d + 2] = z
  <2>1. d + 1 \in d + 1 .. n /\ (d + 1) + 1 = d + 2
    BY <1>3
  <2>2. off[d + 2] = 0 + FrameLen(sent[d + 1])
    BY <1>4, <2>1
  <2>3. QED BY <1>2, <2>2
<1>6. ASSUME NEW k \in d + 2 .. n + 1 PROVE off[k] \in Nat /\ z <= off[k]
  <2>1. k \in 1 .. n + 1 /\ k \in d + 1 .. n + 1 /\ d + 2 \in d + 1 .. n + 1 /\ d + 2 <= k
    BY <1>3
  <2>2. QED BY <1>3, <1>4, <1>5, <2>1
<1>7. PICK g : g = [k \in 1 .. n + 1 |-> IF k \in d + 2 .. n + 1 THEN off[k] - z ELSE 0]
  OBVIOUS
<1>8. g \in [1 .. n + 1 -> Nat]
  <2>1. \A k \in d + 2 .. n + 1 : off[k] - z \in Nat
    BY <1>2, <1>6
  <2>2. QED BY <1>7, <2>1
<1>9. \A k \in d + 2 .. n + 1 : g[k] = off[k] - z /\ k \in 1 .. n + 1
  BY <1>3, <1>7
<1>10. d + 2 \in d + 2 .. n + 1 /\ n + 1 \in d + 2 .. n + 1
  BY <1>3
<1>11. g[d + 2] = 0
  BY <1>2, <1>5, <1>9, <1>10
<1>12. ASSUME NEW k \in d + 2 .. n + 1, NEW m \in d + 2 .. n + 1, k <= m PROVE g[k] <= g[m]
  <2>1. k \in d + 1 .. n + 1 /\ m \in d + 1 .. n + 1
    OBVIOUS
  <2>2. off[k] <= off[m] /\ off[k] \in Nat /\ off[m] \in Nat
    BY <1>4, <1>6, <1>12, <2>1
  <2>3. QED BY <1>2, <1>9, <2>2
<1>13. ASSUME NEW k \in d + 2 .. n
       PROVE  g[k + 1] = g[k] + FrameLen(sent[k]) /\ Lies(w, g[k], sent[k], FrameLen(sent[k]))
  <2>1. /\ k \in d + 1 .. n /\ k \in d + 2 .. n + 1 /\ k + 1 \in d + 2 .. n + 1
        /\ k + 1 \in d + 1 .. n + 1 /\ n + 1 \in d + 1 .. n + 1 /\ k + 1 <= n + 1
    BY <1>3
  <2>2. sent[k] \in Body
    BY <1>1
  <2>3. PICK len \in Nat : len = FrameLen(sent[k])
    BY <2>2, FrameFacts
  <2>4. /\ off[k + 1] = off[k] + len /\ off[k] \in Nat /\ z <= off[k] /\ off[k + 1] <= off[n + 1]
        /\ Lies(u \o w, off[k], sent[k], len) /\ g[k] = off[k] - z /\ g[k + 1] = off[k + 1] - z
    BY <1>4, <1>6, <1>9, <2>1, <2>3
  <2>5. g[k + 1] = g[k] + len /\ g[k] \in Nat /\ off[k] = z + g[k] /\ g[k] + len <= Len(w)
    <3>1. off[n + 1] \in Nat
      BY <1>3
    <3>2. ASSUME NEW a \in Nat, NEW b \in Nat, NEW c \in Nat, z <= a, a + len <= b, b <= z + c
          PROVE  /\ (a + len) - z = (a - z) + len /\ a - z \in Nat /\ a = z + (a - z)
                 /\ (a - z) + len <= c
      BY <3>2
    <3>3. /\ off[k] \in Nat /\ off[n + 1] \in Nat /\ Len(w) \in Nat /\ z <= off[k]
          /\ off[k] + len <= off[n + 1] /\ off[n + 1] <= z + Len(w)
      BY <1>3, <2>4, <3>1, Zenon
    <3>4. /\ (off[k] + len) - z = (off[k] - z) + len /\ off[k] - z \in Nat
          /\ off[k] = z + (off[k] - z) /\ (off[k] - z) + len <= Len(w)
      BY <3>2, <3>3
    <3>5. QED BY <2>4, <3>4, Zenon
  <2>6. Lies(w, g[k], sent[k], len)
    BY <1>2, <2>4, <2>5, LiesBehind
  <2>7. QED BY <2>3, <2>5, <2>6
<1>14. LaidOut(w, g, d + 1, sent)
  <2>1. (d + 1) + 1 = d + 2
    OBVIOUS
  <2>2. QED BY <1>1, <1>8, <1>11, <1>12, <1>13, <2>1 DEF LaidOut
<1>15. g[n + 1] = off[n + 1] - z
  BY <1>9, <1>10
<1>16. QED BY <1>1, <1>2, <1>14, <1>15

(* The packets that were read are sequences of bytes. *)
LEMMA ReadTyped ==
  ASSUME SockTypeOK
  PROVE  Read \in Seq(Seq(Byte)) /\ Len(Read) \in Nat
<1>1. PICK u \in Seq(Seq(Byte)), w \in Seq(Seq(Byte)) : u = sockMissed /\ w = sockDelivered
  BY DEF SockTypeOK
<1>2. u \o w \in Seq(Seq(Byte)) /\ Len(u \o w) \in Nat
  BY Joined
<1>3. QED BY <1>1, <1>2 DEF Read

(* The stream begins with the frame of the packet that was sent next. *)
LEMMA NextFrame ==
  ASSUME SockTypeOK, NEW off, Arranged(off), Len(Read) < Len(sockSent)
  PROVE  LET c == sockSent[Len(Read) + 1]
         IN  c \in Body /\ \A j \in 1 .. FrameLen(c) : Stream[j] = Frame(c)[j]
<1>1. PICK d \in Nat, n \in Nat : d = Len(Read) /\ n = Len(sockSent) /\ d < n
  BY ReadTyped DEF SockTypeOK
<1>2. off[d + 1] = 0
  BY <1>1 DEF Arranged, LaidOut
<1>3. sockSent[d + 1] \in Body /\ d + 1 \in d + 1 .. n
  BY <1>1 DEF SockTypeOK
<1>4. Lies(Stream, 0, sockSent[d + 1], FrameLen(sockSent[d + 1]))
  BY <1>1, <1>2, <1>3 DEF Arranged, LaidOut
<1>5. ASSUME NEW j \in 1 .. FrameLen(sockSent[d + 1]) PROVE Stream[j] = Frame(sockSent[d + 1])[j]
  <2>1. 0 + j = j
    BY <1>3, FrameFacts
  <2>2. QED BY <1>4, <2>1 DEF Lies
<1>6. QED BY <1>1, <1>3, <1>5

(* A body is being read: without a torn frame it is one that was sent. *)
LEMMA BodySent ==
  ASSUME SockInv, sockReading = "body", ~sockTorn
  PROVE  Len(Read) < Len(sockSent)
<1>1. Len(Read) \in Nat /\ Len(sockSent) \in Nat /\ Len(Read) <= Len(sockSent)
  BY ReadTyped DEF SockInv, SockTypeOK
<1>2. PICK off : Arranged(off)
  BY <1>1 DEF SockInv
<1>3. 0 < Len(Stream)
  BY Joined, CommonSocketAssumption DEF SockInv, SockTypeOK, Stream
<1>4. CASE Len(Read) = Len(sockSent)
  BY <1>2, <1>3, <1>4 DEF Arranged, LaidOut
<1>5. QED BY <1>1, <1>4

(* Bytes are written behind the others. *)
LEMMA WrittenOn ==
  ASSUME SockTypeOK, NEW t \in Seq(Byte), sockWire' = sockWire \o t, sockBuf' = sockBuf
  PROVE  /\ Stream \in Seq(Byte) /\ Stream' = Stream \o t /\ sockWire' \in Seq(Byte)
         /\ Len(Stream) \in Nat /\ Len(Stream') = Len(Stream) + Len(t)
<1>1. sockBuf \in Seq(Byte) /\ sockWire \in Seq(Byte)
  BY DEF SockTypeOK
<1>2. (sockBuf \o sockWire) \o t = sockBuf \o (sockWire \o t)
  BY <1>1, ConcatAssociative, SMTT(30)
<1>3. Stream \in Seq(Byte) /\ sockWire \o t \in Seq(Byte)
  BY <1>1, Joined DEF Stream
<1>4. Stream' = Stream \o t
  BY <1>2 DEF Stream
<1>5. PICK s \in Seq(Byte) : s = Stream
  BY <1>3
<1>6. Len(s \o t) = Len(s) + Len(t) /\ Len(s) \in Nat
  BY Joined
<1>7. QED BY <1>3, <1>4, <1>5, <1>6

(* A packet is written whole. *)
LEMMA SendStep ==
  ASSUME SockInv, NEW body \in Body, sendPacket(body)
  PROVE  SockInv'
<1>1. SockTypeOK
  BY DEF SockInv
<1>2. PICK t \in Seq(Byte) : t = Frame(body)
  BY FrameFacts
<1>3. PICK s \in Seq(Byte) : s = Stream /\ Stream' = s \o t /\ sockWire' \in Seq(Byte)
                             /\ Len(s) \in Nat /\ Len(Stream') = Len(s) + Len(t) /\ Len(t) \in Nat
  <2>1. sockWire' = sockWire \o t /\ sockBuf' = sockBuf
    BY <1>2 DEF sendPacket
  <2>2. /\ Stream \in Seq(Byte) /\ Stream' = Stream \o t /\ sockWire' \in Seq(Byte)
        /\ Len(Stream) \in Nat /\ Len(Stream') = Len(Stream) + Len(t)
    BY <1>1, <2>1, WrittenOn
  <2>3. Len(t) \in Nat
    OBVIOUS
  <2>4. QED BY <2>2, <2>3, Zenon
<1>4. PICK d \in Nat : d = Len(Read) /\ d = Len(Read') /\ Read' = Read
  BY <1>1, ReadTyped DEF sendPacket, Read, sockRead
<1>5. PICK n \in Nat : n = Len(sockSent)
  BY <1>1 DEF SockTypeOK
<1>6. CASE sockTorn
  <2>1. sockSent' = sockSent /\ sockTorn' = sockTorn
    BY <1>6 DEF sendPacket
  <2>2. SockTypeOK'
    BY <1>1, <1>3, <1>4, <2>1 DEF SockTypeOK, sendPacket, sockRead
  <2>3. ASSUME d <= n PROVE \E off : Arranged(off)'
    <3>1. PICK off : Arranged(off)
      BY <1>4, <1>5, <2>3 DEF SockInv
    <3>2. LaidOut(s, off, d, sockSent) /\ off[n + 1] <= Len(s) /\ d \in 0 .. Len(sockSent)
      BY <1>3, <1>4, <1>5, <2>3, <3>1 DEF Arranged
    <3>3. LaidOut(s \o t, off, d, sockSent)
      BY <1>1, <1>5, <3>2, LaidOn DEF SockTypeOK
    <3>4. off[n + 1] \in Nat
      BY <1>5, <3>2 DEF LaidOut
    <3>5. off[n + 1] <= Len(Stream')
      BY <1>3, <3>2, <3>4
    <3>6. Arranged(off)'
      BY <1>3, <1>4, <1>5, <1>6, <2>1, <3>1, <3>3, <3>5 DEF Arranged, sendPacket
    <3>7. QED BY <3>6
  <2>4. QED BY <1>4, <1>5, <2>1, <2>2, <2>3 DEF SockInv
<1>7. CASE ~sockTorn
  <2>1. PICK more \in Seq(Body) : more = Append(sockSent, body) /\ sockSent' = more
    <3>1. sockSent' = Append(sockSent, body)
      BY <1>7 DEF sendPacket
    <3>2. Append(sockSent, body) \in Seq(Body)
      BY <1>1 DEF SockTypeOK
    <3>3. QED BY <3>1, <3>2
  <2>2. Len(more) = n + 1 /\ \A k \in 1 .. n : more[k] = sockSent[k]
    BY <1>1, <1>5, <2>1 DEF SockTypeOK
  <2>3. d <= n
    BY <1>1, <1>4, <1>5, <1>7 DEF SockTypeOK
  <2>4. SockTypeOK'
    <3>1. Len(Read') <= Len(sockSent')
      BY <1>4, <2>1, <2>2, <2>3
    <3>2. QED BY <1>1, <1>3, <2>1, <3>1 DEF SockTypeOK, sendPacket, sockRead
  <2>5. PICK off : Arranged(off)
    BY <1>4, <1>5, <2>3 DEF SockInv
  <2>6. PICK g : LaidOut(s \o t, g, d, more) /\ g[Len(more) + 1] = Len(s \o t)
    <3>1. LaidOut(s, off, d, sockSent) /\ off[Len(sockSent) + 1] = Len(s) /\ d \in 0 .. Len(sockSent)
      BY <1>3, <1>4, <1>5, <1>7, <2>3, <2>5 DEF Arranged
    <3>2. sockSent \in Seq(Body)
      BY <1>1 DEF SockTypeOK
    <3>3. \E g : /\ LaidOut(s \o Frame(body), g, d, Append(sockSent, body))
                /\ g[Len(Append(sockSent, body)) + 1] = Len(s \o Frame(body))
      BY <3>1, <3>2, LaidMore
    <3>4. QED BY <1>2, <2>1, <3>3, Zenon
  <2>7. ASSUME sockReading = "body" PROVE sockNeed = Len(more[d + 1])
    <3>1. d < n
      BY <1>4, <1>5, <1>7, <2>7, BodySent
    <3>2. d + 1 \in 1 .. n
      BY <3>1
    <3>3. QED BY <1>4, <1>5, <2>2, <2>5, <2>7, <3>1, <3>2 DEF Arranged
  <2>8. Len(s \o t) <= Len(s \o t)
    BY <1>3
  <2>9. Arranged(g)'
    BY <1>3, <1>4, <2>1, <2>6, <2>7, <2>8 DEF Arranged, sendPacket
  <2>10. QED BY <2>4, <2>9 DEF SockInv
<1>8. QED BY <1>6, <1>7

(* A write fails in the middle. *)
LEMMA CutStep ==
  ASSUME SockInv, NEW body \in Body, SendFails(body)
  PROVE  SockInv' /\ UNCHANGED <<sockSent, Read>>
<1>1. SockTypeOK
  BY DEF SockInv
<1>2. Frame(body) \in Seq(Byte) /\ Len(Frame(body)) = FrameLen(body) /\ FrameLen(body) \in Nat
  BY FrameFacts
<1>3. PICK part \in 0 .. FrameLen(body) - 1 : /\ sockWire' = sockWire \o SubSeq(Frame(body), 1, part)
                                              /\ sockTorn' = (sockTorn \/ part > 0)
  BY <1>2 DEF SendFails
<1>4. PICK t : t = SubSeq(Frame(body), 1, part)
  OBVIOUS
<1>5. t \in Seq(Byte) /\ Len(t) = part /\ part \in Nat
  BY <1>2, <1>4
<1>6. PICK s \in Seq(Byte) : s = Stream /\ Stream' = s \o t /\ sockWire' \in Seq(Byte)
                             /\ Len(s) \in Nat /\ Len(Stream') = Len(s) + part
  BY <1>1, <1>3, <1>4, <1>5, WrittenOn DEF SendFails
<1>7. PICK d \in Nat : d = Len(Read) /\ d = Len(Read') /\ Read' = Read
  BY <1>1, ReadTyped DEF SendFails, Read, sockRead
<1>8. PICK n \in Nat : n = Len(sockSent) /\ sockSent' = sockSent
  BY <1>1 DEF SockTypeOK, SendFails
<1>9. SockTypeOK'
  <2>1. sockTorn' \in BOOLEAN /\ (~sockTorn' => ~sockTorn)
    BY <1>1, <1>3 DEF SockTypeOK
  <2>2. QED BY <1>1, <1>6, <1>7, <1>8, <2>1 DEF SockTypeOK, SendFails, sockRead
<1>10. ASSUME d <= n PROVE \E off : Arranged(off)'
  <2>1. PICK off : Arranged(off)
    BY <1>7, <1>8, <1>10 DEF SockInv
  <2>2. LaidOut(s, off, d, sockSent) /\ off[n + 1] <= Len(s) /\ d \in 0 .. Len(sockSent)
    BY <1>6, <1>7, <1>8, <1>10, <2>1 DEF Arranged
  <2>3. LaidOut(s \o t, off, d, sockSent)
    BY <1>1, <1>5, <1>8, <2>2, LaidOn DEF SockTypeOK
  <2>4. off[n + 1] \in Nat
    BY <1>8, <2>2 DEF LaidOut
  <2>5. off[n + 1] <= Len(Stream')
    BY <1>5, <1>6, <2>2, <2>4
  <2>6. ASSUME ~sockTorn' PROVE off[n + 1] = Len(Stream')
    <3>1. ~sockTorn /\ ~(part > 0)
      BY <1>3, <2>6, Zenon
    <3>2. part = 0
      BY <1>5, <3>1
    <3>3. off[n + 1] = Len(s)
      BY <1>6, <1>8, <2>1, <3>1 DEF Arranged
    <3>4. QED BY <1>6, <3>2, <3>3
  <2>7. Arranged(off)'
    BY <1>6, <1>7, <1>8, <2>1, <2>3, <2>5, <2>6 DEF Arranged, SendFails
  <2>8. QED BY <2>7
<1>11. QED BY <1>7, <1>8, <1>9, <1>10 DEF SockInv

(* Bytes go from the wire into the buffer. *)
LEMMA ReadStep ==
  ASSUME SockInv, ReadSome
  PROVE  SockInv' /\ UNCHANGED <<sockSent, Read>>
<1>1. SockTypeOK
  BY DEF SockInv
<1>2. PICK n \in 1 .. Len(sockWire) : /\ sockBuf' = sockBuf \o SubSeq(sockWire, 1, n)
                                      /\ sockWire' = SubSeq(sockWire, n + 1, Len(sockWire))
  BY DEF ReadSome
<1>3. /\ sockBuf' \in Seq(Byte) /\ sockWire' \in Seq(Byte)
      /\ Len(sockBuf') = Len(sockBuf) + n /\ Stream' = Stream
  <2>1. PICK u \in Seq(Byte), w \in Seq(Byte) : u = sockBuf /\ w = sockWire
    BY <1>1 DEF SockTypeOK
  <2>2. n \in 1 .. Len(w)
    BY <2>1
  <2>3. PICK a \in Seq(Byte), z \in Seq(Byte) :
          /\ a = SubSeq(w, 1, n) /\ z = SubSeq(w, n + 1, Len(w))
          /\ u \o a \in Seq(Byte) /\ Len(u \o a) = Len(u) + n /\ (u \o a) \o z = u \o w
    BY <2>2, StreamKept
  <2>4. QED BY <1>2, <2>1, <2>3 DEF Stream
<1>4. Read' = Read /\ sockSent' = sockSent /\ sockTorn' = sockTorn
  BY DEF ReadSome, Read, sockRead, sockWritten
<1>5. HeaderSize <= Len(sockBuf) => HeaderSize <= Len(sockBuf')
  BY <1>1, <1>3, CommonSocketAssumption DEF SockTypeOK
<1>6. SockTypeOK'
  BY <1>1, <1>3, <1>4, <1>5 DEF SockTypeOK, ReadSome, sockRead
<1>7. ASSUME NEW off, Arranged(off) PROVE Arranged(off)'
  BY <1>3, <1>4, <1>7 DEF Arranged, ReadSome
<1>8. QED BY <1>4, <1>6, <1>7 DEF SockInv

(* The quotient and the remainder of a division. *)
LEMMA DivMod ==
  ASSUME NEW m \in Nat, NEW n \in Nat \ {0}
  PROVE  m \div n \in Nat /\ m % n \in 0 .. n - 1 /\ m = (m \div n) * n + (m % n)
<1>1. m \div n \in Nat /\ m % n \in 0 .. n - 1
  OBVIOUS
<1>2. m = (m \div n) * n + (m % n)
  OBVIOUS
<1>. QED
  BY <1>1, <1>2

(* Shifting by one more digit divides once more. *)
LEMMA ShiftedOnce ==
  ASSUME NEW size \in Nat
  PROVE  \E f \in [Nat -> Nat] :
           /\ f[0] = size /\ \A k \in Nat : f[k + 1] = f[k] \div Base
           /\ \A n \in Nat : Shifted(size, n) = f[n]
<1>. DEFINE Def(f) == [k \in Nat |-> IF k = 0 THEN size ELSE f[k - 1] \div Base]
            shift == CHOOSE f : f = Def(f)
<1>0. Base \in Nat \ {0, 1}
  BY CommonSocketAssumption
<1>1. PICK g \in [Nat \X Nat -> Nat] : \A k, v \in Nat : g[<<k, v>>] = v \div Base
  <2>. DEFINE h == [x \in Nat \X Nat |-> x[2] \div Base]
  <2>1. h \in [Nat \X Nat -> Nat] /\ \A k, v \in Nat : h[<<k, v>>] = v \div Base
    BY <1>0
  <2>. QED
    BY <2>1
<1>2. PICK f : Iterates(f, Nat, size, g)
  BY NatRecursion, Zenon
<1>3. f \in [Nat -> Nat] /\ f[0] = size /\ \A k \in Nat : f[k + 1] = f[k] \div Base
  BY <1>1, <1>2 DEF Iterates
<1>4. f = Def(f)
  <2>1. ASSUME NEW k \in Nat PROVE f[k] = Def(f)[k]
    <3>1. CASE k = 0
      BY <3>1, <1>3
    <3>2. CASE k # 0
      <4>1. k - 1 \in Nat /\ (k - 1) + 1 = k
        BY <3>2
      <4>2. f[k] = f[k - 1] \div Base
        BY <4>1, <1>3
      <4>. QED
        BY <4>2, <3>2
    <3>. QED
      BY <3>1, <3>2
  <2>. QED
    BY <2>1, <1>3
<1>5. shift = Def(shift)
  BY <1>4, Zenon
<1>6. \A n \in Nat : Shifted(size, n) = shift[n]
  BY DEF Shifted
<1>7. \A n \in Nat : shift[n] = f[n]
  <2>. HIDE DEF shift
  <2>. DEFINE S == {n \in Nat : shift[n] = f[n]}
  <2>1. 0 \in S
    BY <1>5, <1>3
  <2>2. ASSUME NEW n \in Nat, n \in S PROVE n + 1 \in S
    BY <2>2, <1>5, <1>3
  <2>3. \A n \in Nat : n \in S
    <3>. HIDE DEF S
    <3>. QED
      BY <2>1, <2>2, SetInduction
  <2>. QED
    BY <2>3
<1>. HIDE DEF shift
<1>. QED
  BY <1>3, <1>6, <1>7

(* d is what decode_header has after each byte of the header. *)
DecodedBy(d, buffer) ==
  /\ d \in [0 .. HeaderSize -> Nat] /\ d[0] = 0 /\ decode_header(buffer) = d[HeaderSize]
  /\ \A k \in 0 .. HeaderSize - 1 : d[k + 1] = d[k] * Base + buffer[k + 1]

(* decode_header takes the bytes one after the other. *)
LEMMA DecodeSteps ==
  ASSUME NEW buffer \in Seq(Nat), Len(buffer) >= HeaderSize
  PROVE  \E d : DecodedBy(d, buffer)
<1>. DEFINE seq == SubSeq(buffer, 1, HeaderSize)
            Def(it) == [s \in SUBSET DOMAIN seq |->
                          IF s = {} THEN 0 ELSE it[s \ {Max(s)}] * Base + seq[Max(s)]]
            iter == CHOOSE it : it = Def(it)
<1>1. decode_header(buffer) = iter[DOMAIN seq]
  BY DEF decode_header, FoldLeft, MapThenFoldSet
<1>2. HeaderSize \in Nat \ {0} /\ HeaderSize \in Nat /\ Base \in Nat /\ 0 \in Nat
  BY CommonSocketAssumption
<1>3. DOMAIN seq = 1 .. HeaderSize /\ \A k \in 1 .. HeaderSize : seq[k] = buffer[k] /\ buffer[k] \in Nat
  BY <1>2
<1>. HIDE DEF seq
<1>4. PICK g \in [Nat \X (1 .. HeaderSize) -> Nat] :
        \A d \in Nat, k \in 1 .. HeaderSize : g[<<d, k>>] = d * Base + buffer[k]
  <2>. DEFINE h == [x \in Nat \X (1 .. HeaderSize) |-> x[1] * Base + buffer[x[2]]]
  <2>1. ASSUME NEW d \in Nat, NEW k \in 1 .. HeaderSize PROVE d * Base + buffer[k] \in Nat
    BY <1>2, <1>3
  <2>2. h \in [Nat \X (1 .. HeaderSize) -> Nat]
    BY <2>1
  <2>. QED
    BY <2>2
<1>5. PICK it : IsFold(it, HeaderSize, Nat, 0, g)
  BY <1>2, FoldExists, Zenon
<1>6. it = Def(it)
  <2>1. ASSUME NEW s \in SUBSET (1 .. HeaderSize), s # {}
        PROVE  it[s] = it[s \ {Max(s)}] * Base + seq[Max(s)]
    <3>1. Max(s) \in 1 .. HeaderSize /\ s \ {Max(s)} \in SUBSET (1 .. HeaderSize)
      BY <2>1, <1>2, MaxIs
    <3>2. it[s \ {Max(s)}] \in Nat
      BY <3>1, <1>5 DEF IsFold
    <3>3. it[s] = g[<<it[s \ {Max(s)}], Max(s)>>]
      BY <2>1, <1>5 DEF IsFold
    <3>. QED
      BY <3>1, <3>2, <3>3, <1>3, <1>4
  <2>2. it[{}] = 0 /\ it \in [SUBSET (1 .. HeaderSize) -> Nat]
    BY <1>5 DEF IsFold
  <2>. QED
    BY <2>1, <2>2, <1>3
<1>7. iter = Def(iter)
  BY <1>6, Zenon
<1>. HIDE DEF iter
<1>8. FoldsLike(iter, HeaderSize, Nat, 0, g)
  <2>1. iter[{}] = 0
    BY <1>7
  <2>2. ASSUME NEW s \in SUBSET (1 .. HeaderSize), s # {}, iter[s \ {Max(s)}] \in Nat
        PROVE  iter[s] = g[<<iter[s \ {Max(s)}], Max(s)>>]
    <3>1. Max(s) \in 1 .. HeaderSize
      BY <2>2, <1>2, MaxIs
    <3>2. iter[s] = iter[s \ {Max(s)}] * Base + seq[Max(s)]
      BY <1>7, <1>3, <2>2
    <3>. QED
      BY <3>1, <3>2, <2>2, <1>3, <1>4
  <2>. HIDE DEF Def
  <2>. QED
    BY <2>1, <2>2 DEF FoldsLike
<1>. HIDE DEF Def
<1>9. PICK d : RunsTo(d, HeaderSize, Nat, 0, g, iter[1 .. HeaderSize])
  BY <1>2, <1>8, FoldRuns, Zenon
<1>10. /\ d \in [0 .. HeaderSize -> Nat] /\ d[0] = 0 /\ d[HeaderSize] = iter[1 .. HeaderSize]
       /\ \A k \in 0 .. HeaderSize - 1 : d[k + 1] = g[<<d[k], k + 1>>]
  BY <1>9 DEF RunsTo
<1>11. ASSUME NEW k \in 0 .. HeaderSize - 1 PROVE d[k + 1] = d[k] * Base + buffer[k + 1]
  <2>1. d[k] \in Nat /\ k + 1 \in 1 .. HeaderSize
    BY <1>2, <1>10
  <2>. QED
    BY <2>1, <1>4, <1>10
<1>12. DecodedBy(d, buffer)
  BY <1>1, <1>3, <1>10, <1>11 DEF DecodedBy
<1>. QED
  BY <1>12

(* decode_header finds the size that encode_header wrote, for every body whose
   size has at most HeaderSize digits, whatever their base: after k bytes it has
   the size without its last HeaderSize - k digits. *)
THEOREM HeaderReadBack == HeaderInverts
<1>. SUFFICES ASSUME NEW b \in Body
              PROVE  decode_header(encode_header(Len(b))) = Len(b)
  BY DEF HeaderInverts
<1>1. Len(b) \in Nat /\ HeaderSize \in Nat \ {0} /\ Base \in Nat \ {0, 1}
  BY CommonSocketAssumption
<1>2. Shifted(Len(b), HeaderSize) = 0
  BY CommonSocketAssumption
<1>3. PICK f \in [Nat -> Nat] :
        /\ f[0] = Len(b) /\ \A k \in Nat : f[k + 1] = f[k] \div Base
        /\ \A n \in Nat : Shifted(Len(b), n) = f[n]
  BY <1>1, ShiftedOnce
<1>. DEFINE header == encode_header(Len(b))
<1>4. \A i \in 1 .. HeaderSize : f[HeaderSize - i] % Base \in Nat
  <2>1. ASSUME NEW i \in 1 .. HeaderSize PROVE f[HeaderSize - i] \in Nat
    <3>1. HeaderSize - i \in Nat
      BY <1>1
    <3>. QED
      BY <3>1
  <2>2. \A m \in Nat : m % Base \in Nat
    BY <1>1
  <2>. QED
    BY <2>1, <2>2
<1>5. header = [i \in 1 .. HeaderSize |-> f[HeaderSize - i] % Base]
  <2>1. \A i \in 1 .. HeaderSize : Shifted(Len(b), HeaderSize - i) = f[HeaderSize - i]
    BY <1>1, <1>3
  <2>. QED
    BY <2>1 DEF encode_header
<1>. HIDE DEF header
<1>6. header \in Seq(Nat) /\ Len(header) = HeaderSize
  BY <1>4, <1>5, <1>1
<1>d. PICK d : DecodedBy(d, header)
  <2>1. header \in Seq(Nat) /\ Len(header) >= HeaderSize
    BY <1>6, <1>1
  <2>. QED
    BY <2>1, DecodeSteps, Zenon
<1>7. /\ d \in [0 .. HeaderSize -> Nat] /\ d[0] = 0 /\ decode_header(header) = d[HeaderSize]
      /\ \A k \in 0 .. HeaderSize - 1 : d[k + 1] = d[k] * Base + header[k + 1]
  BY <1>d DEF DecodedBy
<1>. DEFINE S == {k \in Nat : k <= HeaderSize => d[k] = f[HeaderSize - k]}
<1>8. 0 \in S
  BY <1>1, <1>2, <1>3, <1>7
<1>9. ASSUME NEW k \in Nat, k \in S PROVE k + 1 \in S
  <2>1. SUFFICES ASSUME k + 1 <= HeaderSize PROVE d[k + 1] = f[HeaderSize - (k + 1)]
    OBVIOUS
  <2>2. PICK n \in Nat : n = HeaderSize - (k + 1) /\ HeaderSize - k = n + 1
    BY <2>1, <1>1
  <2>3. d[k] = f[n] \div Base
    BY <2>1, <2>2, <1>9, <1>3, <1>1
  <2>4. header[k + 1] = f[n] % Base
    BY <2>1, <2>2, <1>5, <1>1
  <2>5. d[k + 1] = d[k] * Base + header[k + 1]
    BY <2>1, <1>7, <1>1
  <2>6. f[n] \in Nat
    BY <1>3
  <2>7. f[n] = (f[n] \div Base) * Base + (f[n] % Base)
    BY <2>6, <1>1, DivMod
  <2>8. d[k + 1] = f[n]
    BY <2>3, <2>4, <2>5, <2>7, Zenon
  <2>. QED
    BY <2>2, <2>8
<1>10. \A k \in Nat : k \in S
  <2>. HIDE DEF S
  <2>. QED
    BY <1>8, <1>9, SetInduction
<1>11. d[HeaderSize] = f[0]
  <2>1. HeaderSize \in Nat /\ HeaderSize <= HeaderSize /\ HeaderSize - HeaderSize = 0
    BY <1>1
  <2>2. HeaderSize \in S
    BY <2>1, <1>10
  <2>3. d[HeaderSize] = f[HeaderSize - HeaderSize]
    BY <2>1, <2>2
  <2>. QED
    BY <2>1, <2>3
<1>. QED
  BY <1>3, <1>7, <1>11 DEF header

(* The header that was read is that of the next frame. *)
LEMMA HeaderStep ==
  ASSUME SockInv, readHeader
  PROVE  SockInv' /\ UNCHANGED <<sockSent, Read>>
<1>1. HeaderSize \in Nat \ {0} /\ Len(sockBuf) = HeaderSize
  BY CommonSocketAssumption DEF readHeader
<1>2. SockTypeOK
  BY DEF SockInv
<1>3. Read' = Read /\ sockSent' = sockSent /\ sockTorn' = sockTorn /\ Stream' = Stream
  BY DEF readHeader, Read, sockRead, sockWritten, Stream
<1>4. SockTypeOK'
  <2>1. HeaderSize <= Len(sockBuf)
    BY <1>1
  <2>2. QED BY <1>2, <1>3, <2>1 DEF SockTypeOK, readHeader, sockRead
<1>5. ASSUME NEW off, Arranged(off), Len(Read) < Len(sockSent)
      PROVE  sockNeed' = Len(sockSent[Len(Read) + 1])
  <2>1. PICK c : c = sockSent[Len(Read) + 1]
    OBVIOUS
  <2>2. c \in Body /\ \A j \in 1 .. FrameLen(c) : Stream[j] = Frame(c)[j]
    BY <1>2, <1>5, <2>1, NextFrame
  <2>3. \A j \in 1 .. HeaderSize : Stream[j] = sockBuf[j]
    BY <1>1, <1>2, Joined DEF SockTypeOK, Stream
  <2>4. \A j \in 1 .. HeaderSize : sockBuf[j] = encode_header(Len(c))[j]
    <3> SUFFICES ASSUME NEW j \in 1 .. HeaderSize PROVE sockBuf[j] = encode_header(Len(c))[j]
      OBVIOUS
    <3>1. Len(c) \in Nat /\ Frame(c)[j] = encode_header(Len(c))[j]
      BY <2>2, FrameFacts
    <3>2. j \in 1 .. FrameLen(c)
      BY <1>1, <3>1 DEF FrameLen
    <3>3. QED BY <2>2, <2>3, <3>1, <3>2
  <2>5. sockBuf = encode_header(Len(c))
    <3>1. encode_header(Len(c)) \in Seq(Byte)
      BY <2>2, FrameFacts
    <3>2. Len(encode_header(Len(c))) = HeaderSize
      BY <1>1, <3>1 DEF encode_header
    <3>3. QED BY <1>1, <1>2, <2>4, <3>1, <3>2, SeqEqual DEF SockTypeOK
  <2>6. QED BY <2>1, <2>2, <2>5, HeaderReadBack DEF readHeader, HeaderInverts
<1>6. ASSUME NEW off, Arranged(off) PROVE Arranged(off)'
  BY <1>3, <1>5, <1>6 DEF Arranged
<1>7. QED BY <1>3, <1>4, <1>6 DEF SockInv

(* What is given to the slots comes behind what was. *)
LEMMA GivenLast ==
  ASSUME SockTypeOK, NEW packet \in Seq(Byte), GiveToSlots(packet), sockSlots' = sockSlots
  PROVE  /\ Read' = Append(Read, packet) /\ Len(Read') = Len(Read) + 1
         /\ sockMissed' \in Seq(Seq(Byte)) /\ sockDelivered' \in Seq(Seq(Byte))
         /\ sockSlots' # "there" => sockDelivered' = << >>
<1>1. PICK u \in Seq(Seq(Byte)), w \in Seq(Seq(Byte)) : u = sockMissed /\ w = sockDelivered
  BY DEF SockTypeOK
<1>2. Append(u, packet) \in Seq(Seq(Byte)) /\ Append(w, packet) \in Seq(Seq(Byte))
  OBVIOUS
<1>3. Len(Append(u \o w, packet)) = Len(u \o w) + 1
  BY Joined
<1>4. CASE sockSlots = "there"
  <2>1. u \o Append(w, packet) = Append(u \o w, packet)
    OBVIOUS
  <2>2. QED BY <1>1, <1>2, <1>3, <1>4, <2>1 DEF GiveToSlots, Read
<1>5. CASE sockSlots # "there"
  <2>1. w = << >> /\ u \o w = u /\ Append(u, packet) \o w = Append(u, packet)
    BY <1>1, <1>5 DEF SockTypeOK
  <2>2. QED BY <1>1, <1>2, <1>3, <1>5, <2>1 DEF GiveToSlots, Read
<1>6. QED BY <1>4, <1>5

(* What the slots get is the packet sent next, as long as there is one. *)
LEMMA BodyStep ==
  ASSUME SockInv, readBody
  PROVE  /\ SockInv' /\ sockSent' = sockSent
         /\ \E packet \in Seq(Byte) :
              /\ Read' = Append(Read, packet)
              /\ Len(Read) < Len(sockSent) => packet = sockSent[Len(Read) + 1]
<1>1. SockTypeOK /\ sockReading = "body"
  BY DEF SockInv, readBody, BodyRead
<1>2. PICK packet : packet = SubSeq(sockBuf, HeaderSize + 1, Len(sockBuf))
  OBVIOUS
<1>3. PICK d \in Nat, n \in Nat : d = Len(Read) /\ n = Len(sockSent)
  BY <1>1, ReadTyped DEF SockTypeOK
<1>4. PICK u \in Seq(Byte), w \in Seq(Byte) : u = sockBuf /\ w = sockWire
  BY <1>1 DEF SockTypeOK
<1>5. HeaderSize \in Nat \ {0} /\ HeaderSize <= Len(u) /\ Len(u) \in Nat
  BY <1>1, <1>4, CommonSocketAssumption DEF SockTypeOK
<1>6. /\ packet \in Seq(Byte) /\ Len(packet) = Len(u) - HeaderSize
      /\ \A j \in 1 .. Len(u) - HeaderSize : packet[j] = u[HeaderSize + j]
  <2>1. HeaderSize \in 0 .. Len(u)
    BY <1>5
  <2>2. QED BY <1>2, <1>4, <2>1, Rest
<1>7. /\ Read' = Append(Read, packet) /\ Len(Read') = d + 1
      /\ sockMissed' \in Seq(Seq(Byte)) /\ sockDelivered' \in Seq(Seq(Byte))
      /\ sockSlots' # "there" => sockDelivered' = << >>
  <2>1. GiveToSlots(packet) /\ sockSlots' = sockSlots
    BY <1>2 DEF readBody
  <2>2. QED BY <1>1, <1>3, <1>6, <2>1, GivenLast
<1>8. sockSent' = sockSent /\ sockTorn' = sockTorn /\ Stream' = w
  <2>1. << >> \o w = w
    OBVIOUS
  <2>2. QED BY <1>4, <2>1 DEF readBody, sockWritten, Stream
<1>9. SockTypeOK'
  <2>1. ~sockTorn' => Len(Read') <= Len(sockSent')
    BY <1>1, <1>3, <1>7, <1>8, BodySent
  <2>2. << >> \in Seq(Byte) /\ sockReading' # "body"
    BY DEF readBody
  <2>3. QED BY <1>1, <1>7, <1>8, <2>1, <2>2 DEF SockTypeOK, readBody
<1>10. CASE ~(d < n)
  <2>1. ~(Len(Read') <= Len(sockSent'))
    BY <1>3, <1>7, <1>8, <1>10
  <2>2. QED BY <1>3, <1>6, <1>7, <1>8, <1>9, <1>10, <2>1 DEF SockInv
<1>11. CASE d < n
  <2>1. PICK off : Arranged(off)
    BY <1>3, <1>11 DEF SockInv
  <2>2. PICK c : c = sockSent[d + 1]
    OBVIOUS
  <2>3. c \in Body /\ \A j \in 1 .. FrameLen(c) : Stream[j] = Frame(c)[j]
    BY <1>1, <1>3, <1>11, <2>1, <2>2, NextFrame
  <2>4. Len(u) = HeaderSize + Len(c)
    BY <1>1, <1>3, <1>4, <1>11, <2>1, <2>2 DEF Arranged, readBody, BodyRead
  <2>5. c \in Seq(Byte) /\ Len(c) \in Nat /\ \A j \in 1 .. Len(c) : Frame(c)[HeaderSize + j] = c[j]
    BY <2>3, FrameFacts
  <2>6. packet = c
    <3>1. \A j \in 1 .. Len(u) : Stream[j] = u[j]
      BY <1>4, Joined DEF Stream
    <3>2. Len(packet) = Len(c)
      BY <1>5, <1>6, <2>4, <2>5
    <3>3. ASSUME NEW j \in 1 .. Len(c) PROVE packet[j] = c[j]
      <4>1. HeaderSize + j \in 1 .. FrameLen(c) /\ HeaderSize + j \in 1 .. Len(u)
            /\ j \in 1 .. Len(u) - HeaderSize
        BY <1>5, <2>4, <2>5 DEF FrameLen
      <4>2. QED BY <1>6, <2>3, <2>5, <3>1, <4>1
    <3>4. QED BY <1>6, <2>5, <3>2, <3>3, SeqEqual
  <2>7. PICK at \in Nat : at = off[n + 1]
    <3>1. off \in [1 .. n + 1 -> Nat]
      BY <1>3, <2>1 DEF Arranged, LaidOut
    <3>2. QED BY <3>1
  <2>8. /\ LaidOut(u \o w, off, d, sockSent) /\ at <= Len(u \o w)
        /\ ~sockTorn => at = Len(u \o w)
    BY <1>3, <1>4, <2>1, <2>7 DEF Arranged, Stream
  <2>9. PICK g : LaidOut(w, g, d + 1, sockSent) /\ g[n + 1] = at - Len(u)
    <3>1. Len(u) = FrameLen(sockSent[d + 1]) /\ d < Len(sockSent) /\ sockSent \in Seq(Body)
      BY <1>1, <1>3, <1>11, <2>2, <2>4 DEF FrameLen, SockTypeOK
    <3>2. off[Len(sockSent) + 1] <= Len(u \o w)
      BY <1>3, <2>7, <2>8
    <3>3. \E g : LaidOut(w, g, d + 1, sockSent) /\ g[Len(sockSent) + 1] = off[Len(sockSent) + 1] - Len(u)
      BY <2>8, <3>1, <3>2, LaidLess
    <3>4. QED BY <1>3, <2>7, <3>3
  <2>10. g[n + 1] <= Len(w) /\ (~sockTorn => g[n + 1] = Len(w))
    <3>1. Len(u \o w) = Len(u) + Len(w) /\ Len(w) \in Nat
      BY Joined
    <3>2. QED BY <1>5, <2>8, <2>9, <3>1
  <2>11. Arranged(g)'
    <3>1. sockReading' # "body"
      BY DEF readBody
    <3>2. QED BY <1>3, <1>7, <1>8, <2>9, <2>10, <3>1 DEF Arranged
  <2>12. QED BY <1>3, <1>6, <1>7, <1>8, <1>9, <2>2, <2>6, <2>11 DEF SockInv
<1>12. QED BY <1>10, <1>11

(* The connection breaks, the read ends with it, or the slots change. *)
LEMMA BreakStep ==
  ASSUME SockInv, Break \/ ReadFails \/ registerQueuePacket \/ SlotsMove \/ UNCHANGED sockVars
  PROVE  SockInv' /\ UNCHANGED <<sockSent, Read>>
<1>1. /\ UNCHANGED <<sockSent, sockTorn, sockWire, sockBuf, sockNeed, sockMissed, sockDelivered>>
      /\ sockReading' = "body" => sockReading = "body"
      /\ sockSlots' # "there" => sockSlots # "there"
  BY DEF Break, ReadFails, registerQueuePacket, SlotsMove, sockVars, sockWritten, sockRead
<1>2. Stream' = Stream /\ Read' = Read
  BY <1>1 DEF Stream, Read
<1>3. SockTypeOK'
  BY <1>1, <1>2 DEF SockInv, SockTypeOK
<1>4. ASSUME NEW off, Arranged(off) PROVE Arranged(off)'
  BY <1>1, <1>2, <1>4 DEF Arranged
<1>5. QED BY <1>1, <1>2, <1>3, <1>4 DEF SockInv

(* Nothing has been written yet. *)
LEMMA SockInitInv == SockInit => SockInv /\ Read = << >>
<1> SUFFICES ASSUME SockInit PROVE SockInv /\ Read = << >>
  OBVIOUS
<1>1. << >> \o << >> = << >> /\ Len(<< >>) = 0
  OBVIOUS
<1>2. Stream = << >> /\ Read = << >> /\ sockSent = << >>
  BY <1>1 DEF SockInit, Stream, Read
<1>3. SockTypeOK
  <2>1. << >> \in Seq(Byte) /\ << >> \in Seq(Body) /\ << >> \in Seq(Seq(Byte)) /\ 0 <= 0
    OBVIOUS
  <2>2. QED BY <1>1, <1>2, <2>1 DEF SockInit, SockTypeOK
<1>4. PICK off : off = [k \in 1 .. 1 |-> 0]
  OBVIOUS
<1>5. LaidOut(<< >>, off, 0, << >>) /\ off[1] = 0
  BY <1>1, <1>4 DEF LaidOut
<1>6. Arranged(off)
  BY <1>1, <1>2, <1>5 DEF Arranged, SockInit
<1>7. QED BY <1>2, <1>3, <1>6 DEF SockInv

(* The packets sent and not yet delivered, as the abstract queue. *)
LEMMA Waiting ==
  ASSUME NEW q \in Seq(Body), NEW d \in 0 .. Len(q)
  PROVE  /\ \A b \in Body : SubSeq(Append(q, b), d + 1, Len(Append(q, b)))
                            = Append(SubSeq(q, d + 1, Len(q)), b)
         /\ d < Len(q) => /\ SubSeq(q, d + 1, Len(q)) # << >>
                          /\ Head(SubSeq(q, d + 1, Len(q))) = q[d + 1]
                          /\ Tail(SubSeq(q, d + 1, Len(q))) = SubSeq(q, d + 2, Len(q))
<1>1. PICK n \in Nat : n = Len(q) /\ d <= n
  OBVIOUS
<1>2. PICK z : z = SubSeq(q, d + 1, n)
  OBVIOUS
<1>3. z \in Seq(Body) /\ Len(z) = n - d /\ \A j \in 1 .. n - d : z[j] = q[d + j]
  BY <1>1, <1>2, Rest
<1>4. ASSUME NEW b \in Body
      PROVE  SubSeq(Append(q, b), d + 1, Len(Append(q, b))) = Append(z, b)
  <2>1. PICK m : m = Append(q, b)
    OBVIOUS
  <2>2. /\ m \in Seq(Body) /\ Len(m) = n + 1 /\ m[n + 1] = b
        /\ \A j \in 1 .. n : m[j] = q[j]
    BY <1>1, <2>1
  <2>3. PICK y : y = SubSeq(m, d + 1, n + 1)
    OBVIOUS
  <2>4. y \in Seq(Body) /\ Len(y) = n + 1 - d /\ \A j \in 1 .. n + 1 - d : y[j] = m[d + j]
    BY <1>1, <2>2, <2>3
  <2>5. /\ Append(z, b) \in Seq(Body) /\ Len(Append(z, b)) = n + 1 - d
        /\ Append(z, b)[n + 1 - d] = b /\ \A j \in 1 .. n - d : Append(z, b)[j] = z[j]
    BY <1>1, <1>3
  <2>6. ASSUME NEW j \in 1 .. n + 1 - d PROVE y[j] = Append(z, b)[j]
    <3>1. CASE j = n + 1 - d
      <4>1. d + j = n + 1
        BY <1>1, <3>1
      <4>2. QED BY <2>2, <2>4, <2>5, <3>1, <4>1
    <3>2. CASE j # n + 1 - d
      <4>1. j \in 1 .. n - d /\ d + j \in 1 .. n
        BY <1>1, <3>2
      <4>2. QED BY <1>3, <2>2, <2>4, <2>5, <4>1
    <3>3. QED BY <3>1, <3>2
  <2>7. y = Append(z, b)
    BY <2>4, <2>5, <2>6, SeqEqual
  <2>8. QED BY <2>1, <2>2, <2>3, <2>7
<1>5. ASSUME d < n PROVE z # << >> /\ Head(z) = q[d + 1] /\ Tail(z) = SubSeq(q, d + 2, n)
  <2>1. z # << >> /\ Head(z) = z[1] /\ 1 \in 1 .. n - d
    BY <1>1, <1>3, <1>5
  <2>2. PICK y : y = SubSeq(q, d + 2, n)
    OBVIOUS
  <2>3. y \in Seq(Body) /\ Len(y) = n - d - 1 /\ \A j \in 1 .. n - d - 1 : y[j] = q[d + 1 + j]
    <3>1. /\ d + 1 \in 0 .. Len(q) /\ (d + 1) + 1 = d + 2 /\ Len(q) - (d + 1) = n - d - 1
      BY <1>1, <1>5
    <3>2. PICK e \in 0 .. Len(q) : e = d + 1
      BY <3>1
    <3>3. y = SubSeq(q, e + 1, Len(q)) /\ Len(q) - e = n - d - 1
      BY <1>1, <2>2, <3>1, <3>2
    <3>4. /\ y \in Seq(Body) /\ Len(y) = Len(q) - e
          /\ \A j \in 1 .. Len(q) - e : y[j] = q[e + j]
      BY <3>3, Rest
    <3>5. QED BY <3>2, <3>3, <3>4
  <2>4. /\ Tail(z) \in Seq(Body) /\ Len(Tail(z)) = n - d - 1
        /\ \A j \in 1 .. n - d - 1 : Tail(z)[j] = z[j + 1]
    <3>1. /\ Tail(z) \in Seq(Body) /\ Len(Tail(z)) = Len(z) - 1
          /\ \A j \in 1 .. Len(Tail(z)) : Tail(z)[j] = z[j + 1]
      BY <1>3, <2>1, HeadTailProperties
    <3>2. QED BY <1>1, <1>3, <3>1
  <2>5. ASSUME NEW j \in 1 .. n - d - 1 PROVE Tail(z)[j] = y[j]
    <3>1. j + 1 \in 1 .. n - d /\ d + (j + 1) = d + 1 + j
      BY <1>1
    <3>2. QED BY <1>3, <2>3, <2>4, <3>1
  <2>6. QED BY <1>3, <2>1, <2>2, <2>3, <2>4, <2>5, SeqEqual
<1>6. QED BY <1>1, <1>2, <1>4, <1>5

(* What has been read of the packets that were sent whole. *)
LEMMA GotKept ==
  ASSUME NEW S, NEW r \in Seq(S), NEW x \in S, NEW n \in Nat, n <= Len(r)
  PROVE  SubSeq(Append(r, x), 1, n) = IF Len(r) <= n THEN r ELSE SubSeq(r, 1, n)
<1>1. PICK y : y = SubSeq(Append(r, x), 1, n)
  OBVIOUS
<1>2. y \in Seq(S) /\ Len(y) = n /\ \A j \in 1 .. n : y[j] = r[j]
  BY <1>1
<1>3. CASE Len(r) <= n
  <2>1. Len(r) = n
    BY <1>3
  <2>2. QED BY <1>1, <1>2, <1>3, <2>1, SeqEqual
<1>4. CASE ~(Len(r) <= n)
  <2>1. PICK z : z = SubSeq(r, 1, n)
    OBVIOUS
  <2>2. z \in Seq(S) /\ Len(z) = n /\ \A j \in 1 .. n : z[j] = r[j]
    BY <2>1
  <2>3. QED BY <1>1, <1>2, <1>4, <2>1, <2>2, SeqEqual
<1>5. QED BY <1>3, <1>4

(* However TCP cuts the bytes, the loop over the slots gets the packets that
   sendPacket wrote, in their order, up to the first write that stops inside a
   frame, for any number of packets of any bodies and whenever the slots are
   registered: the socket implements the FIFO. *)
THEOREM SocketImplementsFifo == SockSpec => FramesInOrder
<1>1. SockInit => Fifo!Init
  <2> SUFFICES ASSUME SockInit PROVE Fifo!Init
    OBVIOUS
  <2>1. Read = << >> /\ sockSent = << >> /\ Len(<< >>) = 0 /\ SubSeq(<< >>, 0 + 1, 0) = << >>
    BY SockInitInv DEF SockInit
  <2>2. QED BY <2>1 DEF Fifo!Init, Got
<1>2. SockInv /\ [SockNext]_sockVars => SockInv' /\ [Fifo!Next]_(Fifo!vars)
  <2> SUFFICES ASSUME SockInv, [SockNext]_sockVars PROVE SockInv' /\ [Fifo!Next]_(Fifo!vars)
    OBVIOUS
  <2>0. sockSent \in Seq(Body) /\ Read \in Seq(Seq(Byte)) /\ Len(Read) \in Nat /\ Len(sockSent) \in Nat
    BY ReadTyped DEF SockInv, SockTypeOK
  <2>1. ASSUME NEW body \in Body, sendPacket(body) PROVE SockInv' /\ [Fifo!Next]_(Fifo!vars)
    <3>1. SockInv' /\ Read' = Read
      BY <2>1, SendStep DEF sendPacket, sockRead, Read
    <3>2. CASE sockTorn
      BY <2>1, <3>1, <3>2 DEF sendPacket, Fifo!vars, Got
    <3>3. CASE ~sockTorn
      <4>1. Len(Read) <= Len(sockSent) /\ sockSent' = Append(sockSent, body)
        BY <2>1, <3>3 DEF SockInv, SockTypeOK, sendPacket
      <4>2. Len(sockSent') = Len(sockSent) + 1 /\ Len(Read) \in 0 .. Len(sockSent)
        BY <2>0, <4>1
      <4>3. Got = Read /\ Got' = Read
        BY <2>0, <3>1, <4>1, <4>2 DEF Got
      <4>4. Fifo!Put(body)
        BY <2>0, <3>1, <4>1, <4>2, <4>3, Waiting DEF Fifo!Put
      <4>5. QED BY <3>1, <4>4 DEF Fifo!Next
    <3>4. QED BY <3>2, <3>3
  <2>2. CASE readBody
    <3>1. SockInv' /\ sockSent' = sockSent
      BY <2>2, BodyStep
    <3>2. PICK packet \in Seq(Byte) :
            /\ Read' = Append(Read, packet)
            /\ Len(Read) < Len(sockSent) => packet = sockSent[Len(Read) + 1]
      BY <2>2, BodyStep
    <3>3. Len(Read') = Len(Read) + 1
      BY <2>0, <3>2
    <3>4. CASE Len(Read) < Len(sockSent)
      <4>1. Got = Read /\ Got' = Append(Read, sockSent[Len(Read) + 1])
        BY <2>0, <3>1, <3>2, <3>3, <3>4 DEF Got
      <4>2. Len(Read') + 1 = Len(Read) + 2 /\ Len(Read) \in 0 .. Len(sockSent)
        BY <2>0, <3>3, <3>4
      <4>3. Fifo!Get
        BY <2>0, <3>1, <3>4, <4>1, <4>2, Waiting DEF Fifo!Get
      <4>4. QED BY <3>1, <4>3 DEF Fifo!Next
    <3>5. CASE ~(Len(Read) < Len(sockSent))
      <4>1. Got' = Got
        <5>1. Got' = SubSeq(Read', 1, Len(sockSent))
          BY <2>0, <3>1, <3>3, <3>5 DEF Got
        <5>2. Len(sockSent) <= Len(Read)
          BY <2>0, <3>5
        <5>3. SubSeq(Append(Read, packet), 1, Len(sockSent))
                = IF Len(Read) <= Len(sockSent) THEN Read ELSE SubSeq(Read, 1, Len(sockSent))
          BY <2>0, <5>2, GotKept
        <5>4. QED BY <3>2, <5>1, <5>3 DEF Got
      <4>2. /\ SubSeq(sockSent, Len(Read) + 1, Len(sockSent)) = << >>
            /\ SubSeq(sockSent, Len(Read') + 1, Len(sockSent)) = << >>
        BY <2>0, <3>3, <3>5
      <4>3. QED BY <3>1, <4>1, <4>2 DEF Fifo!vars
    <3>6. QED BY <3>4, <3>5
  <2>3. CASE ReadSome \/ readHeader \/ \E body \in Body : SendFails(body)
    <3>1. SockInv' /\ UNCHANGED <<sockSent, Read>>
      BY <2>3, ReadStep, HeaderStep, CutStep
    <3>2. QED BY <3>1 DEF Fifo!vars, Got
  <2>4. CASE Break \/ ReadFails \/ registerQueuePacket \/ SlotsMove \/ UNCHANGED sockVars
    <3>1. SockInv' /\ UNCHANGED <<sockSent, Read>>
      BY <2>4, BreakStep
    <3>2. QED BY <3>1 DEF Fifo!vars, Got
  <2>5. QED BY <2>1, <2>2, <2>3, <2>4 DEF SockNext, SockReader
<1>3. SockInit => SockInv
  BY SockInitInv
<1>4. QED BY <1>1, <1>2, <1>3, PTL DEF SockSpec, FramesInOrder, Fifo!Spec

-----------------------------------------------------------------------------
(* GetTimeValueFromFormat: behind every item of the format the parser stands
   behind the item's characters and behind its text, and has the fields of the
   items before; the sequences that FlattenSeq joins say where the items lie. *)

(* off says where each of the sequences begins in flat, the sequences one behind
   the other. *)
OneBehindTheOther(seqs, flat, off) ==
  /\ off \in [0 .. Len(seqs) -> Nat] /\ off[0] = 0 /\ off[Len(seqs)] = Len(flat)
  /\ \A i \in 0 .. Len(seqs) : off[i] <= Len(flat)
  /\ \A i \in 1 .. Len(seqs) :
       /\ off[i] = off[i - 1] + Len(seqs[i])
       /\ \A k \in 1 .. Len(seqs[i]) : flat[off[i - 1] + k] = seqs[i][k]

(* FlattenSeq appends the sequences one after the other. *)
LEMMA FlattenSteps ==
  ASSUME NEW S, NEW seqs \in Seq(Seq(S)), Len(seqs) # 0
  PROVE  \E f \in [1 .. Len(seqs) -> Seq(S)] :
           /\ f[1] = seqs[1] /\ \A i \in 2 .. Len(seqs) : f[i] = f[i - 1] \o seqs[i]
           /\ FlattenSeq(seqs) = f[Len(seqs)]
<1>0. PICK n \in Nat \ {0} : n = Len(seqs)
  OBVIOUS
<1>. DEFINE Def(f) == [i \in 1 .. Len(seqs) |-> IF i = 1 THEN seqs[i] ELSE f[i - 1] \o seqs[i]]
            flatten == CHOOSE f : f = Def(f)
            g == [x \in Nat \X Seq(S) |->
                    IF x[1] + 2 <= n THEN x[2] \o seqs[x[1] + 2] ELSE x[2]]
<1>1. \A i \in 1 .. n : seqs[i] \in Seq(S)
  BY <1>0
<1>2. FlattenSeq(seqs) = flatten[n]
  BY <1>0 DEF FlattenSeq
<1>3. ASSUME NEW k \in Nat, NEW s \in Seq(S)
      PROVE  g[<<k, s>>] \in Seq(S) /\ (k + 2 <= n => g[<<k, s>>] = s \o seqs[k + 2])
  <2>1. CASE k + 2 <= n
    <3>1. seqs[k + 2] \in Seq(S)
      BY <2>1, <1>1
    <3>2. s \o seqs[k + 2] \in Seq(S)
      BY <3>1, ConcatProperties
    <3>. QED
      BY <2>1, <3>2
  <2>2. CASE ~(k + 2 <= n)
    BY <2>2
  <2>. QED
    BY <2>1, <2>2
<1>4. g \in [Nat \X Seq(S) -> Seq(S)]
  <2>1. ASSUME NEW x \in Nat \X Seq(S) PROVE g[x] \in Seq(S)
    <3>1. PICK k \in Nat, t \in Seq(S) : x = <<k, t>>
      OBVIOUS
    <3>. HIDE DEF g
    <3>. QED
      BY <3>1, <1>3
  <2>2. g = [x \in Nat \X Seq(S) |-> g[x]]
    OBVIOUS
  <2>3. DOMAIN g = Nat \X Seq(S)
    OBVIOUS
  <2>. HIDE DEF g
  <2>. QED
    BY <2>1, <2>2, <2>3
<1>. HIDE DEF g
<1>5. PICK f : Iterates(f, Seq(S), seqs[1], g)
  <2>1. seqs[1] \in Seq(S)
    BY <1>1
  <2>. QED
    BY <2>1, <1>4, NatRecursion, Zenon
<1>6. /\ f \in [Nat -> Seq(S)] /\ f[0] = seqs[1]
      /\ \A k \in Nat : k + 2 <= n => f[k + 1] = f[k] \o seqs[k + 2]
  <2>1. f \in [Nat -> Seq(S)] /\ f[0] = seqs[1] /\ \A k \in Nat : f[k + 1] = g[<<k, f[k]>>]
    BY <1>5 DEF Iterates
  <2>2. ASSUME NEW k \in Nat, k + 2 <= n PROVE f[k + 1] = f[k] \o seqs[k + 2]
    <3>1. f[k] \in Seq(S) /\ f[k + 1] = g[<<k, f[k]>>]
      BY <2>1
    <3>2. g[<<k, f[k]>>] = f[k] \o seqs[k + 2]
      BY <3>1, <2>2, <1>3
    <3>. QED
      BY <3>1, <3>2
  <2>. QED
    BY <2>1, <2>2
<1>. DEFINE w == [i \in 1 .. n |-> f[i - 1]]
<1>7. w \in [1 .. n -> Seq(S)] /\ w[1] = seqs[1]
  <2>1. f \in [Nat -> Seq(S)] /\ f[0] = seqs[1] /\ \A i \in 1 .. n : i - 1 \in Nat
    BY <1>6
  <2>2. \A i \in 1 .. n : w[i] \in Seq(S)
    BY <2>1
  <2>3. w[1] = seqs[1]
    <3>1. 1 \in 1 .. n /\ 1 - 1 = 0
      OBVIOUS
    <3>. QED
      BY <3>1, <2>1
  <2>. QED
    BY <2>2, <2>3
<1>8. ASSUME NEW i \in 2 .. n PROVE w[i] = w[i - 1] \o seqs[i]
  <2>1. i - 2 \in Nat /\ (i - 2) + 1 = i - 1 /\ (i - 2) + 2 = i /\ i - 1 \in 1 .. n /\ i \in 1 .. n
    BY <1>1
  <2>2. f[(i - 2) + 1] = f[i - 2] \o seqs[(i - 2) + 2]
    <3>1. i - 2 \in Nat /\ (i - 2) + 2 <= n
      BY <2>1
    <3>. QED
      BY <3>1, <1>6
  <2>3. w[i] = f[i - 1] /\ w[i - 1] = f[i - 2]
    BY <2>1
  <2>. QED
    BY <2>1, <2>2, <2>3
<1>. HIDE DEF w
<1>9. w = Def(w)
  <2>1. ASSUME NEW i \in 1 .. n PROVE w[i] = IF i = 1 THEN seqs[i] ELSE w[i - 1] \o seqs[i]
    <3>1. CASE i = 1
      BY <3>1, <1>7
    <3>2. CASE i # 1
      <4>1. i \in 2 .. n
        BY <3>2, <1>1
      <4>. QED
        BY <4>1, <3>2, <1>8
    <3>. QED
      BY <3>1, <3>2
  <2>. QED
    BY <2>1, <1>7, <1>0
<1>10. flatten = Def(flatten)
  BY <1>9, Zenon
<1>. HIDE DEF flatten
<1>11. flatten[1] = seqs[1] /\ \A i \in 2 .. n : flatten[i] = flatten[i - 1] \o seqs[i]
  <2>1. \A i \in 1 .. n : flatten[i] = IF i = 1 THEN seqs[i] ELSE flatten[i - 1] \o seqs[i]
    BY <1>10, <1>0
  <2>2. 1 \in 1 .. n /\ \A i \in 2 .. n : i \in 1 .. n /\ i # 1
    OBVIOUS
  <2>. HIDE DEF Def
  <2>. QED
    BY <2>1, <2>2, Zenon
<1>12. \A i \in 1 .. n : flatten[i] = w[i]
  <2>. DEFINE T == {k \in Nat : k + 1 <= n => flatten[k + 1] = w[k + 1]}
  <2>1. 0 \in T
    BY <1>7, <1>11
  <2>2. ASSUME NEW k \in Nat, k \in T PROVE k + 1 \in T
    <3>1. SUFFICES ASSUME (k + 1) + 1 <= n PROVE flatten[(k + 1) + 1] = w[(k + 1) + 1]
      BY <2>2
    <3>2. (k + 1) + 1 \in 2 .. n /\ ((k + 1) + 1) - 1 = k + 1
      BY <3>1, <1>1
    <3>3. flatten[k + 1] = w[k + 1]
      BY <3>1, <2>2
    <3>4. flatten[(k + 1) + 1] = flatten[k + 1] \o seqs[(k + 1) + 1]
      BY <3>2, <1>11
    <3>5. w[(k + 1) + 1] = w[k + 1] \o seqs[(k + 1) + 1]
      BY <3>2, <1>8
    <3>. QED
      BY <3>3, <3>4, <3>5
  <2>3. \A k \in Nat : k \in T
    <3>. HIDE DEF T
    <3>. QED
      BY <2>1, <2>2, SetInduction
  <2>4. ASSUME NEW i \in 1 .. n PROVE flatten[i] = w[i]
    <3>1. i - 1 \in Nat /\ (i - 1) + 1 = i /\ i <= n
      BY <1>1
    <3>2. i - 1 \in T
      BY <3>1, <2>3
    <3>. QED
      BY <3>1, <3>2
  <2>. QED
    BY <2>4
<1>13. FlattenSeq(seqs) = w[n]
  BY <1>2, <1>12, <1>1
<1>. QED
  BY <1>7, <1>8, <1>13, <1>0

(* Each sequence lies whole in the flat one, behind those before it. *)
LEMMA FlattenPositions ==
  ASSUME NEW S, NEW seqs \in Seq(Seq(S)), Len(seqs) # 0
  PROVE  FlattenSeq(seqs) \in Seq(S) /\ \E off : OneBehindTheOther(seqs, FlattenSeq(seqs), off)
<1>1. PICK f \in [1 .. Len(seqs) -> Seq(S)] :
        /\ f[1] = seqs[1] /\ \A i \in 2 .. Len(seqs) : f[i] = f[i - 1] \o seqs[i]
        /\ FlattenSeq(seqs) = f[Len(seqs)]
  BY FlattenSteps
<1>2. PICK n \in Nat \ {0} : n = Len(seqs)
  OBVIOUS
<1>3. ASSUME NEW i \in 1 .. n
      PROVE  f[i] \in Seq(S) /\ seqs[i] \in Seq(S) /\ Len(f[i]) \in Nat /\ Len(seqs[i]) \in Nat
  <2>1. f[i] \in Seq(S) /\ seqs[i] \in Seq(S)
    BY <1>2
  <2>. QED
    BY <2>1
<1>. DEFINE off == [i \in 0 .. n |-> IF i = 0 THEN 0 ELSE Len(f[i])]
            Begins(s, t) == Len(s) <= Len(t) /\ \A k \in 1 .. Len(s) : t[k] = s[k]
<1>4. ASSUME NEW i \in 2 .. n
      PROVE  /\ i \in 1 .. n /\ i - 1 \in 1 .. n
             /\ Len(f[i]) = Len(f[i - 1]) + Len(seqs[i])
             /\ \A k \in 1 .. Len(seqs[i]) : f[i][Len(f[i - 1]) + k] = seqs[i][k]
             /\ \A k \in 1 .. Len(f[i - 1]) : f[i][k] = f[i - 1][k]
  <2>1. i \in 1 .. n /\ i - 1 \in 1 .. n
    OBVIOUS
  <2>2. PICK a \in Seq(S), b \in Seq(S) : a = f[i - 1] /\ b = seqs[i]
    BY <2>1, <1>3
  <2>3. f[i] = a \o b
    BY <2>2, <1>1, <1>2
  <2>4. /\ Len(a \o b) = Len(a) + Len(b)
        /\ \A k \in 1 .. Len(b) : (a \o b)[Len(a) + k] = b[k]
        /\ \A k \in 1 .. Len(a) : (a \o b)[k] = a[k]
    OBVIOUS
  <2>. QED
    BY <2>1, <2>2, <2>3, <2>4
<1>5. ASSUME NEW i \in 1 .. n PROVE Begins(f[i], f[n])
  <2>. DEFINE T == {k \in Nat : i + k <= n => Begins(f[i], f[i + k])}
  <2>1. 0 \in T
    BY <1>3
  <2>2. ASSUME NEW k \in Nat, k \in T PROVE k + 1 \in T
    <3>1. SUFFICES ASSUME i + (k + 1) <= n PROVE Begins(f[i], f[i + (k + 1)])
      BY <2>2
    <3>2. i + (k + 1) \in 2 .. n /\ (i + (k + 1)) - 1 = i + k /\ i + k \in 1 .. n
      BY <3>1
    <3>3. Begins(f[i], f[i + k])
      BY <3>2, <2>2
    <3>4. PICK a, b : a = f[i + k] /\ b = f[i + (k + 1)]
      OBVIOUS
    <3>5. Len(f[i]) \in Nat /\ Len(a) \in Nat /\ Len(b) \in Nat
      BY <3>2, <3>4, <1>3
    <3>6. Begins(a, b)
      <4>1. i + (k + 1) \in 1 .. n /\ Len(seqs[i + (k + 1)]) \in Nat
        BY <3>2, <1>3
      <4>2. PICK e \in 2 .. n : e = i + (k + 1) /\ e - 1 = i + k
        BY <3>2
      <4>3. /\ Len(f[e]) = Len(f[e - 1]) + Len(seqs[e])
            /\ \A j \in 1 .. Len(f[e - 1]) : f[e][j] = f[e - 1][j]
        BY <1>4
      <4>4. Len(b) = Len(a) + Len(seqs[i + (k + 1)]) /\ \A j \in 1 .. Len(a) : b[j] = a[j]
        BY <4>2, <4>3, <3>4
      <4>. QED
        BY <4>1, <4>4, <3>5
    <3>. QED
      BY <3>3, <3>4, <3>5, <3>6
  <2>3. \A k \in Nat : k \in T
    <3>. HIDE DEF T
    <3>. QED
      BY <2>1, <2>2, SetInduction
  <2>4. n - i \in Nat /\ i + (n - i) = n
    OBVIOUS
  <2>5. n - i \in T
    BY <2>3, <2>4
  <2>. QED
    BY <2>4, <2>5
<1>. DEFINE flat == FlattenSeq(seqs)
<1>6. flat = f[n] /\ flat \in Seq(S)
  BY <1>1, <1>2, <1>3
<1>7. off \in [0 .. n -> Nat] /\ off[0] = 0 /\ off[n] = Len(f[n])
  BY <1>3
<1>8. \A i \in 0 .. n : off[i] <= Len(f[n])
  BY <1>3, <1>5
<1>9. ASSUME NEW i \in 1 .. n
      PROVE  /\ off[i] = off[i - 1] + Len(seqs[i])
             /\ \A k \in 1 .. Len(seqs[i]) : f[n][off[i - 1] + k] = seqs[i][k]
  <2>1. /\ off[i] = off[i - 1] + Len(seqs[i])
        /\ \A k \in 1 .. Len(seqs[i]) : f[i][off[i - 1] + k] = seqs[i][k]
    <3>1. CASE i = 1
      BY <3>1, <1>1, <1>3
    <3>2. CASE i # 1
      <4>1. i \in 2 .. n
        BY <3>2
      <4>2. off[i] = Len(f[i]) /\ off[i - 1] = Len(f[i - 1])
        BY <3>2
      <4>. HIDE DEF off
      <4>. QED
        BY <4>1, <4>2, <1>4
    <3>. QED
      BY <3>1, <3>2
  <2>2. off[i - 1] \in Nat /\ Len(seqs[i]) \in Nat /\ off[i] = Len(f[i])
    BY <1>3, <1>7
  <2>3. Begins(f[i], f[n])
    BY <1>5
  <2>4. ASSUME NEW k \in 1 .. Len(seqs[i]) PROVE f[n][off[i - 1] + k] = seqs[i][k]
    <3>1. off[i - 1] + k \in 1 .. Len(f[i])
      <4>. HIDE DEF off
      <4>. QED
        BY <2>1, <2>2
    <3>2. f[n][off[i - 1] + k] = f[i][off[i - 1] + k]
      <4>. HIDE DEF off
      <4>. QED
        BY <3>1, <2>3
    <3>. QED
      BY <3>2, <2>1
  <2>. QED
    BY <2>1, <2>4
<1>. HIDE DEF off, flat
<1>10. OneBehindTheOther(seqs, flat, off)
  BY <1>2, <1>6, <1>7, <1>8, <1>9 DEF OneBehindTheOther
<1>. QED
  BY <1>6, <1>10 DEF flat

(* A character of a text, and a state of the parser. *)
Glyph ==
  {c \in [of : Directives \cup {"literal"}, at : Nat, value : Nat \cup {"AM", "PM"}] :
     c.of # "p" => c.value \in Nat}
ParserState == [date : [Field -> Int], idx : Nat, pos : Nat]
TestLetter == {"Y", "m", "d", "H", "p", "I", "M", "S"}

(* _wtoi gives a number. *)
LEMMA WtoiType ==
  ASSUME NEW text \in Seq(Glyph), NEW at \in Nat, NEW width \in Nat
  PROVE  Wtoi(text, at, width) \in Int
<1>1. CASE at < Len(text)
  <2>1. text[at + 1] \in Glyph
    BY <1>1
  <2>2. PICK c \in Glyph : c = text[at + 1]
    BY <2>1
  <2>3. c.of # "p" => c.value \in Nat
    BY DEF Glyph
  <2>. QED
    BY <1>1, <2>2, <2>3 DEF Wtoi, Garbage
<1>2. CASE ~(at < Len(text))
  BY <1>2 DEF Wtoi, Garbage
<1>. QED
  BY <1>1, <1>2

(* A test that holds goes on by one character of the format and by the width of
   its field, less the one that the end of the round adds. *)
LEMMA TakeFieldType ==
  ASSUME NEW text \in Seq(Glyph), NEW letter \in TestLetter, NEW st \in ParserState
  PROVE  /\ TakeField(text, letter, st) \in ParserState
         /\ TakeField(text, letter, st).pos = st.pos + 1
         /\ TakeField(text, letter, st).idx = st.idx + Width(letter) - 1
<1>1. PICK date \in [Field -> Int], at \in Nat, pos \in Nat :
        st.date = date /\ st.idx = at /\ st.pos = pos
  BY DEF ParserState
<1>2. Width(letter) \in Nat /\ Width(letter) >= 2
  BY DEF Width
<1>3. PICK v \in Int : v = Wtoi(text, at, Width(letter))
  BY <1>2, WtoiType
<1>. DEFINE isPM == at + 2 < Len(text) /\ text[at + 1].of = "p" /\ text[at + 1].value = "PM"
            new == CASE letter = "I" -> [date EXCEPT !.H = @ + v]
                     [] letter = "p" -> [date EXCEPT !.H = IF isPM THEN @ + 12 ELSE @]
                     [] OTHER -> [date EXCEPT ![letter] = v]
<1>4. TakeField(text, letter, st) = [date |-> new, idx |-> at + Width(letter) - 1, pos |-> pos + 1]
  BY <1>1, <1>3 DEF TakeField
<1>5. new \in [Field -> Int]
  <2>1. date["H"] \in Int
    BY DEF Field
  <2>2. CASE letter = "I"
    <3>1. [date EXCEPT !.H = @ + v] \in [Field -> Int]
      BY <2>1
    <3>. QED
      BY <2>2, <3>1
  <2>3. CASE letter = "p"
    <3>1. [date EXCEPT !.H = IF isPM THEN @ + 12 ELSE @] \in [Field -> Int]
      BY <2>1
    <3>. QED
      BY <2>3, <3>1
  <2>4. CASE letter \notin {"I", "p"}
    <3>1. [date EXCEPT ![letter] = v] \in [Field -> Int]
      OBVIOUS
    <3>. QED
      BY <2>4, <3>1
  <2>. QED
    BY <2>2, <2>3, <2>4
<1>6. at + Width(letter) - 1 \in Nat /\ pos + 1 \in Nat
  BY <1>2
<1>. HIDE DEF new
<1>. QED
  BY <1>1, <1>4, <1>5, <1>6 DEF ParserState

(* The tests are for different letters, one for each that a directive has. *)
LEMMA TestsAre ==
  /\ DOMAIN Tests = 1 .. 8 /\ \A i \in 1 .. 8 : Tests[i] \in TestLetter
  /\ \A i, j \in 1 .. 8 : Tests[i] = Tests[j] => i = j
  /\ \A l \in TestLetter : \E i \in 1 .. 8 : Tests[i] = l
BY DEF Tests, TestLetter

(* What one test makes of a state. *)
OneTest(text, fmt, letter, st) ==
  IF CharAt(fmt, st.pos + 1) = letter THEN TakeField(text, letter, st) ELSE st

(* d is what the tests behind a % make of st, one after the other. *)
TestedBy(d, text, fmt, st) ==
  /\ d \in [0 .. 8 -> ParserState] /\ d[0] = st /\ AfterPercent(text, fmt, st) = d[8]
  /\ \A k \in 0 .. 7 : d[k + 1] = OneTest(text, fmt, Tests[k + 1], d[k])

(* The tests behind a % are made in their order. *)
LEMMA TestRuns ==
  ASSUME NEW text \in Seq(Glyph), NEW fmt, NEW st \in ParserState
  PROVE  \E d : TestedBy(d, text, fmt, st)
<1>. DEFINE Def(it) == [s \in SUBSET DOMAIN Tests |->
                          IF s = {} THEN st
                          ELSE IF CharAt(fmt, it[s \ {Max(s)}].pos + 1) = Tests[Max(s)]
                               THEN TakeField(text, Tests[Max(s)], it[s \ {Max(s)}])
                               ELSE it[s \ {Max(s)}]]
            iter == CHOOSE it : it = Def(it)
            h == [x \in ParserState \X (1 .. 8) |-> OneTest(text, fmt, Tests[x[2]], x[1])]
<1>1. AfterPercent(text, fmt, st) = iter[DOMAIN Tests]
  BY DEF AfterPercent, FoldLeft, MapThenFoldSet
<1>2. PICK g \in [ParserState \X (1 .. 8) -> ParserState] :
        \A s \in ParserState, k \in 1 .. 8 : g[<<s, k>>] = OneTest(text, fmt, Tests[k], s)
  <2>1. ASSUME NEW s \in ParserState, NEW k \in 1 .. 8
        PROVE  OneTest(text, fmt, Tests[k], s) \in ParserState
    <3>1. Tests[k] \in TestLetter
      BY TestsAre
    <3>2. TakeField(text, Tests[k], s) \in ParserState
      BY <3>1, TakeFieldType
    <3>. QED
      BY <3>2 DEF OneTest
  <2>2. h \in [ParserState \X (1 .. 8) -> ParserState]
    BY <2>1
  <2>3. \A s \in ParserState, k \in 1 .. 8 : h[<<s, k>>] = OneTest(text, fmt, Tests[k], s)
    OBVIOUS
  <2>. HIDE DEF h
  <2>. QED
    BY <2>2, <2>3
<1>3. PICK it : IsFold(it, 8, ParserState, st, g)
  BY FoldExists, Zenon
<1>4. DOMAIN Tests = 1 .. 8
  BY TestsAre
<1>5. it = Def(it)
  <2>1. ASSUME NEW s \in SUBSET (1 .. 8), s # {}
        PROVE  it[s] = IF CharAt(fmt, it[s \ {Max(s)}].pos + 1) = Tests[Max(s)]
                       THEN TakeField(text, Tests[Max(s)], it[s \ {Max(s)}])
                       ELSE it[s \ {Max(s)}]
    <3>1. Max(s) \in 1 .. 8 /\ s \ {Max(s)} \in SUBSET (1 .. 8)
      BY <2>1, MaxIs
    <3>2. it[s \ {Max(s)}] \in ParserState
      BY <3>1, <1>3 DEF IsFold
    <3>3. it[s] = g[<<it[s \ {Max(s)}], Max(s)>>]
      BY <2>1, <1>3 DEF IsFold
    <3>4. it[s] = OneTest(text, fmt, Tests[Max(s)], it[s \ {Max(s)}])
      BY <3>1, <3>2, <3>3, <1>2
    <3>. QED
      BY <3>4 DEF OneTest
  <2>2. it[{}] = st /\ it \in [SUBSET (1 .. 8) -> ParserState]
    BY <1>3 DEF IsFold
  <2>. QED
    BY <2>1, <2>2, <1>4
<1>6. iter = Def(iter)
  BY <1>5, Zenon
<1>. HIDE DEF iter
<1>7. iter[{}] = st
  BY <1>6
<1>8. ASSUME NEW s \in SUBSET (1 .. 8), s # {}, iter[s \ {Max(s)}] \in ParserState
      PROVE  iter[s] = g[<<iter[s \ {Max(s)}], Max(s)>>]
  <2>1. Max(s) \in 1 .. 8
    BY <1>8, MaxIs
  <2>2. iter[s] = OneTest(text, fmt, Tests[Max(s)], iter[s \ {Max(s)}])
    BY <1>6, <1>4, <1>8 DEF OneTest
  <2>. QED
    BY <2>1, <2>2, <1>8, <1>2
<1>. HIDE DEF Def
<1>9. PICK d : RunsTo(d, 8, ParserState, st, g, iter[1 .. 8])
  <2>1. FoldsLike(iter, 8, ParserState, st, g)
    BY <1>7, <1>8 DEF FoldsLike
  <2>2. 8 \in Nat
    OBVIOUS
  <2>. QED
    BY <2>1, <2>2, FoldRuns, Zenon
<1>10. d \in [0 .. 8 -> ParserState] /\ d[0] = st /\ d[8] = iter[1 .. 8] /\ \A k \in 0 .. 7 : d[k + 1] = g[<<d[k], k + 1>>]
  BY <1>9 DEF RunsTo
<1>11. ASSUME NEW k \in 0 .. 7 PROVE d[k + 1] = OneTest(text, fmt, Tests[k + 1], d[k])
  <2>1. d[k] \in ParserState /\ k + 1 \in 1 .. 8
    BY <1>10
  <2>. QED
    BY <2>1, <1>2, <1>10
<1>12. AfterPercent(text, fmt, st) = d[8]
  BY <1>1, <1>4, <1>10
<1>13. TestedBy(d, text, fmt, st)
  BY <1>10, <1>11, <1>12 DEF TestedBy
<1>. QED
  BY <1>13

(* Of the tests behind a % exactly the one for the directive there holds. *)
LEMMA OneDirective ==
  ASSUME NEW text \in Seq(Glyph), NEW fmt, NEW st \in ParserState, NEW m \in 1 .. 8,
         CharAt(fmt, st.pos + 1) = Tests[m],
         \A i \in m + 1 .. 8 : CharAt(fmt, st.pos + 2) # Tests[i]
  PROVE  AfterPercent(text, fmt, st) = TakeField(text, Tests[m], st)
<1>0. PICK d : TestedBy(d, text, fmt, st)
  BY TestRuns, Zenon
<1>1. /\ d \in [0 .. 8 -> ParserState] /\ d[0] = st /\ AfterPercent(text, fmt, st) = d[8]
      /\ \A k \in 0 .. 7 : d[k + 1] = OneTest(text, fmt, Tests[k + 1], d[k])
  BY <1>0 DEF TestedBy
<1>. DEFINE new == TakeField(text, Tests[m], st)
            S == {k \in Nat : k <= 8 => d[k] = IF k < m THEN st ELSE new}
<1>2. new.pos + 1 = st.pos + 2
  <2>1. Tests[m] \in TestLetter
    BY TestsAre
  <2>2. new.pos = st.pos + 1
    BY <2>1, TakeFieldType
  <2>3. st.pos \in Nat
    BY DEF ParserState
  <2>. HIDE DEF new
  <2>. QED
    BY <2>2, <2>3
<1>3. 0 \in S
  BY <1>1
<1>4. ASSUME NEW k \in Nat, k \in S PROVE k + 1 \in S
  <2>1. SUFFICES ASSUME k + 1 <= 8 PROVE d[k + 1] = IF k + 1 < m THEN st ELSE new
    OBVIOUS
  <2>2. d[k] = (IF k < m THEN st ELSE new) /\ d[k + 1] = OneTest(text, fmt, Tests[k + 1], d[k])
    BY <2>1, <1>1, <1>4
  <2>3. CASE k + 1 < m
    <3>1. Tests[k + 1] # Tests[m]
      BY <2>1, <2>3, TestsAre
    <3>. QED
      BY <3>1, <2>2, <2>3 DEF OneTest
  <2>4. CASE k + 1 = m
    BY <2>2, <2>4 DEF OneTest
  <2>5. CASE k + 1 > m
    <3>1. k + 1 \in m + 1 .. 8 /\ d[k] = new
      BY <2>1, <2>2, <2>5
    <3>2. CharAt(fmt, new.pos + 1) # Tests[k + 1]
      BY <3>1, <1>2
    <3>. HIDE DEF new
    <3>. QED
      BY <3>1, <3>2, <2>2, <2>5 DEF OneTest
  <2>. QED
    BY <2>3, <2>4, <2>5
<1>5. \A k \in Nat : k \in S
  <2>. HIDE DEF S
  <2>. QED
    BY <1>3, <1>4, SetInduction
<1>6. d[8] = new
  BY <1>5
<1>. QED
  BY <1>1, <1>6

(* What the loop starts from. *)
Start == [date |-> NoDate, idx |-> 0, pos |-> 0]

(* One round of the loop over the positions of the format. *)
OneRound(text, fmt, p, st) == IF st.pos = p THEN OneChar(text, fmt, st) ELSE st

(* A round leaves a state of the parser. *)
LEMMA OneCharType ==
  ASSUME NEW text \in Seq(Glyph), NEW fmt, NEW st \in ParserState
  PROVE  OneChar(text, fmt, st) \in ParserState
<1>1. PICK s \in ParserState :
        s = IF CharAt(fmt, st.pos) = "%" THEN AfterPercent(text, fmt, st) ELSE st
  <2>1. AfterPercent(text, fmt, st) \in ParserState
    BY TestRuns DEF TestedBy
  <2>. QED
    BY <2>1
<1>2. OneChar(text, fmt, st) = [s EXCEPT !.idx = @ + 1, !.pos = @ + 1]
  BY <1>1 DEF OneChar
<1>3. PICK date \in [Field -> Int], at \in Nat, pos \in Nat :
        s = [date |-> date, idx |-> at, pos |-> pos]
  BY DEF ParserState
<1>4. OneChar(text, fmt, st) = [date |-> date, idx |-> at + 1, pos |-> pos + 1]
  BY <1>2, <1>3
<1>. QED
  BY <1>4 DEF ParserState

(* d is the parser's state before each position of the format and behind the last. *)
ReadBy(d, text, fmt, n) ==
  /\ d \in [0 .. n -> ParserState] /\ d[0] = Start
  /\ ReadDate(text, fmt) = d[n].date
  /\ \A k \in 0 .. n - 1 : d[k + 1] = OneRound(text, fmt, k, d[k])

(* The loop goes through the positions of the format in their order. *)
LEMMA LoopRuns ==
  ASSUME NEW text \in Seq(Glyph), NEW fmt, NEW n \in Nat, Len(fmt) = n
  PROVE  \E d : ReadBy(d, text, fmt, n)
<1>. DEFINE seq == [p \in 1 .. Len(fmt) |-> p - 1]
            Def(it) == [s \in SUBSET DOMAIN seq |->
                          IF s = {} THEN [date |-> NoDate, idx |-> 0, pos |-> 0]
                          ELSE IF it[s \ {Max(s)}].pos = seq[Max(s)]
                               THEN OneChar(text, fmt, it[s \ {Max(s)}])
                               ELSE it[s \ {Max(s)}]]
            iter == CHOOSE it : it = Def(it)
            h == [x \in ParserState \X (1 .. n) |-> OneRound(text, fmt, x[2] - 1, x[1])]
<1>1. ReadDate(text, fmt) = iter[DOMAIN seq].date
  BY DEF ReadDate, FoldLeft, MapThenFoldSet
<1>2. PICK g \in [ParserState \X (1 .. n) -> ParserState] :
        \A s \in ParserState, k \in 1 .. n : g[<<s, k>>] = OneRound(text, fmt, k - 1, s)
  <2>1. ASSUME NEW s \in ParserState, NEW k \in 1 .. n
        PROVE  OneRound(text, fmt, k - 1, s) \in ParserState
    BY OneCharType DEF OneRound
  <2>2. h \in [ParserState \X (1 .. n) -> ParserState]
    BY <2>1
  <2>3. \A s \in ParserState, k \in 1 .. n : h[<<s, k>>] = OneRound(text, fmt, k - 1, s)
    OBVIOUS
  <2>. HIDE DEF h
  <2>. QED
    BY <2>2, <2>3
<1>3. Start \in ParserState
  BY DEF Start, ParserState, NoDate, Field
<1>4. DOMAIN seq = 1 .. n /\ \A k \in 1 .. n : seq[k] = k - 1
  OBVIOUS
<1>5. PICK it : IsFold(it, n, ParserState, Start, g)
  BY <1>3, FoldExists, Zenon
<1>. HIDE DEF seq
<1>6. it = Def(it)
  <2>1. ASSUME NEW s \in SUBSET (1 .. n), s # {}
        PROVE  it[s] = IF it[s \ {Max(s)}].pos = seq[Max(s)]
                       THEN OneChar(text, fmt, it[s \ {Max(s)}])
                       ELSE it[s \ {Max(s)}]
    <3>1. Max(s) \in 1 .. n /\ s \ {Max(s)} \in SUBSET (1 .. n)
      BY <2>1, MaxIs
    <3>2. it[s \ {Max(s)}] \in ParserState
      BY <3>1, <1>5 DEF IsFold
    <3>3. it[s] = g[<<it[s \ {Max(s)}], Max(s)>>]
      BY <2>1, <1>5 DEF IsFold
    <3>4. it[s] = OneRound(text, fmt, Max(s) - 1, it[s \ {Max(s)}])
      BY <3>1, <3>2, <3>3, <1>2
    <3>5. seq[Max(s)] = Max(s) - 1
      BY <3>1, <1>4
    <3>. QED
      BY <3>4, <3>5 DEF OneRound
  <2>2. it[{}] = Start /\ it \in [SUBSET (1 .. n) -> ParserState]
    BY <1>5 DEF IsFold
  <2>. QED
    BY <2>1, <2>2, <1>4 DEF Start
<1>7. iter = Def(iter)
  BY <1>6, Zenon
<1>. HIDE DEF iter
<1>8. FoldsLike(iter, n, ParserState, Start, g)
  <2>1. iter[{}] = Start
    BY <1>7 DEF Start
  <2>2. ASSUME NEW s \in SUBSET (1 .. n), s # {}, iter[s \ {Max(s)}] \in ParserState
        PROVE  iter[s] = g[<<iter[s \ {Max(s)}], Max(s)>>]
    <3>1. Max(s) \in 1 .. n
      BY <2>2, MaxIs
    <3>2. seq[Max(s)] = Max(s) - 1
      BY <3>1, <1>4
    <3>3. iter[s] = OneRound(text, fmt, Max(s) - 1, iter[s \ {Max(s)}])
      BY <1>7, <1>4, <2>2, <3>2 DEF OneRound
    <3>. QED
      BY <3>1, <3>3, <2>2, <1>2
  <2>. HIDE DEF Def
  <2>. QED
    BY <2>1, <2>2 DEF FoldsLike
<1>. HIDE DEF Def
<1>9. PICK d : RunsTo(d, n, ParserState, Start, g, iter[1 .. n])
  BY <1>3, <1>8, FoldRuns, Zenon
<1>10. /\ d \in [0 .. n -> ParserState] /\ d[0] = Start /\ d[n] = iter[1 .. n]
       /\ \A k \in 0 .. n - 1 : d[k + 1] = g[<<d[k], k + 1>>]
  BY <1>9 DEF RunsTo
<1>11. ASSUME NEW k \in 0 .. n - 1 PROVE d[k + 1] = OneRound(text, fmt, k, d[k])
  <2>1. d[k] \in ParserState /\ k + 1 \in 1 .. n /\ (k + 1) - 1 = k
    BY <1>10
  <2>2. g[<<d[k], k + 1>>] = OneRound(text, fmt, (k + 1) - 1, d[k])
    BY <2>1, <1>2
  <2>. QED
    BY <2>1, <2>2, <1>10
<1>12. ReadDate(text, fmt) = d[n].date
  BY <1>1, <1>4, <1>10
<1>13. ReadBy(d, text, fmt, n)
  BY <1>10, <1>11, <1>12 DEF ReadBy
<1>. QED
  BY <1>13

(* The two kinds of items. *)
IsDirective(item, letter) == item = [kind |-> "directive", letter |-> letter]
IsLiteral(item) == item.kind = "literal" /\ item.letter # "%"

(* There are no others. *)
LEMMA ItemKinds ==
  ASSUME NEW item \in Item
  PROVE  \/ IsLiteral(item) /\ item.letter \in Literals
         \/ \E l \in Directives : IsDirective(item, l)
<1>1. CASE item \in [kind : {"directive"}, letter : Directives]
  <2>1. item = [kind |-> "directive", letter |-> item.letter] /\ item.letter \in Directives
    BY <1>1
  <2>. QED
    BY <2>1 DEF IsDirective
<1>2. CASE item \in [kind : {"literal"}, letter : Literals]
  BY <1>2, DateTimeAssumption DEF IsLiteral
<1>. QED
  BY <1>1, <1>2 DEF Item

(* What the assumptions say of a date, and what wcsftime shows of it. *)
LEMMA DateFacts ==
  ASSUME NEW date \in Dates
  PROVE  /\ date \in [Field -> Nat] /\ date["H"] < 24 /\ date["H"] = date.H
         /\ \A l \in TestLetter : l # "p" => Shown(l, date) \in Nat
         /\ Shown("p", date) = IF date.H < 12 THEN "AM" ELSE "PM"
         /\ \A l \in Field : Shown(l, date) = date[l]
<1>1. date \in [Field -> Nat] /\ date["H"] < 24 /\ date["H"] \in Nat /\ date["H"] = date.H
  BY DateTimeAssumption DEF Field
<1>2. \A h \in Nat : ((h + 11) % 12) + 1 \in Nat
  OBVIOUS
<1>3. \A l \in Field : date[l] \in Nat
  BY <1>1
<1>. QED
  BY <1>1, <1>2, <1>3 DEF Shown, TestLetter, Field

(* Where the items of a format lie in its characters and in the text. *)
Layout(format, date, c, t) ==
  LET n == Len(format)
      fmt == Chars(format)
      text == Wcsftime(date, format)
  IN /\ text \in Seq(Glyph)
     /\ c \in [0 .. n -> Nat] /\ c[0] = 0 /\ c[n] = Len(fmt)
     /\ t \in [0 .. n -> Nat] /\ t[0] = 0 /\ t[n] = Len(text)
     /\ \A i \in 0 .. n : c[i] <= Len(fmt) /\ t[i] <= Len(text)
     /\ \A i \in 1 .. n : IsLiteral(format[i]) =>
          c[i] = c[i - 1] + 1 /\ t[i] = t[i - 1] + 1 /\ fmt[c[i - 1] + 1] = format[i].letter
     /\ \A i \in 1 .. n : \A l \in Directives : IsDirective(format[i], l) =>
          /\ c[i] = c[i - 1] + 2 /\ t[i] = t[i - 1] + Width(l)
          /\ fmt[c[i - 1] + 1] = "%" /\ fmt[c[i - 1] + 2] = l
          /\ \A k \in 1 .. Width(l) :
               text[t[i - 1] + k] = [of |-> l, at |-> k, value |-> Shown(l, date)]

(* The items of a format lie one behind the other, in it and in the text. *)
LEMMA FormatLaid ==
  ASSUME NEW n \in Nat \ {0}, NEW format \in FormatOf(n), NEW date \in Dates
  PROVE  Len(format) = n /\ \E c, t : Layout(format, date, c, t)
<1>. DEFINE CharsOf(item) == IF item.kind = "literal" THEN <<item.letter>> ELSE <<"%", item.letter>>
            Letters == Directives \cup Literals \cup {"%"}
            cs == [j \in DOMAIN format |-> CharsOf(format[j])]
            ts == [j \in DOMAIN format |-> TextOf(format[j], date)]
<1>1. format \in [1 .. n -> Item] /\ DOMAIN format = 1 .. n /\ Len(format) = n
  BY DEF FormatOf
<1>2. ASSUME NEW item, IsLiteral(item), item.letter \in Literals
      PROVE  /\ CharsOf(item) \in Seq(Letters) /\ Len(CharsOf(item)) = 1
             /\ CharsOf(item)[1] = item.letter
             /\ TextOf(item, date) \in Seq(Glyph) /\ Len(TextOf(item, date)) = 1
  <2>1. CharsOf(item) = <<item.letter>> /\ TextOf(item, date) = <<[of |-> "literal", at |-> 1, value |-> 0]>>
    BY <1>2 DEF IsLiteral, TextOf
  <2>2. [of |-> "literal", at |-> 1, value |-> 0] \in Glyph
    BY DEF Glyph
  <2>. HIDE DEF CharsOf
  <2>. QED
    BY <2>1, <2>2, <1>2
<1>3. ASSUME NEW item, NEW l \in Directives, IsDirective(item, l)
      PROVE  /\ CharsOf(item) \in Seq(Letters) /\ Len(CharsOf(item)) = 2
             /\ CharsOf(item)[1] = "%" /\ CharsOf(item)[2] = l
             /\ TextOf(item, date) \in Seq(Glyph) /\ Len(TextOf(item, date)) = Width(l)
             /\ \A k \in 1 .. Width(l) :
                  TextOf(item, date)[k] = [of |-> l, at |-> k, value |-> Shown(l, date)]
  <2>1. item.kind = "directive" /\ item.letter = l
    BY <1>3 DEF IsDirective
  <2>2. CharsOf(item) = <<"%", l>>
    BY <2>1
  <2>3. TextOf(item, date) = [k \in 1 .. Width(l) |-> [of |-> l, at |-> k, value |-> Shown(l, date)]]
    BY <2>1 DEF TextOf
  <2>4. Width(l) \in Nat
    BY DEF Width
  <2>5. ASSUME NEW k \in 1 .. Width(l)
        PROVE  [of |-> l, at |-> k, value |-> Shown(l, date)] \in Glyph
    <3>1. l \in TestLetter
      BY DateTimeAssumption DEF TestLetter
    <3>2. Shown(l, date) \in Nat \cup {"AM", "PM"} /\ (l # "p" => Shown(l, date) \in Nat)
      BY <3>1, DateFacts
    <3>3. k \in Nat
      BY <2>4
    <3>. QED
      BY <3>2, <3>3 DEF Glyph
  <2>6. TextOf(item, date) \in Seq(Glyph) /\ Len(TextOf(item, date)) = Width(l)
    BY <2>3, <2>4, <2>5
  <2>7. <<"%", l>> \in Seq(Letters) /\ Len(<<"%", l>>) = 2
    OBVIOUS
  <2>. HIDE DEF CharsOf, Letters
  <2>8. CharsOf(item)[1] = "%" /\ CharsOf(item)[2] = l
    BY <2>2
  <2>9. \A k \in 1 .. Width(l) :
          TextOf(item, date)[k] = [of |-> l, at |-> k, value |-> Shown(l, date)]
    BY <2>3
  <2>. QED
    BY <2>2, <2>6, <2>7, <2>8, <2>9, Zenon
<1>4. \A i \in 1 .. n : CharsOf(format[i]) \in Seq(Letters) /\ TextOf(format[i], date) \in Seq(Glyph)
  <2>. HIDE DEF CharsOf, Letters
  <2>. QED
    BY <1>1, <1>2, <1>3, ItemKinds
<1>5. cs \in Seq(Seq(Letters)) /\ Len(cs) = n /\ \A i \in 1 .. n : cs[i] = CharsOf(format[i])
  <2>. HIDE DEF CharsOf, Letters
  <2>. QED
    BY <1>1, <1>4
<1>6. ts \in Seq(Seq(Glyph)) /\ Len(ts) = n /\ \A i \in 1 .. n : ts[i] = TextOf(format[i], date)
  <2>. HIDE DEF CharsOf, Letters
  <2>. QED
    BY <1>1, <1>4
<1>7. Chars(format) = FlattenSeq(cs) /\ Wcsftime(date, format) = FlattenSeq(ts)
  BY DEF Chars, Wcsftime
<1>. HIDE DEF cs, ts, CharsOf, Letters
<1>8. PICK c : OneBehindTheOther(cs, FlattenSeq(cs), c)
  BY <1>5, FlattenPositions
<1>9. FlattenSeq(ts) \in Seq(Glyph) /\ \E t : OneBehindTheOther(ts, FlattenSeq(ts), t)
  BY <1>6, FlattenPositions
<1>10. PICK t : OneBehindTheOther(ts, FlattenSeq(ts), t)
  BY <1>9
<1>11. PICK fmt : fmt = Chars(format) /\ fmt = FlattenSeq(cs)
  BY <1>7
<1>12. PICK text \in Seq(Glyph) : text = Wcsftime(date, format) /\ text = FlattenSeq(ts)
  BY <1>7, <1>9
<1>13. /\ c \in [0 .. n -> Nat] /\ c[0] = 0 /\ c[n] = Len(fmt)
       /\ \A i \in 0 .. n : c[i] <= Len(fmt)
       /\ \A i \in 1 .. n :
            /\ c[i] = c[i - 1] + Len(cs[i])
            /\ \A k \in 1 .. Len(cs[i]) : fmt[c[i - 1] + k] = cs[i][k]
  BY <1>5, <1>8, <1>11 DEF OneBehindTheOther
<1>14. /\ t \in [0 .. n -> Nat] /\ t[0] = 0 /\ t[n] = Len(text)
       /\ \A i \in 0 .. n : t[i] <= Len(text)
       /\ \A i \in 1 .. n :
            /\ t[i] = t[i - 1] + Len(ts[i])
            /\ \A k \in 1 .. Len(ts[i]) : text[t[i - 1] + k] = ts[i][k]
  BY <1>6, <1>10, <1>12 DEF OneBehindTheOther
<1>15. ASSUME NEW i \in 1 .. n, IsLiteral(format[i])
       PROVE  c[i] = c[i - 1] + 1 /\ t[i] = t[i - 1] + 1 /\ fmt[c[i - 1] + 1] = format[i].letter
  <2>1. format[i].letter \in Literals
    <3>1. format[i] \in Item
      BY <1>1
    <3>2. \A l \in Directives : ~IsDirective(format[i], l)
      BY <1>15 DEF IsLiteral, IsDirective
    <3>. QED
      BY <3>1, <3>2, ItemKinds
  <2>2. Len(cs[i]) = 1 /\ cs[i][1] = format[i].letter /\ Len(ts[i]) = 1
    BY <2>1, <1>2, <1>15, <1>5, <1>6
  <2>3. 1 \in 1 .. Len(cs[i])
    BY <2>2
  <2>. QED
    BY <2>2, <2>3, <1>13, <1>14
<1>16. ASSUME NEW i \in 1 .. n, NEW l \in Directives, IsDirective(format[i], l)
       PROVE  /\ c[i] = c[i - 1] + 2 /\ t[i] = t[i - 1] + Width(l)
              /\ fmt[c[i - 1] + 1] = "%" /\ fmt[c[i - 1] + 2] = l
              /\ \A k \in 1 .. Width(l) :
                   text[t[i - 1] + k] = [of |-> l, at |-> k, value |-> Shown(l, date)]
  <2>1. Len(cs[i]) = 2 /\ cs[i][1] = "%" /\ cs[i][2] = l /\ Len(ts[i]) = Width(l)
    BY <1>3, <1>16, <1>5, <1>6
  <2>2. \A k \in 1 .. Width(l) : ts[i][k] = [of |-> l, at |-> k, value |-> Shown(l, date)]
    BY <1>3, <1>16, <1>6
  <2>3. 1 \in 1 .. Len(cs[i]) /\ 2 \in 1 .. Len(cs[i])
    BY <2>1
  <2>4. fmt[c[i - 1] + 1] = "%" /\ fmt[c[i - 1] + 2] = l
    BY <2>1, <2>3, <1>13
  <2>5. c[i] = c[i - 1] + 2 /\ t[i] = t[i - 1] + Width(l)
    BY <2>1, <1>13, <1>14
  <2>6. \A k \in 1 .. Width(l) : text[t[i - 1] + k] = ts[i][k]
    BY <2>1, <1>14
  <2>. QED
    BY <2>2, <2>4, <2>5, <2>6
<1>17. Layout(format, date, c, t)
  <2>1. Len(format) = n
    BY <1>1
  <2>. QED
    BY <2>1, <1>11, <1>12, <1>13, <1>14, <1>15, <1>16 DEF Layout
<1>. QED
  BY <1>1, <1>17

(* _wtoi finds the value of a field that begins where it reads. *)
LEMMA FieldRead ==
  ASSUME NEW text \in Seq(Glyph), NEW at \in Nat, NEW l \in TestLetter, NEW v,
         l # "p", at + Width(l) <= Len(text),
         \A k \in 1 .. Width(l) : text[at + k] = [of |-> l, at |-> k, value |-> v]
  PROVE  Wtoi(text, at, Width(l)) = v
<1>1. Width(l) \in Nat /\ Width(l) >= 1
  BY DEF Width
<1>2. text[at + 1] = [of |-> l, at |-> 1, value |-> v]
  BY <1>1
<1>3. at < Len(text) /\ Len(text) \in Nat
  BY <1>1
<1>4. text[at + 1].of = l /\ text[at + 1].at = 1 /\ text[at + 1].value = v
  BY <1>2
<1>5. ASSUME NEW k \in 1 .. Width(l) PROVE text[at + k].of = l
  <2>1. text[at + k] = [of |-> l, at |-> k, value |-> v]
    OBVIOUS
  <2>. QED
    BY <2>1
<1>6. WholeField(text, at, Width(l))
  BY <1>4, <1>5 DEF WholeField
<1>7. l \notin {"literal", "p"}
  BY DEF TestLetter
<1>. QED
  BY <1>3, <1>4, <1>6, <1>7 DEF Wtoi

(* The date that has been read when the first j items are behind the parser. *)
Seen(format, j, l) == \E i \in 1 .. j : IsDirective(format[i], l)
HourSoFar(format, j, date) ==
  IF Seen(format, j, "H") THEN date["H"]
  ELSE (IF Seen(format, j, "I") THEN Shown("I", date) ELSE 0)
       + (IF Seen(format, j, "p") /\ date["H"] >= 12 THEN 12 ELSE 0)
DateSoFar(format, j, date) ==
  [f \in Field |-> IF f = "H" THEN HourSoFar(format, j, date)
                   ELSE IF Seen(format, j, f) THEN date[f] ELSE NoDate[f]]

(* One item more. *)
LEMMA SeenOneMore ==
  ASSUME NEW format, NEW j \in Nat, NEW l
  PROVE  Seen(format, j + 1, l) <=> Seen(format, j, l) \/ IsDirective(format[j + 1], l)
<1>1. \A i : i \in 1 .. j + 1 <=> i \in 1 .. j \/ i = j + 1
  OBVIOUS
<1>. QED
  BY <1>1 DEF Seen

(* What a directive makes of the date so far. *)
AddsField(old, new, l, date, pm) ==
  new = CASE l = "I" -> [old EXCEPT !.H = @ + Shown("I", date)]
          [] l = "p" -> [old EXCEPT !.H = IF pm THEN @ + 12 ELSE @]
          [] OTHER -> [old EXCEPT ![l] = Shown(l, date)]

(* A directive adds its field to the date. *)
LEMMA DateOneMore ==
  ASSUME NEW format, NEW j \in Nat, NEW l \in TestLetter, NEW date \in Dates,
         IsDirective(format[j + 1], l), ~Seen(format, j, l),
         l \in {"I", "p"} => ~Seen(format, j, "H"),
         l = "H" => ~Seen(format, j, "I") /\ ~Seen(format, j, "p"),
         NEW pm \in BOOLEAN, pm <=> date["H"] >= 12
  PROVE  AddsField(DateSoFar(format, j, date), DateSoFar(format, j + 1, date), l, date, pm)
<1>1. \A k : Seen(format, j + 1, k) <=> Seen(format, j, k) \/ k = l
  <2>1. \A k : IsDirective(format[j + 1], k) <=> k = l
    BY DEF IsDirective
  <2>. QED
    BY <2>1, SeenOneMore
<1>2. Shown("I", date) \in Nat /\ date["H"] \in Nat /\ \A k \in Field : Shown(k, date) = date[k]
  <2>1. "I" \in TestLetter /\ "I" # "p" /\ "H" \in Field
    BY DEF TestLetter, Field
  <2>. QED
    BY <2>1, DateFacts
<1>. DEFINE old == DateSoFar(format, j, date)
            new == DateSoFar(format, j + 1, date)
<1>3. DOMAIN old = Field /\ DOMAIN new = Field /\ "H" \in Field
  BY DEF DateSoFar, Field
<1>4. \A f \in Field : f # "H" => new[f] = IF f = l THEN date[f] ELSE old[f]
  BY <1>1 DEF DateSoFar
<1>5. new["H"] = HourSoFar(format, j + 1, date) /\ old["H"] = HourSoFar(format, j, date)
  BY <1>3 DEF DateSoFar
<1>6. old["H"] \in Int
  BY <1>2, <1>5 DEF HourSoFar
<1>7. new = [f \in Field |-> new[f]] /\ old = [f \in Field |-> old[f]]
  BY DEF DateSoFar
<1>. HIDE DEF old, new
<1>8. CASE l = "I"
  <2>1. new["H"] = old["H"] + Shown("I", date)
    BY <1>1, <1>2, <1>5, <1>8 DEF HourSoFar
  <2>2. \A f \in Field : f # "H" => new[f] = old[f]
    BY <1>4, <1>8 DEF Field
  <2>3. new = [old EXCEPT !.H = @ + Shown("I", date)]
    BY <2>1, <2>2, <1>3, <1>7
  <2>. QED
    BY <2>3, <1>8 DEF old, new, AddsField
<1>9. CASE l = "p"
  <2>1. new["H"] = IF pm THEN old["H"] + 12 ELSE old["H"]
    BY <1>1, <1>2, <1>5, <1>9 DEF HourSoFar
  <2>2. \A f \in Field : f # "H" => new[f] = old[f]
    BY <1>4, <1>9 DEF Field
  <2>3. new = [old EXCEPT !.H = IF pm THEN @ + 12 ELSE @]
    BY <2>1, <2>2, <1>3, <1>7
  <2>. QED
    BY <2>3, <1>9 DEF old, new, AddsField
<1>10. CASE l \notin {"I", "p"}
  <2>1. l \in Field
    BY <1>10 DEF TestLetter, Field
  <2>2. new["H"] = IF l = "H" THEN date["H"] ELSE old["H"]
    BY <1>1, <1>2, <1>5, <1>10 DEF HourSoFar
  <2>3. \A f \in Field : new[f] = IF f = l THEN Shown(l, date) ELSE old[f]
    BY <1>2, <1>4, <2>1, <2>2
  <2>4. new = [old EXCEPT ![l] = Shown(l, date)]
    BY <2>1, <2>3, <1>3, <1>7
  <2>. QED
    BY <2>4, <1>10 DEF old, new, AddsField
<1>. QED
  BY <1>8, <1>9, <1>10

(* A date is written with a format the parser can read, and read with it. *)
ReadsBack(format, date, n, c, t, d) ==
  /\ format \in [1 .. n -> Item] /\ Len(format) = n /\ Layout(format, date, c, t)
  /\ Distinct(format) /\ Unambiguous(format) /\ HourReadable(format, date)
  /\ ReadBy(d, Wcsftime(date, format), Chars(format), Len(Chars(format)))

(* The places of a layout, without what lies there. *)
LEMMA LayoutPlaces ==
  ASSUME NEW n \in Nat, NEW format, Len(format) = n, NEW date, NEW c, NEW t,
         Layout(format, date, c, t)
  PROVE  /\ Len(Wcsftime(date, format)) \in Nat
         /\ \A i \in 0 .. n : t[i] \in Nat /\ t[i] <= Len(Wcsftime(date, format))
<1>. DEFINE text == Wcsftime(date, format)
<1>1. text \in Seq(Glyph) /\ t \in [0 .. n -> Nat]
  BY DEF Layout
<1>2. \A i \in 0 .. n : t[i] <= Len(text)
  BY DEF Layout
<1>. HIDE DEF text
<1>3. Len(text) \in Nat /\ \A i \in 0 .. n : t[i] \in Nat
  BY <1>1
<1>. QED
  BY <1>2, <1>3 DEF text

(* Behind the j-th item the parser has read what lies before. *)
ReadUpTo(format, date, c, t, d, j) ==
  d[c[j]] = [date |-> DateSoFar(format, j, date), idx |-> t[j], pos |-> c[j]]

(* A literal moves the parser by one character, in the format and in the text. *)
LEMMA LiteralRead ==
  ASSUME NEW n \in Nat \ {0}, NEW format, NEW date \in Dates, NEW c, NEW t, NEW d,
         ReadsBack(format, date, n, c, t, d),
         NEW j \in 0 .. n - 1, IsLiteral(format[j + 1]), ReadUpTo(format, date, c, t, d, j)
  PROVE  ReadUpTo(format, date, c, t, d, j + 1)
<1>. DEFINE fmt == Chars(format)
            text == Wcsftime(date, format)
            st == [date |-> DateSoFar(format, j, date), idx |-> t[j], pos |-> c[j]]
<1>1. j + 1 \in 1 .. n /\ (j + 1) - 1 = j /\ j \in 0 .. n /\ j + 1 \in 0 .. n /\ j \in Nat
  OBVIOUS
<1>2. c[j] \in Nat /\ t[j] \in Nat /\ c[j + 1] <= Len(fmt) /\ Len(fmt) \in Nat
  BY <1>1 DEF ReadsBack, Layout
<1>3. c[j + 1] = c[j] + 1 /\ t[j + 1] = t[j] + 1 /\ fmt[c[j] + 1] = format[j + 1].letter
  BY <1>1 DEF ReadsBack, Layout
<1>4. d[c[j]] = st
  BY DEF ReadUpTo
<1>. HIDE DEF fmt, text
<1>5. CharAt(fmt, st.pos) # "%"
  BY <1>2, <1>3 DEF CharAt, IsLiteral
<1>6. OneChar(text, fmt, st) = [date |-> DateSoFar(format, j, date), idx |-> t[j] + 1, pos |-> c[j] + 1]
  <2>1. OneChar(text, fmt, st) = [st EXCEPT !.idx = @ + 1, !.pos = @ + 1]
    <3>. HIDE DEF st
    <3>. QED
      BY <1>5 DEF OneChar
  <2>2. PICK x, y, z : x = DateSoFar(format, j, date) /\ y = t[j] /\ z = c[j]
    OBVIOUS
  <2>3. st = [date |-> x, idx |-> y, pos |-> z]
    BY <2>2
  <2>. HIDE DEF st
  <2>. QED
    BY <2>1, <2>2, <2>3
<1>7. d[c[j] + 1] = OneRound(text, fmt, c[j], st)
  <2>1. c[j] \in 0 .. Len(fmt) - 1
    BY <1>2, <1>3
  <2>. QED
    BY <2>1, <1>4 DEF ReadsBack, ReadBy, fmt, text
<1>8. d[c[j] + 1] = OneChar(text, fmt, st)
  BY <1>7 DEF OneRound
<1>9. DateSoFar(format, j + 1, date) = DateSoFar(format, j, date)
  <2>1. \A l : ~IsDirective(format[j + 1], l)
    BY DEF IsDirective, IsLiteral
  <2>2. \A l : Seen(format, j + 1, l) <=> Seen(format, j, l)
    BY <2>1, <1>1, SeenOneMore
  <2>. QED
    BY <2>2 DEF DateSoFar, HourSoFar
<1>. QED
  BY <1>3, <1>6, <1>8, <1>9 DEF ReadUpTo

(* The place of a letter among the tests. *)
LEMMA OrderIs ==
  ASSUME NEW i \in 1 .. 8
  PROVE  Order(Tests[i]) = i
<1>1. i \in DOMAIN Tests /\ \A k \in DOMAIN Tests : Tests[k] = Tests[i] => k = i
  BY TestsAre
<1>. QED
  BY <1>1 DEF Order

(* No test takes the character behind a directive for its own. *)
LEMMA NoOtherTest ==
  ASSUME NEW n \in Nat \ {0}, NEW format, NEW date \in Dates, NEW c, NEW t, NEW d,
         ReadsBack(format, date, n, c, t, d),
         NEW j \in 0 .. n - 1, NEW m \in 1 .. 8, Tests[m] \in Directives,
         IsDirective(format[j + 1], Tests[m]),
         NEW i \in m + 1 .. 8
  PROVE  CharAt(Chars(format), c[j + 1]) # Tests[i]
<1>. DEFINE fmt == Chars(format)
<1>1. Tests[i] \in TestLetter /\ i \in 1 .. 8 /\ m < i
  BY TestsAre
<1>2. Tests[i] # "%" /\ Tests[i] # "end"
  BY <1>1 DEF TestLetter
<1>3. j + 1 \in 0 .. n /\ c[j + 1] \in Nat /\ Len(fmt) \in Nat
  BY DEF ReadsBack, Layout
<1>4. CASE j + 1 = n
  <2>1. c[j + 1] = Len(fmt)
    BY <1>4 DEF ReadsBack, Layout
  <2>. HIDE DEF fmt
  <2>2. CharAt(fmt, c[j + 1]) = "end"
    BY <2>1, <1>3 DEF CharAt
  <2>. QED
    BY <2>2, <1>2 DEF fmt
<1>5. CASE j + 1 # n
  <2>1. j + 2 \in 1 .. n /\ (j + 2) - 1 = j + 1 /\ j + 2 \in 0 .. n /\ j + 1 \in 1 .. Len(format) - 1
    BY <1>5 DEF ReadsBack
  <2>2. format[j + 2] \in Item /\ c[j + 2] <= Len(fmt)
    <3>1. format \in [1 .. n -> Item]
      BY DEF ReadsBack
    <3>2. \A k \in 0 .. n : c[k] <= Len(fmt)
      BY DEF ReadsBack, Layout
    <3>. HIDE DEF fmt
    <3>. QED
      BY <2>1, <3>1, <3>2
  <2>3. CASE IsLiteral(format[j + 2])
    <3>1. c[j + 2] = c[j + 1] + 1 /\ fmt[c[j + 1] + 1] = format[j + 2].letter
      BY <2>1, <2>3 DEF ReadsBack, Layout
    <3>. HIDE DEF fmt
    <3>2. CharAt(fmt, c[j + 1]) = format[j + 2].letter
      BY <3>1, <2>2, <1>3 DEF CharAt
    <3>3. ASSUME format[j + 2].letter = Tests[i] PROVE FALSE
      <4>1. Tests[i] \in ToSet(Tests)
        BY <1>1, TestsAre DEF ToSet
      <4>2. format[j + 1].kind = "directive" /\ format[j + 1].letter = Tests[m]
        BY DEF IsDirective
      <4>3. format[j + 2].kind = "literal" /\ (j + 1) + 1 = j + 2
        BY <2>3 DEF IsLiteral
      <4>4. Order(format[j + 2].letter) < Order(format[j + 1].letter)
        BY <2>1, <3>3, <4>1, <4>2, <4>3 DEF ReadsBack, Unambiguous
      <4>5. i < m
        BY <4>4, <4>2, <3>3, <1>1, OrderIs
      <4>. QED
        BY <4>5, <1>1
    <3>. QED
      BY <3>2, <3>3 DEF fmt
  <2>4. CASE \E l \in Directives : IsDirective(format[j + 2], l)
    <3>1. PICK l \in Directives : IsDirective(format[j + 2], l)
      BY <2>4
    <3>2. c[j + 2] = c[j + 1] + 2 /\ fmt[c[j + 1] + 1] = "%"
      <4>1. \A i0 \in 1 .. n : IsDirective(format[i0], l) => c[i0] = c[i0 - 1] + 2 /\ fmt[c[i0 - 1] + 1] = "%"
        BY DEF ReadsBack, Layout
      <4>. QED
        BY <4>1, <2>1, <3>1
    <3>. HIDE DEF fmt
    <3>3. CharAt(fmt, c[j + 1]) = "%"
      BY <3>2, <2>2, <1>3 DEF CharAt
    <3>. QED
      BY <3>3, <1>2 DEF fmt
  <2>. QED
    BY <2>2, <2>3, <2>4, ItemKinds
<1>. QED
  BY <1>4, <1>5

(* At the end every directive of the format has been seen. *)
LEMMA HasIsSeen ==
  ASSUME NEW n \in Nat, NEW format, format \in [1 .. n -> Item], NEW l
  PROVE  HasDirective(format, l) <=> Seen(format, n, l)
BY DEF HasDirective, Seen, IsDirective, ToSet

(* What has been seen has been seen later, too. *)
LEMMA SeenLater ==
  ASSUME NEW format, NEW n \in Nat, NEW j \in 0 .. n, NEW l, Seen(format, j, l)
  PROVE  Seen(format, n, l)
<1>1. \A i \in 1 .. j : i \in 1 .. n
  OBVIOUS
<1>. QED
  BY <1>1 DEF Seen

(* What the conditions on the format say where a directive stands. *)
LEMMA DirectiveFits ==
  ASSUME NEW n \in Nat \ {0}, NEW format, NEW date \in Dates, NEW c, NEW t, NEW d,
         ReadsBack(format, date, n, c, t, d),
         NEW j \in 0 .. n - 1, NEW l \in Directives, IsDirective(format[j + 1], l)
  PROVE  /\ ~Seen(format, j, l)
         /\ l \in {"I", "p"} => ~Seen(format, j, "H")
         /\ l = "H" => ~Seen(format, j, "I") /\ ~Seen(format, j, "p")
         /\ l = "p" => j + 1 # n
<1>1. /\ format \in [1 .. n -> Item] /\ Len(format) = n /\ DOMAIN format = 1 .. n
      /\ Distinct(format) /\ HourReadable(format, date)
  BY DEF ReadsBack
<1>2. j + 1 \in 1 .. n /\ j \in 0 .. n /\ n \in Nat /\ j \in Nat
  OBVIOUS
<1>3. ~Seen(format, j, l)
  <2>1. SUFFICES ASSUME NEW i \in 1 .. j, IsDirective(format[i], l) PROVE FALSE
    BY DEF Seen
  <2>2. i \in 1 .. n /\ i # j + 1
    BY <1>2
  <2>3. format[i] = format[j + 1] /\ format[i].kind = "directive"
    BY <2>1 DEF IsDirective
  <2>4. format[i].kind = "literal"
    BY <2>2, <2>3, <1>1, <1>2 DEF Distinct
  <2>. QED
    BY <2>3, <2>4
<1>4. Seen(format, n, l)
  BY <1>2 DEF Seen
<1>5. \A k : HasDirective(format, k) <=> Seen(format, n, k)
  BY <1>1, <1>2, HasIsSeen
<1>6. \A k : Seen(format, j, k) => Seen(format, n, k)
  BY <1>2, SeenLater
<1>7. Seen(format, n, "I") \/ Seen(format, n, "p") =>
        ~Seen(format, n, "H") /\ format[n] # [kind |-> "directive", letter |-> "p"]
  BY <1>1, <1>5 DEF HourReadable
<1>8. l = "p" => j + 1 # n
  <2>1. SUFFICES ASSUME l = "p", j + 1 = n PROVE FALSE
    OBVIOUS
  <2>2. format[n] = [kind |-> "directive", letter |-> "p"]
    BY <2>1 DEF IsDirective
  <2>. QED
    BY <2>1, <2>2, <1>4, <1>7
<1>. QED
  BY <1>3, <1>4, <1>6, <1>7, <1>8

(* A text goes on behind an item that is not the last. *)
LEMMA TextGoesOn ==
  ASSUME NEW n \in Nat \ {0}, NEW format, NEW date \in Dates, NEW c, NEW t, NEW d,
         ReadsBack(format, date, n, c, t, d), NEW j \in 1 .. n - 1
  PROVE  t[j] < Len(Wcsftime(date, format))
<1>. DEFINE text == Wcsftime(date, format)
<1>1. j + 1 \in 1 .. n /\ (j + 1) - 1 = j /\ j \in 0 .. n /\ j + 1 \in 0 .. n
  OBVIOUS
<1>2. format[j + 1] \in Item
  BY <1>1 DEF ReadsBack
<1>3. t[j] \in Nat /\ t[j + 1] <= Len(text) /\ Len(text) \in Nat
  <2>1. Len(format) = n /\ Layout(format, date, c, t)
    BY DEF ReadsBack
  <2>. QED
    BY <1>1, <2>1, LayoutPlaces
<1>4. CASE IsLiteral(format[j + 1])
  <2>1. t[j + 1] = t[j] + 1
    BY <1>1, <1>4 DEF ReadsBack, Layout
  <2>. HIDE DEF text
  <2>2. t[j] < Len(text)
    BY <2>1, <1>3
  <2>. QED
    BY <2>2 DEF text
<1>5. CASE \E l \in Directives : IsDirective(format[j + 1], l)
  <2>1. PICK l \in Directives : IsDirective(format[j + 1], l)
    BY <1>5
  <2>2. t[j + 1] = t[j] + Width(l)
    BY <1>1, <2>1 DEF ReadsBack, Layout
  <2>3. Width(l) \in Nat /\ Width(l) >= 2
    BY DEF Width
  <2>. HIDE DEF text
  <2>4. t[j] < Len(text)
    BY <2>2, <2>3, <1>3
  <2>. QED
    BY <2>4 DEF text
<1>. QED
  BY <1>2, <1>4, <1>5, ItemKinds

(* The test for a directive reads the field that the directive wrote. *)
LEMMA FieldTaken ==
  ASSUME NEW n \in Nat \ {0}, NEW format, NEW date \in Dates, NEW c, NEW t, NEW d,
         ReadsBack(format, date, n, c, t, d),
         NEW j \in 0 .. n - 1, NEW l \in Directives, IsDirective(format[j + 1], l)
  PROVE  TakeField(Wcsftime(date, format), l,
                   [date |-> DateSoFar(format, j, date), idx |-> t[j], pos |-> c[j]])
         = [date |-> DateSoFar(format, j + 1, date), idx |-> t[j + 1] - 1, pos |-> c[j] + 1]
<1>. DEFINE txt == Wcsftime(date, format)
<1>1. j + 1 \in 1 .. n /\ (j + 1) - 1 = j /\ j \in 0 .. n /\ j + 1 \in 0 .. n /\ j \in Nat
  OBVIOUS
<1>2. l \in TestLetter
  BY DateTimeAssumption DEF TestLetter
<1>3. PICK w \in Nat : w = Width(l) /\ w >= 2 /\ (l = "p" => w = 2)
  BY DEF Width
<1>4. PICK at \in Nat, pos \in Nat : at = t[j] /\ pos = c[j]
  BY <1>1 DEF ReadsBack, Layout
<1>5. PICK text \in Seq(Glyph) : text = txt
  BY DEF ReadsBack, Layout
<1>6. /\ t[j + 1] = at + w /\ at + w <= Len(text)
      /\ \A k \in 1 .. w : text[at + k] = [of |-> l, at |-> k, value |-> Shown(l, date)]
  <2>1. /\ t[j + 1] = t[j] + Width(l) /\ t[j + 1] <= Len(txt)
        /\ \A k \in 1 .. Width(l) : txt[t[j] + k] = [of |-> l, at |-> k, value |-> Shown(l, date)]
    BY <1>1 DEF ReadsBack, Layout
  <2>. HIDE DEF txt
  <2>. QED
    BY <2>1, <1>3, <1>4, <1>5
<1>7. l = "p" => at + 2 < Len(text)
  <2>1. SUFFICES ASSUME l = "p" PROVE at + 2 < Len(text)
    OBVIOUS
  <2>2. j + 1 # n
    BY <2>1, DirectiveFits
  <2>3. j + 1 \in 1 .. n - 1
    BY <2>2, <1>1
  <2>4. t[j + 1] < Len(txt)
    BY <2>3, TextGoesOn
  <2>. QED
    BY <2>1, <2>4, <1>3, <1>5, <1>6
<1>8. text[at + 1].of = l /\ text[at + 1].value = Shown(l, date)
  <2>1. text[at + 1] = [of |-> l, at |-> 1, value |-> Shown(l, date)]
    BY <1>3, <1>6
  <2>. QED
    BY <2>1
<1>9. PICK pm \in BOOLEAN : pm <=> date["H"] >= 12
  OBVIOUS
<1>10. l = "p" =>
         (at + 2 < Len(text) /\ text[at + 1].of = "p" /\ text[at + 1].value = "PM" <=> pm)
  <2>1. Shown("p", date) = (IF date["H"] < 12 THEN "AM" ELSE "PM") /\ date["H"] \in Nat
    BY DateFacts DEF Field
  <2>. QED
    BY <2>1, <1>7, <1>8, <1>9
<1>11. l # "p" => Wtoi(text, at, w) = Shown(l, date)
  BY <1>2, <1>3, <1>6, FieldRead
<1>12. PICK old, new : old = DateSoFar(format, j, date) /\ new = DateSoFar(format, j + 1, date)
  OBVIOUS
<1>13. new = CASE l = "I" -> [old EXCEPT !.H = @ + Shown("I", date)]
               [] l = "p" -> [old EXCEPT !.H = IF pm THEN @ + 12 ELSE @]
               [] OTHER -> [old EXCEPT ![l] = Shown(l, date)]
  <2>1. /\ ~Seen(format, j, l)
        /\ l \in {"I", "p"} => ~Seen(format, j, "H")
        /\ l = "H" => ~Seen(format, j, "I") /\ ~Seen(format, j, "p")
    BY DirectiveFits
  <2>2. AddsField(DateSoFar(format, j, date), DateSoFar(format, j + 1, date), l, date, pm)
    BY <2>1, <1>1, <1>2, <1>9, DateOneMore
  <2>3. AddsField(old, new, l, date, pm)
    BY <2>2, <1>12
  <2>. QED
    BY <2>3 DEF AddsField
<1>14. TakeField(text, l, [date |-> old, idx |-> at, pos |-> pos])
       = [date |-> new, idx |-> at + w - 1, pos |-> pos + 1]
  <2>. DEFINE st == [date |-> old, idx |-> at, pos |-> pos]
              isPM == at + 2 < Len(text) /\ text[at + 1].of = "p" /\ text[at + 1].value = "PM"
              got == CASE l = "I" -> [old EXCEPT !.H = @ + Wtoi(text, at, w)]
                       [] l = "p" -> [old EXCEPT !.H = IF isPM THEN @ + 12 ELSE @]
                       [] OTHER -> [old EXCEPT ![l] = Wtoi(text, at, w)]
  <2>1. st.date = old /\ st.idx = at /\ st.pos = pos
    OBVIOUS
  <2>2. TakeField(text, l, st) = [date |-> got, idx |-> at + w - 1, pos |-> pos + 1]
    <3>. HIDE DEF st
    <3>. QED
      BY <2>1, <1>3 DEF TakeField
  <2>3. got = new
    <3>1. CASE l = "I"
      BY <3>1, <1>11, <1>13
    <3>2. CASE l = "p"
      BY <3>2, <1>10, <1>13
    <3>3. CASE l \notin {"I", "p"}
      BY <3>3, <1>11, <1>13
    <3>. QED
      BY <3>1, <3>2, <3>3
  <2>. HIDE DEF got
  <2>. QED
    BY <2>2, <2>3
<1>15. TakeField(text, l, [date |-> old, idx |-> at, pos |-> pos])
       = [date |-> new, idx |-> t[j + 1] - 1, pos |-> pos + 1]
  BY <1>6, <1>14
<1>. HIDE DEF txt
<1>16. TakeField(txt, l, [date |-> DateSoFar(format, j, date), idx |-> t[j], pos |-> c[j]])
       = [date |-> DateSoFar(format, j + 1, date), idx |-> t[j + 1] - 1, pos |-> c[j] + 1]
  BY <1>4, <1>5, <1>12, <1>15, Zenon
<1>. QED
  BY <1>16 DEF txt

(* A directive moves the parser behind its two characters and its field, which
   is in the date then; the round of its letter is skipped. *)
LEMMA DirectiveRead ==
  ASSUME NEW n \in Nat \ {0}, NEW format, NEW date \in Dates, NEW c, NEW t, NEW d,
         ReadsBack(format, date, n, c, t, d),
         NEW j \in 0 .. n - 1, NEW l \in Directives, IsDirective(format[j + 1], l),
         ReadUpTo(format, date, c, t, d, j)
  PROVE  ReadUpTo(format, date, c, t, d, j + 1)
<1>1. j + 1 \in 1 .. n /\ (j + 1) - 1 = j /\ j \in 0 .. n /\ j + 1 \in 0 .. n
  OBVIOUS
<1>2. PICK fmt : fmt = Chars(format)
  OBVIOUS
<1>3. PICK text \in Seq(Glyph) : text = Wcsftime(date, format)
  BY DEF ReadsBack, Layout
<1>4. PICK at \in Nat, pos \in Nat : at = t[j] /\ pos = c[j]
  BY <1>1 DEF ReadsBack, Layout
<1>5. /\ c[j + 1] = pos + 2 /\ t[j + 1] \in Nat /\ c[j + 1] <= Len(fmt) /\ Len(fmt) \in Nat
      /\ fmt[pos + 1] = "%" /\ fmt[pos + 2] = l
  BY <1>1, <1>2, <1>4 DEF ReadsBack, Layout
<1>6. PICK old, new : old = DateSoFar(format, j, date) /\ new = DateSoFar(format, j + 1, date)
  OBVIOUS
<1>7. PICK st : st = [date |-> old, idx |-> at, pos |-> pos]
  OBVIOUS
<1>8. d[pos] = st
  BY <1>4, <1>6, <1>7 DEF ReadUpTo
<1>9. d \in [0 .. Len(fmt) -> ParserState] /\ \A k \in 0 .. Len(fmt) - 1 : d[k + 1] = OneRound(text, fmt, k, d[k])
  BY <1>2, <1>3 DEF ReadsBack, ReadBy
<1>10. st.pos = pos /\ st \in ParserState
  <2>1. pos \in 0 .. Len(fmt)
    BY <1>5
  <2>. QED
    BY <2>1, <1>7, <1>8, <1>9
<1>11. CharAt(fmt, pos) = "%" /\ CharAt(fmt, pos + 1) = l
  BY <1>5 DEF CharAt
<1>12. PICK m \in 1 .. 8 : Tests[m] = l
  BY TestsAre, DateTimeAssumption DEF TestLetter
<1>13. \A i \in m + 1 .. 8 : CharAt(fmt, st.pos + 2) # Tests[i]
  BY <1>2, <1>5, <1>10, <1>12, NoOtherTest
<1>14. AfterPercent(text, fmt, st) = [date |-> new, idx |-> t[j + 1] - 1, pos |-> pos + 1]
  <2>1. AfterPercent(text, fmt, st) = TakeField(text, l, st)
    BY <1>10, <1>11, <1>12, <1>13, OneDirective
  <2>2. TakeField(text, l, st) = [date |-> new, idx |-> t[j + 1] - 1, pos |-> pos + 1]
    BY <1>3, <1>4, <1>6, <1>7, FieldTaken
  <2>. QED
    BY <2>1, <2>2
<1>15. OneChar(text, fmt, st) = [date |-> new, idx |-> t[j + 1], pos |-> pos + 2]
  <2>1. PICK s : s = AfterPercent(text, fmt, st)
    OBVIOUS
  <2>2. OneChar(text, fmt, st) = [s EXCEPT !.idx = @ + 1, !.pos = @ + 1]
    BY <2>1, <1>10, <1>11 DEF OneChar
  <2>3. (t[j + 1] - 1) + 1 = t[j + 1] /\ (pos + 1) + 1 = pos + 2
    BY <1>5
  <2>4. PICK x, y : x = t[j + 1] - 1 /\ y = pos + 1
    OBVIOUS
  <2>5. s = [date |-> new, idx |-> x, pos |-> y]
    BY <2>1, <2>4, <1>14
  <2>6. OneChar(text, fmt, st) = [date |-> new, idx |-> x + 1, pos |-> y + 1]
    BY <2>2, <2>5
  <2>. QED
    BY <2>3, <2>4, <2>6
<1>16. d[pos + 1] = [date |-> new, idx |-> t[j + 1], pos |-> pos + 2]
  <2>1. d[pos + 1] = OneRound(text, fmt, pos, st)
    BY <1>5, <1>8, <1>9
  <2>. QED
    BY <2>1, <1>10, <1>15 DEF OneRound
<1>17. d[pos + 2] = d[pos + 1]
  <2>1. pos + 1 \in 0 .. Len(fmt) - 1 /\ (pos + 1) + 1 = pos + 2
    BY <1>5
  <2>2. d[pos + 2] = OneRound(text, fmt, pos + 1, d[pos + 1])
    BY <2>1, <1>9
  <2>3. d[pos + 1].pos # pos + 1
    BY <1>16
  <2>. QED
    BY <2>2, <2>3 DEF OneRound
<1>. QED
  BY <1>5, <1>6, <1>16, <1>17 DEF ReadUpTo

(* The hour that %I and %p give together. *)
LEMMA HourArithmetic ==
  ASSUME NEW h \in Nat, h < 24, h % 12 # 0
  PROVE  (((h + 11) % 12) + 1) + (IF h >= 12 THEN 12 ELSE 0) = h
OBVIOUS

(* A date written with a format the parser can read is read back with it. *)
LEMMA WrittenIsRead ==
  ASSUME NEW n \in Nat \ {0}, NEW format \in FormatOf(n), NEW date \in Dates,
         Distinct(format), Unambiguous(format), HourReadable(format, date)
  PROVE  ReadDate(Wcsftime(date, format), Chars(format)) =
           DateSoFar(format, n, date)
<1>1. PICK c, t : Layout(format, date, c, t)
  BY FormatLaid
<1>2. Len(format) = n /\ format \in [1 .. n -> Item]
  BY FormatLaid DEF FormatOf
<1>3. PICK text \in Seq(Glyph) : text = Wcsftime(date, format)
  BY <1>1 DEF Layout
<1>4. PICK fmt : fmt = Chars(format)
  OBVIOUS
<1>5. PICK N \in Nat : N = Len(fmt) /\ c[n] = N
  BY <1>1, <1>2, <1>4 DEF Layout
<1>6. PICK d : ReadBy(d, text, fmt, N)
  BY <1>5, LoopRuns, Zenon
<1>7. ReadsBack(format, date, n, c, t, d)
  BY <1>1, <1>2, <1>3, <1>4, <1>5, <1>6 DEF ReadsBack
<1>. DEFINE S == {j \in Nat : j <= n => ReadUpTo(format, date, c, t, d, j)}
<1>8. 0 \in S
  <2>1. c[0] = 0 /\ t[0] = 0
    BY <1>1 DEF Layout
  <2>2. d[0] = [date |-> NoDate, idx |-> 0, pos |-> 0]
    BY <1>6 DEF ReadBy, Start
  <2>3. DateSoFar(format, 0, date) = NoDate
    <3>1. \A l : ~Seen(format, 0, l)
      BY DEF Seen
    <3>2. HourSoFar(format, 0, date) = 0
      BY <3>1 DEF HourSoFar
    <3>. QED
      BY <3>1, <3>2 DEF DateSoFar, NoDate, Field
  <2>4. ReadUpTo(format, date, c, t, d, 0)
    BY <2>1, <2>2, <2>3 DEF ReadUpTo
  <2>. QED
    BY <2>4
<1>9. ASSUME NEW j \in Nat, j \in S PROVE j + 1 \in S
  <2>1. SUFFICES ASSUME j + 1 <= n PROVE ReadUpTo(format, date, c, t, d, j + 1)
    OBVIOUS
  <2>2. j \in 0 .. n - 1 /\ ReadUpTo(format, date, c, t, d, j)
    BY <2>1, <1>9
  <2>3. format[j + 1] \in Item
    BY <2>1, <1>2
  <2>4. CASE IsLiteral(format[j + 1])
    BY <2>2, <2>4, <1>7, LiteralRead
  <2>5. CASE \E l \in Directives : IsDirective(format[j + 1], l)
    BY <2>2, <2>5, <1>7, DirectiveRead
  <2>. QED
    BY <2>3, <2>4, <2>5, ItemKinds
<1>10. \A j \in Nat : j \in S
  <2>. HIDE DEF S
  <2>. QED
    BY <1>8, <1>9, SetInduction
<1>11. ReadUpTo(format, date, c, t, d, n)
  BY <1>10
<1>12. d[N].date = DateSoFar(format, n, date)
  BY <1>5, <1>11 DEF ReadUpTo
<1>13. ReadDate(text, fmt) = d[N].date
  BY <1>6 DEF ReadBy
<1>. QED
  BY <1>3, <1>4, <1>12, <1>13

(* What has been read in the end is the date, in the fields the format has. *)
LEMMA AllRead ==
  ASSUME NEW n \in Nat \ {0}, NEW format \in FormatOf(n), NEW date \in Dates,
         HourReadable(format, date)
  PROVE  DateSoFar(format, n, date) =
           [f \in Field |->
              IF HasDirective(format, f) \/ (f = "H" /\ HasDirective(format, "I"))
              THEN date[f] ELSE NoDate[f]]
<1>1. \A l : HasDirective(format, l) <=> Seen(format, n, l)
  <2>1. n \in Nat /\ format \in [1 .. n -> Item]
    BY DEF FormatOf
  <2>. QED
    BY <2>1, HasIsSeen
<1>2. PICK h \in Nat : h = date["H"] /\ h = date.H /\ h < 24
  BY DateFacts DEF Field
<1>3. Shown("I", date) = ((h + 11) % 12) + 1
  BY <1>2 DEF Shown
<1>4. HourSoFar(format, n, date) =
        IF HasDirective(format, "H") \/ HasDirective(format, "I") THEN h ELSE 0
  <2>1. CASE HasDirective(format, "I") \/ HasDirective(format, "p")
    <3>1. /\ HasDirective(format, "I") /\ HasDirective(format, "p") /\ ~HasDirective(format, "H")
          /\ h % 12 # 0
      BY <2>1, <1>2 DEF HourReadable
    <3>2. HourSoFar(format, n, date) = (((h + 11) % 12) + 1) + (IF h >= 12 THEN 12 ELSE 0)
      BY <3>1, <1>1, <1>2, <1>3 DEF HourSoFar
    <3>. QED
      BY <3>1, <3>2, <1>2, HourArithmetic
  <2>2. CASE ~HasDirective(format, "I") /\ ~HasDirective(format, "p")
    BY <2>2, <1>1, <1>2 DEF HourSoFar
  <2>. QED
    BY <2>1, <2>2
<1>5. NoDate["H"] = 0
  BY DEF NoDate
<1>. QED
  BY <1>1, <1>2, <1>4, <1>5 DEF DateSoFar

(* A format writes at least one character. *)
LEMMA SomethingWritten ==
  ASSUME NEW n \in Nat \ {0}, NEW format \in FormatOf(n), NEW date \in Dates
  PROVE  Wcsftime(date, format) # << >> /\ Chars(format) # << >>
<1>1. Len(format) = n /\ format \in [1 .. n -> Item] /\ 1 \in 1 .. n /\ 1 - 1 = 0 /\ 1 \in 0 .. n
  BY FormatLaid DEF FormatOf
<1>2. format[1] \in Item
  BY <1>1
<1>3. PICK c, t : Layout(format, date, c, t)
  BY FormatLaid
<1>4. PICK N \in Nat, M \in Nat : N = Len(Wcsftime(date, format)) /\ M = Len(Chars(format))
  BY <1>1, <1>3 DEF Layout
<1>5. t[1] <= N /\ t[0] = 0 /\ t[1] \in Nat /\ c[1] <= M /\ c[0] = 0 /\ c[1] \in Nat
  BY <1>1, <1>3, <1>4 DEF Layout
<1>6. t[1] > 0 /\ c[1] > 0
  <2>1. CASE IsLiteral(format[1])
    <3>1. c[1] = c[0] + 1 /\ t[1] = t[0] + 1
      BY <1>1, <1>3, <2>1 DEF Layout
    <3>. QED
      BY <3>1, <1>5
  <2>2. CASE \E l \in Directives : IsDirective(format[1], l)
    <3>1. PICK l \in Directives : IsDirective(format[1], l)
      BY <2>2
    <3>2. c[1] = c[0] + 2 /\ t[1] = t[0] + Width(l)
      BY <1>1, <1>3, <3>1 DEF Layout
    <3>3. Width(l) \in Nat /\ Width(l) >= 2
      BY DEF Width
    <3>. QED
      BY <3>2, <3>3, <1>5
  <2>. QED
    BY <1>2, <2>1, <2>2, ItemKinds
<1>7. N # 0 /\ M # 0
  BY <1>5, <1>6
<1>8. Len(<< >>) = 0
  OBVIOUS
<1>. QED
  BY <1>4, <1>7, <1>8, Zenon

(* A date that GetFormattedDateTimeText wrote is read back by
   GetTimeValueFromFormat with the same format, for every number of items, every
   size of the buffer in which the text fits, every format that the chain of
   tests cannot mistake and every hour it can tell.  A text that does not fit is
   read as the time 0, whatever its format. *)
THEOREM DatesReadBack == DtSpec => []TimeRoundTrip
<1>1. DtInit => TimeRoundTrip
  BY DEF DtInit, TimeRoundTrip
<1>2. TimeRoundTrip /\ [DtNext]_dtVars => TimeRoundTrip'
  <2>1. SUFFICES ASSUME TimeRoundTrip, [DtNext]_dtVars PROVE TimeRoundTrip'
    OBVIOUS
  <2>2. CASE UNCHANGED dtVars
    BY <2>1, <2>2 DEF TimeRoundTrip, dtVars
  <2>3. CASE DtNext
    <3>1. PICK n \in 1 .. MaxItems : \E format \in FormatOf(n), date \in Dates : WriteAndRead(format, date)
      BY <2>3 DEF DtNext
    <3>2. PICK format \in FormatOf(n), date \in Dates : WriteAndRead(format, date)
      BY <3>1
    <3>3. n \in Nat \ {0}
      BY DateTimeAssumption
    <3>4. /\ Distinct(format) /\ dtFormat' = format /\ dtDate' = date
          /\ dtRead' = GetTimeValueFromFormat(GetFormattedDateTimeText(date, format), Chars(format))
      BY <3>2 DEF WriteAndRead
    <3>5. Wcsftime(date, format) # << >> /\ Chars(format) # << >>
      BY <3>3, SomethingWritten
    <3>6. CASE Fits(date, format)
      <4>1. dtRead' = ReadDate(Wcsftime(date, format), Chars(format))
        BY <3>4, <3>5, <3>6 DEF GetFormattedDateTimeText, GetTimeValueFromFormat
      <4>2. SUFFICES ASSUME Unambiguous(format), HourReadable(format, date)
                     PROVE  dtRead' = [f \in Field |->
                              IF HasDirective(format, f) \/ (f = "H" /\ HasDirective(format, "I"))
                              THEN date[f] ELSE NoDate[f]]
        BY <3>4, <3>6 DEF TimeRoundTrip
      <4>3. dtRead' = DateSoFar(format, n, date)
        BY <3>3, <3>4, <4>1, <4>2, WrittenIsRead
      <4>. QED
        BY <3>3, <4>2, <4>3, AllRead
    <3>7. CASE ~Fits(date, format)
      BY <3>4, <3>7 DEF GetFormattedDateTimeText, GetTimeValueFromFormat, TimeRoundTrip
    <3>. QED
      BY <3>6, <3>7
  <2>. QED
    BY <2>1, <2>2, <2>3
<1>. QED
  BY <1>1, <1>2, PTL DEF DtSpec
=============================================================================
