------------------------------ MODULE PureProofs ------------------------------
(***************************************************************************)
(* What the algorithms of MCPure compute, for inputs of any length: by     *)
(* induction along the elements of a sequence, on an invariant of each     *)
(* loop.  TLC checks the same properties on the inputs of the run Pure.    *)
(***************************************************************************)
EXTENDS MCPure, RingLemmas, SequenceTheorems, WellFoundedInduction, TLAPS

-----------------------------------------------------------------------------
(* Induction and folds.  The library states that the natural numbers are   *)
(* well founded without an operator as a parameter; that is enough to      *)
(* reason about folds of any length.                                       *)

(* There is no endless descent in the natural numbers: the library's fact, *)
(* in the form WFMin asks for.                                             *)
LEMMA LessIsWellFounded ==
    IsWellFoundedOn({p \in Nat \X Nat : p[1] < p[2]}, Nat)
  BY NatLessThanWellFounded DEF OpToRel

(* A set of natural numbers that is not empty has a least element. *)
LEMMA Least ==
    ASSUME NEW T, T \subseteq Nat, T # {}
    PROVE  \E m \in T : \A k \in T : m <= k
<1> DEFINE R == {p \in Nat \X Nat : p[1] < p[2]}
<1>1. IsWellFoundedOn(R, Nat)
  BY LessIsWellFounded
<1> HIDE DEF R
<1>2. \E m \in T : \A k \in T : ~(<<k, m>> \in R)
  BY <1>1, WFMin
<1>3. \A k, m \in T : ~(<<k, m>> \in R) => m <= k
  BY DEF R
<1> QED
  BY <1>2, <1>3

(* Induction on the natural numbers, with the property given as a set: the *)
(* numbers it fails of would have a least element.                         *)
LEMMA Induction ==
    ASSUME NEW T, 0 \in T, \A k \in Nat : k \in T => k + 1 \in T
    PROVE  Nat \subseteq T
<1> SUFFICES ASSUME Nat \ T # {} PROVE FALSE
  OBVIOUS
<1>1. PICK m \in Nat \ T : \A k \in Nat \ T : m <= k
  BY Least
<1>2. m # 0 /\ m - 1 \in Nat /\ m - 1 \in T
  BY <1>1
<1> QED
  BY <1>1, <1>2

(* The same along 0..n: how a loop over the elements of a sequence is      *)
(* reasoned about.                                                         *)
LEMMA InductionUpTo ==
    ASSUME NEW n \in Nat, NEW T, 0 \in T,
           \A i \in 1..n : i - 1 \in T => i \in T
    PROVE  0..n \subseteq T
<1> DEFINE U == {k \in Nat : k <= n => k \in T}
<1>1. 0 \in U
  OBVIOUS
<1>2. \A k \in Nat : k \in U => k + 1 \in U
  <2> TAKE k \in Nat
  <2> SUFFICES ASSUME k \in U, k + 1 <= n PROVE k + 1 \in T
    OBVIOUS
  <2>1. k + 1 \in 1..n /\ (k + 1) - 1 = k
    OBVIOUS
  <2> QED
    BY <2>1
<1>3. Nat \subseteq U
  <2> HIDE DEF U
  <2> QED BY <1>1, <1>2, Induction
<1> QED
  BY <1>3

(* A set that has an upper bound of its own: Max chooses it.               *)
LEMMA MaxIs ==
    ASSUME NEW s, NEW x \in s, \A y \in s : x >= y
    PROVE  Max(s) \in s /\ \A y \in s : Max(s) >= y
  BY Zenon DEF Max

(* The largest of the indices up to m, m among them, is m.                 *)
LEMMA MaxOfInterval ==
    ASSUME NEW m \in Nat, NEW s \in SUBSET (1..m), m \in s
    PROVE  Max(s) = m
<1>1. \A y \in s : m >= y
  OBVIOUS
<1>2. Max(s) \in s /\ \A y \in s : Max(s) >= y
  BY <1>1, MaxIs
<1>3. Max(s) \in 1..m
  BY <1>2
<1>4. m >= Max(s) /\ Max(s) >= m
  BY <1>1, <1>2
<1> QED
  BY <1>3, <1>4

(* A set of indices that is not empty has a largest element.               *)
LEMMA MaxIsIn ==
    ASSUME NEW m \in Nat, NEW s \in SUBSET (1..m), s # {}
    PROVE  Max(s) \in s /\ \A y \in s : Max(s) >= y
<1> DEFINE D == {m - y : y \in s}
<1>1. D \subseteq Nat /\ D # {}
  <2>1. \A y \in s : m - y \in Nat
    OBVIOUS
  <2> QED BY <2>1
<1>2. PICK d \in D : \A k \in D : d <= k
  <2> HIDE DEF D
  <2> QED BY <1>1, Least
<1>3. PICK x \in s : d = m - x
  OBVIOUS
<1>4. \A y \in s : x >= y
  <2> TAKE y \in s
  <2>1. m - y \in D /\ d <= m - y
    BY <1>2
  <2> QED
    BY <2>1, <1>3
<1> QED
  BY <1>4, MaxIs

(* A function on the sets of indices that satisfies the recursion of       *)
(* MapThenFoldSet when it takes the largest index first, the rule given as *)
(* a function.                                                             *)
IsFold(it, n, init, step) ==
    it = [s \in SUBSET (1..n) |->
             IF s = {} THEN init ELSE step[<<Max(s), it[s \ {Max(s)}]>>]]

(* The recursion has a solution, so that the fold of the library, which    *)
(* chooses one, satisfies it: built up index by index.                     *)
LEMMA FoldExists ==
    ASSUME NEW n \in Nat, NEW S, NEW init \in S, NEW step \in [(1..n) \X S -> S]
    PROVE  \E it \in [SUBSET (1..n) -> S] : IsFold(it, n, init, step)
<1> DEFINE Good(m, it) ==
               it = [s \in SUBSET (1..m) |->
                        IF s = {} THEN init ELSE step[<<Max(s), it[s \ {Max(s)}]>>]]
           Has(m) == \E it \in [SUBSET (1..m) -> S] : Good(m, it)
           T == {m \in Nat : m <= n => Has(m)}
<1>1. 0 \in T
  <2> DEFINE it == [s \in SUBSET (1..0) |-> init]
  <2>1. \A s \in SUBSET (1..0) : s = {}
    OBVIOUS
  <2>2. it \in [SUBSET (1..0) -> S]
    OBVIOUS
  <2>3. Good(0, it)
    BY <2>1
  <2>4. Has(0)
    <3> HIDE DEF Good, it
    <3> QED BY <2>2, <2>3
  <2> QED
    <3> HIDE DEF Has
    <3> QED BY <2>4
<1>2. ASSUME NEW m \in Nat, m \in T PROVE m + 1 \in T
  <2> SUFFICES ASSUME m + 1 <= n PROVE Has(m + 1)
    <3> HIDE DEF Has
    <3> QED OBVIOUS
  <2>0. Has(m)
    <3> HIDE DEF Has
    <3> QED BY <1>2
  <2>1. PICK it \in [SUBSET (1..m) -> S] : Good(m, it)
    <3> HIDE DEF Good
    <3> QED BY <2>0
  <2> DEFINE e == m + 1
             jt == [s \in SUBSET (1..e) |->
                      IF e \in s THEN step[<<e, it[s \ {e}]>>] ELSE it[s]]
  <2>2. \A s \in SUBSET (1..e) : e \notin s => s \in SUBSET (1..m)
    OBVIOUS
  <2>3. \A s \in SUBSET (1..e) : s \ {e} \in SUBSET (1..m)
    OBVIOUS
  <2>4. jt \in [SUBSET (1..e) -> S]
    <3> SUFFICES ASSUME NEW s \in SUBSET (1..e) PROVE jt[s] \in S
      OBVIOUS
    <3>1. CASE e \in s
      <4>1. it[s \ {e}] \in S
        BY <2>3
      <4>2. <<e, it[s \ {e}]>> \in (1..n) \X S
        BY <4>1
      <4> QED
        BY <4>2, <3>1
    <3>2. CASE e \notin s
      BY <3>2, <2>2
    <3> QED
      BY <3>1, <3>2
  <2>5. \A s \in SUBSET (1..e) :
           jt[s] = IF s = {} THEN init ELSE step[<<Max(s), jt[s \ {Max(s)}]>>]
    <3> TAKE s \in SUBSET (1..e)
    <3>1. CASE e \in s
      <4>1. Max(s) = e
        BY <3>1, MaxOfInterval
      <4>2. s \ {e} \in SUBSET (1..e) /\ e \notin s \ {e}
        OBVIOUS
      <4>3. jt[s \ {e}] = it[s \ {e}]
        BY <4>2
      <4> QED
        BY <3>1, <4>1, <4>3
    <3>2. CASE e \notin s
      <4>1. s \in SUBSET (1..m) /\ jt[s] = it[s]
        BY <3>2, <2>2
      <4>2. it[s] = IF s = {} THEN init ELSE step[<<Max(s), it[s \ {Max(s)}]>>]
        BY <4>1, <2>1
      <4>3. s \ {Max(s)} \in SUBSET (1..m) /\ e \notin s \ {Max(s)}
        BY <4>1, <3>2
      <4>4. jt[s \ {Max(s)}] = it[s \ {Max(s)}]
        BY <4>3
      <4> HIDE DEF jt
      <4> QED
        BY <4>1, <4>2, <4>4
    <3> QED
      BY <3>1, <3>2
  <2>6. jt = [s \in SUBSET (1..e) |-> jt[s]]
    OBVIOUS
  <2>7. Good(e, jt)
    <3> HIDE DEF jt
    <3> QED BY <2>5, <2>6
  <2> HIDE DEF jt, Good
  <2> QED
    BY <2>4, <2>7
<1>3. Nat \subseteq T
  <2> HIDE DEF T
  <2> QED BY <1>1, <1>2, Induction
<1>4. Has(n)
  <2> HIDE DEF Has
  <2> QED BY <1>3
<1> QED
  BY <1>4 DEF IsFold

(* The values a fold goes through: from init, by one step for each         *)
(* element, to its result.                                                 *)
IsTrace(g, n, init, step, end) ==
    /\ g[0] = init /\ g[n] = end
    /\ \A i \in 1..n : g[i] = step[<<i, g[i - 1]>>]

(* What is needed of a recursive function on sets of indices to read such  *)
(* a trace off it.                                                         *)
Follows(it, n, S, init, step, end) ==
    /\ it[{}] = init /\ it[1..n] = end
    /\ \A s \in (SUBSET (1..n)) \ {{}} :
          it[s \ {Max(s)}] \in S => it[s] = step[<<Max(s), it[s \ {Max(s)}]>>]

(* A fold whose steps stay in S has a trace in S.                          *)
LEMMA FoldTrace ==
    ASSUME NEW n \in Nat, NEW S, NEW init \in S, NEW step \in [(1..n) \X S -> S],
           NEW it, NEW end, Follows(it, n, S, init, step, end)
    PROVE  \E g \in [0..n -> S] : IsTrace(g, n, init, step, end)
<1>0. /\ it[{}] = init /\ it[1..n] = end
      /\ \A s \in (SUBSET (1..n)) \ {{}} :
            it[s \ {Max(s)}] \in S => it[s] = step[<<Max(s), it[s \ {Max(s)}]>>]
  BY DEF Follows
<1> DEFINE g == [i \in 0..n |-> it[1..i]]
           T == {i \in 0..n : g[i] \in S}
<1>1. g[0] = init
  <2>1. 1..0 = {}
    OBVIOUS
  <2> QED BY <1>0, <2>1
<1>2. ASSUME NEW i \in 1..n, g[i - 1] \in S
      PROVE  g[i] = step[<<i, g[i - 1]>>]
  <2>1. i \in Nat /\ i \in 1..i /\ 1..i \in SUBSET (1..i) /\ 1..i \in (SUBSET (1..n)) \ {{}}
    OBVIOUS
  <2>2. Max(1..i) = i
    BY <2>1, MaxOfInterval
  <2>3. (1..i) \ {i} = 1..(i - 1)
    OBVIOUS
  <2>4. i - 1 \in 0..n /\ i \in 0..n
    OBVIOUS
  <2>5. g[i] = it[1..i] /\ g[i - 1] = it[1..(i - 1)]
    BY <2>4
  <2>6. it[(1..i) \ {Max(1..i)}] \in S
    BY <2>2, <2>3, <2>5, <1>2
  <2>7. it[1..i] = step[<<Max(1..i), it[(1..i) \ {Max(1..i)}]>>]
    BY <1>0, <2>1, <2>6
  <2> HIDE DEF g
  <2> QED
    BY <2>2, <2>3, <2>5, <2>7
<1>3. \A i \in 1..n : i - 1 \in T => i \in T
  <2> TAKE i \in 1..n
  <2> SUFFICES ASSUME i - 1 \in T PROVE i \in T
    OBVIOUS
  <2>1. g[i - 1] \in S
    OBVIOUS
  <2>2. g[i] = step[<<i, g[i - 1]>>]
    BY <1>2, <2>1
  <2>3. <<i, g[i - 1]>> \in (1..n) \X S
    BY <2>1
  <2>4. step[<<i, g[i - 1]>>] \in S
    <3> HIDE DEF g
    <3> QED BY <2>3
  <2> HIDE DEF g
  <2> QED
    BY <2>2, <2>4
<1>4. 0 \in T
  BY <1>1
<1>5. 0..n \subseteq T
  <2> HIDE DEF T
  <2> QED BY <1>3, <1>4, InductionUpTo
<1>6. \A i \in 0..n : g[i] \in S
  BY <1>5
<1>7. g \in [0..n -> S]
  BY <1>6
<1>8. \A i \in 1..n : g[i] = step[<<i, g[i - 1]>>]
  <2> TAKE i \in 1..n
  <2>1. i - 1 \in 0..n
    OBVIOUS
  <2> QED BY <1>2, <1>6, <2>1
<1>9. g[n] = end
  BY <1>0
<1> HIDE DEF g
<1> QED
  BY <1>1, <1>7, <1>8, <1>9 DEF IsTrace

-----------------------------------------------------------------------------
(* The samples of a period, and the start threshold (Pcm).                 *)

(* The magnitude max_abs_sample computes for one sample, in 16 bits.       *)
Heard(s) == Wrap(IF s < 0 THEN -s ELSE s)

(* The magnitude of every sample but the lowest is computed without        *)
(* overflow; that of the lowest is the lowest (max_abs_sample).            *)
LEMMA HeardIs ==
    ASSUME NEW s \in -Half..(Half - 1)
    PROVE  /\ s = -Half => Heard(s) = -Half
           /\ s # -Half => Heard(s) = Magnitude(s) /\ Magnitude(s) \in 0..(Half - 1)
<1> DEFINE n == 2 * Half
           x == (IF s < 0 THEN -s ELSE s) + Half
<1>1. n \in Nat \ {0} /\ Half \in Nat \ {0}
  BY PcmAssumption
<1>2. x \in 0..(2 * n - 1) /\ n > Half
  BY <1>1
<1>3. x % n = IF x < n THEN x ELSE x - n
  <2> HIDE DEF n, x
  <2> QED BY <1>1, <1>2, Wrapped
<1>4. Heard(s) = (x % n) - Half
  BY DEF Heard, Wrap
<1>5. CASE s = -Half
  <2>1. x = n
    BY <1>1, <1>5
  <2>2. x % n = 0
    <3> HIDE DEF n, x
    <3> QED BY <1>1, <1>3, <2>1
  <2> QED
    BY <1>1, <1>4, <1>5, <2>2
<1>6. CASE s # -Half
  <2>1. x < n /\ x = Magnitude(s) + Half /\ Magnitude(s) \in 0..(Half - 1)
    BY <1>1, <1>6 DEF Magnitude
  <2>2. x % n = x
    <3> HIDE DEF n, x
    <3> QED BY <1>3, <2>1
  <2>3. Heard(s) = x - Half
    BY <1>4, <2>2
  <2>4. Heard(s) = Magnitude(s)
    <3> HIDE DEF x
    <3> QED BY <1>1, <2>1, <2>3
  <2> QED
    BY <1>1, <1>6, <2>1, <2>4
<1> QED
  BY <1>5, <1>6

(* The loop of max_abs_sample, one value of the peak for each sample.      *)
LEMMA PeakTrace ==
    ASSUME NEW pcm \in Seq(-Half..(Half - 1))
    PROVE  \E g \in [0..Len(pcm) -> 0..(Half - 1)] :
              /\ g[0] = 0
              /\ \A i \in 1..Len(pcm) :
                    g[i] = IF Heard(pcm[i]) > g[i - 1] THEN Heard(pcm[i]) ELSE g[i - 1]
              /\ g[Len(pcm)] = max_abs_sample(pcm)
<1> DEFINE n == Len(pcm)
           S == 0..(Half - 1)
           Rule(i, peak) == IF Heard(pcm[i]) > peak THEN Heard(pcm[i]) ELSE peak
           step == [p \in (1..n) \X S |-> Rule(p[1], p[2])]
           Eqn(it) == it = [s \in SUBSET (1..n) |->
                              IF s = {} THEN 0 ELSE Rule(Max(s), it[s \ {Max(s)}])]
<1>1. n \in Nat /\ DOMAIN pcm = 1..n /\ Half \in Nat \ {0} /\ 0 \in S
  BY PcmAssumption
<1>2. \A i \in 1..n, peak \in S : Rule(i, peak) \in S
  <2> TAKE i \in 1..n, peak \in S
  <2>1. pcm[i] \in -Half..(Half - 1)
    BY <1>1
  <2>2. Heard(pcm[i]) = -Half \/ Heard(pcm[i]) \in 0..(Half - 1)
    BY <2>1, HeardIs
  <2> QED
    BY <1>1, <2>2
<1>3. step \in [(1..n) \X S -> S]
  BY <1>2
<1>4. \A i \in 1..n, peak \in S : step[<<i, peak>>] = Rule(i, peak)
  OBVIOUS
<1>5. max_abs_sample(pcm) = (CHOOSE it : Eqn(it))[1..n]
  BY <1>1, Zenon DEF max_abs_sample, FoldLeft, MapThenFoldSet, Heard
<1> HIDE DEF n, S, Rule, step
<1>6. \E it : Eqn(it)
  <2>1. PICK it \in [SUBSET (1..n) -> S] : IsFold(it, n, 0, step)
    BY <1>1, <1>3, FoldExists
  <2>2. \A s \in SUBSET (1..n) :
            s # {} => step[<<Max(s), it[s \ {Max(s)}]>>] = Rule(Max(s), it[s \ {Max(s)}])
    <3> TAKE s \in SUBSET (1..n)
    <3> HAVE s # {}
    <3>1. Max(s) \in 1..n
      BY <1>1, MaxIsIn
    <3>2. it[s \ {Max(s)}] \in S
      OBVIOUS
    <3> QED
      BY <1>4, <3>1, <3>2
  <2>3. Eqn(it)
    BY <2>1, <2>2 DEF IsFold
  <2> QED
    BY <2>3
<1> DEFINE it == CHOOSE i : Eqn(i)
<1>7. Eqn(it)
  BY <1>6
<1> HIDE DEF it
<1>8. it[{}] = 0
  BY <1>7
<1>9. \A s \in (SUBSET (1..n)) \ {{}} : it[s \ {Max(s)}] \in S =>
                 it[s] = step[<<Max(s), it[s \ {Max(s)}]>>]
  <2> TAKE s \in (SUBSET (1..n)) \ {{}}
  <2> HAVE it[s \ {Max(s)}] \in S
  <2>1. Max(s) \in 1..n
    BY <1>1, MaxIsIn
  <2>2. it[s] = Rule(Max(s), it[s \ {Max(s)}])
    BY <1>7
  <2> QED
    BY <1>4, <2>1, <2>2
<1>10. PICK g \in [0..n -> S] : IsTrace(g, n, 0, step, max_abs_sample(pcm))
  <2>1. Follows(it, n, S, 0, step, max_abs_sample(pcm))
    BY <1>5, <1>8, <1>9 DEF Follows, it
  <2> QED
    BY <1>1, <1>3, <2>1, FoldTrace
<1>11. \A i \in 1..n : g[i] = Rule(i, g[i - 1])
  <2> TAKE i \in 1..n
  <2>1. g[i - 1] \in S
    BY <1>1, <1>10
  <2> QED
    BY <1>4, <1>10, <2>1 DEF IsTrace
<1> QED
  BY <1>10, <1>11 DEF n, S, Rule, IsTrace

(* One more sample. *)
LEMMA OneMore ==
    ASSUME NEW n \in Nat, NEW k \in 1..n
    PROVE  1..k = (1..(k - 1)) \cup {k}
  OBVIOUS

(* However long a period is and however wide its samples are, its peak is  *)
(* one of its magnitudes, and the largest if the lowest sample does not    *)
(* occur (max_abs_sample).                                                 *)
THEOREM PeakOfPeriod ==
    ASSUME NEW pcm \in Seq(-Half..(Half - 1))
    PROVE  PeakIsMax(pcm)
<1> DEFINE n == Len(pcm)
           J(k) == {j \in 1..k : pcm[j] # -Half}
           M(k) == {Magnitude(pcm[i]) : i \in J(k)} \cup {0}
<1>1. n \in Nat /\ DOMAIN pcm = 1..n /\ Half \in Nat \ {0}
      /\ \A i \in 1..n : pcm[i] \in -Half..(Half - 1)
  BY PcmAssumption
<1>2. PICK g \in [0..n -> 0..(Half - 1)] :
              /\ g[0] = 0
              /\ \A i \in 1..n :
                    g[i] = IF Heard(pcm[i]) > g[i - 1] THEN Heard(pcm[i]) ELSE g[i - 1]
              /\ g[n] = max_abs_sample(pcm)
  BY PeakTrace
<1> HIDE DEF n
<1> DEFINE Largest(k) == g[k] \in M(k) /\ \A y \in M(k) : g[k] >= y
           T == {k \in 0..n : Largest(k)}
<1>3. Largest(0)
  <2>1. M(0) = {0}
    OBVIOUS
  <2> QED
    BY <1>2, <2>1
<1>4. \A k \in 1..n : k - 1 \in T => k \in T
  <2> TAKE k \in 1..n
  <2> SUFFICES ASSUME Largest(k - 1) PROVE Largest(k)
    <3> HIDE DEF Largest
    <3> QED BY <1>1
  <2>1. /\ k - 1 \in 0..n /\ g[k - 1] \in 0..(Half - 1) /\ pcm[k] \in -Half..(Half - 1)
        /\ g[k] = IF Heard(pcm[k]) > g[k - 1] THEN Heard(pcm[k]) ELSE g[k - 1]
    <3>1. k \in 1..n /\ k - 1 \in 0..n
      BY <1>1
    <3> QED
      BY <1>1, <1>2, <3>1
  <2>2. CASE pcm[k] = -Half
    <3>1. Heard(pcm[k]) = -Half
      BY <2>1, <2>2, HeardIs
    <3>2. g[k] = g[k - 1]
      BY <1>1, <2>1, <3>1
    <3>3. J(k) = J(k - 1)
      <4>1. 1..k = (1..(k - 1)) \cup {k}
        BY <1>1, OneMore
      <4> QED
        BY ONLY <2>2, <4>1, Zenon
    <3> HIDE DEF J
    <3> QED
      BY <3>2, <3>3
  <2>3. CASE pcm[k] # -Half
    <3>1. Heard(pcm[k]) = Magnitude(pcm[k]) /\ Magnitude(pcm[k]) \in 0..(Half - 1)
      BY <2>1, <2>3, HeardIs
    <3>2. M(k) = M(k - 1) \cup {Magnitude(pcm[k])}
      <4>1. J(k) = J(k - 1) \cup {k}
        <5>1. 1..k = (1..(k - 1)) \cup {k}
          BY <1>1, OneMore
        <5> QED
          BY ONLY <2>3, <5>1, Zenon
      <4> HIDE DEF J
      <4> QED BY <4>1
    <3>3. M(k - 1) \subseteq 0..(Half - 1)
      <4>1. \A i \in J(k - 1) : Magnitude(pcm[i]) \in 0..(Half - 1)
        <5> TAKE i \in J(k - 1)
        <5>1. pcm[i] \in -Half..(Half - 1) /\ pcm[i] # -Half
          BY <1>1
        <5> QED
          BY <5>1, HeardIs
      <4> HIDE DEF J
      <4> QED BY <1>1, <4>1
    <3> HIDE DEF M
    <3> QED
      BY <2>1, <3>1, <3>2, <3>3
  <2> QED
    BY <2>2, <2>3
<1>5. 0..n \subseteq T
  <2>1. 0 \in T
    BY <1>1, <1>3
  <2>2. n \in Nat
    BY <1>1
  <2> HIDE DEF T
  <2> QED
    BY Zenon, <1>4, <2>1, <2>2, InductionUpTo
<1>6. Largest(n)
  <2>1. n \in 0..n
    BY <1>1
  <2> HIDE DEF Largest
  <2> QED
    BY ONLY <1>5, <2>1
<1>7. M(n) \subseteq Int
  <2>1. \A i \in J(n) : Magnitude(pcm[i]) \in Int
    BY <1>1 DEF Magnitude
  <2> HIDE DEF J
  <2> QED BY <2>1
<1>8. Max(M(n)) \in M(n) /\ \A y \in M(n) : Max(M(n)) >= y
  <2> HIDE DEF M
  <2> QED BY <1>6, MaxIs
<1>9. g[n] = Max(M(n))
  <2> HIDE DEF M
  <2> QED BY <1>6, <1>7, <1>8
<1> DEFINE peak == max_abs_sample(pcm)
           magnitudes == {Magnitude(pcm[i]) : i \in DOMAIN pcm} \cup {0}
<1>10. peak \in M(n) /\ peak = Max(M(n))
  BY <1>2, <1>6, <1>9
<1>11. M(n) \subseteq magnitudes
  BY <1>1
<1>12. ASSUME \A i \in DOMAIN pcm : pcm[i] # -Half
       PROVE  M(n) = magnitudes
  <2>1. J(n) = DOMAIN pcm
    BY <1>1, <1>12
  <2> HIDE DEF J
  <2> QED BY <2>1
<1> HIDE DEF M, peak, magnitudes
<1>13. peak \in magnitudes /\ ((\A i \in DOMAIN pcm : pcm[i] # -Half) => peak = Max(magnitudes))
  BY ONLY <1>10, <1>11, <1>12, Zenon
<1> QED
  BY <1>13 DEF PeakIsMax, peak, magnitudes

-----------------------------------------------------------------------------

(* The smaller of two numbers.                                             *)
LEMMA MinOfTwo ==
    ASSUME NEW a \in Int, NEW b \in Int
    PROVE  Min({a, b}) = IF a <= b THEN a ELSE b
<1> DEFINE m == IF a <= b THEN a ELSE b
<1>1. m \in {a, b} /\ \A y \in {a, b} : m <= y
  OBVIOUS
<1>2. Min({a, b}) \in {a, b} /\ \A y \in {a, b} : Min({a, b}) <= y
  <2> HIDE DEF m
  <2> QED BY <1>1, Zenon DEF Min
<1> QED
  BY <1>1, <1>2

(* The start threshold is the largest number of whole periods the buffer   *)
(* holds, at most the periods wanted, or the whole buffer, for all sizes a *)
(* size_t can have (audio_playback_compute_start_threshold).               *)
THEOREM StartThreshold ==
    ASSUME NEW buffer \in 0..SizeMax, NEW period \in 0..SizeMax, NEW periods \in 0..SizeMax
    PROVE  ThresholdExact(buffer, period, periods)
<1> DEFINE product == period * periods
           most == SizeMax \div periods
<1>1. SizeMax \in Nat \ {0} /\ buffer \in Nat /\ period \in Nat /\ periods \in Nat
      /\ product \in Nat
  BY PcmAssumption
<1>2. CASE period = 0 \/ periods = 0
  BY <1>1, <1>2 DEF ThresholdExact, audio_playback_compute_start_threshold
<1>3. CASE period # 0 /\ periods # 0 /\ buffer = 0
  <2>1. Min({buffer, product}) = 0
    <3> HIDE DEF product
    <3> QED BY <1>1, <1>3, MinOfTwo
  <2> QED
    BY <1>1, <1>3, <2>1 DEF ThresholdExact, audio_playback_compute_start_threshold
<1>4. CASE period # 0 /\ periods # 0 /\ buffer # 0
  <2>1. period > most <=> product > SizeMax
    BY <1>1, <1>4
  <2>2. product <= SizeMax => product % (SizeMax + 1) = product
    <3> HIDE DEF product
    <3> QED BY <1>1
  <2>3. Min({buffer, product}) = IF buffer <= product THEN buffer ELSE product
    <3> HIDE DEF product
    <3> QED BY <1>1, MinOfTwo
  <2>4. audio_playback_compute_start_threshold(buffer, period, periods) =
            IF period > most THEN buffer
            ELSE IF product % (SizeMax + 1) < buffer THEN product % (SizeMax + 1) ELSE buffer
    BY <1>1, <1>4 DEF audio_playback_compute_start_threshold
  <2>5. audio_playback_compute_start_threshold(buffer, period, periods) =
            Min({buffer, product})
    <3> HIDE DEF product, most
    <3> QED BY <1>1, <2>1, <2>2, <2>3, <2>4
  <2> QED
    BY <1>4, <2>5 DEF ThresholdExact
<1> QED
  BY <1>2, <1>3, <1>4

-----------------------------------------------------------------------------
(* A block on its way to the device (Pcm).                                 *)

(* What is true of the variables of audio_playback_write_all_frames after  *)
(* every turn: the samples taken are the first of the block, those of the  *)
(* frames written, each once and in order.                                 *)
Loop(frames, channels) ==
    {l \in [rc : {-1, 0, 1}, written : 0..frames, took : Seq(Nat)] :
        /\ l.took = [i \in 1..(l.written * channels) |-> i - 1]
        /\ l.rc = 0 <=> l.written = frames}

(* What a call of the device may answer.                                   *)
Answer == [rc : Int, prepared : BOOLEAN]

(* The part of the block a turn offers to the device is a sequence of      *)
(* sample numbers.                                                         *)
LEMMA OfferedSamples ==
    ASSUME NEW w \in Nat, NEW c \in Nat, NEW n \in Nat
    PROVE  Offered(w, c, n) \in Seq(Nat)
<1> DEFINE a == w * c
           b == n * c
<1>1. a \in Nat /\ b \in Nat
  OBVIOUS
<1>2. Offered(w, c, n) = [i \in 1..b |-> a + i - 1]
  BY DEF Offered
<1> HIDE DEF a, b
<1>3. \A i \in 1..b : a + i - 1 \in Nat
  BY <1>1
<1> QED
  BY <1>1, <1>2, <1>3

(* The first a samples and the b that follow are the first a + b.          *)
LEMMA Appending ==
    ASSUME NEW a \in Nat, NEW b \in Nat
    PROVE  [i \in 1..a |-> i - 1] \o [i \in 1..b |-> a + i - 1] = [i \in 1..(a + b) |-> i - 1]
<1> DEFINE s == [i \in 1..a |-> i - 1]
           t == [i \in 1..b |-> a + i - 1]
           u == [i \in 1..(a + b) |-> i - 1]
<1>1. s \in Seq(Nat) /\ t \in Seq(Nat) /\ u \in Seq(Nat)
      /\ Len(s) = a /\ Len(t) = b /\ Len(u) = a + b
  OBVIOUS
<1>2. /\ s \o t \in Seq(Nat) /\ Len(s \o t) = a + b
      /\ \A i \in 1..(a + b) : (s \o t)[i] = IF i <= a THEN s[i] ELSE t[i - a]
  <2> HIDE DEF s, t
  <2>1. s \in Seq(Nat) /\ t \in Seq(Nat) /\ Len(s) = a /\ Len(t) = b
    BY <1>1
  <2> QED
    BY ONLY <2>1, ConcatProperties
<1>3. \A i \in 1..(a + b) : (s \o t)[i] = u[i]
  <2> TAKE i \in 1..(a + b)
  <2>1. (s \o t)[i] = IF i <= a THEN s[i] ELSE t[i - a]
    BY <1>2
  <2>2. i <= a => s[i] = i - 1
    OBVIOUS
  <2>3. i > a => t[i - a] = i - 1
    <3>1. i > a => i - a \in 1..b
      OBVIOUS
    <3> QED BY <3>1
  <2>4. u[i] = i - 1
    OBVIOUS
  <2> HIDE DEF s, t, u
  <2> QED
    BY <2>1, <2>2, <2>3, <2>4
<1> HIDE DEF s, t, u
<1>4. s \o t = u
  BY <1>1, <1>2, <1>3, SeqIsFunction
<1> QED
  BY <1>4 DEF s, t, u

(* A turn of the loop keeps this, and only an answer it cannot go on from  *)
(* ends the loop with an error.                                            *)
LEMMA TurnKeeps ==
    ASSUME NEW frames \in Nat, NEW channels \in Nat \ {0}, NEW loop \in Loop(frames, channels),
           NEW answer \in Answer
    PROVE  /\ WriteTurn(frames, channels, loop, answer) \in Loop(frames, channels)
           /\ WriteTurn(frames, channels, loop, answer).rc = -1 =>
                 loop.rc = -1 \/ Fatal(answer)
<1> DEFINE next == WriteTurn(frames, channels, loop, answer)
           w == loop.written
<1>1. /\ loop = [rc |-> loop.rc, written |-> w, took |-> loop.took]
      /\ w \in 0..frames /\ loop.took \in Seq(Nat) /\ loop.rc \in {-1, 0, 1}
      /\ loop.took = [i \in 1..(w * channels) |-> i - 1]
      /\ loop.rc = 0 <=> w = frames
  BY DEF Loop
<1>2. CASE loop.rc # 1
  BY <1>2 DEF WriteTurn
<1>a. answer.rc \in Int /\ answer.prepared \in BOOLEAN
  BY DEF Answer
<1>3. CASE loop.rc = 1 /\ answer.rc <= 0
  <2>1. CASE answer.rc < 0 /\ audio_playback_alsa_recover(answer) = 0
    <3>1. next = loop
      <4>1. ~(answer.rc > 0) /\ ~(loop.rc # 1)
        BY <1>3, <1>a
      <4> QED
        BY ONLY <2>1, <4>1, Zenon DEF WriteTurn
    <3> HIDE DEF next
    <3> QED BY <1>3, <3>1 DEF next
  <2>2. CASE ~(answer.rc < 0 /\ audio_playback_alsa_recover(answer) = 0)
    <3>1. next = [loop EXCEPT !.rc = -1]
      BY <1>3, <1>a, <2>2 DEF WriteTurn
    <3>2. next.rc = -1 /\ next.written = w /\ next.took = loop.took
          /\ next \in [rc : {-1, 0, 1}, written : 0..frames, took : Seq(Nat)]
      BY <1>1, <3>1
    <3>3. next \in Loop(frames, channels)
      <4> HIDE DEF next
      <4> QED BY <1>1, <1>3, <3>2 DEF Loop
    <3>4. Fatal(answer)
      BY <1>3, <1>a, <2>2
      DEF Fatal, audio_playback_alsa_recover, EAGAIN, EINTR, EPIPE, ESTRPIPE
    <3> HIDE DEF next
    <3> QED
      BY <3>3, <3>4 DEF next
  <2> QED
    BY <2>1, <2>2
<1>4. CASE loop.rc = 1 /\ answer.rc > 0
  <2> DEFINE n == Min({answer.rc, frames - w})
             rc == IF w + n < frames THEN 1 ELSE 0
             took == loop.took \o Offered(w, channels, n)
  <2>1. n \in Nat /\ n \in 1..(frames - w)
    <3>1. frames - w \in Int /\ frames - w > 0
      BY <1>1, <1>4
    <3>2. n = IF answer.rc <= frames - w THEN answer.rc ELSE frames - w
      <4> HIDE DEF w
      <4> QED BY <1>a, <3>1, MinOfTwo
    <3> HIDE DEF n
    <3> QED
      BY <1>1, <1>4, <1>a, <3>1, <3>2
  <2>2. next = [rc |-> rc, written |-> w + n, took |-> took]
    BY <1>4 DEF WriteTurn
  <2> HIDE DEF n
  <2>3. w + n \in 0..frames /\ w + n \in Nat /\ rc \in {-1, 0, 1} /\ (rc = 0 <=> w + n = frames)
        /\ rc # -1
    BY <1>1, <2>1
  <2>4. /\ w * channels \in Nat /\ n * channels \in Nat
        /\ (w + n) * channels = w * channels + n * channels
        /\ Offered(w, channels, n) = [i \in 1..(n * channels) |-> w * channels + i - 1]
        /\ Offered(w, channels, n) \in Seq(Nat)
    <3>1. w \in Nat /\ channels \in Nat /\ n \in Nat
      BY <1>1, <2>1
    <3> HIDE DEF w
    <3>2. Offered(w, channels, n) \in Seq(Nat)
      BY <3>1, OfferedSamples
    <3>3. Offered(w, channels, n) = [i \in 1..(n * channels) |-> w * channels + i - 1]
      BY DEF Offered
    <3>4. w * channels \in Nat /\ n * channels \in Nat
          /\ (w + n) * channels = w * channels + n * channels
      BY <3>1
    <3> QED BY <3>2, <3>3, <3>4
  <2>5. took = [i \in 1..((w + n) * channels) |-> i - 1]
    <3> DEFINE a == w * channels
               b == n * channels
    <3>1. took = [i \in 1..a |-> i - 1] \o [i \in 1..b |-> a + i - 1]
      BY <1>1, <2>4
    <3>2. a \in Nat /\ b \in Nat /\ (w + n) * channels = a + b
      BY <2>4
    <3> HIDE DEF a, b, took, w
    <3>3. took = [i \in 1..(a + b) |-> i - 1]
      BY <3>1, <3>2, Appending
    <3> QED
      BY <3>2, <3>3
  <2>6. took \in Seq(Nat)
    BY <1>1, <2>4
  <2> HIDE DEF next, rc, took, w
  <2>7. next.rc = rc /\ next.written = w + n /\ next.took = took
        /\ next \in [rc : {-1, 0, 1}, written : 0..frames, took : Seq(Nat)]
    BY <2>2, <2>3, <2>6
  <2>8. next \in Loop(frames, channels)
    BY <2>3, <2>5, <2>7 DEF Loop
  <2> QED
    BY <2>3, <2>7, <2>8 DEF next
<1> QED
  BY <1>1, <1>2, <1>3, <1>4, <1>a

(* The loop of audio_playback_write_all_frames, one state for each answer  *)
(* of the device.                                                          *)
LEMMA LoopTrace ==
    ASSUME NEW frames \in Nat \ {0}, NEW channels \in Nat \ {0}, NEW device \in Seq(Answer)
    PROVE  \E g \in [0..Len(device) -> Loop(frames, channels)] :
              /\ g[0].rc = 1
              /\ \A i \in 1..Len(device) :
                    g[i] = WriteTurn(frames, channels, g[i - 1], device[i])
              /\ g[Len(device)] = audio_playback_write_all_frames(frames, channels, device)
<1> DEFINE n == Len(device)
           S == Loop(frames, channels)
           init == [rc |-> 1, written |-> 0, took |-> <<>>]
           Rule(i, loop) == WriteTurn(frames, channels, loop, device[i])
           step == [p \in (1..n) \X S |-> Rule(p[1], p[2])]
           Eqn(it) == it = [s \in SUBSET (1..n) |->
                              IF s = {} THEN init ELSE Rule(Max(s), it[s \ {Max(s)}])]
<1>1. n \in Nat /\ DOMAIN device = 1..n /\ init \in S
  <2>1. init.took = [i \in 1..(0 * channels) |-> i - 1]
    OBVIOUS
  <2>2. init \in [rc : {-1, 0, 1}, written : 0..frames, took : Seq(Nat)]
    OBVIOUS
  <2> QED
    BY <2>1, <2>2 DEF Loop
<1>2. \A i \in 1..n, loop \in S : Rule(i, loop) \in S
  <2> TAKE i \in 1..n, loop \in S
  <2>1. device[i] \in Answer
    BY <1>1
  <2> QED
    BY <2>1, TurnKeeps
<1>3. step \in [(1..n) \X S -> S]
  BY <1>2
<1>4. \A i \in 1..n, loop \in S : step[<<i, loop>>] = Rule(i, loop)
  OBVIOUS
<1>5. audio_playback_write_all_frames(frames, channels, device) = (CHOOSE it : Eqn(it))[1..n]
  BY <1>1, Zenon DEF audio_playback_write_all_frames, FoldLeft, MapThenFoldSet
<1>6. init.rc = 1
  OBVIOUS
<1> HIDE DEF n, S, init, Rule, step
<1>7. \E it : Eqn(it)
  <2>1. PICK it \in [SUBSET (1..n) -> S] : IsFold(it, n, init, step)
    BY <1>1, <1>3, FoldExists
  <2>2. \A s \in SUBSET (1..n) :
            s # {} => step[<<Max(s), it[s \ {Max(s)}]>>] = Rule(Max(s), it[s \ {Max(s)}])
    <3> TAKE s \in SUBSET (1..n)
    <3> HAVE s # {}
    <3>1. Max(s) \in 1..n
      BY <1>1, MaxIsIn
    <3>2. it[s \ {Max(s)}] \in S
      OBVIOUS
    <3> QED
      BY <1>4, <3>1, <3>2
  <2>3. Eqn(it)
    BY <2>1, <2>2 DEF IsFold
  <2> QED
    BY <2>3
<1> DEFINE it == CHOOSE i : Eqn(i)
<1>8. Eqn(it)
  BY <1>7
<1> HIDE DEF it
<1>9. PICK g \in [0..n -> S] :
         IsTrace(g, n, init, step, audio_playback_write_all_frames(frames, channels, device))
  <2>1. it[{}] = init
    BY <1>8
  <2>2. \A s \in (SUBSET (1..n)) \ {{}} : it[s \ {Max(s)}] \in S =>
                 it[s] = step[<<Max(s), it[s \ {Max(s)}]>>]
    <3> TAKE s \in (SUBSET (1..n)) \ {{}}
    <3> HAVE it[s \ {Max(s)}] \in S
    <3>1. Max(s) \in 1..n
      BY <1>1, MaxIsIn
    <3>2. it[s] = Rule(Max(s), it[s \ {Max(s)}])
      BY <1>8
    <3> QED
      BY <1>4, <3>1, <3>2
  <2>3. Follows(it, n, S, init, step, audio_playback_write_all_frames(frames, channels, device))
    BY <1>5, <2>1, <2>2 DEF Follows, it
  <2> QED
    BY <1>1, <1>3, <2>3, FoldTrace
<1>10. \A i \in 1..n : g[i] = Rule(i, g[i - 1])
  <2> TAKE i \in 1..n
  <2>1. g[i - 1] \in S
    BY <1>1, <1>9
  <2> QED
    BY <1>4, <1>9, <2>1 DEF IsTrace
<1> QED
  BY <1>6, <1>9, <1>10 DEF n, S, Rule, IsTrace

(* Whatever the device answers, for how long ever - short writes,          *)
(* underruns, suspends, errors - it takes every sample at most once and in *)
(* order, success means it took them all, and the loop gives up only on an *)
(* answer it cannot go on from (audio_playback_write_all_frames,           *)
(* audio_playback_alsa_recover).                                           *)
THEOREM BlockWritten ==
    ASSUME NEW frames \in Nat, NEW channels \in Nat, NEW device \in Seq(Answer)
    PROVE  WritesEachFrameOnce(frames, channels, device)
<1> DEFINE r == audio_playback_write_all_frames(frames, channels, device)
           n == Len(device)
<1>1. CASE frames = 0 \/ channels = 0
  <2>1. r = [rc |-> -1, written |-> 0, took |-> <<>>]
    BY <1>1 DEF audio_playback_write_all_frames
  <2>2. r.took = <<>> /\ Len(r.took) = 0 /\ r.rc = -1
    BY <2>1
  <2>3. <<>> = [i \in 1..0 |-> i - 1]
    OBVIOUS
  <2> HIDE DEF r
  <2>4. /\ r.took = [i \in 1..Len(r.took) |-> i - 1]
        /\ (r.rc = 0) <=> (frames > 0 /\ channels > 0 /\ Len(r.took) = frames * channels)
        /\ ~(r.rc = -1 /\ frames > 0 /\ channels > 0)
    BY <1>1, <2>2, <2>3
  <2> QED
    BY <2>4 DEF WritesEachFrameOnce, r
<1>2. CASE frames # 0 /\ channels # 0
  <2>1. PICK g \in [0..n -> Loop(frames, channels)] :
              /\ g[0].rc = 1
              /\ \A i \in 1..n : g[i] = WriteTurn(frames, channels, g[i - 1], device[i])
              /\ g[n] = r
    <3>1. frames \in Nat \ {0} /\ channels \in Nat \ {0}
      BY <1>2
    <3> QED
      BY <3>1, LoopTrace
  <2>2. n \in Nat /\ DOMAIN device = 1..n /\ \A i \in 1..n : device[i] \in Answer
    OBVIOUS
  <2> HIDE DEF r, n
  <2>3. r \in Loop(frames, channels)
    BY <2>1, <2>2
  <2>4. r.rc = -1 => \E i \in 1..n : Fatal(device[i])
    <3> DEFINE T == {k \in 0..n : g[k].rc = -1 => \E i \in 1..n : Fatal(device[i])}
    <3>1. 0 \in T
      BY <2>1, <2>2
    <3>2. \A k \in 1..n : k - 1 \in T => k \in T
      <4> TAKE k \in 1..n
      <4>1. k - 1 \in 0..n /\ k \in 0..n /\ g[k - 1] \in Loop(frames, channels)
            /\ device[k] \in Answer /\ channels \in Nat \ {0}
        BY <1>2, <2>1, <2>2
      <4>2. g[k].rc = -1 => g[k - 1].rc = -1 \/ Fatal(device[k])
        BY <2>1, <4>1, TurnKeeps
      <4> QED
        BY <4>1, <4>2
    <3>3. 0..n \subseteq T
      <4> HIDE DEF T
      <4> QED BY <2>2, <3>1, <3>2, InductionUpTo
    <3>4. n \in T
      BY <2>2, <3>3
    <3> QED
      BY <2>1, <3>4
  <2>5. /\ r.took = [i \in 1..(r.written * channels) |-> i - 1]
        /\ r.rc = 0 <=> r.written = frames
        /\ r.written \in 0..frames
    BY <2>3 DEF Loop
  <2>6. r.written * channels \in Nat
        /\ (r.written = frames <=> r.written * channels = frames * channels)
    <3>1. \A a, b, c \in Nat : c # 0 /\ a * c = b * c => a = b
      OBVIOUS
    <3>2. r.written \in Nat /\ r.written * channels \in Nat
      BY <2>5
    <3> QED
      BY <1>2, <3>1, <3>2
  <2>7. Len(r.took) = r.written * channels
    <3> DEFINE a == r.written * channels
    <3>1. r.took = [i \in 1..a |-> i - 1] /\ a \in Nat
      BY <2>5, <2>6
    <3> HIDE DEF a
    <3>2. Len(r.took) = a
      BY <3>1
    <3> QED
      BY <3>2 DEF a
  <2>8. /\ r.took = [i \in 1..Len(r.took) |-> i - 1]
        /\ (r.rc = 0) <=> (frames > 0 /\ channels > 0 /\ Len(r.took) = frames * channels)
        /\ r.rc = -1 => \E i \in DOMAIN device : Fatal(device[i])
    <3>1. r.took = [i \in 1..Len(r.took) |-> i - 1]
      BY <2>5, <2>7
    <3>2. (r.rc = 0) <=> (frames > 0 /\ channels > 0 /\ Len(r.took) = frames * channels)
      BY <1>2, <2>5, <2>6, <2>7
    <3>3. r.rc = -1 => \E i \in DOMAIN device : Fatal(device[i])
      BY <2>2, <2>4
    <3> QED
      BY <3>1, <3>2, <3>3
  <2> QED
    BY <2>8 DEF WritesEachFrameOnce, r
<1> QED
  BY <1>1, <1>2

-----------------------------------------------------------------------------
(* A packet on its way to the device (OpusCodec).                          *)

(* Hellos whose numbers may be any the JSON can hold.                      *)
Hello == [rate : Int, channels : Int]

(* Decoders, made or not.                                                  *)
Decoder == [made : BOOLEAN, rate : Nat, channels : Nat]

(* What is true after every hello: a decoder that was made has parameters  *)
(* libopus takes, and the rate the blocks are stamped with is its own.     *)
Decoding ==
    {a \in [dec : Decoder, rate : Nat] :
        a.dec.made => /\ opus_decoder_create(a.dec.rate, a.dec.channels)
                      /\ a.rate = a.dec.rate}

(* A decoder that was made has the rate and the channels asked for         *)
(* (opus_decoder_wrapper_init).                                            *)
LEMMA DecoderIs ==
    ASSUME NEW rate \in Nat, NEW channels \in Nat
    PROVE  /\ opus_decoder_wrapper_init(rate, channels) \in Decoder
           /\ opus_decoder_wrapper_init(rate, channels).made =>
                 /\ opus_decoder_wrapper_init(rate, channels).rate = rate
                 /\ opus_decoder_wrapper_init(rate, channels).channels = channels
                 /\ opus_decoder_create(rate, channels)
  BY DEF opus_decoder_wrapper_init, NoDecoder, Decoder

(* A hello keeps the rate of the decoder and the rate of the blocks        *)
(* together (app_update_decoder_from_hello).                               *)
LEMMA HelloKeeps ==
    ASSUME NEW a \in Decoding, NEW hello \in Hello
    PROVE  app_update_decoder_from_hello(a, hello) \in Decoding
<1> DEFINE rate == IF hello.rate > 0 THEN hello.rate ELSE a.rate
           channels == IF hello.channels > 0 THEN hello.channels ELSE 1
           dec == opus_decoder_wrapper_init(rate, channels)
           next == [dec |-> dec, rate |-> IF dec.made THEN rate ELSE a.rate]
<1>1. rate \in Nat /\ channels \in Nat /\ a.rate \in Nat
  BY DEF Decoding, Hello
<1>2. app_update_decoder_from_hello(a, hello) \in {a, next}
  BY DEF app_update_decoder_from_hello
<1> HIDE DEF rate, channels
<1>3. /\ dec \in Decoder
      /\ dec.made => /\ dec.rate = rate /\ dec.channels = channels
                     /\ opus_decoder_create(rate, channels)
  BY <1>1, DecoderIs
<1> HIDE DEF dec
<1>4. next \in Decoding
  BY <1>1, <1>3 DEF Decoding, Decoder
<1> QED
  BY <1>2, <1>4

(* So does the start (app_run).                                            *)
LEMMA FirstIsDecoding == FirstDecoder \in Decoding
<1>1. FirstDecoder.dec \in Decoder /\ FirstDecoder = [dec |-> FirstDecoder.dec, rate |-> 24000]
  BY DecoderIs DEF FirstDecoder
<1>2. FirstDecoder.dec.made =>
          opus_decoder_create(FirstDecoder.dec.rate, FirstDecoder.dec.channels)
          /\ FirstDecoder.dec.rate = 24000
  BY DecoderIs DEF FirstDecoder
<1> QED
  BY <1>1, <1>2 DEF Decoding

(* After any number of hellos the two rates agree.                         *)
LEMMA HellosKeep ==
    ASSUME NEW hellos \in Seq(Hello)
    PROVE  AfterHellos(hellos) \in Decoding
<1> DEFINE n == Len(hellos)
           S == Decoding
           Rule(i, a) == app_update_decoder_from_hello(a, hellos[i])
           step == [p \in (1..n) \X S |-> Rule(p[1], p[2])]
           Eqn(it) == it = [s \in SUBSET (1..n) |->
                              IF s = {} THEN FirstDecoder ELSE Rule(Max(s), it[s \ {Max(s)}])]
<1>1. n \in Nat /\ DOMAIN hellos = 1..n /\ FirstDecoder \in S
  BY FirstIsDecoding
<1>2. \A i \in 1..n, a \in S : Rule(i, a) \in S
  BY <1>1, HelloKeeps
<1>3. step \in [(1..n) \X S -> S]
  BY <1>2
<1>4. \A i \in 1..n, a \in S : step[<<i, a>>] = Rule(i, a)
  OBVIOUS
<1>5. AfterHellos(hellos) = (CHOOSE it : Eqn(it))[1..n]
  BY <1>1, Zenon DEF AfterHellos, FoldLeft, MapThenFoldSet
<1> HIDE DEF n, S, Rule, step
<1>7. \E it : Eqn(it)
  <2>1. PICK it \in [SUBSET (1..n) -> S] : IsFold(it, n, FirstDecoder, step)
    BY <1>1, <1>3, FoldExists
  <2>2. \A s \in SUBSET (1..n) :
            s # {} => step[<<Max(s), it[s \ {Max(s)}]>>] = Rule(Max(s), it[s \ {Max(s)}])
    <3> TAKE s \in SUBSET (1..n)
    <3> HAVE s # {}
    <3>1. Max(s) \in 1..n
      BY <1>1, MaxIsIn
    <3>2. it[s \ {Max(s)}] \in S
      OBVIOUS
    <3> QED
      BY <1>4, <3>1, <3>2
  <2>3. Eqn(it)
    BY <2>1, <2>2 DEF IsFold
  <2> QED
    BY <2>3
<1> DEFINE it == CHOOSE i : Eqn(i)
<1>8. Eqn(it)
  BY <1>7
<1> HIDE DEF it
<1>9. PICK g \in [0..n -> S] : IsTrace(g, n, FirstDecoder, step, AfterHellos(hellos))
  <2>1. it[{}] = FirstDecoder
    BY <1>8
  <2>2. \A s \in (SUBSET (1..n)) \ {{}} : it[s \ {Max(s)}] \in S =>
                 it[s] = step[<<Max(s), it[s \ {Max(s)}]>>]
    <3> TAKE s \in (SUBSET (1..n)) \ {{}}
    <3> HAVE it[s \ {Max(s)}] \in S
    <3>1. Max(s) \in 1..n
      BY <1>1, MaxIsIn
    <3>2. it[s] = Rule(Max(s), it[s \ {Max(s)}])
      BY <1>8
    <3> QED
      BY <1>4, <3>1, <3>2
  <2>3. Follows(it, n, S, FirstDecoder, step, AfterHellos(hellos))
    BY <1>5, <2>1, <2>2 DEF Follows, it
  <2> QED
    BY <1>1, <1>3, <2>3, FoldTrace
<1>10. AfterHellos(hellos) \in S
  BY <1>1, <1>9 DEF IsTrace
<1> QED
  BY <1>10 DEF S

(* After any hellos, a packet of any duration is played at the rate it was *)
(* decoded at, a mono packet for exactly its duration, and none that was   *)
(* decoded is lost to a buffer that is too small (app_client_on_binary,    *)
(* opus_decode_frame).                                                     *)
THEOREM PacketPlays ==
    ASSUME NEW hellos \in Seq(Hello), NEW ms \in Nat \ {0}
    PROVE  PlaysAtItsSpeed(hellos, ms) /\ SizesAgree(hellos, ms)
<1> DEFINE a == AfterHellos(hellos)
           dec == a.dec
           product == dec.rate * ms
           frames == opus_decode_frame(dec, ms, PcmRoom)
           blocks == app_client_on_binary(a, ms)
<1>1. /\ dec.made \in BOOLEAN /\ dec.rate \in Nat /\ dec.channels \in Nat /\ a.rate \in Nat
      /\ dec.made => /\ dec.rate \in {8000, 12000, 16000, 24000, 48000}
                     /\ dec.channels \in {1, 2} /\ a.rate = dec.rate
  BY HellosKeep DEF Decoding, Decoder, opus_decoder_create
<1>2. dec.made => /\ product \in Nat /\ product \div 1000 \in Nat \ {0}
                  /\ (product \div 1000) * 1000 = product
                  /\ ms <= 80 => product \div 1000 <= 4096
  <2> SUFFICES ASSUME dec.made
               PROVE  /\ product \in Nat /\ product \div 1000 \in Nat \ {0}
                      /\ (product \div 1000) * 1000 = product
                      /\ ms <= 80 => product \div 1000 <= 4096
    OBVIOUS
  <2> DEFINE rate == dec.rate
  <2>1. rate = 8000 \/ rate = 12000 \/ rate = 16000 \/ rate = 24000 \/ rate = 48000
    BY <1>1
  <2>2. product = rate * ms
    OBVIOUS
  <2> HIDE DEF rate, product
  <2>3. PICK w \in {8, 12, 16, 24, 48} : rate = 1000 * w
    BY <2>1
  <2>4. PICK m \in Nat \ {0} : product = 1000 * m /\ (ms <= 80 => m <= 4096)
    <3> DEFINE m == w * ms
    <3>1. m \in Nat \ {0} /\ (ms <= 80 => m <= 4096)
      BY <2>3
    <3>2. product = 1000 * m
      BY <2>2, <2>3
    <3> HIDE DEF m
    <3> QED
      BY ONLY <3>1, <3>2
  <2> QED
    BY ONLY <2>4
<1>3. /\ dec.made /\ dec.channels > 0 /\ product \div 1000 <= 4096 \div dec.channels =>
            frames = product \div 1000
      /\ ~(dec.made /\ dec.channels > 0 /\ product \div 1000 <= 4096 \div dec.channels) =>
            frames = -1
  BY DEF opus_decode_frame, PcmRoom
<1>4. dec.made /\ dec.channels > 0 => 4096 \div dec.channels <= 4096
      /\ (dec.channels = 1 => 4096 \div dec.channels = 4096)
  BY <1>1
<1>5. blocks = IF frames > 0 /\ frames * 2 <= 8192
               THEN <<[bytes |-> frames * 2, rate |-> a.rate]>> ELSE <<>>
  BY DEF app_client_on_binary, BlockBytes, BlockRoom
<1> HIDE DEF product, frames, blocks, a, dec
<1>6. frames > 0 => /\ dec.made /\ frames * 1000 = product /\ frames \in Nat /\ frames <= 4096
                    /\ dec.channels > 0
  BY <1>1, <1>2, <1>3, <1>4
<1>7. SizesAgree(hellos, ms)
  <2>1. frames > 0 => blocks # <<>>
    BY <1>5, <1>6
  <2>2. dec.made /\ dec.channels = 1 /\ ms <= 80 => frames > 0
    BY <1>1, <1>2, <1>3, <1>4
  <2> QED
    BY <2>1, <2>2 DEF SizesAgree, frames, blocks, a, dec
<1>8. PlaysAtItsSpeed(hellos, ms)
  <2>1. \A i \in DOMAIN blocks :
            /\ blocks[i].rate = dec.rate
            /\ dec.channels = 1 => (blocks[i].bytes \div 2) * 1000 = ms * blocks[i].rate
    <3> TAKE i \in DOMAIN blocks
    <3>1. frames > 0 /\ blocks[i].bytes = frames * 2 /\ blocks[i].rate = a.rate
      BY <1>5
    <3>2. (frames * 2) \div 2 = frames /\ dec.made /\ a.rate = dec.rate
      BY <1>1, <1>6, <3>1
    <3>3. frames * 1000 = ms * dec.rate
      <4>1. frames * 1000 = dec.rate * ms
        BY <1>6, <3>1 DEF product
      <4> QED
        BY <1>1, <4>1
    <3> QED
      BY <3>1, <3>2, <3>3
  <2> QED
    BY <2>1 DEF PlaysAtItsSpeed, blocks, a, dec
<1> QED
  BY <1>7, <1>8

-----------------------------------------------------------------------------
(* The dump (OpusDump).                                                    *)

(* A function on positions that is nil where it stops, and elsewhere comes *)
(* from its value at a position further on: a reading loop, as a recursive *)
(* function.                                                               *)
IsBackward(f, n, stop, after, nil, take) ==
    \A p \in 0..n : f[p] = IF p \in stop THEN nil ELSE take[<<p, f[after[p]]>>]

(* Such a function exists: built up from the end.                          *)
LEMMA BackwardExists ==
    ASSUME NEW n \in Nat, NEW T, NEW nil \in T, NEW stop, NEW after,
           \A p \in (0..n) \ stop : after[p] \in 0..n /\ after[p] > p,
           NEW take \in [(0..n) \X T -> T]
    PROVE  \E f \in [0..n -> T] : IsBackward(f, n, stop, after, nil, take)
<1> DEFINE Eqn(f, p) == f[p] = IF p \in stop THEN nil ELSE take[<<p, f[after[p]]>>]
           Has(m) == \E f \in [0..n -> T] : \A p \in (n - m + 1)..n : Eqn(f, p)
           U == {m \in Nat : m <= n + 1 => Has(m)}
<1>1. 0 \in U
  <2> DEFINE f == [p \in 0..n |-> nil]
  <2>1. f \in [0..n -> T]
    OBVIOUS
  <2>2. \A p \in (n - 0 + 1)..n : Eqn(f, p)
    <3>1. (n - 0 + 1)..n = {}
      OBVIOUS
    <3> HIDE DEF Eqn
    <3> QED BY <3>1
  <2>3. Has(0)
    <3> HIDE DEF f, Eqn
    <3> QED BY <2>1, <2>2
  <2> HIDE DEF Has
  <2> QED
    BY <2>3
<1>2. ASSUME NEW m \in Nat, m \in U PROVE m + 1 \in U
  <2> SUFFICES ASSUME m + 1 <= n + 1 PROVE Has(m + 1)
    <3> HIDE DEF Has
    <3> QED OBVIOUS
  <2>1. Has(m)
    <3> HIDE DEF Has
    <3> QED BY <1>2
  <2>2. PICK f \in [0..n -> T] : \A p \in (n - m + 1)..n : Eqn(f, p)
    <3> HIDE DEF Eqn
    <3> QED BY <2>1
  <2> DEFINE q == n - m
             h == [f EXCEPT ![q] = IF q \in stop THEN nil ELSE take[<<q, f[after[q]]>>]]
  <2>3. q \in 0..n /\ n - (m + 1) + 1 = q /\ n - m + 1 = q + 1
    OBVIOUS
  <2> HIDE DEF q
  <2>4. h \in [0..n -> T]
    <3>1. q \notin stop => <<q, f[after[q]]>> \in (0..n) \X T
      BY <2>3
    <3> QED
      BY <2>3, <3>1
  <2>5. /\ \A p \in 0..n : p # q => h[p] = f[p]
        /\ h[q] = IF q \in stop THEN nil ELSE take[<<q, f[after[q]]>>]
    BY <2>3
  <2> HIDE DEF h
  <2>6. \A p \in q..n : Eqn(h, p)
    <3> TAKE p \in q..n
    <3>1. p \in 0..n /\ q \in Nat /\ (p \notin stop => after[p] \in 0..n /\ after[p] > p)
      BY <2>3
    <3>2. p \notin stop => h[after[p]] = f[after[p]]
      BY <2>3, <2>5, <3>1
    <3>3. CASE p = q
      BY <2>5, <3>2, <3>3
    <3>4. CASE p # q
      <4>1. p \in (n - m + 1)..n
        BY <2>3, <3>1, <3>4
      <4>2. Eqn(f, p) /\ h[p] = f[p]
        BY <2>2, <2>5, <3>1, <3>4, <4>1
      <4> QED
        BY <3>2, <4>2
    <3> QED
      BY <3>3, <3>4
  <2> HIDE DEF Eqn
  <2> QED
    BY <2>3, <2>4, <2>6
<1>3. Nat \subseteq U
  <2> HIDE DEF U
  <2> QED BY <1>1, <1>2, Induction
<1>4. Has(n + 1)
  <2> HIDE DEF Has
  <2>1. n + 1 \in U
    BY <1>3
  <2> QED BY <2>1
<1>5. n - (n + 1) + 1 = 0
  OBVIOUS
<1>6. PICK f \in [0..n -> T] : \A p \in 0..n : Eqn(f, p)
  <2> HIDE DEF Eqn
  <2> QED BY <1>4, <1>5
<1> QED
  BY <1>6 DEF IsBackward

-----------------------------------------------------------------------------

(* What a part of a sequence is made of.                                   *)
LEMMA Slice ==
    ASSUME NEW S, NEW s \in Seq(S), NEW a \in Nat, NEW m \in Nat, a + m <= Len(s)
    PROVE  /\ SubSeq(s, a + 1, a + m) \in Seq(S)
           /\ Len(SubSeq(s, a + 1, a + m)) = m
           /\ \A k \in 1..m : SubSeq(s, a + 1, a + m)[k] = s[a + k]
<1> DEFINE t == SubSeq(s, a + 1, a + m)
<1>1. \A k \in 1..m : a + k \in 1..Len(s) /\ s[a + k] \in S
  OBVIOUS
<1>2. Len(t) = m /\ \A k \in 1..m : t[k] = s[a + k]
  OBVIOUS
<1>3. t \in Seq(S)
  BY <1>1
<1> QED
  BY <1>2, <1>3

(* The digits of the dump.                                                 *)
Byte == 0..(Base - 1)

(* The length field of a record at pos.                                    *)
Length(file, pos) == file[pos + 1] + Base * file[pos + 2]

(* The recursive function of decode_opus_dump: what is read from each      *)
(* position on.                                                            *)
Reading(file) ==
    CHOOSE from : from =
        [pos \in 0..Len(file) |->
            IF pos + 2 > Len(file) THEN <<>>
            ELSE LET len == file[pos + 1] + Base * file[pos + 2]
                 IN  IF len = 0 THEN from[pos + 2]
                     ELSE IF pos + 2 + len > Len(file) THEN <<>>
                     ELSE <<SubSeq(file, pos + 3, pos + 2 + len)>> \o from[pos + 2 + len]]

(* The dump is read from position 0.                                       *)
LEMMA ReadingFromStart ==
    ASSUME NEW file
    PROVE  decode_opus_dump(file) = Reading(file)[0]
  BY Zenon DEF decode_opus_dump, Reading

(* A length field is a natural number.                                     *)
LEMMA LengthIsNat ==
    ASSUME NEW file \in Seq(Byte), NEW pos \in 0..Len(file), pos + 2 <= Len(file)
    PROVE  Length(file, pos) \in Nat
<1>1. pos + 1 \in 1..Len(file) /\ pos + 2 \in 1..Len(file) /\ Len(file) \in Nat
  OBVIOUS
<1>2. file[pos + 1] \in Byte /\ file[pos + 2] \in Byte
  BY <1>1
<1>3. file[pos + 1] \in Nat /\ file[pos + 2] \in Nat /\ Base \in Nat
  BY <1>2, BaseAssumption DEF Byte
<1> QED
  BY <1>3 DEF Length

(* The reading loop, one record at a time: it ends at a header or a packet *)
(* that is cut off, and goes on behind a whole record (decode_opus_dump).  *)
LEMMA ReadingIs ==
    ASSUME NEW file \in Seq(Byte)
    PROVE  /\ Reading(file) \in [0..Len(file) -> Seq(Seq(Byte))]
           /\ \A pos \in 0..Len(file) :
                 /\ pos + 2 > Len(file) => Reading(file)[pos] = <<>>
                 /\ pos + 2 <= Len(file) /\ Length(file, pos) # 0
                    /\ pos + 2 + Length(file, pos) > Len(file) => Reading(file)[pos] = <<>>
                 /\ pos + 2 <= Len(file) /\ Length(file, pos) # 0
                    /\ pos + 2 + Length(file, pos) <= Len(file) =>
                       Reading(file)[pos] =
                          <<SubSeq(file, pos + 3, pos + 2 + Length(file, pos))>>
                          \o Reading(file)[pos + 2 + Length(file, pos)]
<1> DEFINE n == Len(file)
           T == Seq(Seq(Byte))
           len(p) == Length(file, p)
           after == [p \in 0..n |-> p + 2 + len(p)]
           stop == {p \in 0..n : p + 2 > n \/ (len(p) # 0 /\ p + 2 + len(p) > n)}
           Add(p, t) == IF len(p) = 0 THEN t ELSE <<SubSeq(file, p + 3, p + 2 + len(p))>> \o t
           take == [x \in (0..n) \X T |-> IF x[1] \in stop THEN <<>> ELSE Add(x[1], x[2])]
           Rule(f, p) == IF p + 2 > n THEN <<>>
                         ELSE IF len(p) = 0 THEN f[p + 2]
                         ELSE IF p + 2 + len(p) > n THEN <<>>
                         ELSE <<SubSeq(file, p + 3, p + 2 + len(p))>> \o f[p + 2 + len(p)]
           Eqn(f) == f = [p \in 0..n |-> Rule(f, p)]
<1>1. n \in Nat /\ <<>> \in T
  OBVIOUS
<1>2. \A p \in 0..n : p + 2 <= n => len(p) \in Nat
  BY <1>1, LengthIsNat
<1>3. \A p \in (0..n) \ stop : after[p] \in 0..n /\ after[p] > p /\ p + 2 <= n /\ len(p) \in Nat
  <2> TAKE p \in (0..n) \ stop
  <2>1. p + 2 <= n /\ ~(len(p) # 0 /\ p + 2 + len(p) > n)
    BY <1>1
  <2>2. len(p) \in Nat
    BY <1>2, <2>1
  <2> HIDE DEF len
  <2> QED
    BY <1>1, <2>1, <2>2
<1>4. take \in [(0..n) \X T -> T]
  <2>1. \A p \in (0..n) \ stop, t \in T : Add(p, t) \in T
    <3> TAKE p \in (0..n) \ stop, t \in T
    <3>1. p + 2 \in Nat /\ len(p) \in Nat /\ (len(p) = 0 \/ (p + 2) + len(p) <= n)
      BY <1>1, <1>3
    <3>2. len(p) # 0 => SubSeq(file, p + 3, p + 2 + len(p)) \in Seq(Byte)
      <4> HAVE len(p) # 0
      <4>1. SubSeq(file, (p + 2) + 1, (p + 2) + len(p)) \in Seq(Byte)
        <5> HIDE DEF len
        <5> QED BY <3>1, Slice
      <4>2. (p + 2) + 1 = p + 3
        OBVIOUS
      <4> QED
        BY <4>1, <4>2
    <3> HIDE DEF len
    <3> QED
      BY <3>2
  <2> HIDE DEF Add, stop
  <2> QED
    BY <1>1, <2>1
<1>5. Reading(file) = CHOOSE f : Eqn(f)
  BY Zenon DEF Reading, Length
<1>6. \A p \in (0..n) \ stop, t \in T : take[<<p, t>>] = Add(p, t)
  <2> HIDE DEF Add, stop
  <2> QED OBVIOUS
<1>7. \A f, p : /\ p \in stop => Rule(f, p) = <<>>
                /\ p \in (0..n) \ stop => Rule(f, p) = Add(p, f[after[p]])
  <2> TAKE f, p
  <2>1. CASE p \in stop
    BY <2>1
  <2>2. CASE p \in (0..n) \ stop
    <3>1. after[p] = p + 2 + len(p) /\ p + 2 <= n /\ (len(p) = 0 \/ ~(p + 2 + len(p) > n))
          /\ len(p) \in Nat
      BY <1>1, <1>3, <2>2
    <3>2. len(p) = 0 => after[p] = p + 2
      BY <3>1
    <3>3. ~(p + 2 > n)
      BY <1>1, <3>1
    <3> HIDE DEF len, after, stop
    <3> QED
      BY <2>2, <3>1, <3>2, <3>3
  <2> QED
    BY <2>1, <2>2
<1> HIDE DEF n, T, len, after, stop, Add, take, Rule
<1>8. PICK f \in [0..n -> T] : IsBackward(f, n, stop, after, <<>>, take)
  BY <1>1, <1>3, <1>4, BackwardExists
<1>9. Eqn(f)
  <2>1. \A p \in 0..n : f[p] = Rule(f, p)
    <3> TAKE p \in 0..n
    <3>1. CASE p \in stop
      BY <1>7, <1>8, <3>1 DEF IsBackward
    <3>2. CASE p \notin stop
      <4>1. f[after[p]] \in T
        BY <1>3, <1>8, <3>2
      <4> QED
        <5>1. p \in (0..n) \ stop
          BY <3>2
        <5>2. f[p] = take[<<p, f[after[p]]>>]
          BY <1>8, <3>2 DEF IsBackward
        <5>3. take[<<p, f[after[p]]>>] = Add(p, f[after[p]])
          BY <1>6, <4>1, <5>1
        <5>4. Rule(f, p) = Add(p, f[after[p]])
          BY <1>7, <5>1
        <5> QED
          BY <5>2, <5>3, <5>4
    <3> QED
      BY <3>1, <3>2
  <2> QED
    BY <2>1
<1>10. Eqn(Reading(file))
  BY <1>5, <1>9
<1> DEFINE r == Reading(file)
<1> HIDE DEF r
<1>11. Eqn(r)
  BY <1>10 DEF r
<1>12. \A p \in 0..n : r[p] = IF p \in stop THEN <<>> ELSE Add(p, r[after[p]])
  BY <1>7, <1>11
<1>13. r = [p \in 0..n |-> r[p]]
  BY <1>11
<1>14. r \in [0..n -> T]
  <2> DEFINE U == {m \in Nat : \A p \in 0..n : p + m >= n => r[p] \in T}
  <2>1. ASSUME NEW m \in Nat, \A p \in 0..n : p + m > n => r[p] \in T
        PROVE  \A p \in 0..n : p + m >= n => r[p] \in T
    <3> SUFFICES ASSUME NEW p \in 0..n, p + m >= n PROVE r[p] \in T
      OBVIOUS
    <3>1. CASE p \in stop
      BY <1>1, <1>12, <3>1
    <3>2. CASE p \notin stop
      <4>1. after[p] \in 0..n /\ after[p] > p
        BY <1>3, <3>2
      <4>2. r[after[p]] \in T
        BY <1>1, <2>1, <4>1
      <4>3. take[<<p, r[after[p]]>>] \in T
        BY <1>4, <4>2
      <4> QED
        BY <1>6, <1>12, <3>2, <4>2, <4>3
    <3> QED
      BY <3>1, <3>2
  <2>2. 0 \in U
    <3>1. \A p \in 0..n : ~(p + 0 > n)
      BY <1>1
    <3>2. \A p \in 0..n : p + 0 >= n => r[p] \in T
      BY <2>1, <3>1
    <3> QED
      BY <3>2
  <2>3. \A m \in Nat : m \in U => m + 1 \in U
    <3> TAKE m \in Nat
    <3> HAVE m \in U
    <3>1. \A p \in 0..n : p + (m + 1) > n => r[p] \in T
      BY <1>1
    <3>2. m + 1 \in Nat /\ \A p \in 0..n : p + (m + 1) >= n => r[p] \in T
      <4> DEFINE k == m + 1
      <4>1. k \in Nat
        OBVIOUS
      <4>2. \A p \in 0..n : p + k > n => r[p] \in T
        BY <3>1
      <4> HIDE DEF k
      <4>3. \A p \in 0..n : p + k >= n => r[p] \in T
        BY <2>1, <4>1, <4>2
      <4> QED
        BY <4>1, <4>3 DEF k
    <3> QED
      BY <3>2
  <2>4. n \in U
    <3> HIDE DEF U
    <3> QED BY <1>1, <2>2, <2>3, Induction
  <2>5. \A p \in 0..n : r[p] \in T
    BY <1>1, <2>4
  <2> QED
    BY <1>13, <2>5
<1>15. \A p \in 0..n :
          /\ p + 2 > n => r[p] = <<>>
          /\ p + 2 <= n /\ len(p) # 0 /\ p + 2 + len(p) > n => r[p] = <<>>
          /\ p + 2 <= n /\ len(p) # 0 /\ p + 2 + len(p) <= n =>
                r[p] = <<SubSeq(file, p + 3, p + 2 + len(p))>> \o r[p + 2 + len(p)]
  <2> TAKE p \in 0..n
  <2>1. r[p] = Rule(r, p)
    BY <1>11
  <2>2. p + 2 <= n => len(p) \in Nat
    BY <1>2
  <2>3. p + 2 <= n => ~(p + 2 > n)
    BY <1>1
  <2>4. p + 2 <= n /\ p + 2 + len(p) <= n => ~(p + 2 + len(p) > n)
    BY <1>1, <2>2
  <2> QED
    BY <2>1, <2>3, <2>4 DEF Rule
<1> QED
  BY <1>14, <1>15 DEF n, T, len, r

-----------------------------------------------------------------------------

(* What a concatenation is made of.                                        *)
LEMMA Concat ==
    ASSUME NEW S, NEW s \in Seq(S), NEW t \in Seq(S)
    PROVE  /\ s \o t \in Seq(S)
           /\ Len(s \o t) = Len(s) + Len(t) /\ Len(s) \in Nat /\ Len(t) \in Nat
           /\ \A i \in 1..Len(s) : (s \o t)[i] = s[i] /\ i \in 1..Len(s \o t)
           /\ \A k \in 1..Len(t) : (s \o t)[Len(s) + k] = t[k] /\ Len(s) + k \in 1..Len(s \o t)
<1>1. s \o t \in Seq(S) /\ Len(s \o t) = Len(s) + Len(t) /\ Len(s) \in Nat /\ Len(t) \in Nat
  OBVIOUS
<1>2. \A i \in 1..Len(s) : (s \o t)[i] = s[i] /\ i \in 1..Len(s \o t)
  BY <1>1
<1>3. \A k \in 1..Len(t) : (s \o t)[Len(s) + k] = t[k] /\ Len(s) + k \in 1..Len(s \o t)
  BY <1>1
<1> QED
  BY <1>1, <1>2, <1>3

(* The two digits of a length that fits are read back as that length       *)
(* (app_write_opus_packet, decode_opus_dump).                              *)
LEMMA HeaderIs ==
    ASSUME NEW len \in 1..(Base * Base - 1)
    PROVE  /\ Header(len) \in Seq(Byte) /\ Len(Header(len)) = 2
           /\ Header(len)[1] + Base * Header(len)[2] = len
<1> DEFINE d == len \div Base
           r == len % Base
<1>1. Base \in Nat /\ Base > 1 /\ len \in Nat /\ len < Base * Base
  BY BaseAssumption
<1>2. d \in Nat /\ r \in 0..(Base - 1) /\ len = Base * d + r
  BY <1>1
<1>3. d < Base
  <2> SUFFICES ASSUME d >= Base PROVE FALSE
    BY <1>1, <1>2
  <2> HIDE DEF d, r
  <2>1. Base * d >= Base * Base
    BY <1>1, <1>2
  <2> QED
    BY <1>1, <1>2, <2>1
<1>4. d % Base = d
  <2> HIDE DEF d
  <2> QED BY <1>1, <1>2, <1>3
<1>5. Header(len) = <<r, d>>
  BY <1>4 DEF Header
<1>6. r \in Byte /\ d \in Byte /\ r + Base * d = len
  <2> HIDE DEF d, r
  <2> QED BY <1>1, <1>2, <1>3 DEF Byte
<1> HIDE DEF d, r
<1> QED
  BY <1>5, <1>6

(* long starts with short.                                                 *)
Extends(long, short) ==
    Len(short) <= Len(long) /\ \A i \in 1..Len(short) : long[i] = short[i]

(* What is true of the file after every packet: there is a place e such    *)
(* that any file that goes on from here reads as the whole packets and     *)
(* then as what follows e; e is the end as long as no record is torn, and  *)
(* what is behind e reads as nothing if the torn record is the last.       *)
ReadsBack(d) ==
    \E e \in 0..Len(d.file) :
        /\ \A file \in Seq(Byte) :
              Extends(file, d.file) => Reading(file)[0] = d.whole \o Reading(file)[e]
        /\ d.torn = "no" => e = Len(d.file)
        /\ d.torn = "end" => Reading(d.file)[e] = <<>>

DumpType == [file : Seq(Byte), whole : Seq(Seq(Byte)), torn : {"no", "end", "inside"}]

(* The files, with their whole packets, of which this is true.             *)
Dumps == {d \in DumpType : ReadsBack(d)}

(* A packet, and the room on the disk for its record.                      *)
Call == [packet : Seq(Byte), room : Nat]

(* One turn of Dump.                                                       *)
AddPacket(d, c) ==
    LET file == app_write_opus_packet(d.file, c.packet, c.room)
        more == Len(file) - Len(d.file)
    IN  IF more = 0 THEN d
        ELSE IF d.torn # "no" THEN [file |-> file, whole |-> d.whole, torn |-> "inside"]
        ELSE IF more < Len(c.packet) + 2
        THEN [file |-> file, whole |-> d.whole, torn |-> "end"]
        ELSE [file |-> file, whole |-> Append(d.whole, c.packet), torn |-> "no"]

(* A sequence that starts with a concatenation starts with its first part, *)
(* and goes on with its second.                                            *)
LEMMA ExtendsConcat ==
    ASSUME NEW S, NEW s \in Seq(S), NEW t \in Seq(S), NEW long \in Seq(S), Extends(long, s \o t)
    PROVE  /\ Extends(long, s)
           /\ \A k \in 1..Len(t) : long[Len(s) + k] = t[k]
           /\ Len(s) + Len(t) <= Len(long)
<1> DEFINE u == s \o t
<1>1. /\ u \in Seq(S) /\ Len(u) = Len(s) + Len(t) /\ Len(s) \in Nat /\ Len(t) \in Nat
      /\ \A i \in 1..Len(s) : u[i] = s[i] /\ i \in 1..Len(u)
      /\ \A k \in 1..Len(t) : u[Len(s) + k] = t[k] /\ Len(s) + k \in 1..Len(u)
  BY Concat
<1>2. Len(u) <= Len(long) /\ \A i \in 1..Len(u) : long[i] = u[i]
  BY DEF Extends
<1>3. Len(long) \in Nat
  OBVIOUS
<1> HIDE DEF u
<1>4. Extends(long, s)
  BY <1>1, <1>2, <1>3 DEF Extends
<1> QED
  BY <1>1, <1>2, <1>3, <1>4

(* A record is its length and its packet.                                  *)
LEMMA RecordIs ==
    ASSUME NEW packet \in Seq(Byte), Len(packet) \in 1..(Base * Base - 1)
    PROVE  LET record == Header(Len(packet)) \o packet
           IN  /\ record \in Seq(Byte) /\ Len(record) = Len(packet) + 2
               /\ record[1] + Base * record[2] = Len(packet)
               /\ \A k \in 1..Len(packet) : record[k + 2] = packet[k]
<1> DEFINE h == Header(Len(packet))
<1>1. h \in Seq(Byte) /\ Len(h) = 2 /\ h[1] + Base * h[2] = Len(packet)
  BY HeaderIs
<1> DEFINE u == h \o packet
<1> HIDE DEF h
<1>2. /\ u \in Seq(Byte)
      /\ Len(u) = Len(h) + Len(packet) /\ Len(h) \in Nat /\ Len(packet) \in Nat
      /\ \A i \in 1..Len(h) : u[i] = h[i] /\ i \in 1..Len(u)
      /\ \A k \in 1..Len(packet) : u[Len(h) + k] = packet[k] /\ Len(h) + k \in 1..Len(u)
  <2>1. h \in Seq(Byte) /\ packet \in Seq(Byte)
    BY <1>1
  <2> QED BY <2>1, Concat
<1> HIDE DEF u
<1>3. u[1] = h[1] /\ u[2] = h[2] /\ Len(u) = Len(packet) + 2
  BY <1>1, <1>2
<1>4. \A k \in 1..Len(packet) : u[k + 2] = packet[k]
  <2> TAKE k \in 1..Len(packet)
  <2>1. k + 2 = Len(h) + k
    BY <1>1, <1>2
  <2> QED
    BY <1>2, <2>1
<1> QED
  BY <1>1, <1>2, <1>3, <1>4 DEF h, u

(* Sequences with the same elements are the same.                          *)
LEMMA SameSequence ==
    ASSUME NEW S, NEW s \in Seq(S), NEW t \in Seq(S), Len(s) = Len(t),
           \A k \in 1..Len(s) : s[k] = t[k]
    PROVE  s = t
  OBVIOUS

(* How an accepted packet moves from what will be read to what has been    *)
(* read.                                                                   *)
Grouped(s, x, t) == s \o (<<x>> \o t) = Append(s, x) \o t

(* That it is so, for all sequences.                                       *)
LEMMA Grouping ==
    ASSUME NEW S, NEW s \in Seq(S), NEW x \in S, NEW t \in Seq(S)
    PROVE  Grouped(s, x, t)
<1>1. Append(s, x) = s \o <<x>>
  BY AppendIsConcat
<1>2. <<x>> \in Seq(S)
  OBVIOUS
<1>3. (s \o <<x>>) \o t = s \o (<<x>> \o t)
  BY <1>2, ConcatAssociative
<1> QED
  BY Zenon, <1>1, <1>3 DEF Grouped

(* What a call adds to the file: nothing, or a first part of the record.   *)
LEMMA WrittenIs ==
    ASSUME NEW file \in Seq(Byte), NEW c \in Call
    PROVE  \E k \in Nat :
              LET record == Header(Len(c.packet)) \o c.packet
                  part == SubSeq(record, 1, k)
                  new == app_write_opus_packet(file, c.packet, c.room)
              IN  /\ new \in Seq(Byte) /\ Len(new) = Len(file) + k
                  /\ k # 0 => /\ Len(c.packet) \in 1..(Base * Base - 1)
                              /\ k <= Len(record) /\ new = file \o part
                              /\ part \in Seq(Byte) /\ Len(part) = k
                              /\ \A i \in 1..k : part[i] = record[i]
<1> DEFINE p == c.packet
           record == Header(Len(p)) \o p
           new == app_write_opus_packet(file, p, c.room)
           bad == Len(p) \notin 1..(Base * Base - 1)
           k == Min({c.room, Len(record)})
           part == SubSeq(record, 1, k)
<1>1. p \in Seq(Byte) /\ c.room \in Nat /\ Len(file) \in Nat
  BY DEF Call
<1>2. CASE bad
  <2>1. new = file /\ Len(new) = Len(file) + 0
    BY <1>1, <1>2 DEF app_write_opus_packet
  <2> HIDE DEF new, record
  <2>2. 0 \in Nat /\ ~(0 # 0)
    OBVIOUS
  <2> QED
    BY <2>1, <2>2 DEF new, record
<1>3. CASE ~bad
  <2>1. record \in Seq(Byte) /\ Len(record) \in Nat
    <3>1. Len(p) \in 1..(Base * Base - 1)
      BY <1>3
    <3>2. record \in Seq(Byte)
      BY <1>1, <3>1, RecordIs
    <3> HIDE DEF record
    <3> QED BY <3>2
  <2>2. k \in Nat /\ k <= Len(record)
    <3> HIDE DEF record
    <3>1. c.room \in Nat /\ Len(record) \in Nat
      BY <1>1, <2>1
    <3> DEFINE n == Len(record)
               r == c.room
    <3> HIDE DEF n, r, k
    <3>2. r \in Nat /\ n \in Nat /\ k = Min({r, n})
      BY <3>1 DEF n, r, k
    <3>3. k \in Nat /\ k <= n
      BY ONLY <3>2, MinOfTwo
    <3> QED
      BY <3>3 DEF n
  <2>3. new = file \o part
    BY <1>3 DEF app_write_opus_packet
  <2> HIDE DEF k, record
  <2>4. part \in Seq(Byte) /\ Len(part) = k /\ \A i \in 1..k : part[i] = record[i]
    <3>1. 0 \in Nat /\ 0 + k <= Len(record) /\ 0 + 1 = 1 /\ 0 + k = k /\ \A i \in 1..k : 0 + i = i
      BY <2>1, <2>2
    <3>2. /\ SubSeq(record, 0 + 1, 0 + k) \in Seq(Byte)
          /\ Len(SubSeq(record, 0 + 1, 0 + k)) = k
          /\ \A i \in 1..k : SubSeq(record, 0 + 1, 0 + k)[i] = record[0 + i]
      BY <2>1, <2>2, <3>1, Slice
    <3> QED BY <3>1, <3>2
  <2> HIDE DEF part
  <2> HIDE DEF new
  <2>5. new \in Seq(Byte) /\ Len(new) = Len(file) + k
    BY <2>3, <2>4, Concat
  <2>6. Len(p) \in 1..(Base * Base - 1)
    BY <1>3
  <2> QED
    BY <2>2, <2>3, <2>4, <2>5, <2>6 DEF new, record, part
<1> QED
  BY <1>2, <1>3

(* A whole record is a first part of itself.                               *)
LEMMA WholePart ==
    ASSUME NEW S, NEW s \in Seq(S), NEW t \in Seq(S), Len(t) = Len(s),
           \A i \in 1..Len(s) : t[i] = s[i]
    PROVE  t = s
  OBVIOUS

(* Writing a packet keeps it: refused, not written, torn in its header or  *)
(* in its body, or whole, behind whole records or behind a torn one        *)
(* (app_write_opus_packet).                                                *)
LEMMA AddKeeps ==
    ASSUME NEW d \in Dumps, NEW c \in Call
    PROVE  AddPacket(d, c) \in Dumps
<1> DEFINE packet == c.packet
           n == Len(d.file)
           m == Len(packet)
           record == Header(m) \o packet
           new == app_write_opus_packet(d.file, packet, c.room)
<1>1. /\ d.file \in Seq(Byte) /\ d.whole \in Seq(Seq(Byte)) /\ d.torn \in {"no", "end", "inside"}
      /\ ReadsBack(d) /\ packet \in Seq(Byte) /\ n \in Nat /\ m \in Nat /\ Base \in Nat
  BY BaseAssumption DEF Dumps, DumpType, Call
<1>2. PICK k \in Nat :
         /\ new \in Seq(Byte) /\ Len(new) = n + k
         /\ k # 0 => /\ m \in 1..(Base * Base - 1)
                     /\ k <= Len(record) /\ new = d.file \o SubSeq(record, 1, k)
                     /\ SubSeq(record, 1, k) \in Seq(Byte) /\ Len(SubSeq(record, 1, k)) = k
                     /\ \A i \in 1..k : SubSeq(record, 1, k)[i] = record[i]
  BY <1>1, WrittenIs
<1> DEFINE part == SubSeq(record, 1, k)
<1>3. AddPacket(d, c) =
         IF k = 0 THEN d
         ELSE IF d.torn # "no" THEN [file |-> new, whole |-> d.whole, torn |-> "inside"]
         ELSE IF k < m + 2 THEN [file |-> new, whole |-> d.whole, torn |-> "end"]
         ELSE [file |-> new, whole |-> Append(d.whole, packet), torn |-> "no"]
  <2>1. AddPacket(d, c) =
         IF Len(new) - n = 0 THEN d
         ELSE IF d.torn # "no" THEN [file |-> new, whole |-> d.whole, torn |-> "inside"]
         ELSE IF Len(new) - n < m + 2 THEN [file |-> new, whole |-> d.whole, torn |-> "end"]
         ELSE [file |-> new, whole |-> Append(d.whole, packet), torn |-> "no"]
    BY DEF AddPacket
  <2>2. Len(new) - n = k
    <3> HIDE DEF new, n
    <3> QED BY <1>1, <1>2
  <2> QED
    BY ONLY <2>1, <2>2, Zenon
<1>4. PICK e \in 0..n :
         /\ \A long \in Seq(Byte) :
               Extends(long, d.file) => Reading(long)[0] = d.whole \o Reading(long)[e]
         /\ d.torn = "no" => e = n
         /\ d.torn = "end" => Reading(d.file)[e] = <<>>
  BY <1>1 DEF ReadsBack
<1>5. CASE k = 0
  BY <1>3, <1>5
<1>6. k # 0 => /\ record \in Seq(Byte) /\ Len(record) = m + 2
               /\ record[1] + Base * record[2] = m /\ m > 0
               /\ \A i \in 1..m : record[i + 2] = packet[i]
  <2>1. k # 0 => m \in 1..(Base * Base - 1)
    BY <1>2
  <2>2. m \in 1..(Base * Base - 1) =>
           /\ record \in Seq(Byte) /\ Len(record) = m + 2
           /\ record[1] + Base * record[2] = m
           /\ \A i \in 1..m : record[i + 2] = packet[i]
    BY <1>1, RecordIs
  <2>3. m \in 1..(Base * Base - 1) => m > 0
    OBVIOUS
  <2> HIDE DEF m, record
  <2> QED BY <2>1, <2>2, <2>3
<1> HIDE DEF record
<1>7. k # 0 =>
        /\ part \in Seq(Byte) /\ Len(part) = k /\ k <= m + 2
        /\ \A i \in 1..k : part[i] = record[i]
        /\ \A i \in 1..Len(part) : new[n + i] = part[i]
        /\ \A long \in Seq(Byte) : Extends(long, new) => Extends(long, d.file)
  <2> SUFFICES ASSUME k # 0
               PROVE /\ part \in Seq(Byte) /\ Len(part) = k /\ k <= m + 2
                     /\ \A i \in 1..k : part[i] = record[i]
                     /\ \A i \in 1..Len(part) : new[n + i] = part[i]
                     /\ \A long \in Seq(Byte) : Extends(long, new) => Extends(long, d.file)
    OBVIOUS
  <2>1. /\ part \in Seq(Byte) /\ Len(part) = k /\ k <= m + 2 /\ new = d.file \o part
        /\ \A i \in 1..k : part[i] = record[i]
    <3> HIDE DEF new, m
    <3> QED BY <1>2, <1>6
  <2> HIDE DEF part, new
  <2>2. \A i \in 1..Len(part) : new[n + i] = part[i]
    BY <1>1, <2>1, Concat
  <2>3. \A long \in Seq(Byte) : Extends(long, new) => Extends(long, d.file)
    BY <1>1, <2>1, ExtendsConcat
  <2> QED
    BY <2>1, <2>2, <2>3
<1>8. ASSUME k # 0, NEW torn \in {"end", "inside"}, torn = "end" => d.torn = "no" /\ k < m + 2
      PROVE  [file |-> new, whole |-> d.whole, torn |-> torn] \in Dumps
  <2>1. ASSUME NEW long \in Seq(Byte), Extends(long, new)
        PROVE  Reading(long)[0] = d.whole \o Reading(long)[e]
    BY <1>4, <1>7, <1>8, <2>1
  <2> HIDE DEF new, part, n, m
  <2>2. e \in 0..Len(new)
    BY <1>1, <1>2, <1>4
  <2>3. ASSUME torn = "end" PROVE Reading(new)[e] = <<>>
    <3>1. e = n /\ k < m + 2
      BY <1>4, <1>8, <2>3
    <3>2. CASE k < 2
      <4>1. e + 2 > Len(new)
        BY <1>1, <1>2, <3>1, <3>2
      <4> QED
        BY <1>2, <2>2, <4>1, ReadingIs
    <3>3. CASE k >= 2
      <4>1. e + 2 <= Len(new) /\ 1 \in 1..k /\ 2 \in 1..k
        BY <1>1, <1>2, <3>1, <3>3
      <4>2. new[n + 1] = record[1] /\ new[n + 2] = record[2]
        BY <1>7, <1>8, <4>1
      <4>3. Length(new, e) = m
        BY <1>6, <1>8, <3>1, <4>2 DEF Length
      <4>4. e + 2 + Length(new, e) > Len(new) /\ Length(new, e) # 0
        BY <1>1, <1>2, <1>6, <1>8, <3>1, <4>3
      <4> QED
        BY <1>2, <2>2, <4>1, <4>4, ReadingIs
    <3> QED
      BY <3>2, <3>3
  <2> DEFINE x == [file |-> new, whole |-> d.whole, torn |-> torn]
  <2>4. x.file = new /\ x.whole = d.whole /\ x.torn = torn /\ x \in DumpType
    BY <1>1, <1>2, <1>8 DEF DumpType
  <2> HIDE DEF x
  <2>5. ReadsBack(x)
    BY <1>8, <2>1, <2>2, <2>3, <2>4 DEF ReadsBack
  <2> QED
    BY <2>4, <2>5 DEF Dumps, x
<1>9. CASE k # 0 /\ d.torn = "no" /\ ~(k < m + 2)
  <2>1. /\ record \in Seq(Byte) /\ Len(record) = m + 2 /\ m > 0 /\ k = m + 2 /\ e = n
        /\ new = d.file \o record /\ Len(new) = n + 2 + m
    <3>1. k = m + 2 /\ Len(record) = m + 2 /\ record \in Seq(Byte) /\ m > 0
      <4> HIDE DEF m, part
      <4> QED BY <1>1, <1>6, <1>7, <1>9
    <3>2. part = record
      <4> HIDE DEF part, m
      <4> QED BY <1>7, <1>9, <3>1, WholePart
    <3>3. new = d.file \o part
      <4> HIDE DEF new
      <4> QED BY <1>2, <1>9
    <3>4. Len(new) = n + 2 + m
      <4> HIDE DEF new, n, m
      <4> QED BY <1>1, <1>2, <3>1
    <3> HIDE DEF new, part, n, m
    <3> QED
      BY <1>4, <1>9, <3>1, <3>2, <3>3, <3>4
  <2> HIDE DEF new, part
  <2>5. ASSUME NEW long \in Seq(Byte), Extends(long, new)
        PROVE  Reading(long)[0] = Append(d.whole, packet) \o Reading(long)[Len(new)]
    <3>1. /\ Extends(long, d.file)
          /\ \A i \in 1..Len(record) : long[Len(d.file) + i] = record[i]
          /\ Len(d.file) + Len(record) <= Len(long)
      <4>1. Extends(long, d.file \o record)
        BY <2>1, <2>5
      <4> QED
        BY <1>1, <2>1, <4>1, ExtendsConcat
    <3>2. Reading(long)[0] = d.whole \o Reading(long)[n]
      BY <1>4, <2>1, <3>1
    <3>3. 1 \in 1..Len(record) /\ 2 \in 1..Len(record)
      BY <2>1
    <3>4. long[n + 1] = record[1] /\ long[n + 2] = record[2]
      BY <3>1, <3>3
    <3>5. Length(long, n) = m
      BY <1>6, <1>9, <3>4 DEF Length
    <3>6. n \in 0..Len(long) /\ n + 2 <= Len(long) /\ n + 2 + m <= Len(long) /\ Len(long) \in Nat
      <4>1. n + Len(record) <= Len(long) /\ Len(record) = m + 2
        BY <2>1, <3>1
      <4>2. Len(long) \in Nat
        OBVIOUS
      <4> HIDE DEF n, m
      <4> QED BY <1>1, <4>1, <4>2
    <3>7. Reading(long)[n] = <<SubSeq(long, n + 3, n + 2 + m)>> \o Reading(long)[n + 2 + m]
      <4> HIDE DEF n, m
      <4>1. m # 0 /\ n + 2 + Length(long, n) <= Len(long)
        BY <1>1, <2>1, <3>5, <3>6
      <4>2. Reading(long)[n] = <<SubSeq(long, n + 3, n + 2 + Length(long, n))>>
                               \o Reading(long)[n + 2 + Length(long, n)]
        BY <3>5, <3>6, <4>1, ReadingIs
      <4> QED BY <3>5, <4>2
    <3>8. SubSeq(long, n + 3, n + 2 + m) = packet
      <4> DEFINE a == n + 2
                 t == SubSeq(long, a + 1, a + m)
      <4>1. a \in Nat /\ a + m <= Len(long) /\ a + 1 = n + 3 /\ a + m = n + 2 + m
        <5> HIDE DEF n, m
        <5> QED BY <1>1, <2>1, <3>6
      <4>2. t \in Seq(Byte) /\ Len(t) = m /\ \A i \in 1..m : t[i] = long[a + i]
        <5>1. m \in Nat
          BY <1>1
        <5> HIDE DEF a, m
        <5> QED BY <4>1, <5>1, Slice
      <4>3. \A i \in 1..m : long[a + i] = packet[i]
        <5> TAKE i \in 1..m
        <5>1. i + 2 \in 1..Len(record) /\ a + i = n + (i + 2)
          <6> HIDE DEF n, m
          <6> QED BY <1>1, <2>1
        <5>2. long[n + (i + 2)] = record[i + 2]
          BY <3>1, <5>1
        <5> QED
          BY <1>6, <1>9, <5>1, <5>2
      <4> HIDE DEF t
      <4>4. t = packet
        BY <1>1, <4>2, <4>3, SameSequence
      <4> QED
        BY <4>1, <4>4 DEF t
    <3>9. Reading(long)[n + 2 + m] \in Seq(Seq(Byte))
      <4>1. n + 2 + m \in 0..Len(long)
        <5> HIDE DEF n, m
        <5> QED BY <1>1, <3>6
      <4> HIDE DEF n, m
      <4> QED BY <4>1, ReadingIs
    <3> DEFINE rest == Reading(long)[n + 2 + m]
    <3> HIDE DEF rest
    <3>10. d.whole \o (<<packet>> \o rest) = Append(d.whole, packet) \o rest
      <4>1. rest \in Seq(Seq(Byte)) /\ packet \in Seq(Byte) /\ d.whole \in Seq(Seq(Byte))
        BY <1>1, <3>9 DEF rest
      <4>2. Grouped(d.whole, packet, rest)
        BY <4>1, Grouping
      <4> QED
        BY <4>2, Zenon DEF Grouped
    <3> QED
      BY <2>1, <3>2, <3>7, <3>8, <3>10 DEF rest
  <2> DEFINE x == [file |-> new, whole |-> Append(d.whole, packet), torn |-> "no"]
  <2>6. x.file = new /\ x.whole = Append(d.whole, packet) /\ x.torn = "no" /\ x \in DumpType
    BY <1>1, <1>2 DEF DumpType
  <2>7. AddPacket(d, c) = x
    BY <1>3, <1>9
  <2> HIDE DEF x
  <2>8. Len(new) \in 0..Len(new)
    BY <1>2
  <2>9. ReadsBack(x)
    BY <2>5, <2>6, <2>8 DEF ReadsBack
  <2> QED
    BY <2>6, <2>7, <2>9 DEF Dumps
<1>10. CASE k # 0 /\ d.torn # "no"
  <2>1. AddPacket(d, c) = [file |-> new, whole |-> d.whole, torn |-> "inside"]
    BY <1>3, <1>10
  <2> HIDE DEF new
  <2> QED
    BY <1>8, <1>10, <2>1
<1>11. CASE k # 0 /\ d.torn = "no" /\ k < m + 2
  <2>1. AddPacket(d, c) = [file |-> new, whole |-> d.whole, torn |-> "end"]
    BY <1>3, <1>11
  <2> HIDE DEF new, m
  <2> QED
    BY <1>8, <1>11, <2>1
<1> QED
  BY <1>5, <1>9, <1>10, <1>11

(* The file before the first packet.                                       *)
NoDump == [file |-> <<>>, whole |-> <<>>, torn |-> "no"]

(* It holds of an empty file.                                              *)
LEMMA FirstIsDump == NoDump \in Dumps
<1>1. /\ NoDump.file = <<>> /\ NoDump.whole = <<>> /\ Len(NoDump.file) = 0
      /\ NoDump.torn = "no" /\ NoDump \in DumpType
  BY DEF NoDump, DumpType
<1>2. ASSUME NEW long \in Seq(Byte)
      PROVE  Reading(long)[0] = NoDump.whole \o Reading(long)[0]
  <2>1. 0 \in 0..Len(long)
    OBVIOUS
  <2>2. Reading(long)[0] \in Seq(Seq(Byte))
    BY <2>1, ReadingIs
  <2> QED
    BY <1>1, <2>2
<1>3. 0 \in 0..Len(NoDump.file)
  BY <1>1
<1>4. ReadsBack(NoDump)
  BY <1>1, <1>2, <1>3 DEF ReadsBack
<1> QED
  BY <1>1, <1>3, <1>4 DEF Dumps

(* It holds after any number of packets.                                   *)
LEMMA DumpKeeps ==
    ASSUME NEW calls \in Seq(Call)
    PROVE  Dump(calls) \in Dumps
<1> DEFINE n == Len(calls)
           S == Dumps
           Rule(i, d) == AddPacket(d, calls[i])
           step == [p \in (1..n) \X S |-> Rule(p[1], p[2])]
           Eqn(it) == it = [s \in SUBSET (1..n) |->
                              IF s = {} THEN NoDump ELSE Rule(Max(s), it[s \ {Max(s)}])]
<1>1. n \in Nat /\ DOMAIN calls = 1..n /\ NoDump \in S
  BY FirstIsDump
<1>2. \A i \in 1..n, d \in S : Rule(i, d) \in S
  BY <1>1, AddKeeps
<1>3. step \in [(1..n) \X S -> S]
  BY <1>2
<1>4. \A i \in 1..n, d \in S : step[<<i, d>>] = Rule(i, d)
  OBVIOUS
<1>5. Dump(calls) = (CHOOSE it : Eqn(it))[1..n]
  BY <1>1, Zenon DEF Dump, FoldLeft, MapThenFoldSet, AddPacket, NoDump
<1> HIDE DEF n, S, Rule, step
<1>6. \E it : Eqn(it)
  <2>1. PICK it \in [SUBSET (1..n) -> S] : IsFold(it, n, NoDump, step)
    BY <1>1, <1>3, FoldExists
  <2>2. \A s \in SUBSET (1..n) :
            s # {} => step[<<Max(s), it[s \ {Max(s)}]>>] = Rule(Max(s), it[s \ {Max(s)}])
    <3> TAKE s \in SUBSET (1..n)
    <3> HAVE s # {}
    <3>1. Max(s) \in 1..n
      BY <1>1, MaxIsIn
    <3>2. it[s \ {Max(s)}] \in S
      OBVIOUS
    <3> QED
      BY <1>4, <3>1, <3>2
  <2>3. Eqn(it)
    BY <2>1, <2>2 DEF IsFold
  <2> QED
    BY <2>3
<1> DEFINE it == CHOOSE i : Eqn(i)
<1>7. Eqn(it)
  BY <1>6
<1> HIDE DEF it
<1>8. PICK g \in [0..n -> S] : IsTrace(g, n, NoDump, step, Dump(calls))
  <2>1. it[{}] = NoDump
    BY <1>7
  <2>2. \A s \in (SUBSET (1..n)) \ {{}} : it[s \ {Max(s)}] \in S =>
                 it[s] = step[<<Max(s), it[s \ {Max(s)}]>>]
    <3> TAKE s \in (SUBSET (1..n)) \ {{}}
    <3> HAVE it[s \ {Max(s)}] \in S
    <3>1. Max(s) \in 1..n
      BY <1>1, MaxIsIn
    <3>2. it[s] = Rule(Max(s), it[s \ {Max(s)}])
      BY <1>7
    <3> QED
      BY <1>4, <3>1, <3>2
  <2>3. Follows(it, n, S, NoDump, step, Dump(calls))
    BY <1>5, <2>1, <2>2 DEF Follows, it
  <2> QED
    BY <1>1, <1>3, <2>3, FoldTrace
<1>9. Dump(calls) \in S
  BY <1>1, <1>8 DEF IsTrace
<1> QED
  BY <1>9 DEF S

(* Any packets, written to a disk that fills up at any byte, read back in  *)
(* their order as exactly those that are whole in the file; what was whole *)
(* before a torn record is read whatever is written behind it              *)
(* (app_write_opus_packet, tools/decode_opus_dump.c).                      *)
THEOREM DumpIsRead ==
    ASSUME NEW calls \in Seq(Call)
    PROVE  DumpReadsBack(calls)
<1> DEFINE d == Dump(calls)
           read == Reading(d.file)[0]
<1>1. /\ d.file \in Seq(Byte) /\ d.whole \in Seq(Seq(Byte)) /\ ReadsBack(d)
      /\ d.torn \in {"no", "end", "inside"}
  BY DumpKeeps DEF Dumps, DumpType
<1> HIDE DEF d
<1>2. PICK e \in 0..Len(d.file) :
         /\ \A long \in Seq(Byte) :
               Extends(long, d.file) => Reading(long)[0] = d.whole \o Reading(long)[e]
         /\ d.torn = "no" => e = Len(d.file)
         /\ d.torn = "end" => Reading(d.file)[e] = <<>>
  BY <1>1 DEF ReadsBack
<1>3. Extends(d.file, d.file)
  BY <1>1 DEF Extends
<1> DEFINE rest == Reading(d.file)[e]
<1>4. rest \in Seq(Seq(Byte)) /\ read = d.whole \o rest
  BY <1>1, <1>2, <1>3, ReadingIs
<1>5. d.torn # "inside" => rest = <<>>
  <2>1. e = Len(d.file) => e + 2 > Len(d.file)
    BY <1>1
  <2> QED
    BY <1>1, <1>2, <2>1, ReadingIs
<1> HIDE DEF rest, read
<1>6. IsPrefix(d.whole, read)
  <2> DEFINE n == Len(d.whole)
  <2>1. /\ read \in Seq(Seq(Byte)) /\ n \in Nat /\ n <= Len(read)
        /\ \A i \in 1..n : read[i] = d.whole[i]
    BY <1>1, <1>4, Concat
  <2>2. SubSeq(d.whole, 1, n) = SubSeq(read, 1, n)
    <3> DEFINE s == SubSeq(d.whole, 0 + 1, 0 + n)
               t == SubSeq(read, 0 + 1, 0 + n)
    <3>1. 0 \in Nat /\ 0 + n <= Len(read) /\ 0 + n <= Len(d.whole) /\ \A i \in 1..n : 0 + i = i
      BY <2>1
    <3>2. s \in Seq(Seq(Byte)) /\ Len(s) = n /\ \A i \in 1..n : s[i] = d.whole[0 + i]
      <4> HIDE DEF n
      <4> QED BY <1>1, <2>1, <3>1, Slice
    <3>3. t \in Seq(Seq(Byte)) /\ Len(t) = n /\ \A i \in 1..n : t[i] = read[0 + i]
      <4> HIDE DEF n
      <4> QED BY <2>1, <3>1, Slice
    <3>4. \A i \in 1..n : s[i] = t[i]
      <4> HIDE DEF s, t, n
      <4> QED BY <2>1, <3>1, <3>2, <3>3
    <3>5. s = t
      <4> HIDE DEF s, t, n
      <4> QED BY <3>2, <3>3, <3>4, SameSequence
    <3>6. 0 + 1 = 1 /\ 0 + n = n
      BY <2>1
    <3> HIDE DEF n
    <3> QED BY <3>5, <3>6
  <2> QED
    BY <2>1, <2>2, Zenon DEF IsPrefix
<1>7. d.torn # "inside" => read = d.whole
  BY <1>1, <1>4, <1>5
<1>8. decode_opus_dump(d.file) = read
  BY ReadingFromStart DEF read
<1> HIDE DEF d
<1> QED
  BY <1>6, <1>7, <1>8, Zenon DEF DumpReadsBack, d

-----------------------------------------------------------------------------
(* The configuration file (ConfigFile).                                    *)

(* Lines, with names from any set.                                         *)
FileLine(Names) == [first : {"none", "#", ";", "[", "other"}, close : BOOLEAN, eq : BOOLEAN,
                    name : Names, value : [len : Nat, atoi : Int]]

(* The last of some line numbers.                                          *)
Highest(s) == CHOOSE i \in s : \A j \in s : j <= i

(* What a reader of the first i lines expects of a field.                  *)
ExpectedUpTo(lines, k, i) ==
    LET set == Setting(lines, k) \cap 1..i
    IN  IF set = {} THEN config_apply_defaults[k] ELSE ReadAs(k, lines[Highest(set)].value)

(* What is true of the variables of config_load_from_string after i lines: *)
(* a header was broken, or the section and every field are what a reader   *)
(* of these lines expects.                                                 *)
Agrees(lines, i, st) ==
    /\ st.broken <=> \E j \in 1..i : Broken(lines[j])
    /\ ~st.broken => /\ st.section = SectionOf(lines, i + 1)
                     /\ \A k \in DOMAIN config_apply_defaults :
                           st.cfg[k] = ExpectedUpTo(lines, k, i)

(* The number that is at least every other is the last.                    *)
LEMMA HighestIs ==
    ASSUME NEW s, s \subseteq Nat, NEW m \in s, \A j \in s : j <= m
    PROVE  Highest(s) = m
<1>1. Highest(s) \in s /\ \A j \in s : j <= Highest(s)
  BY Zenon DEF Highest
<1>2. Highest(s) \in Nat /\ m \in Nat /\ Highest(s) <= m /\ m <= Highest(s)
  BY <1>1
<1> QED
  BY <1>2

(* The section of the next line is the name of this one if it is a header, *)
(* and otherwise the section of this one.                                  *)
LEMMA SectionStep ==
    ASSUME NEW Names, NEW lines \in Seq(FileLine(Names)), NEW i \in 1..Len(lines)
    PROVE  /\ IsHeader(lines[i]) => SectionOf(lines, i + 1) = lines[i].name
           /\ ~IsHeader(lines[i]) => SectionOf(lines, i + 1) = SectionOf(lines, i)
<1> DEFINE above(m) == {j \in 1..(m - 1) : IsHeader(lines[j])}
<1>1. \A m : SectionOf(lines, m) = IF above(m) = {} THEN "" ELSE lines[Highest(above(m))].name
  BY Zenon DEF SectionOf, Highest
<1>2. ASSUME IsHeader(lines[i]) PROVE SectionOf(lines, i + 1) = lines[i].name
  <2>1. above(i + 1) \subseteq Nat /\ i \in above(i + 1) /\ \A j \in above(i + 1) : j <= i
    BY <1>2
  <2> HIDE DEF above
  <2>2. Highest(above(i + 1)) = i
    BY <2>1, HighestIs
  <2> QED
    BY <1>1, <2>1, <2>2
<1>3. ASSUME ~IsHeader(lines[i]) PROVE SectionOf(lines, i + 1) = SectionOf(lines, i)
  <2>1. above(i + 1) = above(i)
    <3>1. \A j : j \in 1..((i + 1) - 1) <=> j \in 1..(i - 1) \/ j = i
      OBVIOUS
    <3> QED
      BY <1>3, <3>1
  <2> HIDE DEF above
  <2> QED
    BY <1>1, <2>1
<1> QED
  BY <1>2, <1>3

(* A line that sets a field decides what is expected of it; any other      *)
(* changes nothing.                                                        *)
LEMMA ExpectedStep ==
    ASSUME NEW Names, NEW lines \in Seq(FileLine(Names)), NEW i \in 1..Len(lines), NEW k
    PROVE  /\ i \in Setting(lines, k) => ExpectedUpTo(lines, k, i) = ReadAs(k, lines[i].value)
           /\ i \notin Setting(lines, k) =>
                 ExpectedUpTo(lines, k, i) = ExpectedUpTo(lines, k, i - 1)
<1> DEFINE set(m) == Setting(lines, k) \cap 1..m
<1>1. ASSUME i \in Setting(lines, k)
      PROVE  ExpectedUpTo(lines, k, i) = ReadAs(k, lines[i].value)
  <2>1. set(i) \subseteq Nat /\ i \in set(i) /\ \A j \in set(i) : j <= i
    BY <1>1
  <2> HIDE DEF set
  <2>2. Highest(set(i)) = i /\ set(i) # {}
    BY <2>1, HighestIs
  <2> QED
    BY <2>2 DEF ExpectedUpTo, set
<1>2. ASSUME i \notin Setting(lines, k)
      PROVE  ExpectedUpTo(lines, k, i) = ExpectedUpTo(lines, k, i - 1)
  <2>1. set(i) = set(i - 1)
    <3>1. \A j : j \in 1..i <=> j \in 1..(i - 1) \/ j = i
      OBVIOUS
    <3> QED
      BY <1>2, <3>1
  <2> QED
    BY <2>1, Zenon DEF ExpectedUpTo
<1> QED
  BY <1>1, <1>2

(* A turn of the loop keeps the two together, whatever the line is         *)
(* (config_load_from_string, config_assign_value).                         *)
LEMMA TakeLineKeeps ==
    ASSUME NEW Names, NEW lines \in Seq(FileLine(Names)), NEW i \in 1..Len(lines), NEW Name, NEW Value,
           lines[i].name \in Name,
           \A k \in DOMAIN config_apply_defaults : ReadAs(k, lines[i].value) \in Value,
           NEW st \in [broken : BOOLEAN, section : Name,
                       cfg : [DOMAIN config_apply_defaults -> Value]]
    PROVE  /\ TakeLine(st, lines[i]) \in
                 [broken : BOOLEAN, section : Name,
                  cfg : [DOMAIN config_apply_defaults -> Value]]
           /\ Agrees(lines, i - 1, st) => Agrees(lines, i, TakeLine(st, lines[i]))
<1> DEFINE D == DOMAIN config_apply_defaults
           l == lines[i]
           next == TakeLine(st, l)
           kk == <<st.section, l.name>>
           T == [broken : BOOLEAN, section : Name, cfg : [D -> Value]]
<1>1. i \in Nat /\ i - 1 \in Nat /\ i \in DOMAIN lines /\ l \in FileLine(Names)
  OBVIOUS
<1>2. /\ \A j \in 1..(i - 1) : j \in 1..i
      /\ \A j \in 1..i : j \in 1..(i - 1) \/ j = i
      /\ i \in 1..i /\ (i - 1) + 1 = i
  OBVIOUS
<1>3. st.broken \in BOOLEAN /\ st.section \in Name /\ st.cfg \in [D -> Value] /\ DOMAIN st.cfg = D
  OBVIOUS
<1>4. l.eq \in BOOLEAN /\ l.close \in BOOLEAN
  BY <1>1 DEF FileLine
<1>5. l.name \in Name /\ \A k \in D : ReadAs(k, l.value) \in Value
  OBVIOUS
<1>6. /\ IsHeader(l) => SectionOf(lines, i + 1) = l.name
      /\ ~IsHeader(l) => SectionOf(lines, i + 1) = SectionOf(lines, i)
  BY SectionStep
<1>7. \A k : /\ i \in Setting(lines, k) => ExpectedUpTo(lines, k, i) = ReadAs(k, l.value)
             /\ i \notin Setting(lines, k) =>
                   ExpectedUpTo(lines, k, i) = ExpectedUpTo(lines, k, i - 1)
  BY ExpectedStep
<1>8. \A k : i \in Setting(lines, k) <=> Assigns(l) /\ <<SectionOf(lines, i), l.name>> = k
  BY <1>1 DEF Setting
<1>9. Skipped(l) => ~IsHeader(l) /\ ~Broken(l) /\ ~Assigns(l)
  BY DEF Skipped, IsHeader, Broken, Assigns
<1>10. st \in T
  OBVIOUS
<1> HIDE DEF l, D, T
<1>11. CASE st.broken
  <2>1. next = st
    BY <1>11 DEF TakeLine
  <2>2. Agrees(lines, i - 1, st) => Agrees(lines, i, st)
    BY <1>2, <1>11 DEF Agrees
  <2> QED
    BY <1>10, <2>1, <2>2 DEF l, T, D
<1>12. CASE ~st.broken /\ (Skipped(l) \/ (~IsHeader(l) /\ ~l.eq))
  <2>1. next = st
    BY <1>12 DEF TakeLine, Broken
  <2>2. ~IsHeader(l) /\ ~Broken(l) /\ ~Assigns(l)
    BY <1>9, <1>12 DEF Broken, Assigns
  <2>3. Agrees(lines, i - 1, st) => Agrees(lines, i, st)
    <3> HAVE Agrees(lines, i - 1, st)
    <3>1. ~\E j \in 1..i : Broken(lines[j])
      BY <1>2, <1>12, <2>2 DEF Agrees, l
    <3>2. st.section = SectionOf(lines, i + 1)
      BY <1>2, <1>6, <1>12, <2>2 DEF Agrees
    <3>3. \A k \in D : st.cfg[k] = ExpectedUpTo(lines, k, i)
      BY <1>7, <1>8, <1>12, <2>2 DEF Agrees, D
    <3> QED
      BY <1>12, <3>1, <3>2, <3>3 DEF Agrees, D
  <2> QED
    BY <1>10, <2>1, <2>3 DEF l, T, D
<1>13. CASE ~st.broken /\ ~Skipped(l) /\ Broken(l)
  <2>1. next = [st EXCEPT !.broken = TRUE]
    BY <1>13 DEF TakeLine
  <2>2. next.broken = TRUE /\ next \in T
    BY <1>3, <1>10, <2>1 DEF T
  <2>3. Agrees(lines, i, next)
    <3>1. \E j \in 1..i : Broken(lines[j])
      BY <1>2, <1>13 DEF l
    <3> HIDE DEF next
    <3> QED
      BY <2>2, <3>1 DEF Agrees
  <2> QED
    BY <2>2, <2>3 DEF l, T, D
<1>14. CASE ~st.broken /\ ~Skipped(l) /\ ~Broken(l) /\ IsHeader(l)
  <2>1. next = [st EXCEPT !.section = l.name]
    BY <1>14 DEF TakeLine
  <2>2. next.broken = st.broken /\ next.section = l.name /\ next.cfg = st.cfg /\ next \in T
    BY <1>3, <1>5, <1>10, <2>1 DEF T
  <2>3. ~Assigns(l)
    BY <1>14 DEF Assigns
  <2> HIDE DEF next
  <2>4. Agrees(lines, i - 1, st) => Agrees(lines, i, next)
    <3> HAVE Agrees(lines, i - 1, st)
    <3>1. ~\E j \in 1..i : Broken(lines[j])
      BY <1>2, <1>14 DEF Agrees, l
    <3>2. next.section = SectionOf(lines, i + 1)
      BY <1>6, <1>14, <2>2
    <3>3. \A k \in D : next.cfg[k] = ExpectedUpTo(lines, k, i)
      BY <1>7, <1>8, <1>14, <2>2, <2>3 DEF Agrees, D
    <3> QED
      BY <1>14, <2>2, <3>1, <3>2, <3>3 DEF Agrees, D
  <2> QED
    BY <2>2, <2>4 DEF l, T, D, next
<1>15. CASE ~st.broken /\ ~Skipped(l) /\ ~Broken(l) /\ ~IsHeader(l) /\ l.eq
  <2> DEFINE cfg == config_assign_value(st.cfg, st.section, l.name, l.value)
  <2>1. next = [st EXCEPT !.cfg = cfg]
    BY <1>15 DEF TakeLine
  <2>2. cfg = IF kk \in D THEN [st.cfg EXCEPT ![kk] = ReadAs(kk, l.value)] ELSE st.cfg
    BY <1>3 DEF config_assign_value
  <2>3. Assigns(l)
    BY <1>15 DEF Assigns
  <2> HIDE DEF cfg, kk
  <2>4. /\ cfg \in [D -> Value]
        /\ \A k \in D : cfg[k] = IF k = kk THEN ReadAs(k, l.value) ELSE st.cfg[k]
    BY <1>3, <1>5, <2>2
  <2>5. next.broken = st.broken /\ next.section = st.section /\ next.cfg = cfg /\ next \in T
    BY <1>3, <1>10, <2>1, <2>4 DEF T
  <2> HIDE DEF next
  <2>6. Agrees(lines, i - 1, st) => Agrees(lines, i, next)
    <3> HAVE Agrees(lines, i - 1, st)
    <3>1. ~\E j \in 1..i : Broken(lines[j])
      BY <1>2, <1>15 DEF Agrees, l
    <3>2. st.section = SectionOf(lines, i)
      BY <1>2, <1>15 DEF Agrees
    <3>3. next.section = SectionOf(lines, i + 1)
      BY <1>6, <1>15, <2>5, <3>2
    <3>4. \A k : i \in Setting(lines, k) <=> k = kk
      BY <1>8, <2>3, <3>2 DEF kk
    <3>5. \A k \in D : st.cfg[k] = ExpectedUpTo(lines, k, i - 1)
      BY <1>15 DEF Agrees, D
    <3>6. \A k \in D : next.cfg[k] = ExpectedUpTo(lines, k, i)
      BY <1>7, <2>4, <2>5, <3>4, <3>5
    <3> QED
      BY <1>15, <2>5, <3>1, <3>3, <3>6 DEF Agrees, D
  <2> QED
    BY <2>5, <2>6 DEF l, T, D, next
<1> QED
  BY <1>3, <1>4, <1>11, <1>12, <1>13, <1>14, <1>15

(* The state of the loop before the first line.                            *)
FirstConfig == [broken |-> FALSE, section |-> "", cfg |-> config_apply_defaults]

(* The state of the loop after all lines.                                  *)
LoadedFrom(lines) == FoldLeft(TakeLine, FirstConfig, lines)

(* Every field config_validate looks at is one that has a default.         *)
LEMMA FieldsAreKeys ==
    /\ Required \subseteq DOMAIN config_apply_defaults
    /\ <<"server", "protocol_version">> \in DOMAIN config_apply_defaults
<1>1. DOMAIN config_apply_defaults = TextField \cup IntField
  BY DEF config_apply_defaults
<1>2. Required \subseteq TextField
  BY DEF Required, TextField, LongText
<1>3. <<"server", "protocol_version">> \in IntField
  BY DEF IntField
<1> QED
  BY <1>1, <1>2, <1>3

(* They agree before the first line.                                       *)
LEMMA FirstAgrees ==
    ASSUME NEW Names, NEW lines \in Seq(FileLine(Names))
    PROVE  Agrees(lines, 0, FirstConfig)
<1>1. /\ FirstConfig.broken = FALSE /\ FirstConfig.section = ""
      /\ FirstConfig.cfg = config_apply_defaults
  BY DEF FirstConfig
<1>2. \A j : j \notin 1..0
  OBVIOUS
<1>3. SectionOf(lines, 0 + 1) = ""
  <2>1. {j \in 1..((0 + 1) - 1) : IsHeader(lines[j])} = {}
    OBVIOUS
  <2> QED
    BY <2>1 DEF SectionOf
<1>4. \A k : ExpectedUpTo(lines, k, 0) = config_apply_defaults[k]
  <2>1. \A k : Setting(lines, k) \cap 1..0 = {}
    BY <1>2
  <2> QED
    BY <2>1, Zenon DEF ExpectedUpTo
<1> QED
  BY <1>1, <1>2, <1>3, <1>4 DEF Agrees

(* They agree after the last.                                              *)
LEMMA LinesAgree ==
    ASSUME NEW Names, NEW lines \in Seq(FileLine(Names))
    PROVE  /\ Agrees(lines, Len(lines), LoadedFrom(lines))
           /\ LoadedFrom(lines).broken \in BOOLEAN
           /\ DOMAIN LoadedFrom(lines).cfg = DOMAIN config_apply_defaults
<1> DEFINE n == Len(lines)
           D == DOMAIN config_apply_defaults
           Name == {lines[i].name : i \in 1..n} \cup {""}
           Value == {config_apply_defaults[k] : k \in D}
                    \cup {ReadAs(p[1], lines[p[2]].value) : p \in D \X (1..n)}
           S == [broken : BOOLEAN, section : Name, cfg : [D -> Value]]
           Rule(i, st) == TakeLine(st, lines[i])
           step == [p \in (1..n) \X S |-> Rule(p[1], p[2])]
           Eqn(it) == it = [s \in SUBSET (1..n) |->
                              IF s = {} THEN FirstConfig ELSE Rule(Max(s), it[s \ {Max(s)}])]
<1>1. n \in Nat /\ DOMAIN lines = 1..n /\ FirstConfig \in S
  <2>1. config_apply_defaults = [k \in D |-> config_apply_defaults[k]]
    BY DEF config_apply_defaults
  <2>2. \A k \in D : config_apply_defaults[k] \in Value
    OBVIOUS
  <2> HIDE DEF D, Value
  <2>3. config_apply_defaults \in [D -> Value]
    BY <2>1, <2>2
  <2>4. "" \in Name
    OBVIOUS
  <2> HIDE DEF Name
  <2>5. FirstConfig \in S
    BY <2>3, <2>4 DEF FirstConfig
  <2> HIDE DEF S
  <2> QED
    BY <2>5
<1>2. \A i \in 1..n, st \in S :
         /\ Rule(i, st) \in S
         /\ Agrees(lines, i - 1, st) => Agrees(lines, i, Rule(i, st))
  <2> TAKE i \in 1..n, st \in S
  <2>1. lines[i].name \in Name
    OBVIOUS
  <2>2. \A k \in D : ReadAs(k, lines[i].value) \in Value
    <3> TAKE k \in D
    <3>1. <<k, i>> \in D \X (1..n) /\ <<k, i>>[1] = k /\ <<k, i>>[2] = i
      OBVIOUS
    <3> QED
      BY <3>1
  <2> HIDE DEF Name, Value
  <2> QED
    BY <2>1, <2>2, TakeLineKeeps
<1>3. step \in [(1..n) \X S -> S]
  <2> HIDE DEF S, Rule
  <2> QED BY <1>2
<1>4. \A i \in 1..n, st \in S : step[<<i, st>>] = Rule(i, st)
  <2> HIDE DEF S
  <2> QED OBVIOUS
<1>5. LoadedFrom(lines) = (CHOOSE it : Eqn(it))[1..n]
  BY <1>1, Zenon DEF LoadedFrom, FoldLeft, MapThenFoldSet
<1>6. \A st \in S : st.broken \in BOOLEAN /\ DOMAIN st.cfg = D
  OBVIOUS
<1> HIDE DEF n, S, Rule, step
<1>7. \E it : Eqn(it)
  <2>1. PICK it \in [SUBSET (1..n) -> S] : IsFold(it, n, FirstConfig, step)
    BY <1>1, <1>3, FoldExists
  <2>2. \A s \in SUBSET (1..n) :
            s # {} => step[<<Max(s), it[s \ {Max(s)}]>>] = Rule(Max(s), it[s \ {Max(s)}])
    <3> TAKE s \in SUBSET (1..n)
    <3> HAVE s # {}
    <3>1. Max(s) \in 1..n
      BY <1>1, MaxIsIn
    <3>2. it[s \ {Max(s)}] \in S
      OBVIOUS
    <3> QED
      BY <1>4, <3>1, <3>2
  <2>3. Eqn(it)
    BY <2>1, <2>2 DEF IsFold
  <2> QED
    BY <2>3
<1> DEFINE it == CHOOSE i : Eqn(i)
<1>8. Eqn(it)
  BY <1>7
<1> HIDE DEF it
<1>9. PICK g \in [0..n -> S] : IsTrace(g, n, FirstConfig, step, LoadedFrom(lines))
  <2>1. it[{}] = FirstConfig
    BY <1>8
  <2>2. \A s \in (SUBSET (1..n)) \ {{}} : it[s \ {Max(s)}] \in S =>
                 it[s] = step[<<Max(s), it[s \ {Max(s)}]>>]
    <3> TAKE s \in (SUBSET (1..n)) \ {{}}
    <3> HAVE it[s \ {Max(s)}] \in S
    <3>1. Max(s) \in 1..n
      BY <1>1, MaxIsIn
    <3>2. it[s] = Rule(Max(s), it[s \ {Max(s)}])
      BY <1>8
    <3> QED
      BY <1>4, <3>1, <3>2
  <2>3. Follows(it, n, S, FirstConfig, step, LoadedFrom(lines))
    BY <1>5, <2>1, <2>2 DEF Follows, it
  <2> QED
    BY <1>1, <1>3, <2>3, FoldTrace
<1>10. n \in {i \in 0..n : Agrees(lines, i, g[i])}
  <2> DEFINE T == {i \in 0..n : Agrees(lines, i, g[i])}
  <2>1. 0 \in T
    BY <1>1, <1>9, FirstAgrees DEF IsTrace
  <2>2. \A i \in 1..n : i - 1 \in T => i \in T
    <3> TAKE i \in 1..n
    <3> HAVE i - 1 \in T
    <3>1. i - 1 \in 0..n /\ i \in 0..n /\ g[i - 1] \in S
      BY <1>1, <1>9
    <3>2. g[i] = Rule(i, g[i - 1])
      BY <1>4, <1>9, <3>1 DEF IsTrace
    <3> QED
      BY <1>2, <3>1, <3>2
  <2> HIDE DEF T
  <2>3. 0..n \subseteq T
    BY <1>1, <2>1, <2>2, InductionUpTo
  <2> QED
    BY <1>1, <2>3 DEF T
<1>11. LoadedFrom(lines) = g[n] /\ g[n] \in S
  BY <1>1, <1>9 DEF IsTrace
<1> QED
  BY <1>6, <1>10, <1>11 DEF n

(* Any file, of any length and with any names, gives every field its last  *)
(* value or its default, and is accepted exactly when those values pass    *)
(* the checks (config_load_from_string, config_validate).                  *)
THEOREM ConfigIsLoaded ==
    ASSUME NEW Names, NEW lines \in Seq(FileLine(Names))
    PROVE  LoadsTheLastValue(lines) /\ AcceptsTheChecked(lines)
<1> DEFINE end == LoadedFrom(lines)
           D == DOMAIN config_apply_defaults
<1>1. Agrees(lines, Len(lines), end) /\ end.broken \in BOOLEAN /\ DOMAIN end.cfg = D
  BY LinesAgree
<1>2. config_load_from_string(lines) =
         [rc |-> IF ~end.broken /\ config_validate(end.cfg) THEN 0 ELSE -1, cfg |-> end.cfg]
  BY Zenon DEF config_load_from_string, LoadedFrom, FirstConfig
<1> HIDE DEF end, D
<1>3. DOMAIN lines = 1..Len(lines)
  OBVIOUS
<1>4. end.broken <=> \E i \in DOMAIN lines : Broken(lines[i])
  BY <1>1, <1>3 DEF Agrees
<1>5. \A k : ExpectedUpTo(lines, k, Len(lines)) = Expected(lines, k)
  <2>1. \A k : Setting(lines, k) \cap 1..Len(lines) = Setting(lines, k)
    BY <1>3 DEF Setting
  <2>2. \A k : Expected(lines, k) =
                  IF Setting(lines, k) = {} THEN config_apply_defaults[k]
                  ELSE ReadAs(k, lines[Highest(Setting(lines, k))].value)
    BY Zenon DEF Expected, Highest
  <2> QED
    BY <2>1, <2>2, Zenon DEF ExpectedUpTo
<1>6. ~end.broken => \A k \in D : end.cfg[k] = Expected(lines, k)
  BY <1>1, <1>5 DEF Agrees, D
<1>7. LoadsTheLastValue(lines)
  BY <1>1, <1>2, <1>4, <1>6 DEF LoadsTheLastValue
<1>8. Required \subseteq D /\ <<"server", "protocol_version">> \in D
  BY FieldsAreKeys DEF D
<1>9. AcceptsTheChecked(lines)
  <2>1. config_load_from_string(lines).rc = 0 <=> ~end.broken /\ config_validate(end.cfg)
    BY <1>2
  <2>2. ~end.broken =>
           /\ \A k \in Required : end.cfg[k] = Expected(lines, k)
           /\ end.cfg[<<"server", "protocol_version">>] = Expected(lines, <<"server", "protocol_version">>)
    BY <1>6, <1>8
  <2> QED
    BY <1>4, <2>1, <2>2 DEF AcceptsTheChecked, config_validate
<1> QED
  BY <1>7, <1>9

-----------------------------------------------------------------------------
(* The theorems of the specification.                                      *)

(* The names of the lines that the runs use.                               *)
ModelName == {"", "ota", "server", "misc", "board", "url", "app_version", "type", "name",
              "protocol_version", "unheard_of"}

(* And these lines.                                                        *)
ModelLine == FileLine(ModelName)

(* The inputs of the four properties, without their bounds: any number of  *)
(* lines, samples, packets, answers and hellos.                            *)
InputOK ==
    \/ input = [of |-> "none"]
    \/ \E lines \in Seq(ModelLine) : input = [of |-> "config", lines |-> lines]
    \/ \E pcm \in Seq(-Half..(Half - 1)) : input = [of |-> "period", pcm |-> pcm]
    \/ \E buffer, period, periods \in 0..SizeMax :
          input = [of |-> "threshold", buffer |-> buffer, period |-> period, periods |-> periods]
    \/ \E calls \in Seq(Call) : input = [of |-> "dump", calls |-> calls]
    \/ \E frames \in Nat, channels \in Nat, device \in Seq(Answer) :
          input = [of |-> "block", frames |-> frames, channels |-> channels, device |-> device]
    \/ \E hellos \in Seq(Hello), ms \in Nat \ {0} :
          input = [of |-> "packet", hellos |-> hellos, ms |-> ms]

(* A bounded sequence is a sequence.                                       *)
LEMMA BoundedSequences ==
    ASSUME NEW S, NEW n, NEW s \in SeqsUpTo(S, n)
    PROVE  s \in Seq(S)
<1>1. PICK k \in 0..n : s \in [1..k -> S]
  BY DEF SeqsUpTo
<1>2. k \in Nat
  BY <1>1
<1> QED
  BY <1>1, <1>2

(* A sequence over a set is one over a larger set.                         *)
LEMMA LargerSequences ==
    ASSUME NEW S, NEW T, S \subseteq T, NEW s \in Seq(S)
    PROVE  s \in Seq(T)
  OBVIOUS

(* The lines of the runs are lines.                                        *)
LEMMA LinesAreTyped ==
    /\ MoreLines \subseteq ModelLine
    /\ Given \in Seq(ModelLine)
<1> DEFINE First == {"none", "#", ";", "[", "other"}
           Value == [len : Nat, atoi : Int]
<1>1. ModelLine = [first : First, close : BOOLEAN, eq : BOOLEAN, name : ModelName, value : Value]
  BY DEF ModelLine, FileLine
<1>2. "none" \in First /\ "#" \in First /\ "[" \in First /\ "other" \in First
  OBVIOUS
<1>3. \A n \in Nat, i \in Int : [len |-> n, atoi |-> i] \in Value
  OBVIOUS
<1>4. /\ "" \in ModelName /\ "ota" \in ModelName /\ "server" \in ModelName /\ "misc" \in ModelName
      /\ "board" \in ModelName /\ "url" \in ModelName /\ "app_version" \in ModelName
      /\ "type" \in ModelName /\ "name" \in ModelName /\ "protocol_version" \in ModelName
      /\ "unheard_of" \in ModelName
  BY DEF ModelName
<1> HIDE DEF First, Value
<1>5. Line \in ModelLine
  <2>1. [len |-> 0, atoi |-> 0] \in Value
    BY <1>3
  <2> DEFINE v == [len |-> 0, atoi |-> 0]
  <2>2. Line = [first |-> "other", close |-> FALSE, eq |-> FALSE, name |-> "", value |-> v]
    BY DEF Line
  <2> HIDE DEF v
  <2>3. v \in Value
    BY <2>1 DEF v
  <2> QED
    BY <1>1, <1>2, <1>4, <2>2, <2>3
<1>6. \A s \in ModelName : Section(s) \in ModelLine
  BY <1>1, <1>2, <1>5 DEF Section
<1>7. \A s \in ModelName, len \in Nat, n \in Int : Assign(s, len, n) \in ModelLine
  BY <1>1, <1>3, <1>5 DEF Assign
<1>8. [Line EXCEPT !.first = "[", !.eq = TRUE] \in ModelLine
      /\ [Line EXCEPT !.first = "none"] \in ModelLine
  BY <1>1, <1>2, <1>5
<1>9. \A l \in ModelLine : [l EXCEPT !.first = "#"] \in ModelLine
                           /\ [l EXCEPT !.eq = TRUE] \in ModelLine
  BY <1>1, <1>2
<1>10. /\ Section("ota") \in ModelLine /\ Section("server") \in ModelLine
       /\ Section("misc") \in ModelLine /\ Section("board") \in ModelLine
  BY <1>4, <1>6
<1>11. /\ [Section("ota") EXCEPT !.first = "#"] \in ModelLine
       /\ [Section("server") EXCEPT !.eq = TRUE] \in ModelLine
  BY <1>9, <1>10
<1>12. /\ 0 \in Int /\ 2 \in Int /\ 3 \in Int /\ 7 \in Int /\ -1 \in Int
       /\ 0 \in Nat /\ 1 \in Nat /\ 2 \in Nat /\ 3 \in Nat /\ 4 \in Nat /\ 5 \in Nat
       /\ 8 \in Nat /\ 9 \in Nat /\ 20 \in Nat /\ 300 \in Nat
  OBVIOUS
<1>13. /\ Assign("url", 0, 0) \in ModelLine /\ Assign("url", 300, 0) \in ModelLine
       /\ Assign("type", 3, 0) \in ModelLine /\ Assign("protocol_version", 1, 3) \in ModelLine
       /\ Assign("protocol_version", 2, -1) \in ModelLine
       /\ Assign("protocol_version", 3, 0) \in ModelLine
       /\ Assign("unheard_of", 4, 7) \in ModelLine
  BY Zenon, <1>4, <1>7, <1>12
<1>14. /\ Assign("url", 20, 0) \in ModelLine /\ Assign("app_version", 5, 2) \in ModelLine
       /\ Assign("type", 8, 0) \in ModelLine /\ Assign("name", 9, 0) \in ModelLine
  BY Zenon, <1>4, <1>7, <1>12
<1> HIDE DEF Value
<1>15. MoreLines \subseteq ModelLine
  <2> SUFFICES ASSUME NEW l \in MoreLines PROVE l \in ModelLine
    OBVIOUS
  <2>1. \/ l = Section("ota") \/ l = Section("server") \/ l = Section("misc")
        \/ l = Assign("url", 0, 0) \/ l = Assign("url", 300, 0) \/ l = Assign("type", 3, 0)
        \/ l = Assign("protocol_version", 1, 3) \/ l = Assign("protocol_version", 2, -1)
        \/ l = Assign("protocol_version", 3, 0) \/ l = Assign("unheard_of", 4, 7)
        \/ l = [Line EXCEPT !.first = "[", !.eq = TRUE]
        \/ l = [Section("ota") EXCEPT !.first = "#"] \/ l = [Section("server") EXCEPT !.eq = TRUE]
        \/ l = Line \/ l = [Line EXCEPT !.first = "none"]
    BY Zenon DEF MoreLines
  <2> QED
    BY ONLY <2>1, <1>5, <1>8, <1>10, <1>11, <1>13, Zenon
<1>16. Given \in Seq(ModelLine)
  <2> DEFINE a == Section("ota")
             b == Assign("url", 20, 0)
             c == Assign("app_version", 5, 2)
             d == Section("board")
             e == Assign("type", 8, 0)
             f == Assign("name", 9, 0)
  <2>1. Given = <<a, b, c, d, e, f>>
    BY DEF Given
  <2>2. /\ a \in ModelLine /\ b \in ModelLine /\ c \in ModelLine
        /\ d \in ModelLine /\ e \in ModelLine /\ f \in ModelLine
    BY <1>10, <1>14
  <2> HIDE DEF a, b, c, d, e, f
  <2>3. <<a, b, c, d, e, f>> \in Seq(ModelLine)
    BY <2>2
  <2> QED
    BY <2>1, <2>3
<1> QED
  BY <1>15, <1>16

(* Every input a run gives is one the lemmas speak of.                     *)
LEMMA StepIsTyped ==
    ASSUME Next PROVE InputOK'
<1>1. CASE Packet
  <2>1. PICK ms \in {20, 60, 80, 120},
             hellos \in SeqsUpTo([rate : {0, 16000, 24000, 44100, 48000}, channels : {0, 1, 2, 3}],
                                 MaxHellos) :
                input' = [of |-> "packet", hellos |-> hellos, ms |-> ms]
    BY <1>1 DEF Packet
  <2>2. hellos \in Seq([rate : {0, 16000, 24000, 44100, 48000}, channels : {0, 1, 2, 3}])
    BY BoundedSequences
  <2>3. hellos \in Seq(Hello)
    <3> DEFINE Few == [rate : {0, 16000, 24000, 44100, 48000}, channels : {0, 1, 2, 3}]
    <3>1. Few \subseteq Hello
      BY DEF Hello
    <3>2. hellos \in Seq(Few)
      BY <2>2
    <3> HIDE DEF Few
    <3> QED
      BY <3>1, <3>2, LargerSequences
  <2>4. ms \in Nat \ {0}
    OBVIOUS
  <2> QED
    BY <2>1, <2>3, <2>4 DEF InputOK
<1>2. CASE LoadConfig
  <2>1. PICK base \in {Given, <<>>}, more \in SeqsUpTo(MoreLines, ExtraLines) :
                input' = [of |-> "config", lines |-> base \o more]
    BY <1>2 DEF LoadConfig
  <2>2. more \in Seq(MoreLines)
    BY BoundedSequences
  <2>3. more \in Seq(ModelLine)
    BY <2>2, LinesAreTyped, LargerSequences
  <2>5. base \in Seq(ModelLine)
    <3>1. base = Given \/ base = <<>>
      OBVIOUS
    <3>2. <<>> \in Seq(ModelLine)
      OBVIOUS
    <3> QED
      BY Zenon, <3>1, <3>2, LinesAreTyped
  <2>4. base \o more \in Seq(ModelLine)
    BY <2>3, <2>5
  <2> QED
    BY <2>1, <2>4 DEF InputOK
<1>3. CASE Period
  <2>1. PICK pcm \in SeqsUpTo(-Half..(Half - 1), MaxSample) :
                input' = [of |-> "period", pcm |-> pcm]
    BY <1>3 DEF Period
  <2>2. pcm \in Seq(-Half..(Half - 1))
    BY BoundedSequences
  <2> QED
    BY <2>1, <2>2 DEF InputOK
<1>4. CASE Threshold
  <2>1. PICK buffer \in 0..MaxSize, period \in 0..MaxSize, periods \in 0..MaxSize :
                input' = [of |-> "threshold", buffer |-> buffer, period |-> period,
                          periods |-> periods]
    BY <1>4 DEF Threshold
  <2>2. buffer \in 0..SizeMax /\ period \in 0..SizeMax /\ periods \in 0..SizeMax
    BY BoundsAssumption, PcmAssumption
  <2> QED
    BY <2>1, <2>2 DEF InputOK
<1>5. CASE Dumped
  <2>1. PICK sizes \in SeqsUpTo([len : 0..(Base * Base), room : Rooms], MaxPackets) :
           input' = [of |-> "dump",
                     calls |-> [i \in DOMAIN sizes |-> [packet |-> PacketOf(sizes[i].len, i % Base),
                                                        room |-> sizes[i].room]]]
    BY <1>5 DEF Dumped
  <2> DEFINE calls == [i \in DOMAIN sizes |-> [packet |-> PacketOf(sizes[i].len, i % Base),
                                               room |-> sizes[i].room]]
  <2>2. Base \in Nat /\ Base > 1 /\ Base * Base \in Nat /\ Rooms \subseteq Nat
    BY BaseAssumption DEF Rooms
  <2>3. sizes \in Seq([len : 0..(Base * Base), room : Rooms])
    BY BoundedSequences
  <2>4. \A i \in 1..Len(sizes) : calls[i] \in Call
    <3> TAKE i \in 1..Len(sizes)
    <3>1. sizes[i].len \in Nat /\ sizes[i].room \in Nat /\ i \in Nat /\ i \in DOMAIN sizes
      <4> HIDE DEF calls
      <4>1. i \in DOMAIN sizes /\ i \in Nat /\ sizes[i] \in [len : 0..(Base * Base), room : Rooms]
        <5> DEFINE R == [len : 0..(Base * Base), room : Rooms]
        <5>1. sizes \in Seq(R)
          BY <2>3
        <5> HIDE DEF R
        <5>2. i \in DOMAIN sizes /\ i \in Nat /\ sizes[i] \in R
          BY <5>1
        <5> QED
          BY <5>2 DEF R
      <4>2. sizes[i].len \in 0..(Base * Base) /\ sizes[i].room \in Rooms
        BY <4>1
      <4>3. 0..(Base * Base) \subseteq Nat
        BY <2>2
      <4> QED
        BY <2>2, <4>1, <4>2, <4>3
    <3>2. i % Base \in Byte
      BY <2>2, <3>1 DEF Byte
    <3>3. PacketOf(sizes[i].len, i % Base) \in Seq(Byte)
      BY <3>1, <3>2 DEF PacketOf
    <3> QED
      BY <3>1, <3>3 DEF Call
  <2>5. calls \in Seq(Call)
    <3>1. DOMAIN sizes = 1..Len(sizes) /\ Len(sizes) \in Nat
      BY <2>3
    <3> QED
      BY <2>4, <3>1
  <2> HIDE DEF calls
  <2> QED
    BY <2>1, <2>5 DEF InputOK, calls
<1>6. CASE Block
  <2>1. PICK frames \in 0..MaxFrames, channels \in 0..2, device \in SeqsUpTo(Answers, MaxAnswers) :
                input' = [of |-> "block", frames |-> frames, channels |-> channels,
                          device |-> device]
    BY <1>6 DEF Block
  <2>2. Answers \subseteq Answer
    <3> DEFINE X == {EAGAIN, EIO} \cup 0..MaxFrames
               Y == {EPIPE, ESTRPIPE}
    <3>1. X \subseteq Int /\ Y \subseteq Int
      BY BoundsAssumption DEF EAGAIN, EIO, EPIPE, ESTRPIPE
    <3>2. Answers = [rc : X, prepared : {FALSE}] \cup [rc : Y, prepared : BOOLEAN]
      BY DEF Answers
    <3> HIDE DEF X, Y
    <3>3. \A a \in [rc : X, prepared : {FALSE}] : a \in Answer
      BY <3>1 DEF Answer
    <3>4. \A a \in [rc : Y, prepared : BOOLEAN] : a \in Answer
      BY <3>1 DEF Answer
    <3> QED
      BY ONLY <3>2, <3>3, <3>4, Zenon
  <2>3. device \in Seq(Answers)
    BY BoundedSequences
  <2>4. device \in Seq(Answer) /\ frames \in Nat /\ channels \in Nat
    BY <2>2, <2>3, LargerSequences, BoundsAssumption
  <2> QED
    BY <2>1, <2>4 DEF InputOK
<1> QED
  BY <1>1, <1>2, <1>3, <1>4, <1>5, <1>6 DEF Next

(* So in every state.                                                      *)
LEMMA InputsAreTyped == Spec => []InputOK
<1>1. Init => InputOK
  BY DEF Init, InputOK
<1>2. InputOK /\ [Next]_input => InputOK'
  <2>1. InputOK /\ UNCHANGED input => InputOK'
    BY DEF InputOK
  <2> QED
    BY <2>1, StepIsTyped
<1> QED
  BY <1>1, <1>2, PTL DEF Spec

(* ConfigHolds for all bounds (config.c).                                  *)
THEOREM FilesAreRead == Spec => []ConfigHolds
<1>1. InputOK => ConfigHolds
  BY ConfigIsLoaded DEF InputOK, ConfigHolds, ModelLine
<1> QED
  BY <1>1, InputsAreTyped, PTL

(* DumpHolds for all bounds and every base (app_write_opus_packet,         *)
(* tools/decode_opus_dump.c).                                              *)
THEOREM DumpsReadBack == Spec => []DumpHolds
<1>1. InputOK => DumpHolds
  BY DumpIsRead DEF InputOK, DumpHolds
<1> QED
  BY <1>1, InputsAreTyped, PTL

(* PcmHolds for all bounds, every width of a sample and every size_t       *)
(* (max_abs_sample, audio_playback_compute_start_threshold,                *)
(* audio_playback_write_all_frames).                                       *)
THEOREM SamplesAreCounted == Spec => []PcmHolds
<1>1. InputOK => PcmHolds
  BY PeakOfPeriod, StartThreshold, BlockWritten DEF InputOK, PcmHolds
<1> QED
  BY <1>1, InputsAreTyped, PTL

(* PacketHolds for all bounds (app_update_decoder_from_hello,              *)
(* opus_decode_frame, app_client_on_binary, audio_playback_enqueue).       *)
THEOREM PacketsArePlayed == Spec => []PacketHolds
<1>1. InputOK => PacketHolds
  BY PacketPlays DEF InputOK, PacketHolds
<1> QED
  BY <1>1, InputsAreTyped, PTL
===============================================================================
