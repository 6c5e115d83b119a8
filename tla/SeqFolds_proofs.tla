---------------------------- MODULE SeqFolds_proofs ----------------------------
(***************************************************************************)
(* What folds over sequences compute.  The provers cannot instantiate an   *)
(* induction principle, so induction is stated for a set of numbers, the   *)
(* recursive function that a fold is defined by is shown to exist, and a   *)
(* fold becomes a chain of values, one for each element, of which a        *)
(* property is kept from link to link.                                     *)
(***************************************************************************)
EXTENDS SeqFolds, SequenceTheorems, WellFoundedInduction, TLAPS
-----------------------------------------------------------------------------
(* ---- folds ------------------------------------------------------------ *)

(* Induction on the natural numbers, for a set of them.                    *)
LEMMA SetInduction ==
  ASSUME NEW T, 0 \in T, \A n \in Nat : n \in T => n + 1 \in T
  PROVE  Nat \subseteq T
<1> DEFINE R == OpToRel(<, Nat)
           U == {n \in Nat : n \notin T}
<1>1. R = {s \in Nat \X Nat : s[1] < s[2]}
  BY DEF OpToRel
<1>2. IsWellFoundedOn(R, Nat)
  BY NatLessThanWellFounded
<1>3. ASSUME U # {}
      PROVE  FALSE
  <2> HIDE DEF R
  <2>1. PICK x \in U : \A y \in U : ~(<<y, x>> \in R)
    BY <1>2, <1>3, WFMin
  <2>2. x \in Nat /\ x # 0 /\ x \notin T
    BY <2>1
  <2>3. x - 1 \in Nat /\ x - 1 < x /\ (x - 1) + 1 = x
    BY <2>2
  <2>4. <<x - 1, x>> \in R
    BY <1>1, <2>2, <2>3
  <2> QED
    BY <2>1, <2>2, <2>3, <2>4
<1> QED
  BY <1>3

LEMMA MinOf ==
  ASSUME NEW S \in SUBSET Nat, S # {}
  PROVE  Min(S) \in S /\ \A x \in S : Min(S) <= x
<1> DEFINE R == OpToRel(<, Nat)
<1>1. R = {s \in Nat \X Nat : s[1] < s[2]}
  BY DEF OpToRel
<1>2. IsWellFoundedOn(R, Nat)
  BY NatLessThanWellFounded
<1> HIDE DEF R
<1>3. PICK x \in S : \A y \in S : ~(<<y, x>> \in R)
  BY <1>2, WFMin
<1>4. ASSUME NEW y \in S
      PROVE  x <= y
  <2>1. x \in Nat /\ y \in Nat /\ ~(<<y, x>> \in R)
    BY <1>3
  <2>2. <<y, x>> \in Nat \X Nat /\ ~(y < x)
    BY <1>1, <2>1
  <2> QED
    BY <2>1, <2>2
<1> QED
  BY <1>3, <1>4 DEF Min

LEMMA MaxOf ==
  ASSUME NEW n \in Nat, NEW S \in SUBSET (1..n), S # {}
  PROVE  Max(S) \in S /\ \A x \in S : Max(S) >= x
<1> DEFINE R == {n - x : x \in S}
<1>1. R \in SUBSET Nat /\ R # {}
  <2>1. \A x \in S : x \in Nat /\ n - x \in Nat
    OBVIOUS
  <2> QED
    BY <2>1
<1>2. Min(R) \in R /\ \A y \in R : Min(R) <= y
  BY <1>1, MinOf
<1> DEFINE m == n - Min(R)
<1>3. m \in S /\ \A x \in S : m >= x
  <2>1. PICK x \in S : Min(R) = n - x
    BY <1>2
  <2>2. x \in 1..n /\ m = n - (n - x)
    BY <2>1
  <2>3. m = x
    BY <2>2
  <2>4. ASSUME NEW y \in S
        PROVE  x >= y
    <3>1. n - x <= n - y /\ y \in 1..n
      BY <1>2, <2>1
    <3> QED
      BY <2>2, <3>1
  <2> HIDE DEF m, R
  <2> QED
    BY <2>3, <2>4
<1> HIDE DEF m, R
<1> QED
  BY <1>3 DEF Max, m, R

LEMMA Prefix ==
  ASSUME NEW m \in Nat, m # 0
  PROVE  /\ m - 1 \in Nat /\ 1..m # {} /\ Max(1..m) = m /\ (1..m) \ {Max(1..m)} = 1..(m - 1)
<1>1. 1..m # {} /\ m - 1 \in Nat /\ m \in 1..m
  OBVIOUS
<1>2. Max(1..m) \in 1..m /\ Max(1..m) >= m
  BY <1>1, MaxOf
<1>3. Max(1..m) = m
  BY <1>2
<1> QED
  BY <1>1, <1>3

(* The recursive function in MapThenFoldSet, for FoldLeft.                 *)
IsFold(f, n, base, step) ==
  \A s \in SUBSET (1..n) : f[s] = IF s = {} THEN base ELSE step[Max(s)][f[s \ {Max(s)}]]

Folds(n, G, base, step) == \E f \in [SUBSET (1..n) -> G] : IsFold(f, n, base, step)

(* A fold whose steps stay in a set exists.                                *)
LEMMA FoldExists ==
  ASSUME NEW n \in Nat, NEW G, NEW base \in G, NEW step \in [1..n -> [G -> G]]
  PROVE  Folds(n, G, base, step)
<1> DEFINE T == {m \in Nat : m <= n => Folds(m, G, base, step)}
<1>1. 0 \in T
  <2> DEFINE f == [s \in SUBSET (1..0) |-> base]
  <2>1. f \in [SUBSET (1..0) -> G] /\ \A s \in SUBSET (1..0) : s = {} /\ f[s] = base
    OBVIOUS
  <2> HIDE DEF f
  <2> QED
    BY <2>1 DEF Folds, IsFold
<1>2. ASSUME NEW m \in Nat, m \in T
      PROVE  m + 1 \in T
  <2>1. SUFFICES ASSUME m + 1 <= n
                 PROVE  Folds(m + 1, G, base, step)
    OBVIOUS
  <2>a. Folds(m, G, base, step)
    BY <1>2, <2>1
  <2>2. PICK f \in [SUBSET (1..m) -> G] : IsFold(f, m, base, step)
    BY <2>a DEF Folds
  <2> DEFINE top == m + 1
             g == [s \in SUBSET (1..top) |-> IF top \in s THEN step[top][f[s \ {top}]] ELSE f[s]]
  <2>3. \A s \in SUBSET (1..top) : IF top \in s THEN s \ {top} \in SUBSET (1..m) ELSE s \in SUBSET (1..m)
    OBVIOUS
  <2>4. top \in 1..n
    BY <2>1
  <2>5. g \in [SUBSET (1..top) -> G]
    BY <2>3, <2>4
  <2>6. ASSUME NEW s \in SUBSET (1..top)
        PROVE  g[s] = IF s = {} THEN base ELSE step[Max(s)][g[s \ {Max(s)}]]
    <3>1. CASE top \in s
      <4>1. Max(s) \in s /\ Max(s) >= top /\ Max(s) \in 1..top
        <5>1. top \in Nat /\ s # {}
          BY <3>1
        <5> HIDE DEF top
        <5> QED
          BY <3>1, <5>1, MaxOf
      <4>2. Max(s) = top
        BY <4>1
      <4>3. g[s] = step[top][f[s \ {top}]] /\ g[s \ {top}] = f[s \ {top}]
        BY <2>3, <3>1
      <4> QED
        BY <3>1, <4>2, <4>3
    <3>2. CASE top \notin s
      <4>1. s \in SUBSET (1..m) /\ g[s] = f[s]
        BY <2>3, <3>2
      <4>2. CASE s = {}
        BY <2>2, <4>1, <4>2 DEF IsFold
      <4>3. CASE s # {}
        <5>1. s \ {Max(s)} \in SUBSET (1..m) /\ s \ {Max(s)} \in SUBSET (1..top) /\ top \notin s \ {Max(s)}
          BY <3>2, <4>1
        <5>2. g[s \ {Max(s)}] = f[s \ {Max(s)}]
          BY <5>1
        <5> QED
          BY <2>2, <4>1, <4>3, <5>2 DEF IsFold
      <4> QED
        BY <4>2, <4>3
    <3> QED
      BY <3>1, <3>2
  <2> HIDE DEF g
  <2>7. IsFold(g, top, base, step)
    BY <2>6 DEF IsFold
  <2> QED
    BY <2>5, <2>7 DEF Folds
<1> HIDE DEF T
<1>3. n \in T
  BY <1>1, <1>2, SetInduction
<1> QED
  BY <1>3 DEF T

(* The values that a fold goes through.                                    *)
IsChain(g, n, G, base, step) ==
  /\ g \in [0..n -> G] /\ g[0] = base
  /\ \A m \in 1..n : g[m] = step[m][g[m - 1]]

Chained(last, n, G, base, step) == \E g : IsChain(g, n, G, base, step) /\ g[n] = last

LEMMA FoldChain ==
  ASSUME NEW n \in Nat, NEW G, NEW base \in G, NEW step \in [1..n -> [G -> G]], NEW h,
         h[{}] = base,
         \A s \in SUBSET (1..n) : s # {} /\ h[s \ {Max(s)}] \in G => h[s] = step[Max(s)][h[s \ {Max(s)}]]
  PROVE  Chained(h[1..n], n, G, base, step)
<1> DEFINE g == [m \in 0..n |-> h[1..m]]
           T == {m \in Nat : m <= n => h[1..m] \in G}
<1>1. ASSUME NEW m \in 1..n, h[1..(m - 1)] \in G
      PROVE  h[1..m] = step[m][h[1..(m - 1)]] /\ h[1..m] \in G
  <2>1. m \in Nat /\ m # 0 /\ 1..m \in SUBSET (1..n)
    OBVIOUS
  <2>2. 1..m # {} /\ Max(1..m) = m /\ (1..m) \ {Max(1..m)} = 1..(m - 1)
    BY <2>1, Prefix
  <2>3. h[1..m] = step[Max(1..m)][h[(1..m) \ {Max(1..m)}]]
    BY <1>1, <2>1, <2>2
  <2>4. h[1..m] = step[m][h[1..(m - 1)]]
    BY <2>2, <2>3
  <2> QED
    BY <1>1, <2>4
<1>2. 0 \in T
  <2>1. 1..0 = {}
    OBVIOUS
  <2> QED
    BY <2>1
<1>3. ASSUME NEW m \in Nat, m \in T
      PROVE  m + 1 \in T
  <2>1. SUFFICES ASSUME m + 1 <= n
                 PROVE  h[1..(m + 1)] \in G
    OBVIOUS
  <2>2. m + 1 \in 1..n /\ (m + 1) - 1 = m /\ h[1..m] \in G
    BY <1>3, <2>1
  <2> QED
    BY <1>1, <2>2
<1> HIDE DEF T
<1>4. Nat \subseteq T
  BY <1>2, <1>3, SetInduction
<1>5. \A m \in 0..n : h[1..m] \in G
  BY <1>4 DEF T
<1>6. g \in [0..n -> G] /\ g[0] = base
  <2>1. 1..0 = {}
    OBVIOUS
  <2> QED
    BY <1>5, <2>1
<1>7. ASSUME NEW m \in 1..n
      PROVE  g[m] = step[m][g[m - 1]]
  <2>1. m - 1 \in 0..n /\ m \in 0..n
    OBVIOUS
  <2>2. g[m - 1] = h[1..(m - 1)] /\ g[m] = h[1..m]
    BY <2>1
  <2> QED
    BY <1>1, <1>5, <2>1, <2>2
<1>8. g[n] = h[1..n]
  OBVIOUS
<1> HIDE DEF g
<1> QED
  BY <1>6, <1>7, <1>8 DEF IsChain, Chained

LEMMA ChainEnds ==
  ASSUME NEW last, NEW n, NEW G, NEW base, NEW step, Chained(last, n, G, base, step), n \in Nat
  PROVE  last \in G
<1>1. PICK g : IsChain(g, n, G, base, step) /\ g[n] = last
  BY DEF Chained
<1>2. n \in 0..n
  OBVIOUS
<1> QED
  BY <1>1, <1>2 DEF IsChain

(* What two chains have in common from step to step, they keep.            *)
Relates(R, n, G, H, s, t) ==
  \A m \in 1..n : \A x \in G, y \in H : <<x, y>> \in R => <<s[m][x], t[m][y]>> \in R

LEMMA ChainsRelate ==
  ASSUME NEW n \in Nat, NEW G, NEW H, NEW a, NEW b, NEW s, NEW t, NEW g, NEW h, NEW R,
         IsChain(g, n, G, a, s), IsChain(h, n, H, b, t), <<a, b>> \in R,
         Relates(R, n, G, H, s, t)
  PROVE  \A m \in 0..n : <<g[m], h[m]>> \in R
<1> DEFINE T == {m \in Nat : m <= n => <<g[m], h[m]>> \in R}
<1>1. 0 \in T
  BY DEF IsChain
<1>2. ASSUME NEW m \in Nat, m \in T
      PROVE  m + 1 \in T
  <2>1. SUFFICES ASSUME m + 1 <= n
                 PROVE  <<g[m + 1], h[m + 1]>> \in R
    OBVIOUS
  <2> DEFINE k == m + 1
  <2>2. k \in 1..n /\ k - 1 = m /\ m \in 0..n /\ <<g[m], h[m]>> \in R
    BY <1>2, <2>1
  <2> HIDE DEF k
  <2>3. g[k] = s[k][g[m]] /\ h[k] = t[k][h[m]] /\ g[m] \in G /\ h[m] \in H
    BY <2>2 DEF IsChain
  <2>4. <<s[k][g[m]], t[k][h[m]]>> \in R
    BY <2>2, <2>3 DEF Relates
  <2> QED
    BY <2>3, <2>4 DEF k
<1> HIDE DEF T
<1>3. Nat \subseteq T
  BY <1>1, <1>2, SetInduction
<1> QED
  BY <1>3 DEF T

Stays(R, n, G, s) == \A m \in 1..n : \A x \in G : x \in R => s[m][x] \in R

LEMMA ChainStays ==
  ASSUME NEW n \in Nat, NEW G, NEW a, NEW s, NEW g, NEW R, IsChain(g, n, G, a, s), a \in R, Stays(R, n, G, s)
  PROVE  \A m \in 0..n : g[m] \in R
<1> DEFINE T == {m \in Nat : m <= n => g[m] \in R}
<1>1. 0 \in T
  BY DEF IsChain
<1>2. ASSUME NEW m \in Nat, m \in T
      PROVE  m + 1 \in T
  <2>1. SUFFICES ASSUME m + 1 <= n
                 PROVE  g[m + 1] \in R
    OBVIOUS
  <2> DEFINE k == m + 1
  <2>2. k \in 1..n /\ k - 1 = m /\ m \in 0..n /\ g[m] \in R
    BY <1>2, <2>1
  <2> HIDE DEF k
  <2>3. g[k] = s[k][g[m]] /\ g[m] \in G
    BY <2>2 DEF IsChain
  <2> QED
    BY <2>2, <2>3 DEF k, Stays
<1> HIDE DEF T
<1>3. Nat \subseteq T
  BY <1>1, <1>2, SetInduction
<1> QED
  BY <1>3 DEF T

(* What holds of the base, and is handed from each link to the next, holds *)
(* of the last one.                                                        *)
Hands(R, n, G, step) == \A m \in 1..n : \A x \in G : x \in R[m - 1] => step[m][x] \in R[m]

LEMMA ChainHands ==
  ASSUME NEW n \in Nat, NEW G, NEW base, NEW step, NEW last, NEW R,
         Chained(last, n, G, base, step), base \in R[0], Hands(R, n, G, step)
  PROVE  last \in R[n] /\ last \in G
<1>1. PICK g : IsChain(g, n, G, base, step) /\ g[n] = last
  BY DEF Chained
<1> DEFINE T == {m \in Nat : m <= n => g[m] \in R[m]}
<1>2. 0 \in T
  BY <1>1 DEF IsChain
<1>3. ASSUME NEW m \in Nat, m \in T
      PROVE  m + 1 \in T
  <2>1. SUFFICES ASSUME m + 1 <= n
                 PROVE  g[m + 1] \in R[m + 1]
    OBVIOUS
  <2> DEFINE k == m + 1
  <2>2. k \in 1..n /\ k - 1 = m /\ m \in 0..n /\ g[m] \in R[m]
    BY <1>3, <2>1
  <2> HIDE DEF k
  <2>3. g[k] = step[k][g[m]] /\ g[m] \in G
    BY <1>1, <2>2 DEF IsChain
  <2> QED
    BY <2>2, <2>3 DEF k, Hands
<1> HIDE DEF T
<1>4. Nat \subseteq T
  BY <1>2, <1>3, SetInduction
<1>5. n \in 0..n
  OBVIOUS
<1> QED
  BY <1>1, <1>4, <1>5 DEF T, IsChain
-----------------------------------------------------------------------------
(* ---- Kept, Concat ----------------------------------------------------- *)

Distinct(seq) == \A i, j \in 1..Len(seq) : seq[i] = seq[j] => i = j

(* Members of S occur once.                                               *)
Once(seq, S) == \A i, j \in 1..Len(seq) : seq[i] = seq[j] /\ seq[i] \in S => i = j

Members(seq, n) == {seq[i] : i \in 1..n}

(* What Kept has come to after n elements.                                 *)
KeptOf(kept, X, seq, S, n) ==
  /\ kept \in Seq(X)
  /\ Members(kept, Len(kept)) = Members(seq, n) \cap S
  /\ Once(seq, S) => Distinct(kept)

LEMMA FunctionIsSeq ==
  ASSUME NEW S, NEW n \in Nat, NEW f \in [1..n -> S]
  PROVE  f \in Seq(S) /\ Len(f) = n /\ DOMAIN f = 1..n
<1>1. f \in Seq(S)
  BY SeqDef
<1> QED
  BY <1>1, LenProperties

LEMMA MembersAppend ==
  ASSUME NEW X, NEW seq \in Seq(X), NEW x \in X
  PROVE  Members(Append(seq, x), Len(seq) + 1) = Members(seq, Len(seq)) \cup {x}
<1>1. /\ Len(seq) \in Nat /\ \A i \in 1..Len(seq) : Append(seq, x)[i] = seq[i]
      /\ Append(seq, x)[Len(seq) + 1] = x
  BY AppendProperties, LenProperties
<1>2. 1..(Len(seq) + 1) = 1..Len(seq) \cup {Len(seq) + 1}
  BY <1>1
<1> QED
  BY <1>1, <1>2 DEF Members

LEMMA DistinctAppend ==
  ASSUME NEW X, NEW seq \in Seq(X), NEW x \in X, Distinct(seq), x \notin Members(seq, Len(seq))
  PROVE  Distinct(Append(seq, x))
<1>1. /\ Len(seq) \in Nat /\ \A i \in 1..Len(seq) : Append(seq, x)[i] = seq[i]
      /\ Append(seq, x)[Len(seq) + 1] = x /\ Len(Append(seq, x)) = Len(seq) + 1
  BY AppendProperties, LenProperties
<1> DEFINE t == Append(seq, x)
<1>2. SUFFICES ASSUME NEW i \in 1..(Len(seq) + 1), NEW j \in 1..(Len(seq) + 1), t[i] = t[j]
               PROVE  i = j
  BY <1>1 DEF Distinct
<1>3. \A k \in 1..Len(seq) : seq[k] # x
  BY DEF Members
<1>4. CASE i = Len(seq) + 1 \/ j = Len(seq) + 1
  BY <1>1, <1>2, <1>3, <1>4
<1>5. CASE i # Len(seq) + 1 /\ j # Len(seq) + 1
  <2>1. i \in 1..Len(seq) /\ j \in 1..Len(seq)
    BY <1>1, <1>5
  <2>2. seq[i] = seq[j]
    BY <1>1, <1>2, <2>1
  <2> QED
    BY <2>1, <2>2 DEF Distinct
<1> QED
  BY <1>4, <1>5

KeepOne(kept, x, S) == IF x \in S THEN Append(kept, x) ELSE kept

KeptSteps(X, seq, S) == [m \in 1..Len(seq) |-> [kept \in Seq(X) |-> KeepOne(kept, seq[m], S)]]

LEMMA KeptChain ==
  ASSUME NEW X, NEW seq \in Seq(X), NEW S
  PROVE  Chained(Kept(seq, S), Len(seq), Seq(X), <<>>, KeptSteps(X, seq, S))
<1>0. PICK n \in Nat : n = Len(seq)
  BY LenProperties
<1> DEFINE G == Seq(X)
           step == KeptSteps(X, seq, S)
           h == CHOOSE f : f = [t \in SUBSET (DOMAIN seq) |->
                                  IF t = {} THEN <<>> ELSE KeepOne(f[t \ {Max(t)}], seq[Max(t)], S)]
<1>1. DOMAIN seq = 1..n /\ (\A i \in 1..n : seq[i] \in X) /\ <<>> \in G
  BY <1>0, LenProperties, EmptySeq
<1>2. \A m \in 1..n : \A kept \in G : KeepOne(kept, seq[m], S) \in G
  BY <1>1, AppendProperties DEF KeepOne
<1>3. step \in [1..n -> [G -> G]] /\ \A m \in 1..n : \A kept \in G : step[m][kept] = KeepOne(kept, seq[m], S)
  BY <1>0, <1>2 DEF KeptSteps
<1>4. Kept(seq, S) = h[DOMAIN seq]
  BY Zenon DEF Kept, KeepOne, FoldLeft, MapThenFoldSet
<1> HIDE DEF step, G
<1>5. Folds(n, G, <<>>, step)
  BY <1>1, <1>3, FoldExists
<1>6. PICK f \in [SUBSET (1..n) -> G] : IsFold(f, n, <<>>, step)
  BY <1>5 DEF Folds
<1>7. \A t \in SUBSET (1..n) : t # {} => Max(t) \in 1..n /\ t \ {Max(t)} \in SUBSET (1..n)
  BY MaxOf
<1>8. f = [t \in SUBSET (1..n) |-> IF t = {} THEN <<>> ELSE KeepOne(f[t \ {Max(t)}], seq[Max(t)], S)]
  <2>1. ASSUME NEW t \in SUBSET (1..n)
        PROVE  f[t] = IF t = {} THEN <<>> ELSE KeepOne(f[t \ {Max(t)}], seq[Max(t)], S)
    BY <1>3, <1>6, <1>7 DEF IsFold
  <2> QED
    BY <1>6, <2>1
<1>9. h = [t \in SUBSET (1..n) |-> IF t = {} THEN <<>> ELSE KeepOne(h[t \ {Max(t)}], seq[Max(t)], S)]
  BY <1>1, <1>8
<1> HIDE DEF h
<1>a. h[{}] = <<>>
  BY <1>9
<1>b. \A t \in SUBSET (1..n) : t # {} /\ h[t \ {Max(t)}] \in G => h[t] = step[Max(t)][h[t \ {Max(t)}]]
  BY <1>3, <1>7, <1>9
<1>c. Chained(h[1..n], n, G, <<>>, step)
  BY <1>1, <1>3, <1>a, <1>b, FoldChain, Zenon
<1> QED
  BY <1>0, <1>1, <1>4, <1>c DEF step, G

LEMMA KeptIs ==
  ASSUME NEW X, NEW seq \in Seq(X), NEW S
  PROVE  KeptOf(Kept(seq, S), X, seq, S, Len(seq))
<1>0. PICK n \in Nat : n = Len(seq) /\ \A m \in 1..n : seq[m] \in X
  BY LenProperties
<1> DEFINE G == Seq(X)
           step == KeptSteps(X, seq, S)
           R == [m \in 0..n |-> {kept \in G : KeptOf(kept, X, seq, S, m)}]
<1>1. Chained(Kept(seq, S), n, G, <<>>, step)
  BY <1>0, KeptChain
<1>2. <<>> \in R[0]
  <2>1. <<>> \in G /\ Len(<<>>) = 0 /\ 1..0 = {}
    BY EmptySeq
  <2> QED
    BY <2>1 DEF KeptOf, Members, Distinct
<1>3. ASSUME NEW m \in 1..n, NEW kept \in G, KeptOf(kept, X, seq, S, m - 1)
      PROVE  KeptOf(KeepOne(kept, seq[m], S), X, seq, S, m) /\ KeepOne(kept, seq[m], S) \in G
  <2>1. PICK x \in X : x = seq[m]
    BY <1>0
  <2>2. Members(seq, m) = Members(seq, m - 1) \cup {x}
    <3>1. 1..m = 1..(m - 1) \cup {m}
      OBVIOUS
    <3> QED
      BY <2>1, <3>1 DEF Members
  <2>3. CASE x \notin S
    <3>1. KeepOne(kept, seq[m], S) = kept
      BY <2>1, <2>3 DEF KeepOne
    <3> QED
      BY <1>3, <2>2, <2>3, <3>1 DEF KeptOf
  <2>4. CASE x \in S
    <3> DEFINE t == Append(kept, x)
    <3>1. KeepOne(kept, seq[m], S) = t
      BY <2>1, <2>4 DEF KeepOne
    <3>2. t \in Seq(X) /\ Len(t) = Len(kept) + 1 /\ Members(t, Len(kept) + 1) = Members(kept, Len(kept)) \cup {x}
      BY AppendProperties, MembersAppend
    <3>3. ASSUME Once(seq, S)
          PROVE  Distinct(t)
      <4>1. x \notin Members(seq, m - 1)
        BY <1>0, <2>1, <2>4, <3>3 DEF Once, Members
      <4>2. x \notin Members(kept, Len(kept)) /\ Distinct(kept)
        BY <1>3, <3>3, <4>1 DEF KeptOf
      <4> QED
        BY <4>2, DistinctAppend
    <3> HIDE DEF t
    <3> QED
      BY <1>3, <2>2, <2>4, <3>1, <3>2, <3>3 DEF KeptOf
  <2> QED
    BY <2>3, <2>4
<1>4. Hands(R, n, G, step)
  <2> SUFFICES ASSUME NEW m \in 1..n, NEW kept \in G, kept \in R[m - 1]
               PROVE  step[m][kept] \in R[m]
    BY DEF Hands
  <2>1. m - 1 \in 0..n /\ m \in 0..n /\ step[m][kept] = KeepOne(kept, seq[m], S)
    BY <1>0 DEF KeptSteps
  <2> HIDE DEF step
  <2>2. KeptOf(kept, X, seq, S, m - 1)
    BY <2>1
  <2> QED
    BY <1>3, <2>1, <2>2
<1> HIDE DEF R, G, step
<1>5. Kept(seq, S) \in R[n]
  BY <1>1, <1>2, <1>4, ChainHands, Zenon
<1> QED
  BY <1>0, <1>5 DEF R

(* Sequences that have distinct elements, and none in common.              *)
Apart(seqs) ==
  \A i, j \in 1..Len(seqs) : \A k \in 1..Len(seqs[i]), l \in 1..Len(seqs[j]) :
    seqs[i][k] = seqs[j][l] => i = j /\ k = l

Spread(seqs, n) == UNION {Members(seqs[j], Len(seqs[j])) : j \in 1..n}

(* What Concat has come to after n sequences.                              *)
ConcatOf(all, X, seqs, n) ==
  /\ all \in Seq(X)
  /\ Members(all, Len(all)) = Spread(seqs, n)
  /\ Apart(seqs) => Distinct(all)

LEMMA MembersConcat ==
  ASSUME NEW X, NEW s \in Seq(X), NEW t \in Seq(X)
  PROVE  Members(s \o t, Len(s \o t)) = Members(s, Len(s)) \cup Members(t, Len(t))
<1>1. PICK m \in Nat, n \in Nat : m = Len(s) /\ n = Len(t)
  BY LenProperties
<1>2. Len(s \o t) = m + n /\ \A i \in 1..(m + n) : (s \o t)[i] = IF i <= m THEN s[i] ELSE t[i - m]
  BY <1>1, ConcatProperties
<1> DEFINE u == s \o t
<1> HIDE DEF u
<1>3. ASSUME NEW i \in 1..(m + n)
      PROVE  u[i] \in Members(s, m) \cup Members(t, n)
  <2>1. CASE i <= m
    BY <1>2, <2>1 DEF Members, u
  <2>2. CASE ~(i <= m)
    <3>1. i - m \in 1..n
      BY <2>2
    <3> QED
      BY <1>2, <2>2, <3>1 DEF Members, u
  <2> QED
    BY <2>1, <2>2
<1>4. ASSUME NEW i \in 1..m
      PROVE  s[i] \in Members(u, m + n)
  <2>1. i \in 1..(m + n) /\ i <= m
    OBVIOUS
  <2>2. u[i] = s[i]
    BY <1>2, <2>1 DEF u
  <2> QED
    BY <2>1, <2>2 DEF Members
<1>5. ASSUME NEW i \in 1..n
      PROVE  t[i] \in Members(u, m + n)
  <2>1. PICK k \in 1..(m + n) : k = m + i
    OBVIOUS
  <2>2. ~(k <= m) /\ k - m = i
    BY <2>1
  <2>3. u[k] = t[i]
    BY <1>2, <2>2 DEF u
  <2> QED
    BY <2>3 DEF Members
<1>6. Members(u, m + n) = Members(s, m) \cup Members(t, n)
  BY <1>3, <1>4, <1>5 DEF Members
<1> QED
  BY <1>1, <1>2, <1>6 DEF u

LEMMA DistinctConcat ==
  ASSUME NEW X, NEW s \in Seq(X), NEW t \in Seq(X), Distinct(s), Distinct(t),
         Members(s, Len(s)) \cap Members(t, Len(t)) = {}
  PROVE  Distinct(s \o t)
<1>1. PICK m \in Nat, n \in Nat : m = Len(s) /\ n = Len(t)
  BY LenProperties
<1>2. Len(s \o t) = m + n /\ \A i \in 1..(m + n) : (s \o t)[i] = IF i <= m THEN s[i] ELSE t[i - m]
  BY <1>1, ConcatProperties
<1> DEFINE u == s \o t
<1> HIDE DEF u
<1>3. ASSUME NEW i \in 1..(m + n), i <= m
      PROVE  i \in 1..m /\ u[i] = s[i] /\ u[i] \in Members(s, m)
  BY <1>2, <1>3 DEF u, Members
<1>4. ASSUME NEW i \in 1..(m + n), ~(i <= m)
      PROVE  i - m \in 1..n /\ u[i] = t[i - m] /\ u[i] \in Members(t, n)
  <2>1. i - m \in 1..n
    BY <1>4
  <2> QED
    BY <1>2, <1>4, <2>1 DEF u, Members
<1>5. ASSUME NEW i \in 1..(m + n), NEW j \in 1..(m + n), u[i] = u[j]
      PROVE  i = j
  <2>1. CASE i <= m /\ j <= m
    BY <1>1, <1>3, <1>5, <2>1 DEF Distinct
  <2>2. CASE ~(i <= m) /\ ~(j <= m)
    <3>1. t[i - m] = t[j - m] /\ i - m \in 1..n /\ j - m \in 1..n
      BY <1>4, <1>5, <2>2
    <3>2. i - m = j - m
      BY <1>1, <3>1 DEF Distinct
    <3> QED
      BY <3>2
  <2>3. CASE i <= m /\ ~(j <= m)
    BY <1>1, <1>3, <1>4, <1>5, <2>3
  <2>4. CASE ~(i <= m) /\ j <= m
    BY <1>1, <1>3, <1>4, <1>5, <2>4
  <2> QED
    BY <2>1, <2>2, <2>3, <2>4
<1> QED
  BY <1>2, <1>5 DEF Distinct, u

ConcatSteps(X, seqs) == [m \in 1..Len(seqs) |-> [all \in Seq(X) |-> all \o seqs[m]]]

LEMMA ConcatChain ==
  ASSUME NEW X, NEW seqs \in Seq(Seq(X))
  PROVE  Chained(Concat(seqs), Len(seqs), Seq(X), <<>>, ConcatSteps(X, seqs))
<1>0. PICK n \in Nat : n = Len(seqs)
  BY LenProperties
<1> DEFINE G == Seq(X)
           step == ConcatSteps(X, seqs)
           h == CHOOSE f : f = [t \in SUBSET (DOMAIN seqs) |->
                                  IF t = {} THEN <<>> ELSE f[t \ {Max(t)}] \o seqs[Max(t)]]
<1>1. DOMAIN seqs = 1..n /\ (\A i \in 1..n : seqs[i] \in G) /\ <<>> \in G
  BY <1>0, LenProperties, EmptySeq
<1>2. \A m \in 1..n : \A all \in G : all \o seqs[m] \in G
  BY <1>1, ConcatProperties
<1>3. step \in [1..n -> [G -> G]] /\ \A m \in 1..n : \A all \in G : step[m][all] = all \o seqs[m]
  BY <1>0, <1>2 DEF ConcatSteps
<1>4. Concat(seqs) = h[DOMAIN seqs]
  BY Zenon DEF Concat, FoldLeft, MapThenFoldSet
<1> HIDE DEF step, G
<1>5. Folds(n, G, <<>>, step)
  BY <1>1, <1>3, FoldExists
<1>6. PICK f \in [SUBSET (1..n) -> G] : IsFold(f, n, <<>>, step)
  BY <1>5 DEF Folds
<1>7. \A t \in SUBSET (1..n) : t # {} => Max(t) \in 1..n /\ t \ {Max(t)} \in SUBSET (1..n)
  BY MaxOf
<1>8. f = [t \in SUBSET (1..n) |-> IF t = {} THEN <<>> ELSE f[t \ {Max(t)}] \o seqs[Max(t)]]
  <2>1. ASSUME NEW t \in SUBSET (1..n)
        PROVE  f[t] = IF t = {} THEN <<>> ELSE f[t \ {Max(t)}] \o seqs[Max(t)]
    BY <1>3, <1>6, <1>7 DEF IsFold
  <2> QED
    BY <1>6, <2>1
<1>9. h = [t \in SUBSET (1..n) |-> IF t = {} THEN <<>> ELSE h[t \ {Max(t)}] \o seqs[Max(t)]]
  BY <1>1, <1>8
<1> HIDE DEF h
<1>a. h[{}] = <<>>
  BY <1>9
<1>b. \A t \in SUBSET (1..n) : t # {} /\ h[t \ {Max(t)}] \in G => h[t] = step[Max(t)][h[t \ {Max(t)}]]
  BY <1>3, <1>7, <1>9
<1>c. Chained(h[1..n], n, G, <<>>, step)
  BY <1>1, <1>3, <1>a, <1>b, FoldChain, Zenon
<1> QED
  BY <1>0, <1>1, <1>4, <1>c DEF step, G

LEMMA ConcatIs ==
  ASSUME NEW X, NEW seqs \in Seq(Seq(X))
  PROVE  ConcatOf(Concat(seqs), X, seqs, Len(seqs))
<1>0. PICK n \in Nat : n = Len(seqs) /\ \A m \in 1..n : seqs[m] \in Seq(X)
  BY LenProperties
<1> DEFINE G == Seq(X)
           step == ConcatSteps(X, seqs)
           R == [m \in 0..n |-> {all \in G : ConcatOf(all, X, seqs, m)}]
<1>1. Chained(Concat(seqs), n, G, <<>>, step)
  BY <1>0, ConcatChain
<1>2. <<>> \in R[0]
  <2>1. <<>> \in G /\ Len(<<>>) = 0 /\ 1..0 = {}
    BY EmptySeq
  <2> DEFINE all == <<>>
  <2> HIDE DEF all
  <2>2. Members(all, Len(all)) = {} /\ Spread(seqs, 0) = {} /\ Distinct(all)
    BY <2>1 DEF Members, Spread, Distinct, all
  <2>3. ConcatOf(all, X, seqs, 0)
    BY <2>1, <2>2 DEF ConcatOf, all
  <2> QED
    BY <2>1, <2>3 DEF all
<1>3. ASSUME NEW m \in 1..n, NEW all \in G, ConcatOf(all, X, seqs, m - 1)
      PROVE  ConcatOf(all \o seqs[m], X, seqs, m)
  <2> DEFINE own == seqs[m]
  <2>1. own \in Seq(X) /\ all \o own \in Seq(X)
    BY <1>0, ConcatProperties
  <2>2. Spread(seqs, m) = Spread(seqs, m - 1) \cup Members(own, Len(own))
    <3>1. 1..m = 1..(m - 1) \cup {m}
      OBVIOUS
    <3> QED
      BY <3>1 DEF Spread
  <2>3. Members(all \o own, Len(all \o own)) = Spread(seqs, m)
    <3> HIDE DEF own
    <3>1. Members(all, Len(all)) = Spread(seqs, m - 1)
      BY <1>3 DEF ConcatOf
    <3>2. Members(all \o own, Len(all \o own)) = Members(all, Len(all)) \cup Members(own, Len(own))
      BY <2>1, MembersConcat
    <3> QED
      BY <2>2, <3>1, <3>2
  <2>4. ASSUME Apart(seqs)
        PROVE  Distinct(all \o own)
    <3>1. Distinct(own)
      BY <1>0, <2>4 DEF Apart, Distinct
    <3>2. ASSUME NEW x \in Spread(seqs, m - 1) \cap Members(own, Len(own))
          PROVE  FALSE
      <4>1. PICK j \in 1..(m - 1) : x \in Members(seqs[j], Len(seqs[j]))
        BY DEF Spread
      <4>2. PICK k \in 1..Len(seqs[j]) : x = seqs[j][k]
        BY <4>1 DEF Members
      <4>3. PICK l \in 1..Len(seqs[m]) : x = seqs[m][l]
        BY DEF Members
      <4>4. j \in 1..Len(seqs) /\ m \in 1..Len(seqs) /\ j # m
        BY <1>0
      <4> QED
        BY <2>4, <4>2, <4>3, <4>4 DEF Apart
    <3>3. Members(all, Len(all)) \cap Members(own, Len(own)) = {}
      BY <1>3, <3>2 DEF ConcatOf
    <3> QED
      BY <1>3, <2>1, <2>4, <3>1, <3>3, DistinctConcat DEF ConcatOf
  <2> QED
    BY <2>1, <2>3, <2>4 DEF ConcatOf
<1>4. Hands(R, n, G, step)
  <2> SUFFICES ASSUME NEW m \in 1..n, NEW all \in G, all \in R[m - 1]
               PROVE  step[m][all] \in R[m]
    BY DEF Hands
  <2>1. m - 1 \in 0..n /\ m \in 0..n /\ step[m][all] = all \o seqs[m]
    BY <1>0 DEF ConcatSteps
  <2> HIDE DEF step
  <2>2. ConcatOf(all, X, seqs, m - 1)
    BY <2>1
  <2>3. ConcatOf(all \o seqs[m], X, seqs, m) /\ all \o seqs[m] \in G
    BY <1>3, <2>2 DEF ConcatOf
  <2> QED
    BY <2>1, <2>3
<1> HIDE DEF R, G, step
<1>5. Concat(seqs) \in R[n]
  BY <1>1, <1>2, <1>4, ChainHands, Zenon
<1> QED
  BY <1>0, <1>5 DEF R

(* A sequence with one more element.                                       *)
Extended(t, X, seq, x) ==
  /\ t \in Seq(X) /\ Len(seq) \in Nat /\ Len(t) = Len(seq) + 1
  /\ \A i \in 1..Len(seq) : t[i] = seq[i]
  /\ t[Len(seq) + 1] = x
  /\ Members(t, Len(t)) = Members(seq, Len(seq)) \cup {x}
  /\ Distinct(seq) /\ x \notin Members(seq, Len(seq)) => Distinct(t)

LEMMA AppendExtends ==
  ASSUME NEW X, NEW seq \in Seq(X), NEW x \in X
  PROVE  Extended(Append(seq, x), X, seq, x)
<1>1. /\ Append(seq, x) \in Seq(X) /\ Len(seq) \in Nat /\ Len(Append(seq, x)) = Len(seq) + 1
      /\ \A i \in 1..Len(seq) : Append(seq, x)[i] = seq[i]
      /\ Append(seq, x)[Len(seq) + 1] = x
  BY AppendProperties, LenProperties
<1>2. Members(Append(seq, x), Len(seq) + 1) = Members(seq, Len(seq)) \cup {x}
  BY MembersAppend
<1>3. Distinct(seq) /\ x \notin Members(seq, Len(seq)) => Distinct(Append(seq, x))
  BY DistinctAppend
<1> DEFINE t == Append(seq, x)
<1> HIDE DEF t
<1>4. Members(t, Len(t)) = Members(seq, Len(seq)) \cup {x}
  BY <1>1, <1>2 DEF t
<1> QED
  BY <1>1, <1>3, <1>4 DEF Extended, t
-----------------------------------------------------------------------------
(* ---- remainders ------------------------------------------------------- *)

LEMMA DivMod ==
  ASSUME NEW x \in Nat, NEW w \in Nat \ {0}
  PROVE  \E q \in Nat : x = w * q + (x % w) /\ (x % w) \in 0..(w - 1)
<1>1. (x \div w) \in Nat /\ x = w * (x \div w) + (x % w) /\ (x % w) \in 0..(w - 1)
  OBVIOUS
<1> QED
  BY <1>1

LEMMA ModOf ==
  ASSUME NEW w \in Nat \ {0}, NEW q \in Nat, NEW r \in 0..(w - 1)
  PROVE  (w * q + r) % w = r
OBVIOUS

(* Multiples of w are dropped.                                             *)
LEMMA ModDrops ==
  ASSUME NEW w \in Nat \ {0}, NEW q \in Nat, NEW r \in Nat
  PROVE  (w * q + r) % w = r % w
<1>1. PICK k \in Nat : r = w * k + (r % w) /\ (r % w) \in 0..(w - 1)
  BY DivMod
<1>2. PICK s \in 0..(w - 1) : s = r % w
  BY <1>1
<1>3. w * q + r = w * q + (w * k + s)
  BY <1>1, <1>2
<1>4. w * q + (w * k + s) = w * (q + k) + s
  OBVIOUS
<1>5. q + k \in Nat
  OBVIOUS
<1>6. (w * (q + k) + s) % w = s
  BY <1>5, ModOf
<1> QED
  BY <1>2, <1>3, <1>4, <1>6

Congruent(x, y, w) == x % w = y % w

LEMMA ModAdds ==
  ASSUME NEW w \in Nat \ {0}, NEW x \in Nat, NEW y \in Nat, NEW a \in Nat, NEW b \in Nat,
         Congruent(x, y, w), Congruent(a, b, w)
  PROVE  Congruent(x + a, y + b, w)
<1>0. x % w = y % w /\ a % w = b % w
  BY DEF Congruent
<1>1. PICK q1 \in Nat : x = w * q1 + (x % w) /\ (x % w) \in 0..(w - 1)
  BY DivMod
<1>2. PICK q2 \in Nat : y = w * q2 + (y % w)
  BY DivMod
<1>3. PICK q3 \in Nat : a = w * q3 + (a % w) /\ (a % w) \in 0..(w - 1)
  BY DivMod
<1>4. PICK q4 \in Nat : b = w * q4 + (b % w)
  BY DivMod
<1>5. PICK r \in Nat, s \in Nat : r = x % w /\ s = a % w
  BY <1>1, <1>3
<1>6. x = w * q1 + r /\ y = w * q2 + r /\ a = w * q3 + s /\ b = w * q4 + s
  BY <1>0, <1>1, <1>2, <1>3, <1>4, <1>5
<1>7. (w * q1 + r) + (w * q3 + s) = w * (q1 + q3) + (r + s) /\ (w * q2 + r) + (w * q4 + s) = w * (q2 + q4) + (r + s)
  OBVIOUS
<1>8. r + s \in Nat /\ q1 + q3 \in Nat /\ q2 + q4 \in Nat
  OBVIOUS
<1>9. (w * (q1 + q3) + (r + s)) % w = (r + s) % w /\ (w * (q2 + q4) + (r + s)) % w = (r + s) % w
  BY <1>8, ModDrops
<1> QED
  BY <1>6, <1>7, <1>9 DEF Congruent

LEMMA ModTimes ==
  ASSUME NEW w \in Nat \ {0}, NEW x \in Nat, NEW y \in Nat, NEW a \in Nat, NEW b \in Nat,
         Congruent(x, y, w), Congruent(a, b, w)
  PROVE  Congruent(x * a, y * b, w)
<1>0. x % w = y % w /\ a % w = b % w
  BY DEF Congruent
<1>1. PICK q1 \in Nat : x = w * q1 + (x % w) /\ (x % w) \in 0..(w - 1)
  BY DivMod
<1>2. PICK q2 \in Nat : y = w * q2 + (y % w)
  BY DivMod
<1>3. PICK q3 \in Nat : a = w * q3 + (a % w) /\ (a % w) \in 0..(w - 1)
  BY DivMod
<1>4. PICK q4 \in Nat : b = w * q4 + (b % w)
  BY DivMod
<1>5. PICK r \in Nat, s \in Nat : r = x % w /\ s = a % w
  BY <1>1, <1>3
<1>6. x = w * q1 + r /\ y = w * q2 + r /\ a = w * q3 + s /\ b = w * q4 + s
  BY <1>0, <1>1, <1>2, <1>3, <1>4, <1>5
<1> DEFINE u == q1 * (w * q3 + s) + r * q3
           v == q2 * (w * q4 + s) + r * q4
<1>7. (w * q1 + r) * (w * q3 + s) = w * u + r * s /\ (w * q2 + r) * (w * q4 + s) = w * v + r * s
  OBVIOUS
<1>8. r * s \in Nat /\ u \in Nat /\ v \in Nat
  OBVIOUS
<1> HIDE DEF u, v
<1>9. (w * u + r * s) % w = (r * s) % w /\ (w * v + r * s) % w = (r * s) % w
  BY <1>8, ModDrops
<1> QED
  BY <1>6, <1>7, <1>9 DEF Congruent

LEMMA ModTwice ==
  ASSUME NEW w \in Nat \ {0}, NEW x \in Nat
  PROVE  (x % w) \in Nat /\ (x % w) % w = x % w /\ (x % w) < w /\ (x < w => x % w = x)
OBVIOUS

-----------------------------------------------------------------------------
(* ---- sequences of blocks ---------------------------------------------- *)

(* Blocks of w elements each, one after the other.                         *)
Blocks(all, X, seqs, w, m) ==
  /\ all \in Seq(X) /\ Len(all) = w * m
  /\ \A j \in 1..m : \A k \in 1..w : all[w * (j - 1) + k] = seqs[j][k]

LEMMA BlockJoins ==
  ASSUME NEW X, NEW seqs, NEW w \in {1, 3, 6}, NEW m \in Nat, m # 0, NEW all,
         Blocks(all, X, seqs, w, m - 1), seqs[m] \in Seq(X), Len(seqs[m]) = w
  PROVE  Blocks(all \o seqs[m], X, seqs, w, m)
<1> DEFINE own == seqs[m]
           both == all \o own
<1>1. all \in Seq(X) /\ own \in Seq(X) /\ Len(all) = w * (m - 1) /\ Len(own) = w
  BY DEF Blocks
<1> HIDE DEF own
<1>2. /\ both \in Seq(X) /\ Len(both) = Len(all) + Len(own)
      /\ \A i \in 1..(Len(all) + Len(own)) : both[i] = IF i <= Len(all) THEN all[i] ELSE own[i - Len(all)]
  BY <1>1, ConcatProperties
<1> HIDE DEF both
<1>3. Len(both) = w * m
  <2>1. w * (m - 1) + w = w * m
    OBVIOUS
  <2> QED
    BY <1>1, <1>2, <2>1
<1>4. \A i \in 1..(w * m) : both[i] = IF i <= w * (m - 1) THEN all[i] ELSE own[i - w * (m - 1)]
  BY <1>1, <1>2, <1>3
<1>5. ASSUME NEW j \in 1..m, NEW k \in 1..w
      PROVE  both[w * (j - 1) + k] = seqs[j][k]
  <2>1. CASE j = m
    <3>1. w * (m - 1) + k \in 1..(w * m) /\ ~(w * (m - 1) + k <= w * (m - 1))
          /\ (w * (m - 1) + k) - w * (m - 1) = k
      OBVIOUS
    <3>2. both[w * (m - 1) + k] = own[(w * (m - 1) + k) - w * (m - 1)]
      BY <1>4, <3>1
    <3> QED
      BY <2>1, <3>1, <3>2 DEF own
  <2>2. CASE j # m
    <3>1. j \in 1..(m - 1) /\ w * (j - 1) + k \in 1..(w * m) /\ w * (j - 1) + k <= w * (m - 1)
      BY <2>2
    <3>2. both[w * (j - 1) + k] = all[w * (j - 1) + k]
      BY <1>4, <3>1
    <3> QED
      BY <3>1, <3>2 DEF Blocks
  <2> QED
    BY <2>1, <2>2
<1> QED
  BY <1>2, <1>3, <1>5 DEF Blocks, own, both

LEMMA BlocksAre ==
  ASSUME NEW X, NEW n \in Nat, NEW seqs, DOMAIN seqs = 1..n, seqs = [m \in 1..n |-> seqs[m]], NEW w \in {1, 3, 6},
         \A m \in 1..n : seqs[m] \in Seq(X) /\ Len(seqs[m]) = w
  PROVE  Blocks(Concat(seqs), X, seqs, w, n)
<1> DEFINE G == Seq(X)
           step == ConcatSteps(X, seqs)
           R == [m \in 0..n |-> {all \in G : Blocks(all, X, seqs, w, m)}]
<1>1. seqs \in Seq(Seq(X)) /\ Len(seqs) = n
  <2>1. seqs \in [1..n -> Seq(X)]
    OBVIOUS
  <2> QED
    BY <2>1, FunctionIsSeq
<1>2. Chained(Concat(seqs), n, G, <<>>, step)
  BY <1>1, ConcatChain
<1>3. <<>> \in R[0]
  <2>1. <<>> \in G /\ Len(<<>>) = 0 /\ 1..0 = {} /\ w * 0 = 0
    BY EmptySeq
  <2>2. Blocks(<<>>, X, seqs, w, 0)
    BY <2>1 DEF Blocks
  <2> QED
    BY <2>1, <2>2
<1>4. Hands(R, n, G, step)
  <2> SUFFICES ASSUME NEW m \in 1..n, NEW all \in G, all \in R[m - 1]
               PROVE  step[m][all] \in R[m]
    BY DEF Hands
  <2>1. m - 1 \in 0..n /\ m \in 0..n /\ m \in Nat /\ m # 0 /\ step[m][all] = all \o seqs[m]
    BY <1>1 DEF ConcatSteps
  <2> HIDE DEF step
  <2>2. Blocks(all, X, seqs, w, m - 1)
    BY <2>1
  <2>3. Blocks(all \o seqs[m], X, seqs, w, m)
    BY <2>1, <2>2, BlockJoins
  <2>4. all \o seqs[m] \in G
    BY <2>3 DEF Blocks
  <2> QED
    BY <2>1, <2>3, <2>4
<1> HIDE DEF R, G, step
<1>5. Concat(seqs) \in R[n]
  BY <1>2, <1>3, <1>4, ChainHands, Zenon
<1> QED
  BY <1>5 DEF R

(* Sequences of one element each.                                          *)
Singles(x, n) == [i \in 1..n |-> <<x[i]>>]

LEMMA SinglesAre ==
  ASSUME NEW X, NEW n \in Nat, NEW x \in [1..n -> X]
  PROVE  Concat(Singles(x, n)) = x
<1> DEFINE seqs == Singles(x, n)
           all == Concat(seqs)
<1>1. DOMAIN seqs = 1..n /\ seqs = [m \in 1..n |-> seqs[m]] /\ \A m \in 1..n : seqs[m] \in Seq(X) /\ Len(seqs[m]) = 1
  BY DEF Singles
<1>2. \A m \in 1..n : seqs[m][1] = x[m]
  BY DEF Singles
<1> HIDE DEF seqs
<1>3. Blocks(all, X, seqs, 1, n)
  BY <1>1, BlocksAre
<1> HIDE DEF all
<1>4. all \in Seq(X) /\ Len(all) = n /\ \A j \in 1..n : all[j] = x[j]
  <2>1. all \in Seq(X) /\ Len(all) = 1 * n /\ \A j \in 1..n : \A k \in 1..1 : all[1 * (j - 1) + k] = seqs[j][k]
    BY <1>3 DEF Blocks
  <2>2. 1 * n = n /\ 1 \in 1..1 /\ \A j \in 1..n : 1 * (j - 1) + 1 = j
    OBVIOUS
  <2>3. ASSUME NEW j \in 1..n
        PROVE  all[j] = x[j]
    <3>1. all[1 * (j - 1) + 1] = seqs[j][1]
      BY <2>1, <2>2
    <3> QED
      BY <1>2, <2>2, <3>1
  <2> QED
    BY <2>1, <2>2, <2>3
<1>5. all = [i \in 1..n |-> all[i]]
  BY <1>4, LenProperties
<1> QED
  BY <1>4, <1>5 DEF all, seqs

(* One sequence alone.                                                     *)
LEMMA OneAlone ==
  ASSUME NEW X, NEW s \in Seq(X)
  PROVE  Concat(<<s>>) = s
<1> DEFINE G == Seq(X)
           seqs == <<s>>
           step == ConcatSteps(X, seqs)
<1>1. seqs \in Seq(Seq(X)) /\ Len(seqs) = 1 /\ seqs[1] = s
  OBVIOUS
<1> HIDE DEF seqs
<1>2. Chained(Concat(seqs), 1, G, <<>>, step)
  BY <1>1, ConcatChain
<1>3. PICK g : IsChain(g, 1, G, <<>>, step) /\ g[1] = Concat(seqs)
  BY <1>2 DEF Chained
<1>4. g[0] = <<>> /\ g[1] = step[1][g[0]]
  <2>1. 1 \in 1..1 /\ 1 - 1 = 0
    OBVIOUS
  <2> QED
    BY <1>3, <2>1 DEF IsChain
<1>5. <<>> \in G /\ <<>> \o s = s
  BY EmptySeq, ConcatEmptySeq
<1>6. step[1][<<>>] = <<>> \o s
  <2>1. 1 \in 1..1
    OBVIOUS
  <2> QED
    BY <1>1, <1>5, <2>1 DEF ConcatSteps
<1> QED
  BY <1>3, <1>4, <1>5, <1>6 DEF seqs
=============================================================================
