---------------------------- MODULE SequenceLemmas ----------------------------
(***************************************************************************)
(* Facts about numbers and sequences that the proofs about devices and      *)
(* about touch reports need.                                                *)
(***************************************************************************)
EXTENDS Integers, SequencesExt, FiniteSetTheorems, WellFoundedInduction, TLAPS

(* A set of natural numbers has a least element. *)
LEMMA Least ==
  ASSUME NEW T \in SUBSET Nat, T # {}
  PROVE  \E x \in T : \A y \in T : x <= y
<1> DEFINE R == {ss \in Nat \X Nat : ss[1] < ss[2]}
<1>1. IsWellFoundedOn(R, Nat)
  BY NatLessThanWellFounded DEF OpToRel
<1> HIDE DEF R
<1>2. PICK x \in T : \A y \in T : <<y, x>> \notin R
  BY <1>1, WFMin
<1>3. \A y \in T : ~(y < x)
  BY <1>2 DEF R
<1> QED
  BY <1>3

(* A set of natural numbers with a bound has a greatest element. *)
LEMMA Greatest ==
  ASSUME NEW T \in SUBSET Nat, T # {}, NEW n \in Nat, \A x \in T : x <= n
  PROVE  Max(T) \in T /\ \A y \in T : Max(T) >= y
<1> DEFINE U == {n - x : x \in T}
<1>0. \A x \in T : x \in Nat /\ n - x \in Nat
  OBVIOUS
<1>1. U \in SUBSET Nat /\ U # {}
  BY <1>0
<1>2. PICK u \in U : \A y \in U : u <= y
  BY <1>1, Least
<1>3. PICK x \in T : u = n - x
  OBVIOUS
<1>4. \A y \in T : n - x <= n - y
  BY <1>2, <1>3
<1>5. \A y \in T : x >= y
  BY <1>0, <1>4
<1> QED
  BY <1>5 DEF Max

LEMMA CardInterval ==
  ASSUME NEW n \in Nat
  PROVE  IsFiniteSet(1..n) /\ Cardinality(1..n) = n
BY FS_Interval

LEMMA Smallest ==
  ASSUME NEW T \in SUBSET Nat, T # {}
  PROVE  Min(T) \in T /\ \A y \in T : Min(T) <= y
BY Least DEF Min

LEMMA LastOfInterval ==
  ASSUME NEW k \in Nat \ {0}
  PROVE  1..k = (1..(k - 1)) \cup {k}
OBVIOUS

(* Of some places, the last of those with the greatest value. *)
LEMMA LastGreatest ==
  ASSUME NEW n \in Nat, NEW y, NEW V \in SUBSET (1..n), V # {}, \A i \in V : y[i] \in Nat
  PROVE  \E i \in V : \A j \in V : y[j] < y[i] \/ (y[j] = y[i] /\ j <= i)
<1> DEFINE Best(i, U) == \A j \in U : y[j] < y[i] \/ (y[j] = y[i] /\ j <= i)
           U(k) == V \cap (1..k)
           T == {k \in 0..n : U(k) # {} /\ ~\E i \in U(k) : Best(i, U(k))}
<1>1. T = {}
  <2> SUFFICES ASSUME T # {} PROVE FALSE
    OBVIOUS
  <2>1. PICK k \in T : \A j \in T : k <= j
    <3>1. T \in SUBSET Nat
      OBVIOUS
    <3> HIDE DEF T
    <3> QED
      BY <3>1, Least
  <2>2. k \in 0..n /\ U(k) # {} /\ ~\E i \in U(k) : Best(i, U(k))
    OBVIOUS
  <2>3. k - 1 \in 0..n /\ U(k) = U(k - 1) \cup (V \cap {k})
    <3>1. k # 0
      BY <2>2
    <3>2. k \in Nat \ {0}
      BY <2>2, <3>1
    <3>4. 1..k = (1..(k - 1)) \cup {k}
      BY <3>2, LastOfInterval
    <3>3. k - 1 \in 0..n
      BY <2>2, <3>1
    <3> QED
      BY <3>3, <3>4
  <2>4. U(k - 1) = {} \/ \E i \in U(k - 1) : Best(i, U(k - 1))
    <3>1. ~(k <= k - 1)
      BY <2>2
    <3>2. k - 1 \notin T
      BY <2>1, <3>1
    <3> QED
      BY <2>3, <3>2
  <2>5. CASE k \notin V
    <3>1. U(k) = U(k - 1)
      BY <2>3, <2>5
    <3> HIDE DEF U, Best
    <3> QED
      BY <2>2, <2>4, <3>1
  <2>6. CASE k \in V /\ U(k - 1) = {}
    <3>1. U(k) = {k}
      BY <2>3, <2>6
    <3>2. Best(k, {k})
      BY <2>2
    <3> HIDE DEF U, Best
    <3> QED
      BY <2>2, <3>1, <3>2
  <2>7. CASE k \in V /\ U(k - 1) # {}
    <3>1. PICK i \in U(k - 1) : Best(i, U(k - 1))
      BY <2>4, <2>7
    <3>2. /\ U(k) = U(k - 1) \cup {k} /\ y[k] \in Nat /\ y[i] \in Nat
          /\ \A j \in U(k - 1) : j \in Nat /\ j <= k /\ y[j] \in Nat
      BY <2>2, <2>3, <2>7
    <3>3. CASE y[k] >= y[i]
      <4>1. Best(k, U(k))
        BY <2>2, <3>1, <3>2, <3>3
      <4> QED
        BY <2>2, <3>2, <4>1
    <3>4. CASE y[k] < y[i]
      <4>1. Best(i, U(k))
        BY <3>1, <3>2, <3>4
      <4> QED
        BY <2>2, <3>2, <4>1
    <3> QED
      BY <3>2, <3>3, <3>4
  <2> QED
    BY <2>5, <2>6, <2>7
<1>2. U(n) = V
  OBVIOUS
<1>5. n \in 0..n
  OBVIOUS
<1>3. n \notin T
  BY <1>1
<1>4. \E i \in V : Best(i, V)
  <2> HIDE DEF Best
  <2> QED
    BY <1>2, <1>5, <1>3
<1> QED
  BY <1>4

(* What is above all of a set does not change its minimum. *)
LEMMA MinOfLower ==
  ASSUME NEW T \in SUBSET Nat, NEW U \in SUBSET Nat, T # {}, T \subseteq U,
         \A y \in T, z \in U \ T : y < z
  PROVE  Min(T) = Min(U) /\ Min(T) \in T
<1> DEFINE a == Min(T)
           b == Min(U)
<1>1. /\ a \in T /\ \A y \in T : a <= y
      /\ b \in U /\ \A y \in U : b <= y
  BY Smallest
<1> HIDE DEF a, b
<1>2. a \in U /\ a \in Nat /\ b \in Nat /\ b <= a
  BY <1>1
<1>3. b \in T
  BY <1>1, <1>2
<1>4. a <= b
  BY <1>1, <1>3
<1> QED
  BY <1>1, <1>2, <1>4 DEF a, b

-----------------------------------------------------------------------------
(* A loop over 1..n that keeps v of the first element of M, in the form of FoldLeft. *)
KeepsFirst(iter, n, M, v, none) ==
  iter = [s \in SUBSET (1..n) |->
            IF s = {} THEN none
            ELSE IF iter[s \ {Max(s)}] = none /\ Max(s) \in M THEN v[Max(s)]
            ELSE iter[s \ {Max(s)}]]

LEMMA KeepsFirstExists ==
  ASSUME NEW n \in Nat, NEW M \in SUBSET (1..n), NEW v, NEW none, \A i \in M : v[i] # none
  PROVE  \E iter : KeepsFirst(iter, n, M, v, none)
<1> DEFINE g == [s \in SUBSET (1..n) |-> IF s \cap M = {} THEN none ELSE v[Min(s \cap M)]]
<1>1. ASSUME NEW s \in SUBSET (1..n), s # {}
      PROVE  g[s] = IF g[s \ {Max(s)}] = none /\ Max(s) \in M THEN v[Max(s)]
                    ELSE g[s \ {Max(s)}]
  <2> DEFINE x == Max(s)
             t == s \ {x}
  <2>1. x \in s /\ \A y \in s : y \in Nat /\ x >= y
    BY <1>1, Greatest
  <2>2. t \in SUBSET (1..n)
    OBVIOUS
  <2> HIDE DEF x
  <2>3. CASE t \cap M = {}
    <3>1. g[t] = none
      BY <2>2, <2>3
    <3>2. CASE x \in M
      <4>1. s \cap M = {x} /\ x \in Nat
        BY <2>1, <2>3, <3>2
      <4>2. Min({x}) = x
        BY <4>1, Smallest
      <4> QED
        BY <3>1, <3>2, <4>1, <4>2 DEF x
    <3>3. CASE x \notin M
      <4>1. s \cap M = {}
        BY <2>1, <2>3, <3>3
      <4> QED
        BY <3>1, <3>3, <4>1 DEF x
    <3> QED
      BY <3>2, <3>3
  <2>4. CASE t \cap M # {}
    <3>1. s \cap M \in SUBSET Nat /\ t \cap M \in SUBSET Nat /\ s \cap M # {}
      BY <2>1, <2>4
    <3>2. /\ t \cap M \subseteq s \cap M /\ Min(t \cap M) \in t \cap M
          /\ \A y \in t \cap M, z \in (s \cap M) \ (t \cap M) : y < z
      BY <2>1, <2>4, <3>1, Smallest
    <3>3. Min(s \cap M) = Min(t \cap M)
      BY <2>4, <3>1, <3>2, MinOfLower
    <3>4. g[t] = v[Min(t \cap M)] /\ g[t] # none /\ g[s] = v[Min(s \cap M)]
      BY <2>2, <2>4, <3>1, <3>2
    <3> QED
      BY <3>3, <3>4 DEF x
  <2> QED
    BY <2>3, <2>4
<1>2. g[{}] = none
  OBVIOUS
<1>3. KeepsFirst(g, n, M, v, none)
  <2> HIDE DEF g
  <2>1. g = [s \in SUBSET (1..n) |-> g[s]]
    BY DEF g
  <2> QED
    BY <1>1, <1>2, <2>1 DEF KeepsFirst
<1> QED
  BY <1>3

(* At the end of the loop it has that of the first element of M, or nothing if there is none. *)
LEMMA KeepsFirstResult ==
  ASSUME NEW n \in Nat, NEW M \in SUBSET (1..n), NEW v, NEW none, \A i \in M : v[i] # none,
         NEW iter, KeepsFirst(iter, n, M, v, none)
  PROVE  iter[1..n] = IF M = {} THEN none ELSE v[Min(M)]
<1> DEFINE expected(k) == IF M \cap (1..k) = {} THEN none ELSE v[Min(M \cap (1..k))]
           T == {k \in 0..n : iter[1..k] # expected(k)}
<1>1. \A s \in SUBSET (1..n) :
        iter[s] = IF s = {} THEN none
                  ELSE IF iter[s \ {Max(s)}] = none /\ Max(s) \in M THEN v[Max(s)]
                  ELSE iter[s \ {Max(s)}]
  BY DEF KeepsFirst
<1>2. T = {}
  <2> SUFFICES ASSUME T # {} PROVE FALSE
    OBVIOUS
  <2>0. T \in SUBSET Nat
    OBVIOUS
  <2> HIDE DEF T
  <2>1. PICK k \in T : \A j \in T : k <= j
    BY <2>0, Least
  <2>2. k \in 0..n /\ iter[1..k] # expected(k)
    BY DEF T
  <2>3. k # 0
    <3>1. 1..0 = {}
      OBVIOUS
    <3> QED
      BY <1>1, <2>2, <3>1
  <2>4. k - 1 \in 0..n /\ k - 1 \notin T
    BY <2>1, <2>2, <2>3
  <2>5. iter[1..(k-1)] = expected(k-1)
    BY <2>4 DEF T
  <2>6. 1..k \in SUBSET (1..n) /\ 1..k # {} /\ Max(1..k) = k /\ (1..k) \ {k} = 1..(k-1)
    <3>1. 1..k \in SUBSET Nat /\ 1..k # {} /\ k \in Nat /\ \A x \in 1..k : x <= k
      BY <2>2, <2>3
    <3>2. Max(1..k) \in 1..k /\ \A y \in 1..k : Max(1..k) >= y
      BY <3>1, Greatest
    <3> QED
      BY <2>2, <2>3, <3>2
  <2>7. iter[1..k] = IF iter[1..(k-1)] = none /\ k \in M THEN v[k] ELSE iter[1..(k-1)]
    BY <1>1, <2>6
  <2>8. CASE M \cap (1..(k-1)) = {}
    <3>1. iter[1..(k-1)] = none
      BY <2>5, <2>8
    <3>2. CASE k \in M
      <4>1. M \cap (1..k) = {k} /\ k \in Nat
        BY <2>2, <2>3, <2>8, <3>2
      <4>2. Min({k}) = k
        BY <4>1, Smallest
      <4> QED
        BY <2>2, <2>7, <3>1, <3>2, <4>1, <4>2
    <3>3. CASE k \notin M
      <4>1. M \cap (1..k) = {}
        BY <2>2, <2>3, <2>8, <3>3
      <4> QED
        BY <2>2, <2>7, <3>1, <3>3, <4>1
    <3> QED
      BY <3>2, <3>3
  <2>9. CASE M \cap (1..(k-1)) # {}
    <3> DEFINE A == M \cap (1..(k-1))
               B == M \cap (1..k)
    <3>1. A \in SUBSET Nat /\ B \in SUBSET Nat /\ A # {} /\ B # {} /\ A \subseteq B
          /\ \A y \in B : y \in A \/ y = k
      BY <2>2, <2>9
    <3>2. \A y \in A, z \in B \ A : y < z
      BY <2>2
    <3> HIDE DEF A, B
    <3>3. Min(A) = Min(B)
      BY <3>1, <3>2, MinOfLower
    <3>4. Min(A) \in M
      <4>1. Min(A) \in A
        BY <3>1, Smallest
      <4> QED
        BY <4>1 DEF A
    <3>5. iter[1..(k-1)] = v[Min(A)] /\ v[Min(A)] # none
      BY <2>5, <2>9, <3>4 DEF A
    <3>6. iter[1..k] = v[Min(A)]
      BY <2>7, <3>5
    <3>7. expected(k) = v[Min(B)]
      BY <3>1 DEF B
    <3> QED
      BY <2>2, <3>3, <3>6, <3>7
  <2> QED
    BY <2>8, <2>9
<1>3. iter[1..n] = expected(n)
  <2>1. n \notin T /\ n \in 0..n
    BY <1>2
  <2> HIDE DEF expected
  <2> QED
    BY <2>1
<1>4. M \cap (1..n) = M
  OBVIOUS
<1> QED
  BY <1>3, <1>4
-----------------------------------------------------------------------------
LEMMA Joined ==
  ASSUME NEW S, NEW a \in Seq(S), NEW b \in Seq(S)
  PROVE  /\ a \o b \in Seq(S) /\ Len(a \o b) = Len(a) + Len(b)
         /\ \A i \in 1..Len(a) : (a \o b)[i] = a[i]
         /\ \A i \in 1..Len(b) : (a \o b)[Len(a) + i] = b[i]
OBVIOUS

(* An element put before the k-th. *)
LEMMA Inserted ==
  ASSUME NEW S, NEW s \in Seq(S), NEW e \in S, NEW k \in 1..(Len(s) + 1)
  PROVE  /\ InsertAt(s, k, e) \in Seq(S)
         /\ Len(InsertAt(s, k, e)) = Len(s) + 1
         /\ \A i \in 1..(k - 1) : InsertAt(s, k, e)[i] = s[i]
         /\ InsertAt(s, k, e)[k] = e
         /\ \A i \in (k + 1)..(Len(s) + 1) : InsertAt(s, k, e)[i] = s[i - 1]
<1> DEFINE front == SubSeq(s, 1, k - 1)
           back == SubSeq(s, k, Len(s))
           one == <<e>>
           head == front \o one
           t == InsertAt(s, k, e)
<1>1. /\ front \in Seq(S) /\ Len(front) = k - 1
      /\ \A i \in 1..(k - 1) : front[i] = s[i]
  OBVIOUS
<1>2. /\ back \in Seq(S) /\ Len(back) = Len(s) - (k - 1)
      /\ \A i \in 1..(Len(s) - (k - 1)) : back[i] = s[k + i - 1]
  OBVIOUS
<1>3. one \in Seq(S) /\ Len(one) = 1 /\ one[1] = e
  OBVIOUS
<1>4. t = head \o back
  BY DEF InsertAt
<1> HIDE DEF front, back, one
<1>5. /\ head \in Seq(S) /\ Len(head) = k
      /\ \A i \in 1..(k - 1) : head[i] = s[i]
      /\ head[k] = e
  <2>0. front \in Seq(S) /\ one \in Seq(S)
    BY <1>1, <1>3
  <2>1. /\ head \in Seq(S) /\ Len(head) = Len(front) + Len(one)
        /\ \A i \in 1..Len(front) : head[i] = front[i]
        /\ \A i \in 1..Len(one) : head[Len(front) + i] = one[i]
    BY <2>0, Joined
  <2>2. head[Len(front) + 1] = one[1]
    BY <1>3, <2>1
  <2> QED
    BY <1>1, <1>3, <2>1, <2>2
<1> HIDE DEF head, t
<1>6. /\ t \in Seq(S) /\ Len(t) = Len(head) + Len(back)
      /\ \A i \in 1..Len(head) : t[i] = head[i]
      /\ \A i \in 1..Len(back) : t[Len(head) + i] = back[i]
  BY <1>2, <1>4, <1>5, Joined
<1>7. /\ \A i \in 1..(k - 1) : t[i] = s[i]
      /\ t[k] = e
  BY <1>5, <1>6
<1>8. ASSUME NEW i \in (k + 1)..(Len(s) + 1) PROVE t[i] = s[i - 1]
  <2>1. i - k \in 1..Len(back) /\ k + (i - k) = i /\ k + (i - k) - 1 = i - 1
    BY <1>2
  <2>2. t[k + (i - k)] = back[i - k] /\ back[i - k] = s[k + (i - k) - 1]
    BY <1>2, <1>5, <1>6, <2>1
  <2> QED
    BY <2>1, <2>2
<1>9. t \in Seq(S) /\ Len(t) = Len(s) + 1
  BY <1>2, <1>5, <1>6
<1> QED
  BY <1>7, <1>8, <1>9 DEF t

(* The k-th element taken out. *)
LEMMA Removed ==
  ASSUME NEW S, NEW s \in Seq(S), NEW k \in 1..Len(s)
  PROVE  /\ RemoveAt(s, k) \in Seq(S)
         /\ Len(RemoveAt(s, k)) = Len(s) - 1
         /\ \A i \in 1..(Len(s) - 1) : RemoveAt(s, k)[i] = IF i < k THEN s[i] ELSE s[i + 1]
<1> DEFINE front == SubSeq(s, 1, k - 1)
           back == SubSeq(s, k + 1, Len(s))
           t == RemoveAt(s, k)
<1>1. /\ front \in Seq(S) /\ Len(front) = k - 1
      /\ \A i \in 1..(k - 1) : front[i] = s[i]
  OBVIOUS
<1>2. /\ back \in Seq(S) /\ Len(back) = Len(s) - k
      /\ \A i \in 1..(Len(s) - k) : back[i] = s[k + i]
  OBVIOUS
<1>3. t = front \o back
  BY DEF RemoveAt
<1> HIDE DEF front, back, t
<1>4. /\ t \in Seq(S) /\ Len(t) = Len(front) + Len(back)
      /\ \A i \in 1..Len(front) : t[i] = front[i]
      /\ \A i \in 1..Len(back) : t[Len(front) + i] = back[i]
  <2>1. front \in Seq(S) /\ back \in Seq(S)
    BY <1>1, <1>2
  <2> QED
    BY <1>3, <2>1, Joined
<1>5. ASSUME NEW i \in 1..(Len(s) - 1)
      PROVE  t[i] = IF i < k THEN s[i] ELSE s[i + 1]
  <2>1. CASE i < k
    BY <1>1, <1>4, <2>1
  <2>2. CASE i >= k
    <3>1. i - (k - 1) \in 1..Len(back) /\ k - 1 + (i - (k - 1)) = i /\ k + (i - (k - 1)) = i + 1
      BY <1>2, <2>2
    <3>2. t[k - 1 + (i - (k - 1))] = back[i - (k - 1)] /\ back[i - (k - 1)] = s[k + (i - (k - 1))]
      BY <1>1, <1>2, <1>4, <3>1
    <3> QED
      BY <2>2, <3>1, <3>2
  <2> QED
    BY <2>1, <2>2
<1>6. t \in Seq(S) /\ Len(t) = Len(s) - 1
  BY <1>1, <1>2, <1>4
<1> QED
  BY <1>5, <1>6 DEF t

-----------------------------------------------------------------------------
(* The function by which FoldLeft is defined, for a loop over 1..n whose turn with x takes r to
   step[r, x]. *)
Loops(iter, n, base, step) ==
  iter = [s \in SUBSET (1..n) |->
            IF s = {} THEN base ELSE step[<<iter[s \ {Max(s)}], Max(s)>>]]

(* There is one: from that for n - 1 on. *)
LEMMA LoopExists ==
  ASSUME NEW n \in Nat, NEW R, NEW base \in R, NEW step \in [R \X (1..n) -> R]
  PROVE  \E iter \in [SUBSET (1..n) -> R] : Loops(iter, n, base, step)
<1> DEFINE Fits(k, g) ==
             /\ g \in [SUBSET (1..k) -> R]
             /\ \A s \in SUBSET (1..k) :
                  g[s] = IF s = {} THEN base ELSE step[<<g[s \ {Max(s)}], Max(s)>>]
           T == {k \in 0..n : ~\E g : Fits(k, g)}
<1>1. T = {}
  <2> SUFFICES ASSUME T # {} PROVE FALSE
    OBVIOUS
  <2>0. T \in SUBSET Nat
    OBVIOUS
  <2>1. PICK k \in T : \A j \in T : k <= j
    <3> HIDE DEF T
    <3> QED
      BY <2>0, Least
  <2>2. k \in 0..n /\ ~\E g : Fits(k, g)
    OBVIOUS
  <2>3. k # 0
    <3>1. SUBSET (1..0) = {{}}
      OBVIOUS
    <3>2. Fits(0, [s \in SUBSET (1..0) |-> base])
      BY <3>1
    <3> HIDE DEF Fits
    <3> QED
      BY <2>2, <3>2
  <2>4. PICK g : Fits(k - 1, g)
    <3>1. k - 1 \in 0..n /\ ~(k <= k - 1)
      BY <2>2, <2>3
    <3> HIDE DEF Fits
    <3> QED
      BY <2>1, <3>1
  <2> DEFINE h == [s \in SUBSET (1..k) |->
                     IF k \in s THEN step[<<g[s \ {k}], k>>] ELSE g[s]]
  <2>5. \A s \in SUBSET (1..k) : /\ s \ {k} \in SUBSET (1..(k - 1))
                                 /\ k \notin s => s \in SUBSET (1..(k - 1))
    BY <2>2
  <2>6. k \in 1..n
    BY <2>2, <2>3
  <2>7. h \in [SUBSET (1..k) -> R]
    <3>1. ASSUME NEW s \in SUBSET (1..k) PROVE h[s] \in R
      <4>1. g \in [SUBSET (1..(k - 1)) -> R]
        BY <2>4
      <4>2. g[s \ {k}] \in R /\ (k \notin s => g[s] \in R)
        BY <2>5, <4>1
      <4> QED
        BY <2>6, <4>2
    <3> HIDE DEF Fits
    <3> QED
      BY <3>1
  <2>8. ASSUME NEW s \in SUBSET (1..k), s # {}
        PROVE  h[s] = step[<<h[s \ {Max(s)}], Max(s)>>]
    <3> DEFINE x == Max(s)
    <3>1. x \in s /\ \A y \in s : x >= y
      <4>1. s \in SUBSET Nat /\ k \in Nat /\ \A y \in s : y <= k
        BY <2>2
      <4> QED
        BY <2>8, <4>1, Greatest
    <3> HIDE DEF x
    <3>2. CASE k \in s
      <4>1. x = k
        BY <2>2, <3>1, <3>2
      <4>2. h[s \ {k}] = g[s \ {k}]
        BY <2>5
      <4> QED
        BY <3>2, <4>1, <4>2 DEF x
    <3>3. CASE k \notin s
      <4>1. s \in SUBSET (1..(k - 1)) /\ s \ {x} \in SUBSET (1..(k - 1)) /\ k \notin s \ {x}
        BY <2>5, <3>3
      <4>2. h[s] = g[s] /\ h[s \ {x}] = g[s \ {x}]
        BY <3>3, <4>1
      <4>3. g[s] = step[<<g[s \ {x}], x>>]
        BY <2>4, <2>8, <4>1 DEF x
      <4> QED
        BY <4>2, <4>3 DEF x
    <3> QED
      BY <3>2, <3>3
  <2>9. h[{}] = base
    <3>1. g[{}] = base
      BY <2>4
    <3> QED
      BY <3>1
  <2>10. Fits(k, h)
    <3> HIDE DEF h
    <3> QED
      BY <2>7, <2>8, <2>9
  <2> HIDE DEF Fits, h
  <2> QED
    BY <2>2, <2>10
<1>2. PICK g : Fits(n, g)
  <2> HIDE DEF T
  <2>1. n \in 0..n /\ n \notin T
    BY <1>1
  <2> HIDE DEF Fits
  <2> QED
    BY <2>1 DEF T
<1>3. g = [s \in SUBSET (1..n) |-> g[s]]
  BY <1>2
<1> QED
  BY <1>2, <1>3 DEF Loops

(* The last turn of a loop over 1..k. *)
LEMMA LoopTurn ==
  ASSUME NEW n \in Nat, NEW k \in 1..n
  PROVE  /\ 1..k \in SUBSET (1..n) /\ 1..k # {} /\ Max(1..k) = k
         /\ (1..k) \ {k} = 1..(k - 1)
<1>1. 1..k \in SUBSET Nat /\ 1..k # {} /\ k \in Nat /\ \A x \in 1..k : x <= k
  OBVIOUS
<1>2. Max(1..k) \in 1..k /\ \A y \in 1..k : Max(1..k) >= y
  BY <1>1, Greatest
<1> QED
  BY <1>2

=============================================================================
