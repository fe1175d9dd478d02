---------------------------- MODULE SessionProofs ----------------------------
(***************************************************************************)
(* Proofs about Session: the history is the longest end of the             *)
(* conversation that fits, what is stored is the state of one session, and *)
(* when it is unreadable, for every number of callers, sessions, messages  *)
(* and tokens.                                                             *)
(***************************************************************************)
EXTENDS Session, TLAPS, SequenceTheorems, NaturalsInduction, WellFoundedInduction

(* Induction over numbers, from their order being well founded.            *)
LEMMA LessThan == \E R : IsWellFoundedOn(R, Nat) /\ \A a, b \in Nat : <<a, b>> \in R <=> a < b
<1> DEFINE R == OpToRel(<, Nat)
<1>1. IsWellFoundedOn(R, Nat)
  BY NatLessThanWellFounded, Zenon
<1>2. \A a, b \in Nat : <<a, b>> \in R <=> a < b
  BY DEF OpToRel
<1> WITNESS R
<1> QED
  BY <1>1, <1>2, Zenon

LEMMA LeastNumber ==
    ASSUME NEW T, T \subseteq Nat, NEW x \in T
    PROVE  \E m \in T : \A y \in T : ~(y < m)
<1>1. PICK R : IsWellFoundedOn(R, Nat) /\ \A a, b \in Nat : <<a, b>> \in R <=> a < b
  BY LessThan
<1>2. PICK m \in T : \A y \in T : ~ (<<y, m>> \in R)
  BY <1>1, WFMin
<1> QED
  BY <1>1, <1>2

LEMMA NumbersUpTo ==
    ASSUME NEW n \in Nat, NEW S, 0 \in S, \A i \in 0..n - 1 : i \in S => i + 1 \in S
    PROVE  0..n \subseteq S
<1> SUFFICES ASSUME NEW T, T = 0..n \ S, NEW x \in T PROVE FALSE
  OBVIOUS
<1>1. PICK m \in T : \A y \in T : ~(y < m)
  <2>1. T \subseteq Nat
    OBVIOUS
  <2> QED
    BY <2>1, LeastNumber
<1>2. m \in 0..n /\ m # 0 /\ m - 1 \in 0..n - 1 /\ (m - 1) + 1 = m
  BY <1>1
<1>3. m - 1 \in S
  BY <1>1, <1>2
<1> QED
  BY <1>1, <1>2, <1>3

-----------------------------------------------------------------------------
(* Counting tokens.                                                        *)

(* The function that TokenCount defines by recursion exists.               *)
LEMMA CountFunction ==
    ASSUME NEW s, Len(s) \in Nat
    PROVE  \E N : /\ N[0] = 0
                  /\ \A k \in 1..Len(s) : N[k] = N[k - 1] + Tokens[s[k]]
                  /\ TokenCount(s) = N[Len(s)]
<1> DEFINE Step(v, k) == v + Tokens[s[k]]
           Def(f, m) == f = [k \in 0..m |-> IF k = 0 THEN 0 ELSE Step(f[k - 1], k)]
           S == {m \in Nat : \E f : Def(f, m)}
           N == CHOOSE f : Def(f, Len(s))
<1>1. TokenCount(s) = N[Len(s)]
  BY Zenon DEF TokenCount
<1> HIDE DEF Step
<1>2. 0 \in S
  <2>1. Def([k \in 0..0 |-> 0], 0)
    OBVIOUS
  <2> HIDE DEF Def
  <2> QED
    BY <2>1
<1>3. ASSUME NEW m \in Nat, m \in S
      PROVE  m + 1 \in S
  <2>1. PICK f : Def(f, m)
    BY <1>3
  <2> DEFINE g == [k \in 0..m + 1 |-> IF k = m + 1 THEN Step(f[m], k) ELSE f[k]]
  <2>2. Def(g, m + 1)
    <3>1. \A k \in 0..m : f[k] = IF k = 0 THEN 0 ELSE Step(f[k - 1], k)
      BY <2>1
    <3>2. ASSUME NEW k \in 0..m + 1
          PROVE  g[k] = IF k = 0 THEN 0 ELSE Step(g[k - 1], k)
      <4>1. CASE k = m + 1
        BY <4>1
      <4>2. CASE k \in 0..m
        BY <3>1, <4>2
      <4> QED
        BY <4>1, <4>2
    <3> QED
      BY <3>2
  <2> HIDE DEF Def, g
  <2> QED
    BY <2>2
<1>4. Len(s) \in S
  <2> HIDE DEF S
  <2>1. \A k \in 0..Len(s) - 1 : k \in S => k + 1 \in S
    BY <1>3
  <2>2. 0..Len(s) \subseteq S
    BY <1>2, <2>1, NumbersUpTo, Zenon
  <2> QED
    BY <2>2
<1>5. Def(N, Len(s))
  <2>1. \E f : Def(f, Len(s))
    BY <1>4
  <2> HIDE DEF Def
  <2> QED
    BY <2>1, Zenon
<1> HIDE DEF N
<1>6. N[0] = 0
  BY <1>5
<1>7. \A k \in 1..Len(s) : N[k] = Step(N[k - 1], k)
  BY <1>5
<1> QED
  BY <1>1, <1>6, <1>7 DEF Step

LEMMA TokenCountType == ASSUME NEW s \in Seq(Messages) PROVE TokenCount(s) \in Nat
<1>1. Len(s) \in Nat /\ \A k \in 1..Len(s) : Tokens[s[k]] \in Nat
  BY SessionAssumption
<1>2. PICK N : /\ N[0] = 0
               /\ \A k \in 1..Len(s) : N[k] = N[k - 1] + Tokens[s[k]]
               /\ TokenCount(s) = N[Len(s)]
  BY <1>1, CountFunction
<1> DEFINE S == {k \in 0..Len(s) : N[k] \in Nat}
<1>3. 0 \in S
  BY <1>1, <1>2
<1>4. ASSUME NEW k \in 0..Len(s) - 1, k \in S
      PROVE  k + 1 \in S
  <2>1. k + 1 \in 1..Len(s) /\ k + 1 \in 0..Len(s) /\ (k + 1) - 1 = k
    BY <1>1
  <2>2. N[k + 1] = N[k] + Tokens[s[k + 1]] /\ N[k] \in Nat /\ Tokens[s[k + 1]] \in Nat
    BY <1>1, <1>2, <1>4, <2>1
  <2> QED
    BY <2>1, <2>2
<1>5. Len(s) \in S
  <2> HIDE DEF S
  <2>1. 0..Len(s) \subseteq S
    BY <1>1, <1>3, <1>4, NumbersUpTo, Zenon
  <2> QED
    BY <1>1, <2>1
<1> QED
  BY <1>2, <1>5

(* One more message adds its tokens.                                       *)
LEMMA TokenCountAppend ==
    ASSUME NEW s \in Seq(Messages), NEW m \in Messages
    PROVE  /\ Append(s, m) \in Seq(Messages)
           /\ TokenCount(s) \in Nat /\ Tokens[m] \in Nat
           /\ TokenCount(Append(s, m)) = TokenCount(s) + Tokens[m]
<1> DEFINE t == Append(s, m)
<1>1. /\ t \in Seq(Messages) /\ Len(s) \in Nat /\ Len(t) = Len(s) + 1 /\ Len(t) \in Nat
      /\ \A k \in 1..Len(s) : t[k] = s[k]
      /\ t[Len(s) + 1] = m
  BY AppendProperties
<1> HIDE DEF t
<1>2. PICK N : /\ N[0] = 0
               /\ \A k \in 1..Len(s) : N[k] = N[k - 1] + Tokens[s[k]]
               /\ TokenCount(s) = N[Len(s)]
  BY <1>1, CountFunction
<1>3. PICK M : /\ M[0] = 0
               /\ \A k \in 1..Len(t) : M[k] = M[k - 1] + Tokens[t[k]]
               /\ TokenCount(t) = M[Len(t)]
  BY <1>1, CountFunction
<1> DEFINE S == {k \in 0..Len(s) : N[k] = M[k]}
<1>4. 0 \in S
  BY <1>1, <1>2, <1>3
<1>5. ASSUME NEW k \in 0..Len(s) - 1, k \in S
      PROVE  k + 1 \in S
  <2>1. k + 1 \in 1..Len(s) /\ k + 1 \in 1..Len(t) /\ k + 1 \in 0..Len(s) /\ (k + 1) - 1 = k
    BY <1>1
  <2>2. N[k + 1] = N[k] + Tokens[s[k + 1]] /\ M[k + 1] = M[k] + Tokens[t[k + 1]]
    BY <1>2, <1>3, <2>1
  <2> QED
    BY <1>1, <1>5, <2>1, <2>2
<1>6. Len(s) \in S
  <2> HIDE DEF S
  <2>1. 0..Len(s) \subseteq S
    BY <1>1, <1>4, <1>5, NumbersUpTo, Zenon
  <2> QED
    BY <1>1, <2>1
<1>7. TokenCount(t) = TokenCount(s) + Tokens[m]
  <2>1. Len(t) \in 1..Len(t) /\ Len(t) - 1 = Len(s)
    BY <1>1
  <2>2. M[Len(t)] = M[Len(t) - 1] + Tokens[t[Len(t)]]
    BY <1>3, <2>1
  <2> QED
    BY <1>1, <1>2, <1>3, <1>6, <2>1, <2>2
<1> QED
  BY <1>1, <1>7, TokenCountType, SessionAssumption DEF t

-----------------------------------------------------------------------------
(* Ends of a sequence.                                                     *)

LEMMA FromElements ==
    ASSUME NEW s \in Seq(Messages), NEW a \in 1..Len(s)
    PROVE  /\ From(s, a) \in Seq(Messages)
           /\ Len(From(s, a)) = Len(s) - a + 1
           /\ \A k \in 1..Len(s) - a + 1 : From(s, a)[k] = s[a + k - 1]
<1>1. a \in Int /\ Len(s) \in Int /\ a <= Len(s) /\ \A k \in a..Len(s) : s[k] \in Messages
  OBVIOUS
<1> QED
  BY <1>1, SubSeqProperties DEF From

LEMMA FromAppend ==
    ASSUME NEW s \in Seq(Messages), NEW m \in Messages, NEW a \in 1..Len(s)
    PROVE  From(Append(s, m), a) = Append(From(s, a), m)
<1> DEFINE l == Append(s, m)  u == From(s, a)  v == From(l, a)  w == Append(u, m)
           n == Len(s) - a + 1
<1>1. /\ l \in Seq(Messages) /\ Len(l) = Len(s) + 1 /\ l[Len(s) + 1] = m
      /\ \A k \in 1..Len(s) : l[k] = s[k]
  BY AppendProperties
<1>2. u \in Seq(Messages) /\ Len(u) = n /\ \A k \in 1..n : u[k] = s[a + k - 1]
  BY FromElements
<1>3. Len(s) \in Nat /\ a \in Nat /\ n \in Nat /\ n # 0 /\ a \in 1..Len(s) + 1
  OBVIOUS
<1> HIDE DEF l, u
<1>4. v \in Seq(Messages) /\ Len(v) = n + 1 /\ \A k \in 1..n + 1 : v[k] = l[a + k - 1]
  <2>1. a \in 1..Len(l) /\ Len(l) - a + 1 = n + 1
    BY <1>1, <1>3
  <2> QED
    BY <1>1, <2>1, FromElements
<1>5. /\ w \in Seq(Messages) /\ Len(w) = n + 1 /\ w[n + 1] = m
      /\ \A k \in 1..n : w[k] = u[k]
  BY <1>2, AppendProperties
<1> HIDE DEF v, w
<1>6. ASSUME NEW k \in 1..n + 1 PROVE v[k] = w[k]
  <2>1. CASE k \in 1..n
    <3>1. a + k - 1 \in 1..Len(s)
      BY <1>3, <2>1
    <3> QED
      BY <1>1, <1>2, <1>4, <1>5, <2>1, <3>1
  <2>2. CASE k = n + 1
    <3>1. a + k - 1 = Len(s) + 1
      BY <1>3, <2>2
    <3> QED
      BY <1>1, <1>4, <1>5, <2>2, <3>1
  <2>3. k \in 1..n \/ k = n + 1
    BY <1>3
  <2> QED
    BY <2>1, <2>2, <2>3
<1>7. v = w
  BY <1>4, <1>5, <1>6, SeqEqual
<1> QED
  BY <1>7 DEF v, w, l, u

LEMMA FromFrom ==
    ASSUME NEW s \in Seq(Messages), NEW a \in 1..Len(s), NEW b \in 1..Len(s) - a + 1
    PROVE  From(From(s, a), b) = From(s, a + b - 1) /\ a + b - 1 \in 1..Len(s)
<1> DEFINE u == From(s, a)  v == From(u, b)  w == From(s, a + b - 1)
           n == Len(s) - a + 1  p == n - b + 1
<1>1. u \in Seq(Messages) /\ Len(u) = n /\ \A k \in 1..n : u[k] = s[a + k - 1]
  BY FromElements
<1>2. /\ Len(s) \in Nat /\ a \in Nat /\ b \in Nat /\ n \in Nat /\ p \in Nat /\ b \in 1..n
      /\ a + b - 1 \in 1..Len(s) /\ Len(s) - (a + b - 1) + 1 = p
  OBVIOUS
<1> HIDE DEF u
<1>3. v \in Seq(Messages) /\ Len(v) = p /\ \A k \in 1..p : v[k] = u[b + k - 1]
  <2>1. b \in 1..Len(u) /\ Len(u) - b + 1 = p
    BY <1>1, <1>2
  <2>2. /\ v \in Seq(Messages) /\ Len(v) = Len(u) - b + 1
        /\ \A k \in 1..Len(u) - b + 1 : v[k] = u[b + k - 1]
    BY <1>1, <2>1, FromElements, Zenon
  <2> HIDE DEF v, p
  <2> QED
    BY <2>1, <2>2
<1>4. w \in Seq(Messages) /\ Len(w) = p /\ \A k \in 1..p : w[k] = s[(a + b - 1) + k - 1]
  BY <1>2, FromElements
<1> HIDE DEF v, w
<1>5. ASSUME NEW k \in 1..p PROVE v[k] = w[k]
  <2>1. b + k - 1 \in 1..n /\ a + (b + k - 1) - 1 = (a + b - 1) + k - 1
    BY <1>2
  <2> QED
    BY <1>1, <1>3, <1>4, <2>1
<1>6. v = w
  BY <1>3, <1>4, <1>5, SeqEqual
<1> QED
  BY <1>2, <1>6 DEF u, v, w

LEMMA PrefixStep ==
    ASSUME NEW s \in Seq(Messages), NEW i \in Nat, i + 1 \in 1..Len(s)
    PROVE  SubSeq(s, 1, i + 1) = Append(SubSeq(s, 1, i), s[i + 1])
<1>1. 1 \in 1..Len(s) /\ i + 1 \in 1..Len(s) /\ (i + 1) - 1 = i
  OBVIOUS
<1>2. SubSeq(s, 1, i + 1) = SubSeq(s, 1, (i + 1) - 1) \o <<s[i + 1]>>
  BY <1>1, SubSeqRecursiveSecond
<1>3. SubSeq(s, 1, i) \in Seq(Messages) /\ s[i + 1] \in Messages
  BY <1>1
<1>4. \A g \in Seq(Messages) : \A x \in Messages : g \o <<x>> = Append(g, x)
  OBVIOUS
<1> QED
  BY <1>1, <1>2, <1>3, <1>4

LEMMA FromAll == ASSUME NEW s \in Seq(Messages) PROVE From(s, 1) = s
  BY SubSeqFull DEF From

-----------------------------------------------------------------------------
(* The window.                                                             *)

(* It starts at the first place from which the rest fits.                  *)
StartsAt(s, a) ==
    /\ a \in 1..Len(s)
    /\ TokenCount(From(s, a)) <= MaxTokens \/ a = Len(s)
    /\ \A k \in 1..(a - 1) : TokenCount(From(s, k)) > MaxTokens

LEMMA WindowStarts ==
    ASSUME NEW s \in Seq(Messages), s # <<>>
    PROVE  /\ \E a : StartsAt(s, a)
           /\ \A a : StartsAt(s, a) => Window(s) = From(s, a)
<1> DEFINE T == {k \in 1..Len(s) : TokenCount(From(s, k)) <= MaxTokens} \cup {Len(s)}
<1>1. Len(s) \in Nat \ {0}
  BY EmptySeq
<1>2. \A k \in 1..Len(s) : TokenCount(From(s, k)) \in Nat
  BY FromElements, TokenCountType
<1>3. MaxTokens \in Nat
  BY SessionAssumption
<1>4. Window(s) = From(s, Min(T))
  BY DEF Window
<1>5. \E a : StartsAt(s, a)
  <2>1. PICK a \in T : \A y \in T : ~(y < a)
    <3>1. T \subseteq Nat /\ Len(s) \in T
      BY <1>1
    <3> HIDE DEF T
    <3> QED
      BY <3>1, LeastNumber
  <2>2. a \in 1..Len(s) /\ (TokenCount(From(s, a)) <= MaxTokens \/ a = Len(s))
    BY <1>1, <2>1
  <2>3. ASSUME NEW k \in 1..(a - 1) PROVE TokenCount(From(s, k)) > MaxTokens
    <3>1. k \in 1..Len(s) /\ k < a
      BY <1>1, <2>2
    <3>2. k \notin T
      BY <2>1, <3>1
    <3> QED
      BY <1>2, <1>3, <3>1, <3>2
  <2> QED
    BY <2>2, <2>3 DEF StartsAt
<1>6. ASSUME NEW a, StartsAt(s, a) PROVE Min(T) = a
  <2>1. a \in T /\ a \in Nat
    BY <1>1, <1>6 DEF StartsAt
  <2>2. ASSUME NEW y \in T PROVE a <= y /\ y \in Nat
    <3>1. y \in 1..Len(s) /\ (TokenCount(From(s, y)) <= MaxTokens \/ y = Len(s))
      BY <1>1, <2>2
    <3>2. CASE y = Len(s)
      BY <1>1, <1>6, <3>2 DEF StartsAt
    <3>3. CASE TokenCount(From(s, y)) <= MaxTokens
      <4>1. y \notin 1..(a - 1)
        BY <1>2, <1>3, <1>6, <3>1, <3>3 DEF StartsAt
      <4> QED
        BY <2>1, <3>1, <4>1
    <3> QED
      BY <3>1, <3>2, <3>3
  <2> HIDE DEF T
  <2>3. ASSUME NEW x \in T, \A y \in T : x <= y PROVE x = a
    BY <2>1, <2>2, <2>3
  <2>4. \E x \in T : \A y \in T : x <= y
    BY <2>1, <2>2
  <2>5. Min(T) \in T /\ \A y \in T : Min(T) <= y
    BY <2>4 DEF Min
  <2> QED
    BY <2>3, <2>5
<1> HIDE DEF T
<1> QED
  BY <1>4, <1>5, <1>6

(* The loop of trim stops there.                                           *)
LEMMA TrimIsWindow ==
    ASSUME NEW s \in Seq(Messages), s # <<>>
    PROVE  Trim(s) = Window(s)
<1> DEFINE n == Len(s)
           More(k) == TokenCount(From(s, k)) > MaxTokens /\ k < n
           Def(f) == f = [k \in 1..n |-> IF More(k) THEN f[k + 1] ELSE k]
           Given(f) == f = [k \in 1..Len(s) |->
                              IF TokenCount(From(s, k)) > MaxTokens /\ k < Len(s)
                              THEN f[k + 1] ELSE k]
           F == CHOOSE f : Given(f)
<1>1. Trim(s) = From(s, F[1])
  BY Zenon DEF Trim
<1>2. \A f : Given(f) <=> Def(f)
  BY Zenon
<1>3. n \in Nat \ {0}
  BY EmptySeq
<1>4. PICK a : StartsAt(s, a)
  BY WindowStarts
<1>5. /\ a \in 1..n /\ a \in Nat /\ ~More(a)
      /\ \A k \in 1..(a - 1) : More(k)
  <2>1. a \in 1..n /\ a \in Nat /\ (TokenCount(From(s, a)) <= MaxTokens \/ a = n)
    BY <1>3, <1>4 DEF StartsAt
  <2>2. TokenCount(From(s, a)) \in Nat /\ MaxTokens \in Nat
    BY <2>1, FromElements, TokenCountType, SessionAssumption
  <2>3. ~More(a)
    BY <1>3, <2>1, <2>2
  <2>4. ASSUME NEW k \in 1..(a - 1) PROVE More(k)
    <3>1. k < n
      BY <1>3, <2>1
    <3>2. TokenCount(From(s, k)) > MaxTokens
      BY <1>4 DEF StartsAt
    <3> QED
      BY <3>1, <3>2
  <2> QED
    BY <2>1, <2>3, <2>4
<1>6. ~More(n)
  BY <1>3
<1>7. \A k \in 1..n : More(k) => k + 1 \in 1..n
  BY <1>3
<1> HIDE DEF n, More, Given
<1>8. \E f : Def(f)
  <2> DEFINE T(k) == {j \in k..n : ~More(j)}
             Least(k) == CHOOSE m \in T(k) : \A y \in T(k) : ~(y < m)
             f == [k \in 1..n |-> Least(k)]
  <2>1. ASSUME NEW k \in 1..n PROVE Least(k) = IF More(k) THEN Least(k + 1) ELSE k
    <3>1. CASE More(k)
      <4>1. T(k) = T(k + 1)
        <5>1. \A j \in k..n : j = k \/ j \in (k + 1)..n
          BY <1>3
        <5>2. \A j \in (k + 1)..n : j \in k..n
          BY <1>3
        <5> QED
          BY <3>1, <5>1, <5>2
      <4> HIDE DEF T
      <4> QED
        BY <3>1, <4>1
    <3>2. CASE ~More(k)
      <4>1. k \in T(k) /\ \A y \in T(k) : ~(y < k) /\ y \in Nat
        BY <1>3, <3>2
      <4> HIDE DEF T
      <4>2. Least(k) \in T(k) /\ \A y \in T(k) : ~(y < Least(k))
        BY <4>1
      <4> HIDE DEF Least
      <4>3. ~(k < Least(k)) /\ ~(Least(k) < k) /\ Least(k) \in Nat
        BY <4>1, <4>2
      <4> QED
        BY <3>2, <4>3
    <3> QED
      BY <3>1, <3>2
  <2> HIDE DEF Least
  <2>2. ASSUME NEW k \in 1..n PROVE f[k] = IF More(k) THEN f[k + 1] ELSE k
    <3>1. CASE More(k)
      BY <1>7, <2>1, <3>1
    <3>2. CASE ~More(k)
      BY <2>1, <3>2
    <3> QED
      BY <3>1, <3>2
  <2>3. Def(f)
    BY <2>2
  <2> HIDE DEF f, Def
  <2> QED
    BY <2>3
<1>9. Def(F)
  <2> HIDE DEF Def
  <2> QED
    BY <1>2, <1>8, Zenon
<1> HIDE DEF F
<1>10. \A k \in 1..n : F[k] = IF More(k) THEN F[k + 1] ELSE k
  BY <1>9
<1>11. F[1] = a
  <2> DEFINE S == {j \in 0..(a - 1) : F[a - j] = a}
  <2>1. 0 \in S
    <3>1. a - 0 = a /\ 0 \in 0..(a - 1)
      BY <1>5
    <3>2. F[a] = a
      BY <1>5, <1>10
    <3> QED
      BY <3>1, <3>2
  <2>2. ASSUME NEW j \in 0..(a - 1) - 1, j \in S
        PROVE  j + 1 \in S
    <3> DEFINE k == a - (j + 1)
    <3>1. k \in 1..(a - 1) /\ k \in 1..n /\ k + 1 = a - j /\ j + 1 \in 0..(a - 1)
      BY <1>3, <1>5
    <3>2. F[k + 1] = a
      BY <2>2, <3>1
    <3> HIDE DEF k
    <3>3. F[k] = a
      BY <1>5, <1>10, <3>1, <3>2
    <3> QED
      BY <3>1, <3>3 DEF k
  <2>3. a - 1 \in S
    <3> HIDE DEF S
    <3>1. a - 1 \in Nat
      BY <1>5
    <3>2. 0..(a - 1) \subseteq S
      BY <2>1, <2>2, <3>1, NumbersUpTo, Zenon
    <3> QED
      BY <3>1, <3>2
  <2>4. a - (a - 1) = 1
    BY <1>5
  <2> QED
    BY <2>3, <2>4
<1> QED
  BY <1>1, <1>4, <1>11, WindowStarts

(* A window is part of the conversation, and fits or is one message.       *)
LEMMA WindowShape ==
    ASSUME NEW s \in Seq(Messages), s # <<>>
    PROVE  /\ Window(s) \in Seq(Messages) /\ Window(s) # <<>>
           /\ TokenCount(Window(s)) <= MaxTokens \/ Len(Window(s)) = 1
<1>1. PICK a : StartsAt(s, a)
  BY WindowStarts
<1>2. Window(s) = From(s, a)
  BY <1>1, WindowStarts
<1>3. a \in 1..Len(s) /\ (TokenCount(From(s, a)) <= MaxTokens \/ a = Len(s))
  BY <1>1 DEF StartsAt
<1>4. From(s, a) \in Seq(Messages) /\ Len(From(s, a)) = Len(s) - a + 1
  BY <1>3, FromElements
<1>5. Len(From(s, a)) # 0 /\ (a = Len(s) => Len(From(s, a)) = 1)
  <2>1. Len(s) \in Nat
    OBVIOUS
  <2> QED
    BY <1>3, <1>4, <2>1
<1>6. From(s, a) # <<>>
  BY <1>5
<1> QED
  BY <1>2, <1>3, <1>4, <1>5, <1>6

(* A window that fits, or has one message, is its own window.              *)
LEMMA WindowOfFitting ==
    ASSUME NEW s \in Seq(Messages), s # <<>>,
           TokenCount(s) <= MaxTokens \/ Len(s) = 1
    PROVE  Window(s) = s
<1>1. From(s, 1) = s
  BY FromAll
<1>2. Len(s) \in Nat \ {0}
  BY EmptySeq
<1>3. 1 \in 1..Len(s) /\ 1..(1 - 1) = {}
  BY <1>2
<1>4. StartsAt(s, 1)
  BY <1>1, <1>3 DEF StartsAt
<1> QED
  BY <1>1, <1>4, WindowStarts

(* Appending to the window and trimming loses nothing that fits.           *)
LEMMA WindowAppend ==
    ASSUME NEW s \in Seq(Messages), s # <<>>, NEW m \in Messages
    PROVE  AppendTo(Window(s), m) = Window(Append(s, m))
<1> DEFINE l == Append(s, m)  w == Window(s)  v == Append(w, m)
<1>1. /\ l \in Seq(Messages) /\ Len(l) = Len(s) + 1
      /\ w \in Seq(Messages) /\ v \in Seq(Messages) /\ v # <<>> /\ l # <<>>
  BY WindowShape, AppendProperties
<1>2. PICK a : StartsAt(s, a)
  BY WindowStarts
<1>3. w = From(s, a)
  BY <1>2, WindowStarts
<1>4. a \in 1..Len(s) /\ \A k \in 1..(a - 1) : TokenCount(From(s, k)) > MaxTokens
  BY <1>2 DEF StartsAt
<1>5. v = From(l, a)
  BY <1>3, <1>4, FromAppend
<1>6. \A k \in 1..Len(s) : From(l, k) = Append(From(s, k), m)
  BY FromAppend
<1> HIDE DEF w, v, l
<1>7. PICK b : StartsAt(v, b)
  BY <1>1, WindowStarts
<1>8. Window(v) = From(v, b)
  BY <1>1, <1>7, WindowStarts
<1>9. a \in 1..Len(l) /\ Len(v) = Len(l) - a + 1 /\ Len(l) \in Nat /\ a \in Nat
  <2>1. Len(s) \in Nat
    OBVIOUS
  <2>2. a \in 1..Len(l) /\ Len(l) \in Nat /\ a \in Nat
    BY <1>1, <1>4, <2>1
  <2> QED
    BY <1>1, <1>5, <2>2, FromElements
<1>10. /\ b \in 1..Len(l) - a + 1
       /\ TokenCount(From(v, b)) <= MaxTokens \/ b = Len(v)
       /\ \A k \in 1..(b - 1) : TokenCount(From(v, k)) > MaxTokens
  BY <1>7, <1>9 DEF StartsAt
<1> DEFINE c == a + b - 1
<1>11. \A k \in 1..Len(l) - a + 1 : From(v, k) = From(l, a + k - 1)
  BY <1>1, <1>5, <1>9, FromFrom
<1>12. From(v, b) = From(l, c) /\ c \in 1..Len(l) /\ (b = Len(v) => c = Len(l))
  <2>1. From(v, b) = From(l, c)
    BY <1>10, <1>11
  <2>2. c \in 1..Len(l) /\ (b = Len(v) => c = Len(l))
    BY <1>9, <1>10
  <2> QED
    BY <2>1, <2>2
<1>13. ASSUME NEW k \in 1..(c - 1) PROVE TokenCount(From(l, k)) > MaxTokens
  <2>1. k \in Nat /\ b \in Nat /\ k >= 1 /\ k < c
    BY <1>9, <1>10
  <2>2. CASE k < a
    <3>1. k \in 1..(a - 1) /\ k \in 1..Len(s)
      BY <1>4, <1>9, <2>1, <2>2
    <3> DEFINE u == From(s, k)
    <3>2. u \in Seq(Messages)
      BY <3>1, FromElements
    <3>3. TokenCount(u) > MaxTokens
      BY <1>4, <3>1
    <3>4. From(l, k) = Append(u, m)
      BY <1>6, <3>1
    <3> HIDE DEF u
    <3>5. /\ TokenCount(u) \in Nat /\ Tokens[m] \in Nat
          /\ TokenCount(Append(u, m)) = TokenCount(u) + Tokens[m]
      BY <3>2, TokenCountAppend
    <3>6. MaxTokens \in Nat
      BY SessionAssumption
    <3>7. \A x, y, z \in Nat : x > z => x + y > z
      OBVIOUS
    <3> QED
      BY <3>3, <3>4, <3>5, <3>6, <3>7
  <2>3. CASE ~(k < a)
    <3> DEFINE j == k - a + 1
    <3>1. j \in 1..(b - 1) /\ j \in 1..Len(l) - a + 1 /\ a + j - 1 = k
      BY <1>9, <1>10, <2>1, <2>3
    <3>2. From(v, j) = From(l, a + j - 1)
      BY <1>11, <3>1
    <3>3. TokenCount(From(v, j)) > MaxTokens
      BY <1>10, <3>1
    <3> QED
      BY <3>1, <3>2, <3>3
  <2> QED
    BY <2>2, <2>3
<1>14. StartsAt(l, c)
  BY <1>10, <1>12, <1>13 DEF StartsAt
<1>15. Window(l) = From(l, c)
  BY <1>1, <1>14, WindowStarts
<1>16. AppendTo(w, m) = Window(v)
  BY <1>1, TrimIsWindow DEF AppendTo, v
<1> QED
  BY <1>8, <1>12, <1>15, <1>16 DEF w, l

(* The function that Refilled defines by recursion exists.                 *)
LEMMA RefilledFunction ==
    ASSUME NEW s, Len(s) \in Nat
    PROVE  \E N : /\ N[0] = <<>>
                  /\ \A k \in 1..Len(s) : N[k] = AppendTo(N[k - 1], s[k])
                  /\ Refilled(s) = N[Len(s)]
<1> DEFINE Step(v, k) == AppendTo(v, s[k])
           Def(f, m) == f = [k \in 0..m |-> IF k = 0 THEN <<>> ELSE Step(f[k - 1], k)]
           S == {m \in Nat : \E f : Def(f, m)}
           N == CHOOSE f : Def(f, Len(s))
<1>1. Refilled(s) = N[Len(s)]
  BY Zenon DEF Refilled
<1> HIDE DEF Step
<1>2. 0 \in S
  <2>1. Def([k \in 0..0 |-> <<>>], 0)
    OBVIOUS
  <2> HIDE DEF Def
  <2> QED
    BY <2>1
<1>3. ASSUME NEW m \in Nat, m \in S
      PROVE  m + 1 \in S
  <2>1. PICK f : Def(f, m)
    BY <1>3
  <2> DEFINE g == [k \in 0..m + 1 |-> IF k = m + 1 THEN Step(f[m], k) ELSE f[k]]
  <2>2. Def(g, m + 1)
    <3>1. \A k \in 0..m : f[k] = IF k = 0 THEN <<>> ELSE Step(f[k - 1], k)
      BY <2>1
    <3>2. ASSUME NEW k \in 0..m + 1
          PROVE  g[k] = IF k = 0 THEN <<>> ELSE Step(g[k - 1], k)
      <4>1. CASE k = m + 1
        BY <4>1
      <4>2. CASE k \in 0..m
        BY <3>1, <4>2
      <4> QED
        BY <4>1, <4>2
    <3> QED
      BY <3>2
  <2> HIDE DEF Def, g
  <2> QED
    BY <2>2
<1>4. Len(s) \in S
  <2> HIDE DEF S
  <2>1. \A k \in 0..Len(s) - 1 : k \in S => k + 1 \in S
    BY <1>3
  <2>2. 0..Len(s) \subseteq S
    BY <1>2, <2>1, NumbersUpTo, Zenon
  <2> QED
    BY <2>2
<1>5. Def(N, Len(s))
  <2>1. \E f : Def(f, Len(s))
    BY <1>4
  <2> HIDE DEF Def
  <2> QED
    BY <2>1, Zenon
<1> HIDE DEF N
<1>6. N[0] = <<>>
  BY <1>5
<1>7. \A k \in 1..Len(s) : N[k] = Step(N[k - 1], k)
  BY <1>5
<1> QED
  BY <1>1, <1>6, <1>7 DEF Step

(* The beginning of what fits fits.                                        *)
LEMMA PrefixFits ==
    ASSUME NEW s \in Seq(Messages), NEW k \in 1..Len(s)
    PROVE  TokenCount(SubSeq(s, 1, k)) <= TokenCount(s)
<1> DEFINE n == Len(s)  Pre(i) == SubSeq(s, 1, i)
           S == {j \in 0..(n - k) : TokenCount(Pre(n - j)) <= TokenCount(s)}
<1>1. n \in Nat /\ k \in Nat /\ n - k \in Nat
  OBVIOUS
<1>2. \A i \in 1..n : s[i] \in Messages
  OBVIOUS
<1>3. ASSUME NEW i \in 0..n - 1
      PROVE  /\ TokenCount(Pre(i)) \in Nat /\ TokenCount(Pre(i + 1)) \in Nat
             /\ TokenCount(Pre(i)) <= TokenCount(Pre(i + 1))
  <2>1. Pre(i) \in Seq(Messages) /\ i + 1 \in 1..n /\ s[i + 1] \in Messages
    BY <1>1, <1>2
  <2>2. Pre(i + 1) = Append(Pre(i), s[i + 1])
    BY <2>1, PrefixStep
  <2> HIDE DEF Pre
  <2>3. /\ TokenCount(Pre(i)) \in Nat /\ Tokens[s[i + 1]] \in Nat
        /\ TokenCount(Append(Pre(i), s[i + 1])) = TokenCount(Pre(i)) + Tokens[s[i + 1]]
    BY <2>1, TokenCountAppend
  <2>4. TokenCount(Pre(i + 1)) = TokenCount(Pre(i)) + Tokens[s[i + 1]]
    BY <2>2, <2>3
  <2>5. \A x, y \in Nat : x + y \in Nat /\ x <= x + y
    OBVIOUS
  <2> QED
    BY <2>3, <2>4, <2>5
<1>4. 0 \in S
  <2>1. n - 0 = n /\ 0 \in 0..(n - k)
    BY <1>1
  <2>2. Pre(n) = s
    BY SubSeqFull
  <2>3. TokenCount(s) \in Nat
    BY TokenCountType
  <2> HIDE DEF n, Pre
  <2> QED
    BY <2>1, <2>2, <2>3
<1> HIDE DEF Pre, n
<1>5. ASSUME NEW j \in 0..(n - k) - 1, j \in S
      PROVE  j + 1 \in S
  <2>1. /\ n - (j + 1) \in 0..n - 1 /\ (n - (j + 1)) + 1 = n - j /\ j + 1 \in 0..(n - k)
    BY <1>1
  <2>2. TokenCount(s) \in Nat /\ TokenCount(Pre(n - j)) <= TokenCount(s)
    BY <1>5, TokenCountType
  <2>3. /\ TokenCount(Pre(n - (j + 1))) \in Nat /\ TokenCount(Pre(n - j)) \in Nat
        /\ TokenCount(Pre(n - (j + 1))) <= TokenCount(Pre(n - j))
    BY <1>3, <2>1
  <2>4. \A x, y, z \in Nat : x <= y /\ y <= z => x <= z
    OBVIOUS
  <2>5. TokenCount(Pre(n - (j + 1))) <= TokenCount(s)
    BY <2>2, <2>3, <2>4
  <2> QED
    BY <2>1, <2>5
<1>6. n - k \in S
  <2> HIDE DEF S
  <2>1. 0..(n - k) \subseteq S
    BY <1>1, <1>4, <1>5, NumbersUpTo, Zenon
  <2> QED
    BY <1>1, <2>1
<1>7. n - (n - k) = k
  BY <1>1
<1> QED
  BY <1>6, <1>7 DEF Pre

(* Load trims once more, message by message, and loses nothing.            *)
LEMMA RefilledFitting ==
    ASSUME NEW w \in Seq(Messages), w # <<>>,
           TokenCount(w) <= MaxTokens \/ Len(w) = 1
    PROVE  Refilled(w) = w
<1> DEFINE n == Len(w)  Pre(i) == SubSeq(w, 1, i)
<1>1. n \in Nat \ {0} /\ \A k \in 1..n : w[k] \in Messages
  BY EmptySeq
<1>2. PICK N : /\ N[0] = <<>>
               /\ \A k \in 1..Len(w) : N[k] = AppendTo(N[k - 1], w[k])
               /\ Refilled(w) = N[Len(w)]
  BY <1>1, RefilledFunction
<1>3. ASSUME NEW k \in 0..n - 1
      PROVE  AppendTo(Pre(k), w[k + 1]) = Pre(k + 1)
  <2>1. k + 1 \in 1..n /\ w[k + 1] \in Messages
    BY <1>1
  <2>2. Pre(k + 1) = Append(Pre(k), w[k + 1])
    BY <2>1, PrefixStep
  <2>3. Pre(k + 1) \in Seq(Messages) /\ Len(Pre(k + 1)) = k + 1 /\ Pre(k + 1) # <<>>
    <3>1. Pre(k + 1) \in Seq(Messages) /\ Len(Pre(k + 1)) = k + 1
      BY <1>1, <2>1
    <3>2. Len(Pre(k + 1)) # 0
      BY <3>1
    <3> QED
      BY <3>1, <3>2
  <2>4. TokenCount(Pre(k + 1)) <= TokenCount(w) /\ TokenCount(w) \in Nat
    BY <2>1, PrefixFits, TokenCountType
  <2> HIDE DEF Pre
  <2>5. TokenCount(Pre(k + 1)) <= MaxTokens \/ Len(Pre(k + 1)) = 1
    <3>1. CASE TokenCount(w) <= MaxTokens
      <4>1. TokenCount(Pre(k + 1)) \in Nat /\ MaxTokens \in Nat
        BY <2>3, TokenCountType, SessionAssumption
      <4> QED
        BY <2>4, <3>1, <4>1
    <3>2. CASE Len(w) = 1
      BY <1>1, <2>1, <2>3, <3>2
    <3> QED
      BY <3>1, <3>2
  <2>6. Window(Pre(k + 1)) = Pre(k + 1)
    BY <2>3, <2>5, WindowOfFitting
  <2>7. Trim(Pre(k + 1)) = Window(Pre(k + 1))
    BY <2>3, TrimIsWindow
  <2> QED
    BY <2>2, <2>6, <2>7 DEF AppendTo
<1> DEFINE S == {k \in 0..n : N[k] = Pre(k)}
<1>4. 0 \in S
  <2>1. Pre(0) = <<>>
    BY SubSeqEmpty
  <2>2. 0 \in 0..n
    BY <1>1
  <2> HIDE DEF Pre
  <2> QED
    BY <1>2, <2>1, <2>2
<1> HIDE DEF Pre
<1>5. ASSUME NEW k \in 0..n - 1, k \in S
      PROVE  k + 1 \in S
  <2>1. k + 1 \in 1..Len(w) /\ k + 1 \in 0..n /\ (k + 1) - 1 = k
    BY <1>1
  <2>2. N[k + 1] = AppendTo(N[k], w[k + 1])
    BY <1>2, <2>1
  <2>3. N[k] = Pre(k)
    BY <1>5
  <2> QED
    BY <1>3, <2>1, <2>2, <2>3
<1>6. n \in S
  <2> HIDE DEF S
  <2>1. 0..n \subseteq S
    BY <1>1, <1>4, <1>5, NumbersUpTo, Zenon
  <2> QED
    BY <1>1, <2>1
<1>7. Pre(n) = w
  BY SubSeqFull DEF Pre
<1> QED
  BY <1>2, <1>6, <1>7

LEMMA RefilledEmpty == Refilled(<<>>) = <<>>
<1>1. Len(<<>>) \in Nat /\ Len(<<>>) = 0
  OBVIOUS
<1>2. PICK N : N[0] = <<>> /\ Refilled(<<>>) = N[Len(<<>>)]
  BY <1>1, RefilledFunction
<1> QED
  BY <1>1, <1>2

-----------------------------------------------------------------------------
(* The inductive invariant.                                                *)

(* Sessions whose history is the window of their conversation.             *)
Good == {d \in Payloads : d.hist = IF d.log = <<>> THEN <<>> ELSE Window(d.log)}
Stored == Good \cup {None, Partial, Mixed}

(* The state of session i, or one known to be mixed.                       *)
Belongs(d, i) == d.tainted \/ (d.id = i /\ d.sched = i)
SameSession(d, e) == d.id = e.id /\ d.sched = e.sched /\ d.tainted = e.tainted

Pcs == {"idle", "dumped", "snapped", "keyed", "opened", "read"}
Calls == [pc : Pcs, data : Stored, key : 0..MaxIds, switched : BOOLEAN]

(* What a call holds while the session is s: a copy that nobody replaced   *)
(* is of s, and what is about to be written belongs to its key.            *)
CallGood(r, s) ==
    /\ r.pc \in {"dumped", "snapped", "keyed", "opened"} => r.data \in Good
    /\ r.pc \in {"dumped", "snapped"} /\ ~r.switched => SameSession(r.data, s)
    /\ r.pc \in {"keyed", "opened"} => r.key \in Ids /\ Belongs(r.data, r.key)
    /\ r.pc = "read" /\ Readable(r.data) => Belongs(r.data, r.data.id)

Objects ==
    /\ kind \in {"file", "sqlite"} /\ created \in Ids
    /\ sess \in Good /\ Belongs(sess, sess.id)
    /\ call \in [Callers -> Calls] /\ \A c \in Callers : CallGood(call[c], sess)

Contents ==
    /\ store \in [Ids -> Stored]
    /\ \A i \in Ids : Readable(store[i]) => Belongs(store[i], i)

(* A file that is open is as the one writer left it when it truncated it,  *)
(* or somebody has spoiled it.                                             *)
Opened(c) == call[c].pc = "opened"
Files ==
    \A c \in Callers : Opened(c) =>
        /\ kind = "file"
        /\ store[call[c].key] = Partial \/ call[c].key \in spoiled
        /\ \A o \in Callers :
              Opened(o) /\ o # c /\ call[o].key = call[c].key => call[c].key \in spoiled

(* What cannot be read is a file, and a write of it is in progress or was  *)
(* cut off or overlapped.                                                  *)
CutOnly ==
    \A i \in Ids : store[i] \in {Partial, Mixed} =>
        kind = "file" /\ (Writing(i) # {} \/ i \in spoiled)

Inv == Objects /\ Contents /\ Files /\ CutOnly

-----------------------------------------------------------------------------
(* Sessions.                                                               *)

LEMMA GoodFields ==
    ASSUME NEW d \in Good
    PROVE  /\ d \in Payloads
           /\ d.id \in Ids /\ d.sched \in Ids /\ d.tainted \in BOOLEAN
           /\ d.log \in Seq(Messages) /\ d.hist \in Seq(Messages)
           /\ d.log = <<>> => d.hist = <<>>
           /\ d.log # <<>> => d.hist = Window(d.log)
  BY DEF Good, Payloads

LEMMA StoredKinds ==
    /\ \A d \in Stored : Readable(d) => d \in Good
    /\ \A d \in Good : Readable(d) /\ d \notin {None, Partial, Mixed}
    /\ ~Readable(None) /\ ~Readable(Partial) /\ ~Readable(Mixed)
    /\ None \notin {Partial, Mixed}
<1>1. \A d \in Good : d \in Payloads
  BY DEF Good
<1> QED
  BY <1>1, StoreAssumption DEF Stored, Readable

LEMMA NewSessionGood ==
    ASSUME NEW i \in Ids
    PROVE  NewSession(i) \in Good /\ Belongs(NewSession(i), NewSession(i).id)
<1>1. NewSession(i) \in Payloads
  BY DEF NewSession, Payloads
<1> QED
  BY <1>1 DEF NewSession, Good, Belongs

(* Another scheduler state or another taint.                               *)
LEMMA GoodSched ==
    ASSUME NEW d \in Good, NEW x \in Ids, NEW b \in BOOLEAN
    PROVE  [d EXCEPT !.sched = x, !.tainted = b] \in Good
<1> DEFINE e == [d EXCEPT !.sched = x, !.tainted = b]
<1>1. d \in Payloads
  BY DEF Good
<1>2. e \in Payloads
  BY <1>1 DEF Payloads
<1>3. e.hist = d.hist /\ e.log = d.log
  BY <1>1 DEF Payloads
<1> HIDE DEF e
<1>4. e \in Good
  BY <1>2, <1>3 DEF Good
<1> QED
  BY <1>4 DEF e

(* AddMessage keeps the window.                                            *)
LEMMA GoodAppend ==
    ASSUME NEW d \in Good, NEW m \in Messages
    PROVE  [d EXCEPT !.hist = AppendTo(@, m), !.log = Append(@, m)] \in Good
<1> DEFINE l == Append(d.log, m)  h == AppendTo(d.hist, m)
           e == [d EXCEPT !.hist = AppendTo(@, m), !.log = Append(@, m)]
<1>1. /\ d \in Payloads /\ d.log \in Seq(Messages)
      /\ d.log = <<>> => d.hist = <<>>
      /\ d.log # <<>> => d.hist = Window(d.log)
  BY GoodFields
<1>2. l \in Seq(Messages) /\ l # <<>>
  BY <1>1
<1>3. h = Window(l)
  <2>1. CASE d.log = <<>>
    <3>1. h = Trim(l)
      BY <1>1, <2>1 DEF AppendTo
    <3> HIDE DEF l, h
    <3> QED
      BY <1>2, <3>1, TrimIsWindow
  <2>2. CASE d.log # <<>>
    BY <1>1, <2>2, WindowAppend
  <2> QED
    BY <2>1, <2>2
<1>4. h \in Seq(Messages)
  <2> HIDE DEF l, h
  <2> QED
    BY <1>2, <1>3, WindowShape
<1>5. e = [d EXCEPT !.hist = h, !.log = l]
  OBVIOUS
<1> HIDE DEF l, h, e
<1>6. e \in Payloads /\ e.hist = h /\ e.log = l
  BY <1>1, <1>2, <1>4, <1>5 DEF Payloads
<1>7. e \in Good
  BY <1>2, <1>3, <1>6 DEF Good
<1> QED
  BY <1>7 DEF e

(* Load gives back the history that was saved.                             *)
LEMMA GoodLoaded ==
    ASSUME NEW d \in Good, NEW x \in Ids, NEW b \in BOOLEAN
    PROVE  Loaded(d, x, b) = [d EXCEPT !.sched = x, !.tainted = b]
<1>1. /\ d \in Payloads /\ d.log \in Seq(Messages)
      /\ d.log = <<>> => d.hist = <<>>
      /\ d.log # <<>> => d.hist = Window(d.log)
  BY GoodFields
<1>2. Refilled(d.hist) = d.hist
  <2>1. CASE d.log = <<>>
    BY <1>1, <2>1, RefilledEmpty
  <2>2. CASE d.log # <<>>
    <3> DEFINE w == Window(d.log)
    <3>1. w \in Seq(Messages) /\ w # <<>> /\ (TokenCount(w) <= MaxTokens \/ Len(w) = 1)
      BY <1>1, <2>2, WindowShape
    <3>2. d.hist = w
      BY <1>1, <2>2
    <3> HIDE DEF w
    <3>3. Refilled(w) = w
      BY <3>1, RefilledFitting
    <3> QED
      BY <3>2, <3>3
  <2> QED
    BY <2>1, <2>2
<1>3. Loaded(d, x, b) = [d EXCEPT !.hist = d.hist, !.sched = x, !.tainted = b]
  BY <1>2 DEF Loaded
<1> QED
  BY <1>1, <1>3 DEF Payloads

-----------------------------------------------------------------------------
(* Steps that write nothing to the store.                                  *)

(* Calls and session may change as long as nobody opens or closes a file.  *)
LEMMA QuietStep ==
    ASSUME Inv,
           UNCHANGED <<kind, store, spoiled>>, created' \in Ids,
           sess' \in Good, Belongs(sess', sess'.id),
           call' \in [Callers -> Calls], \A o \in Callers : CallGood(call'[o], sess'),
           \A o \in Callers : /\ call'[o].pc = "opened" <=> call[o].pc = "opened"
                              /\ call[o].pc = "opened" => call'[o].key = call[o].key
    PROVE  Inv'
<1>1. Objects'
  BY DEF Inv, Objects
<1>2. Contents'
  BY DEF Inv, Contents
<1>3. Files'
  BY DEF Inv, Files, Opened
<1>4. ASSUME NEW i \in Ids PROVE Writing(i)' = Writing(i)
  BY DEF Writing
<1>5. CutOnly'
  <2> SUFFICES ASSUME NEW i \in Ids, store[i] \in {Partial, Mixed}
               PROVE  kind = "file" /\ (Writing(i)' # {} \/ i \in spoiled)
    BY DEF CutOnly
  <2> QED
    BY <1>4 DEF Inv, CutOnly
<1> QED
  BY <1>1, <1>2, <1>3, <1>5 DEF Inv

(* One call goes on and nothing else changes.                              *)
LEMMA CallStep ==
    ASSUME Inv, NEW c \in Callers, NEW r \in Calls,
           call' = [call EXCEPT ![c] = r],
           UNCHANGED <<kind, sess, created, store, spoiled>>,
           call[c].pc # "opened", r.pc # "opened", CallGood(r, sess)
    PROVE  Inv'
<1>1. /\ call \in [Callers -> Calls] /\ created \in Ids /\ sess \in Good
      /\ Belongs(sess, sess.id) /\ \A o \in Callers : CallGood(call[o], sess)
  BY DEF Inv, Objects
<1>2. call' \in [Callers -> Calls]
  BY <1>1
<1>3. \A o \in Callers : call'[o] = IF o = c THEN r ELSE call[o]
  BY <1>1
<1>4. \A o \in Callers : CallGood(call'[o], sess')
  BY <1>1, <1>3
<1>5. \A o \in Callers : /\ call'[o].pc = "opened" <=> call[o].pc = "opened"
                         /\ call[o].pc = "opened" => call'[o].key = call[o].key
  BY <1>3
<1> QED
  BY <1>1, <1>2, <1>4, <1>5, QuietStep

(* A call that is over holds nothing.                                      *)
LEMMA NoCallGood ==
    /\ NoCall \in Calls /\ NoCall.pc = "idle"
    /\ \A s \in Good : CallGood(NoCall, s)
<1>1. None \in Stored /\ 0 \in 0..MaxIds
  BY SessionAssumption DEF Stored
<1> QED
  BY <1>1 DEF NoCall, Calls, Pcs, CallGood

(* A call ends without an effect on the store.                             *)
LEMMA CallEnds ==
    ASSUME Inv, NEW c \in Callers, call' = [call EXCEPT ![c] = NoCall],
           UNCHANGED <<kind, sess, created, store, spoiled>>, call[c].pc # "opened"
    PROVE  Inv'
<1>1. sess \in Good
  BY DEF Inv, Objects
<1> QED
  BY <1>1, NoCallGood, CallStep

LEMMA InitInv == Init => Inv
<1> SUFFICES ASSUME Init PROVE Inv
  OBVIOUS
<1>1. 1 \in Ids
  BY SessionAssumption DEF Ids
<1>2. sess \in Good /\ Belongs(sess, sess.id)
  BY <1>1, NewSessionGood DEF Init
<1>3. Objects
  BY <1>1, <1>2, NoCallGood DEF Init, Objects
<1>4. Contents
  BY StoredKinds DEF Init, Contents, Stored
<1>5. Files
  BY NoCallGood DEF Init, Files, Opened
<1>6. CutOnly
  BY StoredKinds DEF Init, CutOnly
<1> QED
  BY <1>3, <1>4, <1>5, <1>6 DEF Inv

-----------------------------------------------------------------------------
(* The actions.                                                            *)

(* What the invariant says of one caller.                                  *)
LEMMA CallFacts ==
    ASSUME Inv, NEW c \in Callers
    PROVE  /\ call \in [Callers -> Calls] /\ call[c] \in Calls /\ CallGood(call[c], sess)
           /\ sess \in Good /\ Belongs(sess, sess.id) /\ created \in Ids
           /\ kind \in {"file", "sqlite"}
  BY DEF Inv, Objects

(* AddMessage and NewConversation replace history and conversation only.   *)
LEMMA Rewritten ==
    ASSUME Inv, sess' \in Good, SameSession(sess', sess),
           UNCHANGED <<kind, created, store, call, spoiled>>
    PROVE  Inv'
<1>1. /\ created \in Ids /\ sess \in Good /\ Belongs(sess, sess.id)
      /\ call \in [Callers -> Calls] /\ \A o \in Callers : CallGood(call[o], sess)
  BY DEF Inv, Objects
<1>2. Belongs(sess', sess'.id)
  BY <1>1 DEF Belongs, SameSession
<1>3. ASSUME NEW o \in Callers PROVE CallGood(call[o], sess')
  <2>1. CallGood(call[o], sess)
    BY <1>1
  <2>2. SameSession(call[o].data, sess) => SameSession(call[o].data, sess')
    BY DEF SameSession
  <2> QED
    BY <2>1, <2>2 DEF CallGood
<1> QED
  BY <1>1, <1>2, <1>3, QuietStep

LEMMA AddMessageStep ==
    ASSUME Inv, NEW c \in Callers, NEW m \in Messages, AddMessage(c, m) PROVE Inv'
<1>1. sess \in Good
  BY DEF Inv, Objects
<1>2. sess' = [sess EXCEPT !.hist = AppendTo(@, m), !.log = Append(@, m)]
  BY DEF AddMessage
<1>3. sess' \in Good
  BY <1>1, <1>2, GoodAppend
<1>4. sess \in Payloads
  BY <1>1, GoodFields
<1>5. SameSession(sess', sess)
  BY <1>2, <1>4 DEF SameSession, Payloads
<1> QED
  BY <1>3, <1>5, Rewritten DEF AddMessage

LEMMA NewConversationStep ==
    ASSUME Inv, NEW c \in Callers, NewConversation(c) PROVE Inv'
<1>1. sess \in Payloads
  BY GoodFields DEF Inv, Objects
<1>2. sess' = [sess EXCEPT !.hist = <<>>, !.log = <<>>]
  BY DEF NewConversation
<1>3. sess' \in Payloads /\ sess'.hist = <<>> /\ sess'.log = <<>>
  <2> DEFINE e == <<>>
  <2>1. e \in Seq(Messages)
    OBVIOUS
  <2>2. sess' = [sess EXCEPT !.hist = e, !.log = e]
    BY <1>2
  <2> HIDE DEF e
  <2>3. sess' \in Payloads /\ sess'.hist = e /\ sess'.log = e
    BY <1>1, <2>1, <2>2 DEF Payloads
  <2> QED
    BY <2>3 DEF e
<1>4. sess' \in Good
  BY <1>3 DEF Good
<1>5. /\ sess'.id = sess.id
      /\ sess'.sched = sess.sched
      /\ sess'.tainted = sess.tainted
  BY <1>1, <1>2 DEF Payloads
<1>6. SameSession(sess', sess)
  BY <1>5, Zenon DEF SameSession
<1> QED
  BY <1>4, <1>6, Rewritten DEF NewConversation

LEMMA SaveDumpStep ==
    ASSUME Inv, NEW c \in Callers, SaveDump(c) PROVE Inv'
<1> DEFINE r == [NoCall EXCEPT !.pc = "dumped", !.data = sess]
<1>1. sess \in Good /\ NoCall \in Calls
  BY CallFacts, NoCallGood
<1>2. sess \in Stored
  BY <1>1 DEF Stored
<1>3. r \in Calls /\ r.pc = "dumped" /\ r.data = sess
  BY <1>1, <1>2 DEF Calls, Pcs
<1>4. SameSession(sess, sess)
  BY DEF SameSession
<1>5. call' = [call EXCEPT ![c] = r]
  BY DEF SaveDump
<1> HIDE DEF r
<1>6. CallGood(r, sess)
  BY <1>1, <1>3, <1>4 DEF CallGood
<1> QED
  BY <1>3, <1>5, <1>6, CallStep DEF SaveDump

LEMMA SaveSnapshotStep ==
    ASSUME Inv, NEW c \in Callers, SaveSnapshot(c) PROVE Inv'
<1> DEFINE r == [call[c] EXCEPT !.pc = "snapped", !.data.sched = sess.sched]
<1>1. CASE call' = [call EXCEPT ![c] = NoCall]
  BY <1>1, CallEnds DEF SaveSnapshot
<1>2. CASE call' = [call EXCEPT ![c] = r]
  <2> DEFINE d == call[c].data
             e == [d EXCEPT !.sched = sess.sched]
  <2>1. /\ call[c] \in Calls /\ CallGood(call[c], sess)
        /\ sess \in Good /\ call[c].pc = "dumped"
    BY CallFacts DEF SaveSnapshot
  <2>2. d \in Good
    BY <2>1 DEF CallGood
  <2>3. d \in Payloads /\ sess.sched \in Ids /\ d.tainted \in BOOLEAN
    BY <2>1, <2>2, GoodFields
  <2>4. e \in Good
    <3>1. e = [d EXCEPT !.sched = sess.sched, !.tainted = d.tainted]
      BY <2>3 DEF Payloads
    <3> HIDE DEF d, e
    <3> QED
      BY <2>2, <2>3, <3>1, GoodSched
  <2>5. SameSession(d, sess) => SameSession(e, sess)
    BY <2>3 DEF SameSession, Payloads
  <2>6. r = [call[c] EXCEPT !.pc = "snapped", !.data = e]
    OBVIOUS
  <2> HIDE DEF e, r
  <2>7. e \in Stored
    BY <2>4 DEF Stored
  <2>8. r \in Calls /\ r.pc = "snapped" /\ r.data = e /\ r.switched = call[c].switched
    BY <2>1, <2>6, <2>7 DEF Calls, Pcs
  <2>9. CallGood(r, sess)
    BY <2>1, <2>4, <2>5, <2>8 DEF CallGood
  <2> QED
    BY <1>2, <2>1, <2>8, <2>9, CallStep DEF SaveSnapshot
<1> QED
  BY <1>1, <1>2 DEF SaveSnapshot, Snapshot

LEMMA SaveKeyStep ==
    ASSUME Inv, NEW c \in Callers, SaveKey(c) PROVE Inv'
<1> DEFINE d == call[c].data
           b == d.tainted \/ call[c].switched
           e == [d EXCEPT !.tainted = b]
           r == [call[c] EXCEPT !.pc = "keyed", !.key = sess.id, !.data = e]
<1>1. /\ call[c] \in Calls /\ CallGood(call[c], sess)
      /\ sess \in Good /\ Belongs(sess, sess.id) /\ call[c].pc = "snapped"
  BY CallFacts DEF SaveKey
<1>2. d \in Good
  BY <1>1 DEF CallGood
<1>3. /\ d \in Payloads /\ sess.id \in Ids /\ d.sched \in Ids
      /\ d.tainted \in BOOLEAN /\ call[c].switched \in BOOLEAN
  BY <1>1, <1>2, GoodFields DEF Calls
<1>4. b \in BOOLEAN
  BY <1>3
<1>5. call' = [call EXCEPT ![c] = r]
  BY DEF SaveKey
<1> HIDE DEF r
<1>6. e \in Good
  <2>1. e = [d EXCEPT !.sched = d.sched, !.tainted = b]
    BY <1>3 DEF Payloads
  <2> HIDE DEF d, e, b
  <2> QED
    BY <1>2, <1>3, <1>4, <2>1, GoodSched
<1>7. e.sched = d.sched /\ e.id = d.id /\ e.tainted = b
  BY <1>3 DEF Payloads
<1> HIDE DEF e
<1>8. Belongs(e, sess.id)
  <2>1. CASE call[c].switched
    BY <1>7, <2>1 DEF Belongs
  <2>2. CASE ~call[c].switched
    <3>1. SameSession(d, sess)
      BY <1>1, <2>2 DEF CallGood
    <3> QED
      BY <1>1, <1>7, <3>1 DEF Belongs, SameSession
  <2> QED
    BY <2>1, <2>2
<1> HIDE DEF b
<1>9. sess.id \in 0..MaxIds /\ e \in Stored
  BY <1>3, <1>6, SessionAssumption DEF Ids, Stored
<1>10. r \in Calls /\ r.pc = "keyed" /\ r.data = e /\ r.key = sess.id
  BY <1>1, <1>9 DEF Calls, Pcs, r
<1>11. CallGood(r, sess)
  BY <1>3, <1>6, <1>8, <1>10 DEF CallGood
<1> QED
  BY <1>1, <1>5, <1>10, <1>11, CallStep DEF SaveKey

LEMMA StoreRefusesStep ==
    ASSUME Inv, NEW c \in Callers, StoreRefuses(c) PROVE Inv'
  BY CallEnds DEF StoreRefuses

LEMMA LoadRefusesStep ==
    ASSUME Inv, NEW c \in Callers, LoadRefuses(c) PROVE Inv'
  BY CallEnds DEF LoadRefuses

LEMMA LoadFromStorageStep ==
    ASSUME Inv, NEW c \in Callers, NEW i \in Ids, LoadFromStorage(c, i) PROVE Inv'
<1> DEFINE v == store[i]
           r == [NoCall EXCEPT !.pc = "read", !.data = v]
<1>1. v \in Stored /\ NoCall \in Calls /\ (Readable(v) => Belongs(v, i))
  BY NoCallGood DEF Inv, Contents
<1>2. Belongs(v, i) => Belongs(v, v.id)
  BY Zenon DEF Belongs
<1>3. call' = [call EXCEPT ![c] = r]
  BY DEF LoadFromStorage
<1> HIDE DEF v
<1>4. r \in Calls /\ r.pc = "read" /\ r.data = v
  BY <1>1 DEF Calls, Pcs
<1> HIDE DEF r
<1>5. CallGood(r, sess)
  BY <1>1, <1>2, <1>4 DEF CallGood
<1> QED
  BY <1>3, <1>4, <1>5, CallStep DEF LoadFromStorage

(* A call that is not c, after another session was loaded.                 *)
LEMMA SwitchedCall ==
    ASSUME NEW r \in Calls, NEW s, NEW n, CallGood(r, s)
    PROVE  LET q == [r EXCEPT !.switched = @ \/ r.pc \in {"dumped", "snapped"}]
           IN  q \in Calls /\ q.pc = r.pc /\ q.key = r.key /\ CallGood(q, n)
<1> DEFINE b == r.switched \/ r.pc \in {"dumped", "snapped"}
           q == [r EXCEPT !.switched = b]
<1>1. b \in BOOLEAN
  BY DEF Calls
<1>2. r.pc \in {"dumped", "snapped"} => b
  OBVIOUS
<1> HIDE DEF b
<1>3. q \in Calls /\ q.pc = r.pc /\ q.key = r.key /\ q.data = r.data /\ q.switched = b
  BY <1>1 DEF Calls
<1> HIDE DEF q
<1>4. CallGood(q, n)
  BY <1>2, <1>3 DEF CallGood
<1> QED
  BY <1>3, <1>4 DEF q, b

LEMMA LoadStep ==
    ASSUME Inv, NEW c \in Callers, Load(c) PROVE Inv'
<1> DEFINE d == call[c].data
<1>1. /\ call \in [Callers -> Calls] /\ call[c] \in Calls /\ CallGood(call[c], sess)
      /\ sess \in Good /\ created \in Ids /\ call[c].pc = "read" /\ Readable(d)
      /\ \A o \in Callers : CallGood(call[o], sess)
  BY CallFacts DEF Load, Loadable, Inv, Objects
<1>2. d \in Good /\ Belongs(d, d.id)
  <2>1. d \in Stored
    BY <1>1 DEF Calls
  <2> QED
    BY <1>1, <2>1, StoredKinds DEF CallGood
<1>3. d.sched \in Ids /\ d.tainted \in BOOLEAN /\ sess.sched \in Ids /\ d \in Payloads
  BY <1>1, <1>2, GoodFields
<1>4. PICK x \in Ids, b \in BOOLEAN :
        sess' = Loaded(d, x, b) /\ (b = TRUE \/ (x = d.sched /\ b = d.tainted))
  <2>1. CASE sess' = Loaded(d, d.sched, d.tainted)
    BY <1>3, <2>1, Zenon
  <2>2. CASE \E s \in {sess.sched, d.sched} : sess' = Loaded(d, s, TRUE)
    <3>1. PICK s \in {sess.sched, d.sched} : sess' = Loaded(d, s, TRUE)
      BY <2>2
    <3>2. s \in Ids
      BY <1>3, <3>1
    <3>3. TRUE \in BOOLEAN
      OBVIOUS
    <3> QED
      BY <3>1, <3>2, <3>3, Zenon
  <2> QED
    BY <2>1, <2>2 DEF Load, Restore
<1> HIDE DEF d
<1>5. sess' = [d EXCEPT !.sched = x, !.tainted = b]
  <2>1. sess' = Loaded(d, x, b)
    BY <1>4
  <2>2. \A y \in Ids, a \in BOOLEAN :
          Loaded(d, y, a) = [d EXCEPT !.sched = y, !.tainted = a]
    BY <1>2, GoodLoaded
  <2> QED
    BY <2>1, <2>2, Zenon
<1>6. sess' \in Good
  BY <1>2, <1>5, GoodSched
<1>7. sess'.id = d.id /\ sess'.sched = x /\ sess'.tainted = b
  BY <1>3, <1>5 DEF Payloads
<1>8. Belongs(sess', sess'.id)
  BY <1>2, <1>4, <1>7, Zenon DEF Belongs
<1>9. ASSUME NEW o \in Callers
      PROVE  /\ call'[o] \in Calls /\ CallGood(call'[o], sess')
             /\ call'[o].pc = "opened" <=> call[o].pc = "opened"
             /\ call[o].pc = "opened" => call'[o].key = call[o].key
  <2>1. CASE o = c
    <3>1. call'[o] = NoCall
      BY <2>1 DEF Load, Switch
    <3> QED
      BY <1>1, <1>6, <2>1, <3>1, NoCallGood
  <2>2. CASE o # c
    <3> DEFINE q == [call[o] EXCEPT !.switched = @ \/ call[o].pc \in {"dumped", "snapped"}]
    <3>1. call'[o] = q
      BY <2>2 DEF Load, Switch
    <3>2. call[o] \in Calls /\ CallGood(call[o], sess)
      BY <1>1
    <3>3. q \in Calls /\ q.pc = call[o].pc /\ q.key = call[o].key /\ CallGood(q, sess')
      BY <3>2, SwitchedCall
    <3> HIDE DEF q
    <3> QED
      BY <3>1, <3>3
  <2> QED
    BY <2>1, <2>2
<1>10. call' \in [Callers -> Calls]
  <2>1. \A o \in Callers : call'[o] \in Calls
    BY <1>9
  <2>2. call' = [o \in Callers |-> call'[o]]
    BY DEF Load, Switch
  <2> QED
    BY <2>1, <2>2
<1> QED
  BY <1>1, <1>6, <1>8, <1>9, <1>10, QuietStep DEF Load

-----------------------------------------------------------------------------
(* Steps that write to the store.                                          *)

LEMMA SQLiteSaveStep ==
    ASSUME Inv, NEW c \in Callers, SQLiteSave(c) PROVE Inv'
<1> DEFINE i == call[c].key
           d == call[c].data
<1>1. /\ call \in [Callers -> Calls] /\ CallGood(call[c], sess)
      /\ sess \in Good /\ created \in Ids /\ call[c].pc = "keyed" /\ kind = "sqlite"
      /\ Belongs(sess, sess.id) /\ \A o \in Callers : CallGood(call[o], sess)
  BY DEF SQLiteSave, Inv, Objects
<1>2. d \in Good /\ i \in Ids /\ Belongs(d, i)
  BY <1>1 DEF CallGood
<1>3. store' = [store EXCEPT ![i] = d] /\ store \in [Ids -> Stored]
  BY DEF SQLiteSave, Inv, Contents
<1>4. call' = [call EXCEPT ![c] = NoCall]
      /\ UNCHANGED <<kind, sess, created, spoiled>>
  BY DEF SQLiteSave
<1>5. \A o \in Callers : call'[o] = IF o = c THEN NoCall ELSE call[o]
  BY <1>1, <1>4
<1>6. \A o \in Callers : call[o].pc # "opened"
  BY <1>1, StoredKinds DEF Inv, Files, Opened
<1>7. Objects'
  <2>1. call' \in [Callers -> Calls] /\ \A o \in Callers : CallGood(call'[o], sess)
    BY <1>1, <1>4, <1>5, NoCallGood
  <2> QED
    BY <1>1, <1>4, <2>1 DEF Objects
<1> HIDE DEF i, d
<1>8. Contents'
  <2>1. store' \in [Ids -> Stored]
    BY <1>2, <1>3 DEF Stored
  <2>2. \A j \in Ids : Readable(store[j]) => Belongs(store[j], j)
    BY DEF Inv, Contents
  <2> QED
    BY <1>2, <1>3, <2>1, <2>2 DEF Contents
<1>9. Files'
  BY <1>5, <1>6, NoCallGood DEF Files, Opened
<1>10. CutOnly'
  <2>1. \A j \in Ids : store[j] \notin {Partial, Mixed}
    BY <1>1 DEF Inv, CutOnly
  <2>2. \A j \in Ids : store'[j] \notin {Partial, Mixed}
    BY <1>2, <1>3, <2>1, StoredKinds
  <2> QED
    BY <2>2 DEF CutOnly
<1> QED
  BY <1>7, <1>8, <1>9, <1>10 DEF Inv

LEMMA FileOpenStep ==
    ASSUME Inv, NEW c \in Callers, FileOpen(c) PROVE Inv'
<1> DEFINE i == call[c].key
           r == [call[c] EXCEPT !.pc = "opened"]
<1>1. /\ call \in [Callers -> Calls] /\ call[c] \in Calls /\ CallGood(call[c], sess)
      /\ sess \in Good /\ created \in Ids /\ call[c].pc = "keyed" /\ kind = "file"
      /\ Belongs(sess, sess.id) /\ \A o \in Callers : CallGood(call[o], sess)
  BY DEF FileOpen, Inv, Objects
<1>2. i \in Ids
  BY <1>1 DEF CallGood
<1>3. /\ store' = [store EXCEPT ![i] = Partial] /\ store \in [Ids -> Stored]
      /\ spoiled' = IF Writing(i) = {} THEN spoiled \ {i} ELSE spoiled \cup {i}
  BY DEF FileOpen, Inv, Contents
<1>4. call' = [call EXCEPT ![c] = r] /\ UNCHANGED <<kind, sess, created>>
  BY DEF FileOpen
<1>5. r \in Calls /\ r.pc = "opened" /\ r.key = i /\ r.data = call[c].data
  BY <1>1 DEF Calls, Pcs
<1> HIDE DEF r
<1>6. \A o \in Callers : call'[o] = IF o = c THEN r ELSE call[o]
  BY <1>1, <1>4
<1>7. Objects'
  <2>1. CallGood(r, sess)
    BY <1>1, <1>5 DEF CallGood
  <2>2. call' \in [Callers -> Calls] /\ \A o \in Callers : CallGood(call'[o], sess)
    BY <1>1, <1>4, <1>5, <1>6, <2>1
  <2> QED
    BY <1>1, <1>4, <2>2 DEF Objects
<1>8. Contents'
  <2>1. store' \in [Ids -> Stored]
    BY <1>3 DEF Stored
  <2>2. \A j \in Ids : Readable(store[j]) => Belongs(store[j], j)
    BY DEF Inv, Contents
  <2> HIDE DEF i
  <2> QED
    BY <1>2, <1>3, <2>1, <2>2, StoredKinds DEF Contents
<1>9. ASSUME NEW o \in Callers, o # c, call[o].pc = "opened", call[o].key = i
      PROVE  i \in spoiled'
  <2>1. o \in Writing(i)
    BY <1>9 DEF Writing
  <2> QED
    BY <1>3, <2>1
<1>10. \A j \in Ids : j # i => (j \in spoiled' <=> j \in spoiled) /\ store'[j] = store[j]
  <2> HIDE DEF i
  <2> QED
    BY <1>3
<1>11. store'[i] = Partial
  BY <1>2, <1>3
<1>12. Files'
  <2> SUFFICES ASSUME NEW o \in Callers, Opened(o)'
               PROVE  /\ kind' = "file"
                      /\ store'[call'[o].key] = Partial \/ call'[o].key \in spoiled'
                      /\ \A p \in Callers :
                            /\ Opened(p)' /\ p # o /\ call'[p].key = call'[o].key
                            => call'[o].key \in spoiled'
    BY DEF Files
  <2>1. CASE o = c
    <3>1. call'[o].key = i
      BY <1>5, <1>6, <2>1
    <3>2. ASSUME NEW p \in Callers, Opened(p)', p # o, call'[p].key = i
          PROVE  i \in spoiled'
      BY <1>6, <1>9, <2>1, <3>2 DEF Opened
    <3> QED
      BY <1>1, <1>4, <1>11, <3>1, <3>2
  <2>2. CASE o # c
    <3>1. call'[o] = call[o] /\ call[o].pc = "opened" /\ call[o].key \in Ids
      BY <1>1, <1>6, <2>2 DEF Opened, CallGood
    <3>2. CASE call[o].key = i
      BY <1>1, <1>4, <1>9, <1>11, <2>2, <3>1, <3>2
    <3>3. CASE call[o].key # i
      <4>1. /\ store[call[o].key] = Partial \/ call[o].key \in spoiled
            /\ \A p \in Callers : Opened(p) /\ p # o /\ call[p].key = call[o].key
                                  => call[o].key \in spoiled
        BY <3>1 DEF Inv, Files, Opened
      <4>2. \A p \in Callers : Opened(p)' /\ call'[p].key = call[o].key
                               => Opened(p) /\ call[p].key = call[o].key
        BY <1>5, <1>6, <3>3 DEF Opened
      <4> QED
        BY <1>1, <1>4, <1>10, <3>1, <3>3, <4>1, <4>2
    <3> QED
      BY <3>2, <3>3
  <2> QED
    BY <2>1, <2>2
<1>13. CutOnly'
  <2> SUFFICES ASSUME NEW j \in Ids, store'[j] \in {Partial, Mixed}
               PROVE  kind' = "file" /\ (Writing(j)' # {} \/ j \in spoiled')
    BY DEF CutOnly
  <2>1. CASE j = i
    <3>1. c \in Writing(j)'
      BY <1>5, <1>6, <2>1 DEF Writing
    <3> QED
      BY <1>1, <1>4, <2>1, <3>1
  <2>2. CASE j # i
    <3>1. \A o \in Callers : /\ call'[o].pc = "opened" /\ call'[o].key = j
                             <=> call[o].pc = "opened" /\ call[o].key = j
      BY <1>1, <1>5, <1>6, <2>2
    <3>2. Writing(j)' = Writing(j)
      BY <3>1 DEF Writing
    <3> QED
      BY <1>4, <1>10, <2>2, <3>2 DEF Inv, CutOnly
  <2> QED
    BY <2>1, <2>2
<1> QED
  BY <1>7, <1>8, <1>12, <1>13 DEF Inv

(* The end of a write: c leaves v in the file of its key.                  *)
LEMMA WriteEnds ==
    ASSUME Inv, NEW c \in Callers, NEW i \in Ids, NEW v \in Stored,
           call[c].pc = "opened", call[c].key = i,
           Readable(v) => Belongs(v, i),
           store' = [store EXCEPT ![i] = v], call' = [call EXCEPT ![c] = NoCall],
           spoiled' \in {spoiled, spoiled \cup {i}}, Readable(v) \/ i \in spoiled',
           UNCHANGED <<kind, sess, created>>
    PROVE  Inv'
<1>1. /\ call \in [Callers -> Calls] /\ sess \in Good /\ created \in Ids
      /\ kind \in {"file", "sqlite"} /\ store \in [Ids -> Stored]
      /\ Belongs(sess, sess.id) /\ \A o \in Callers : CallGood(call[o], sess)
  BY DEF Inv, Objects, Contents
<1>2. \A o \in Callers : call'[o] = IF o = c THEN NoCall ELSE call[o]
  BY <1>1
<1>3. Objects'
  <2>1. call' \in [Callers -> Calls] /\ \A o \in Callers : CallGood(call'[o], sess)
    BY <1>1, <1>2, NoCallGood
  <2> QED
    BY <1>1, <2>1 DEF Objects
<1>4. Contents'
  <2>1. store' \in [Ids -> Stored]
    BY <1>1
  <2>2. \A j \in Ids : Readable(store[j]) => Belongs(store[j], j)
    BY DEF Inv, Contents
  <2> QED
    BY <1>1, <2>1, <2>2 DEF Contents
<1>5. kind = "file" /\ \A o \in Callers : Opened(o) /\ o # c /\ call[o].key = i => i \in spoiled
  BY DEF Inv, Files, Opened
<1>6. ASSUME NEW o \in Callers
      PROVE  Opened(o)' <=> Opened(o) /\ o # c
  BY <1>2, NoCallGood DEF Opened
<1>7. Files'
  <2> SUFFICES ASSUME NEW o \in Callers, Opened(o)'
               PROVE  /\ kind' = "file"
                      /\ store'[call'[o].key] = Partial \/ call'[o].key \in spoiled'
                      /\ \A p \in Callers :
                            /\ Opened(p)' /\ p # o /\ call'[p].key = call'[o].key
                            => call'[o].key \in spoiled'
    BY DEF Files
  <2>1. o # c /\ Opened(o) /\ call'[o] = call[o]
    BY <1>2, <1>6
  <2>2. CASE call[o].key = i
    BY <1>5, <2>1, <2>2
  <2>3. CASE call[o].key # i
    <3>1. /\ store[call[o].key] = Partial \/ call[o].key \in spoiled
          /\ \A p \in Callers : Opened(p) /\ p # o /\ call[p].key = call[o].key
                                => call[o].key \in spoiled
      BY <2>1 DEF Inv, Files
    <3>2. \A p \in Callers : Opened(p)' => Opened(p) /\ call'[p] = call[p]
      BY <1>2, <1>6
    <3>3. store'[call[o].key] = store[call[o].key] \/ call[o].key \notin Ids
      BY <1>1, <2>3
    <3>4. call[o].key \in Ids
      BY <1>1, <2>1 DEF Opened, CallGood
    <3> QED
      BY <1>5, <2>1, <3>1, <3>2, <3>3, <3>4
  <2> QED
    BY <2>2, <2>3
<1>8. CutOnly'
  <2> SUFFICES ASSUME NEW j \in Ids, store'[j] \in {Partial, Mixed}
               PROVE  kind' = "file" /\ (Writing(j)' # {} \/ j \in spoiled')
    BY DEF CutOnly
  <2>1. CASE j = i
    BY <1>1, <1>5, <2>1, StoredKinds
  <2>2. CASE j # i
    <3>1. Writing(j)' = Writing(j)
      BY <1>1, <1>2, <2>2, NoCallGood DEF Writing
    <3>2. store'[j] = store[j]
      BY <1>1, <2>2
    <3> QED
      BY <3>1, <3>2 DEF Inv, CutOnly
  <2> QED
    BY <2>1, <2>2
<1> QED
  BY <1>3, <1>4, <1>7, <1>8 DEF Inv

LEMMA FileWriteStep ==
    ASSUME Inv, NEW c \in Callers, FileWrite(c) PROVE Inv'
<1>1. call[c] \in Calls /\ CallGood(call[c], sess) /\ call[c].pc = "opened"
  BY CallFacts DEF FileWrite
<1>2. call[c].data \in Good /\ call[c].key \in Ids /\ Belongs(call[c].data, call[c].key)
  BY <1>1 DEF CallGood
<1>3. PICK i \in Ids : i = call[c].key
  BY <1>2
<1>4. PICK d \in Good : d = call[c].data
  BY <1>2
<1>5. Belongs(d, i) /\ Readable(d) /\ {d, Partial, Mixed} \subseteq Stored
  BY <1>2, <1>3, <1>4, StoredKinds DEF Stored
<1>6. store[i] = Partial \/ i \in spoiled
  BY <1>1, <1>3 DEF Inv, Files, Opened
<1>7. store \in [Ids -> Stored]
  BY DEF Inv, Contents
<1>8. PICK v \in {d, Partial, Mixed} :
        /\ store' = [store EXCEPT ![i] = v]
        /\ v # d => v \in {Partial, Mixed} /\ i \in spoiled'
        /\ spoiled' \in {spoiled, spoiled \cup {i}}
  <2>1. CASE /\ \E e \in {d} \cup (IF store[i] = Partial THEN {} ELSE {Mixed}) :
                  store' = [store EXCEPT ![i] = e]
             /\ UNCHANGED spoiled
    <3>1. PICK e \in {d} \cup (IF store[i] = Partial THEN {} ELSE {Mixed}) :
            store' = [store EXCEPT ![i] = e]
      BY <2>1
    <3> QED
      BY <1>6, <2>1, <3>1
  <2>2. CASE /\ store' = [store EXCEPT ![i] = IF @ = Partial THEN @ ELSE Mixed]
             /\ spoiled' = spoiled \cup {i}
    <3> DEFINE v == IF store[i] = Partial THEN Partial ELSE Mixed
    <3>1. store' = [store EXCEPT ![i] = v]
      BY <1>7, <2>2
    <3>2. v \in {Partial, Mixed}
      OBVIOUS
    <3> HIDE DEF v
    <3> QED
      BY <2>2, <3>1, <3>2
  <2> QED
    BY <1>3, <1>4, <2>1, <2>2 DEF FileWrite
<1>9. v \in Stored /\ (Readable(v) => Belongs(v, i)) /\ (Readable(v) \/ i \in spoiled')
  BY <1>5, <1>8, StoredKinds
<1>10. call' = [call EXCEPT ![c] = NoCall] /\ UNCHANGED <<kind, sess, created>>
  BY DEF FileWrite
<1> QED
  BY <1>1, <1>3, <1>8, <1>9, <1>10, WriteEnds

LEMMA CrashStep == ASSUME Inv, Crash PROVE Inv'
<1>1. created + 1 \in Ids
  BY SessionAssumption DEF Inv, Objects, Crash, Ids
<1>2. created' = created + 1 /\ sess' = NewSession(created + 1) /\ UNCHANGED <<kind, store>>
  BY DEF Crash
<1>3. call' = [c \in Callers |-> NoCall]
  BY DEF Crash
<1>4. Objects'
  <2>1. sess' \in Good /\ Belongs(sess', sess'.id)
    BY <1>1, <1>2, NewSessionGood
  <2>2. kind \in {"file", "sqlite"}
    BY DEF Inv, Objects
  <2> QED
    BY <1>1, <1>2, <1>3, <2>1, <2>2, NoCallGood DEF Objects
<1>5. Contents'
  BY <1>2 DEF Inv, Contents
<1>6. Files'
  BY <1>3, NoCallGood DEF Files, Opened
<1>7. CutOnly'
  <2> SUFFICES ASSUME NEW i \in Ids, store[i] \in {Partial, Mixed}
               PROVE  kind = "file" /\ i \in spoiled'
    BY <1>2 DEF CutOnly
  <2>1. kind = "file" /\ (Writing(i) # {} \/ i \in spoiled)
    BY DEF Inv, CutOnly
  <2> QED
    BY <2>1 DEF Crash
<1> QED
  BY <1>4, <1>5, <1>6, <1>7 DEF Inv

LEMMA StutterStep == ASSUME Inv, UNCHANGED vars PROVE Inv'
<1>1. UNCHANGED <<kind, sess, created, store, call, spoiled>>
  BY DEF vars
<1>2. \A i \in Ids : Writing(i)' = Writing(i)
  BY <1>1 DEF Writing
<1> QED
  BY <1>1, <1>2 DEF Inv, Objects, Contents, Files, Opened, CutOnly

LEMMA NextInv == Inv /\ [Next]_vars => Inv'
<1> SUFFICES ASSUME Inv, [Next]_vars PROVE Inv'
  OBVIOUS
<1>1. CASE Crash
  BY <1>1, CrashStep
<1>2. ASSUME NEW c \in Callers, CallerStep(c) PROVE Inv'
  <2>1. ASSUME NEW m \in Messages, AddMessage(c, m) PROVE Inv'
    BY <2>1, AddMessageStep
  <2>2. CASE NewConversation(c)
    BY <2>2, NewConversationStep
  <2>3. CASE SaveDump(c)
    BY <2>3, SaveDumpStep
  <2>4. CASE SaveSnapshot(c)
    BY <2>4, SaveSnapshotStep
  <2>5. CASE SaveKey(c)
    BY <2>5, SaveKeyStep
  <2>6. CASE StoreRefuses(c)
    BY <2>6, StoreRefusesStep
  <2>7. CASE FileOpen(c)
    BY <2>7, FileOpenStep
  <2>8. CASE FileWrite(c)
    BY <2>8, FileWriteStep
  <2>9. CASE SQLiteSave(c)
    BY <2>9, SQLiteSaveStep
  <2>10. ASSUME NEW i \in Ids, LoadFromStorage(c, i) PROVE Inv'
    BY <2>10, LoadFromStorageStep
  <2>11. CASE LoadRefuses(c)
    BY <2>11, LoadRefusesStep
  <2>12. CASE Load(c)
    BY <2>12, LoadStep
  <2> QED
    BY <1>2, <2>1, <2>2, <2>3, <2>4, <2>5, <2>6, <2>7, <2>8, <2>9, <2>10, <2>11, <2>12
    DEF CallerStep
<1>3. CASE UNCHANGED vars
  BY <1>3, StutterStep
<1> QED
  BY <1>1, <1>2, <1>3 DEF Next

-----------------------------------------------------------------------------
(* Append, trim, Dump and Load, across saves, loads and restarts, keep of  *)
(* a conversation its longest end that fits the token budget, in the       *)
(* session and in every payload in the store, whatever the budget and the  *)
(* tokenizer are.                                                          *)
THEOREM HistoryHolds == Spec => []HistoryIsWindow
<1>1. Inv => HistoryIsWindow
  <2> SUFFICES ASSUME Inv,
                      NEW d \in {sess} \cup {store[i] : i \in {j \in Ids : Readable(store[j])}},
                      d.log # <<>>
               PROVE  d.hist = Window(d.log)
    BY DEF HistoryIsWindow
  <2>1. sess \in Good /\ store \in [Ids -> Stored]
    BY DEF Inv, Objects, Contents
  <2>2. \A j \in Ids : Readable(store[j]) => store[j] \in Good
    BY <2>1, StoredKinds
  <2>3. d \in Good
    BY <2>1, <2>2
  <2> QED
    BY <2>3, GoodFields
<1> QED
  BY <1>1, InitInv, NextInv, PTL DEF Spec

(* What the store holds under an id is the state of that session, with its *)
(* scheduler state, unless Save was overtaken by a Load between its        *)
(* critical sections or a Load failed in Restore.                          *)
THEOREM StoredHolds == Spec => []StoredCoherently
<1>1. Inv => StoredCoherently
  BY DEF Inv, Contents, StoredCoherently, Belongs
<1> QED
  BY <1>1, InitInv, NextInv, PTL DEF Spec

(* Load refuses what is stored under an id only when its session was made  *)
(* for a blank user, when Save stored another session there, or, in a      *)
(* FileStore, while the file is being written or after a write of it was   *)
(* cut off or overlapped.                                                  *)
THEOREM UnloadableHolds == Spec => []UnloadableOnlyBy
<1>1. Inv => UnloadableOnlyBy
  <2> SUFFICES ASSUME Inv, NEW i \in Ids, store[i] # None, ~Loadable(store[i])
               PROVE  IF Readable(store[i])
                      THEN UserID[i] = Blank \/ store[i].tainted
                      ELSE kind = "file" /\ (Writing(i) # {} \/ i \in spoiled)
    BY DEF UnloadableOnlyBy
  <2>1. CASE Readable(store[i])
    <3>1. Belongs(store[i], i)
      BY <2>1 DEF Inv, Contents
    <3> QED
      BY <2>1, <3>1 DEF Loadable, Belongs
  <2>2. CASE ~Readable(store[i])
    <3>1. store[i] \in {Partial, Mixed}
      BY <2>2 DEF Readable
    <3> QED
      BY <2>2, <3>1 DEF Inv, CutOnly
  <2> QED
    BY <2>1, <2>2
<1> QED
  BY <1>1, InitInv, NextInv, PTL DEF Spec
==============================================================================
