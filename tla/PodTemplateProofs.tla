-------------------------- MODULE PodTemplateProofs --------------------------
(***************************************************************************)
(* What the list operators of PodTemplate compute, for lists of any        *)
(* length, and what follows for the mounts and the environment of the      *)
(* container, for every override.                                          *)
(***************************************************************************)
EXTENDS PodTemplate, NaturalsInduction, WellFoundedInduction, SequenceTheorems, TLAPS

(***************************************************************************)
(* Induction with a set in place of a predicate, which the provers can     *)
(* instantiate: a set of numbers without a least one is empty.             *)
(***************************************************************************)
LEMMA NatSetInduction ==
    ASSUME NEW S, 0 \in S, \A n \in Nat : n \in S => n + 1 \in S
    PROVE  Nat \subseteq S
<1> DEFINE T == Nat \ S
           R == OpToRel(<, Nat)
<1> SUFFICES ASSUME T # {} PROVE FALSE
  OBVIOUS
<1>1. IsWellFoundedOn(R, Nat)
  BY NatLessThanWellFounded
<1>2. \A x \in Nat, y \in Nat : y < x => <<y, x>> \in R
  BY DEF OpToRel
<1>3. T \subseteq Nat
  OBVIOUS
<1> HIDE DEF R, T
<1>4. PICK x \in T : \A y \in T : ~(<<y, x>> \in R)
  BY <1>1, <1>3, WFMin
<1> USE DEF T
<1>5. x # 0 /\ x - 1 \in Nat /\ x - 1 < x
  OBVIOUS
<1>6. x - 1 \in S
  BY <1>2, <1>4, <1>5
<1>. QED  BY <1>5, <1>6

LEMMA UpTo ==
    ASSUME NEW n \in Nat, NEW S, 0 \in S, \A i \in 1..n : i - 1 \in S => i \in S
    PROVE  0..n \subseteq S
<1> DEFINE T == {k \in Nat : k <= n => k \in S}
<1>1. 0 \in T
  OBVIOUS
<1>2. \A k \in Nat : k \in T => k + 1 \in T
  <2> SUFFICES ASSUME NEW k \in Nat, k \in T, k + 1 <= n PROVE k + 1 \in S
    OBVIOUS
  <2>1. k + 1 \in 1..n /\ (k + 1) - 1 = k /\ k \in S
    OBVIOUS
  <2>. QED  BY <2>1
<1> HIDE DEF T
<1>3. Nat \subseteq T
  BY <1>1, <1>2, NatSetInduction
<1>. QED  BY <1>3 DEF T

(***************************************************************************)
(* A loop of n steps has a result after each of them: f starts at a, and   *)
(* F takes the value before step i to the value after it.                  *)
(***************************************************************************)
Iterates(f, n, A, a, F) ==
    f \in [0..n -> A] /\ f[0] = a /\ \A i \in 1..n : f[i] = F[<<f[i - 1], i>>]

LEMMA Iteration ==
    ASSUME NEW n \in Nat, NEW A, NEW a \in A, NEW F \in [A \X (1..n) -> A]
    PROVE  \E f : Iterates(f, n, A, a, F)
<1> DEFINE Good(m, f) == f[0] = a /\ \A i \in 1..m : f[i] = F[<<f[i - 1], i>>]
           S == {m \in 0..n : \E f \in [0..m -> A] : Good(m, f)}
<1>1. 0 \in S
  <2> DEFINE f == [i \in 0..0 |-> a]
  <2>1. f \in [0..0 -> A] /\ Good(0, f) /\ 0 \in 0..n
    OBVIOUS
  <2> HIDE DEF f, Good
  <2>. QED  BY <2>1
<1>2. \A i \in 1..n : i - 1 \in S => i \in S
  <2> SUFFICES ASSUME NEW i \in 1..n, i - 1 \in S PROVE i \in S
    OBVIOUS
  <2>1. PICK f \in [0..i - 1 -> A] : Good(i - 1, f)
    OBVIOUS
  <2> DEFINE g == [k \in 0..i |-> IF k = i THEN F[<<f[i - 1], i>>] ELSE f[k]]
  <2>2. f[i - 1] \in A
    OBVIOUS
  <2>3. F[<<f[i - 1], i>>] \in A
    BY <2>2
  <2>4. g \in [0..i -> A]
    BY <2>3
  <2>5. g[0] = a
    BY <2>1
  <2>6. \A k \in 1..i : g[k] = F[<<g[k - 1], k>>]
    <3> SUFFICES ASSUME NEW k \in 1..i PROVE g[k] = F[<<g[k - 1], k>>]
      OBVIOUS
    <3>1. g[k - 1] = f[k - 1]
      OBVIOUS
    <3>2. CASE k = i
      <4>1. g[i] = F[<<f[i - 1], i>>]
        OBVIOUS
      <4> HIDE DEF g
      <4>. QED  BY <3>1, <3>2, <4>1
    <3>3. CASE k < i
      <4>1. g[k] = f[k] /\ k \in 1..i - 1
        BY <3>3
      <4>. QED  BY <3>1, <4>1, <2>1
    <3>. QED  BY <3>2, <3>3
  <2>7. Good(i, g)
    BY <2>5, <2>6
  <2> HIDE DEF g, Good
  <2>. QED  BY <2>4, <2>7
<1> HIDE DEF S
<1>3. n \in S
  BY <1>1, <1>2, UpTo
<1>. QED  BY <1>3 DEF S, Iterates

\* Every function that goes like the loop has the type of the loop.
LEMMA LoopType ==
    ASSUME NEW n \in Nat, NEW A, NEW g, DOMAIN g = 0..n, g = [i \in 0..n |-> g[i]],
           g[0] \in A, \A i \in 1..n : g[i - 1] \in A => g[i] \in A
    PROVE  g \in [0..n -> A]
<1> DEFINE S == {i \in 0..n : g[i] \in A}
<1>1. 0 \in S /\ \A i \in 1..n : i - 1 \in S => i \in S
  OBVIOUS
<1>2. 0..n \subseteq S
  <2> HIDE DEF S
  <2>. QED  BY <1>1, UpTo
<1>. QED  BY <1>2

LEMMA AppendElements ==
    ASSUME NEW E, NEW list \in Seq(E), NEW e \in E
    PROVE  ToSet(Append(list, e)) = ToSet(list) \cup {e}
<1> DEFINE l == Append(list, e)
           n == Len(list)
<1>1. n \in Nat /\ DOMAIN list = 1..n /\ DOMAIN l = 1..n + 1
  OBVIOUS
<1>2. l[n + 1] = e /\ \A i \in 1..n : l[i] = list[i]
  OBVIOUS
<1> HIDE DEF l, n
<1>. QED  BY <1>1, <1>2 DEF ToSet, l, n

-----------------------------------------------------------------------------
(* Filter. *)

Filters(kept, E, list, T) ==
    /\ kept \in [0..Len(list) -> Seq(E)] /\ kept[0] = <<>>
    /\ \A i \in 1..Len(list) :
          kept[i] = IF list[i] \in T THEN Append(kept[i - 1], list[i]) ELSE kept[i - 1]
    /\ Filter(list, T) = kept[Len(list)]

LEMMA FilterLoop ==
    ASSUME NEW E, NEW list \in Seq(E), NEW T
    PROVE  \E kept : Filters(kept, E, list, T)
<1> DEFINE n == Len(list)
           A == Seq(E)
           a == <<>>
           Step(q, i) == IF list[i] \in T THEN Append(q, list[i]) ELSE q
           F == [p \in A \X (1..n) |-> Step(p[1], p[2])]
           kept[i \in 0..Len(list)] ==
               IF i = 0 THEN <<>>
               ELSE IF list[i] \in T THEN Append(kept[i - 1], list[i]) ELSE kept[i - 1]
<1>1. n \in Nat /\ a \in A
  OBVIOUS
<1>2. \A q \in A, i \in 1..n : Step(q, i) \in A
  OBVIOUS
<1>3. Filter(list, T) = kept[n]
  BY DEF Filter
<1>4. \A f : f = [i \in 0..n |-> IF i = 0 THEN a ELSE Step(f[i - 1], i)] =>
             kept = [i \in 0..n |-> IF i = 0 THEN a ELSE Step(kept[i - 1], i)]
  BY Zenon
<1> HIDE DEF n, A, a, Step, kept
<1>5. F \in [A \X (1..n) -> A]
  BY <1>2
<1>6. \A q \in A, i \in 1..n : F[<<q, i>>] = Step(q, i)
  BY <1>2
<1> HIDE DEF F
<1>7. PICK f : Iterates(f, n, A, a, F)
  BY <1>1, <1>5, Iteration
<1>8. f \in [0..n -> A] /\ f[0] = a /\ \A i \in 1..n : f[i] = F[<<f[i - 1], i>>]
  BY <1>7 DEF Iterates
<1>9. \A i \in 1..n : i - 1 \in 0..n /\ f[i - 1] \in A
  BY <1>1, <1>8
<1>10. \A i \in 1..n : f[i] = Step(f[i - 1], i)
  BY <1>6, <1>8, <1>9
<1>11. f = [i \in 0..n |-> IF i = 0 THEN a ELSE Step(f[i - 1], i)]
  BY <1>1, <1>8, <1>10
<1>12. kept = [i \in 0..n |-> IF i = 0 THEN a ELSE Step(kept[i - 1], i)]
  BY <1>4, <1>11
<1>13. kept[0] = a /\ \A i \in 1..n : kept[i] = Step(kept[i - 1], i)
  BY <1>1, <1>12
<1>14. kept \in [0..n -> A]
  <2>1. DOMAIN kept = 0..n /\ kept = [i \in 0..n |-> kept[i]]
    BY <1>12
  <2>2. kept[0] \in A /\ \A i \in 1..n : kept[i - 1] \in A => kept[i] \in A
    BY <1>1, <1>2, <1>13
  <2>. QED  BY <1>1, <2>1, <2>2, LoopType
<1>. QED  BY <1>3, <1>13, <1>14 DEF n, A, a, Step, Filters

\* What is kept is in the order it had: from[k] is where the k-th came from.
LEMMA FilterKeepsOrder ==
    ASSUME NEW E, NEW list \in Seq(E), NEW T
    PROVE  /\ Filter(list, T) \in Seq(E)
           /\ \E from \in [1..Len(Filter(list, T)) -> 1..Len(list)] :
                /\ \A k \in 1..Len(Filter(list, T)) : Filter(list, T)[k] = list[from[k]]
                /\ \A k, l \in 1..Len(Filter(list, T)) : k < l => from[k] < from[l]
<1> DEFINE n == Len(list)
<1>0. PICK kept : Filters(kept, E, list, T)
  BY FilterLoop
<1>1. /\ \A i \in 0..n : kept[i] \in Seq(E)
      /\ kept[0] = <<>>
      /\ \A i \in 1..n :
            kept[i] = IF list[i] \in T THEN Append(kept[i - 1], list[i]) ELSE kept[i - 1]
      /\ Filter(list, T) = kept[n]
  BY <1>0 DEF Filters
<1> DEFINE Good(i, from) == /\ \A k \in 1..Len(kept[i]) : kept[i][k] = list[from[k]]
                            /\ \A k, l \in 1..Len(kept[i]) : k < l => from[k] < from[l]
           S == {i \in 0..n : \E from \in [1..Len(kept[i]) -> 1..i] : Good(i, from)}
<1>2. n \in Nat
  OBVIOUS
<1>3. 0 \in S
  <2> DEFINE from == [k \in 1..0 |-> k]
  <2>1. Len(kept[0]) = 0 /\ 0 \in 0..n
    BY <1>1
  <2>2. from \in [1..Len(kept[0]) -> 1..0] /\ Good(0, from)
    BY <2>1
  <2> HIDE DEF from, Good
  <2>. QED  BY <2>1, <2>2
<1>4. \A i \in 1..n : i - 1 \in S => i \in S
  <2> SUFFICES ASSUME NEW i \in 1..n, i - 1 \in S PROVE i \in S
    OBVIOUS
  <2>1. PICK from \in [1..Len(kept[i - 1]) -> 1..i - 1] : Good(i - 1, from)
    OBVIOUS
  <2>2. kept[i - 1] \in Seq(E) /\ list[i] \in E
    <3>1. i - 1 \in 0..n
      BY <1>2
    <3>. QED  BY <1>1, <3>1
  <2>3. CASE list[i] \notin T
    <3>1. kept[i] = kept[i - 1]
      BY <1>1, <2>3
    <3>2. from \in [1..Len(kept[i]) -> 1..i] /\ Good(i, from)
      BY <2>1, <3>1
    <3> HIDE DEF Good
    <3>. QED  BY <3>2
  <2>4. CASE list[i] \in T
    <3> DEFINE c == Len(kept[i - 1]) + 1
               next == [k \in 1..c |-> IF k = c THEN i ELSE from[k]]
    <3>1. kept[i] = Append(kept[i - 1], list[i])
      BY <1>1, <2>4
    <3>2. /\ Len(kept[i]) = c /\ kept[i][c] = list[i] /\ c \in Nat
          /\ \A k \in 1..c - 1 : kept[i][k] = kept[i - 1][k]
      BY <2>2, <3>1
    <3>3. next \in [1..Len(kept[i]) -> 1..i]
      BY <3>2
    <3>4. \A k \in 1..c : kept[i][k] = list[next[k]]
      <4> SUFFICES ASSUME NEW k \in 1..c PROVE kept[i][k] = list[next[k]]
        OBVIOUS
      <4>1. CASE k = c
        BY <3>2, <4>1
      <4>2. CASE k # c
        <5>1. k \in 1..Len(kept[i - 1]) /\ k \in 1..c - 1 /\ next[k] = from[k]
          BY <2>2, <4>2
        <5>. QED  BY <2>1, <3>2, <5>1
      <4>. QED  BY <4>1, <4>2
    <3>5. \A k, l \in 1..c : k < l => next[k] < next[l]
      <4> SUFFICES ASSUME NEW k \in 1..c, NEW l \in 1..c, k < l PROVE next[k] < next[l]
        OBVIOUS
      <4>0. k # c /\ k \in 1..Len(kept[i - 1])
        BY <3>2
      <4>1. k \in 1..Len(kept[i - 1]) /\ next[k] = from[k] /\ from[k] \in 1..i - 1
        BY <4>0
      <4>2. CASE l = c
        BY <4>1, <4>2
      <4>3. CASE l # c
        <5>1. l \in 1..Len(kept[i - 1]) /\ next[l] = from[l]
          BY <2>2, <4>3
        <5>. QED  BY <2>1, <4>1, <5>1
      <4>. QED  BY <4>2, <4>3
    <3>6. Good(i, next)
      BY <3>2, <3>4, <3>5
    <3> HIDE DEF Good, next
    <3>. QED  BY <3>3, <3>6
  <2>. QED  BY <2>3, <2>4
<1>5. n \in S
  <2> HIDE DEF S, n
  <2>1. 0..n \subseteq S
    BY <1>2, <1>3, <1>4, UpTo
  <2>. QED  BY <1>2, <2>1
<1>. QED  BY <1>1, <1>5

LEMMA FilterElements ==
    ASSUME NEW E, NEW list \in Seq(E), NEW T
    PROVE  Filter(list, T) \in Seq(E) /\ ToSet(Filter(list, T)) = ToSet(list) \cap T
<1> DEFINE n == Len(list)
<1>0. PICK kept : Filters(kept, E, list, T)
  BY FilterLoop
<1>1. /\ \A i \in 0..n : kept[i] \in Seq(E)
      /\ kept[0] = <<>>
      /\ \A i \in 1..n :
            kept[i] = IF list[i] \in T THEN Append(kept[i - 1], list[i]) ELSE kept[i - 1]
      /\ Filter(list, T) = kept[n]
  BY <1>0 DEF Filters
<1> DEFINE S == {i \in 0..n : ToSet(kept[i]) = {list[k] : k \in 1..i} \cap T}
<1>2. n \in Nat
  OBVIOUS
<1>3. 0 \in S
  BY <1>1 DEF ToSet
<1>4. \A i \in 1..n : i - 1 \in S => i \in S
  <2> SUFFICES ASSUME NEW i \in 1..n, i - 1 \in S PROVE i \in S
    OBVIOUS
  <2>1. kept[i - 1] \in Seq(E) /\ list[i] \in E
    <3>1. i - 1 \in 0..n
      BY <1>2
    <3>. QED  BY <1>1, <3>1
  <2>2. ToSet(Append(kept[i - 1], list[i])) = ToSet(kept[i - 1]) \cup {list[i]}
    BY <2>1, AppendElements
  <2>3. {list[k] : k \in 1..i} = {list[k] : k \in 1..i - 1} \cup {list[i]}
    OBVIOUS
  <2>. QED  BY <1>1, <2>2, <2>3
<1>5. n \in S
  <2> HIDE DEF S, n
  <2>1. 0..n \subseteq S
    BY <1>2, <1>3, <1>4, UpTo
  <2>. QED  BY <1>2, <2>1
<1>6. ToSet(kept[n]) = {list[k] : k \in 1..n} \cap T
  BY <1>5
<1>7. ToSet(list) = {list[k] : k \in 1..n}
  BY DEF ToSet
<1>8. kept[n] \in Seq(E)
  BY <1>1, <1>2
<1> HIDE DEF n
<1>. QED  BY <1>1, <1>6, <1>7, <1>8

\* If all of the first k are dropped and all others kept, the others are left.
LEMMA FilterSuffix ==
    ASSUME NEW E, NEW list \in Seq(E), NEW T, NEW c \in 0..Len(list),
           \A i \in 1..c : list[i] \notin T,
           \A i \in c + 1..Len(list) : list[i] \in T
    PROVE  /\ Filter(list, T) \in Seq(E) /\ Len(Filter(list, T)) = Len(list) - c
           /\ \A i \in 1..Len(list) - c : Filter(list, T)[i] = list[c + i]
<1> DEFINE n == Len(list)
<1>0. PICK kept : Filters(kept, E, list, T)
  BY FilterLoop
<1>1. /\ \A i \in 0..n : kept[i] \in Seq(E)
      /\ kept[0] = <<>>
      /\ \A i \in 1..n :
            kept[i] = IF list[i] \in T THEN Append(kept[i - 1], list[i]) ELSE kept[i - 1]
      /\ Filter(list, T) = kept[n]
  BY <1>0 DEF Filters
<1> DEFINE length(i) == IF i <= c THEN 0 ELSE i - c
           S == {i \in 0..n : /\ Len(kept[i]) = length(i)
                              /\ \A k \in 1..length(i) : kept[i][k] = list[c + k]}
<1>2. n \in Nat
  OBVIOUS
<1>3. 0 \in S
  BY <1>1
<1>4. \A i \in 1..n : i - 1 \in S => i \in S
  <2> SUFFICES ASSUME NEW i \in 1..n, i - 1 \in S PROVE i \in S
    OBVIOUS
  <2>1. kept[i - 1] \in Seq(E) /\ list[i] \in E
    <3>1. i - 1 \in 0..n
      BY <1>2
    <3>. QED  BY <1>1, <3>1
  <2>2. CASE i <= c
    <3>1. list[i] \notin T /\ length(i) = 0 /\ length(i - 1) = 0
      BY <2>2
    <3>2. kept[i] = kept[i - 1]
      BY <1>1, <3>1
    <3>. QED  BY <3>1, <3>2
  <2>3. CASE i > c
    <3>1. i \in c + 1..n
      BY <1>2, <2>3
    <3>2. kept[i] = Append(kept[i - 1], list[i])
      BY <1>1, <3>1
    <3>3. length(i - 1) = i - 1 - c /\ length(i) = i - c
      BY <2>3
    <3>7. Len(kept[i - 1]) = i - 1 - c
      BY <3>3
    <3>8. /\ Len(kept[i]) = Len(kept[i - 1]) + 1
          /\ kept[i][Len(kept[i - 1]) + 1] = list[i]
      BY <2>1, <3>2
    <3>4. Len(kept[i]) = i - c
      BY <3>7, <3>8
    <3>5. \A k \in 1..i - c : kept[i][k] = list[c + k]
      <4> SUFFICES ASSUME NEW k \in 1..i - c PROVE kept[i][k] = list[c + k]
        OBVIOUS
      <4>1. CASE k = i - c
        BY <3>7, <3>8, <4>1
      <4>2. CASE k # i - c
        <5>1. k \in 1..i - 1 - c /\ k \in 1..Len(kept[i - 1])
          BY <3>3, <4>2
        <5>2. kept[i - 1][k] = list[c + k]
          BY <3>3, <5>1
        <5>. QED  BY <2>1, <3>2, <5>1, <5>2
      <4>. QED  BY <4>1, <4>2
    <3> HIDE DEF length
    <3>. QED  BY <3>3, <3>4, <3>5
  <2>. QED  BY <2>2, <2>3
<1>5. n \in S
  <2> HIDE DEF S, n
  <2>1. 0..n \subseteq S
    BY <1>2, <1>3, <1>4, UpTo
  <2>. QED  BY <1>2, <2>1
<1>. QED  BY <1>1, <1>5

-----------------------------------------------------------------------------
(* The loops of sortEnvVar and sortVolumeMounts. *)

LEMMA SwapSet ==
    ASSUME NEW n \in Nat, NEW l, DOMAIN l = 1..n, NEW i \in 1..n, NEW j \in 1..n
    PROVE  ToSet(Swap(l, i, j)) = ToSet(l)
<1> DEFINE s == Swap(l, i, j)
<1>1. DOMAIN s = 1..n
  BY DEF Swap
<1>2. \A k \in 1..n : s[k] = IF k = i THEN l[j] ELSE IF k = j THEN l[i] ELSE l[k]
  BY DEF Swap
<1> HIDE DEF s
<1>3. ASSUME NEW x \in ToSet(s) PROVE x \in ToSet(l)
  BY <1>1, <1>2, <1>3 DEF ToSet
<1>4. ASSUME NEW x \in ToSet(l) PROVE x \in ToSet(s)
  <2>1. PICK k \in 1..n : x = l[k]
    BY <1>4 DEF ToSet
  <2>2. x \in {s[i], s[j], s[k]}
    BY <1>2, <2>1
  <2>. QED  BY <1>1, <2>2 DEF ToSet
<1>. QED  BY <1>3, <1>4 DEF s

Swaps(swapped, E, slots, list) ==
    /\ swapped \in [0..Len(list) -> [1..Len(list) -> E]] /\ swapped[0] = list
    /\ \A i \in 1..Len(list) :
          swapped[i] = IF swapped[i - 1][i] \in DOMAIN slots
                       THEN Swap(swapped[i - 1], slots[swapped[i - 1][i]], i)
                       ELSE swapped[i - 1]
    /\ SwapInto(slots, list) = swapped[Len(list)]

LEMMA SwapLoop ==
    ASSUME NEW E, NEW list \in Seq(E), NEW slots, \A x \in DOMAIN slots : slots[x] \in 1..Len(list)
    PROVE  \E swapped : Swaps(swapped, E, slots, list)
<1> DEFINE n == Len(list)
           A == [1..n -> E]
           a == list
           Step(q, i) == IF q[i] \in DOMAIN slots THEN Swap(q, slots[q[i]], i) ELSE q
           F == [p \in A \X (1..n) |-> Step(p[1], p[2])]
           swapped[i \in 0..Len(list)] ==
               IF i = 0 THEN list
               ELSE LET l == swapped[i - 1]
                    IN  IF l[i] \in DOMAIN slots THEN Swap(l, slots[l[i]], i) ELSE l
<1>1. n \in Nat /\ a \in A
  OBVIOUS
<1>2. \A q \in A, i \in 1..n : Step(q, i) \in A
  BY <1>1 DEF Swap
<1>3. SwapInto(slots, list) = swapped[n]
  BY DEF SwapInto, Swapped
<1>4. \A f : f = [i \in 0..n |-> IF i = 0 THEN a ELSE Step(f[i - 1], i)] =>
             swapped = [i \in 0..n |-> IF i = 0 THEN a ELSE Step(swapped[i - 1], i)]
  BY Zenon
<1> HIDE DEF n, A, a, Step, swapped
<1>5. F \in [A \X (1..n) -> A]
  BY <1>2
<1>6. \A q \in A, i \in 1..n : F[<<q, i>>] = Step(q, i)
  BY <1>2
<1> HIDE DEF F
<1>7. PICK f : Iterates(f, n, A, a, F)
  BY <1>1, <1>5, Iteration
<1>8. f \in [0..n -> A] /\ f[0] = a /\ \A i \in 1..n : f[i] = F[<<f[i - 1], i>>]
  BY <1>7 DEF Iterates
<1>9. \A i \in 1..n : i - 1 \in 0..n /\ f[i - 1] \in A
  BY <1>1, <1>8
<1>10. \A i \in 1..n : f[i] = Step(f[i - 1], i)
  BY <1>6, <1>8, <1>9
<1>11. f = [i \in 0..n |-> IF i = 0 THEN a ELSE Step(f[i - 1], i)]
  BY <1>1, <1>8, <1>10
<1>12. swapped = [i \in 0..n |-> IF i = 0 THEN a ELSE Step(swapped[i - 1], i)]
  BY <1>4, <1>11
<1>13. swapped[0] = a /\ \A i \in 1..n : swapped[i] = Step(swapped[i - 1], i)
  BY <1>1, <1>12
<1>14. swapped \in [0..n -> A]
  <2>1. DOMAIN swapped = 0..n /\ swapped = [i \in 0..n |-> swapped[i]]
    BY <1>12
  <2>2. swapped[0] \in A /\ \A i \in 1..n : swapped[i - 1] \in A => swapped[i] \in A
    BY <1>1, <1>2, <1>13
  <2>. QED  BY <1>1, <2>1, <2>2, LoopType
<1>. QED  BY <1>3, <1>13, <1>14 DEF n, A, a, Step, Swaps

\* Nothing is lost and nothing is added.
LEMMA SwapElements ==
    ASSUME NEW E, NEW list \in Seq(E), NEW slots, \A x \in DOMAIN slots : slots[x] \in 1..Len(list)
    PROVE  /\ SwapInto(slots, list) \in [1..Len(list) -> E]
           /\ ToSet(SwapInto(slots, list)) = ToSet(list)
<1> DEFINE n == Len(list)
<1>0. PICK swapped : Swaps(swapped, E, slots, list)
  BY SwapLoop
<1>1. /\ \A i \in 0..n : swapped[i] \in [1..n -> E]
      /\ swapped[0] = list
      /\ \A i \in 1..n :
            swapped[i] = IF swapped[i - 1][i] \in DOMAIN slots
                         THEN Swap(swapped[i - 1], slots[swapped[i - 1][i]], i)
                         ELSE swapped[i - 1]
      /\ SwapInto(slots, list) = swapped[n]
  BY <1>0 DEF Swaps
<1> DEFINE S == {i \in 0..n : ToSet(swapped[i]) = ToSet(list)}
<1>2. n \in Nat
  OBVIOUS
<1>3. 0 \in S
  BY <1>1
<1>4. \A i \in 1..n : i - 1 \in S => i \in S
  <2> SUFFICES ASSUME NEW i \in 1..n, i - 1 \in S PROVE i \in S
    OBVIOUS
  <2>1. swapped[i - 1] \in [1..n -> E] /\ ToSet(swapped[i - 1]) = ToSet(list)
    <3>1. i - 1 \in 0..n
      BY <1>2
    <3>. QED  BY <1>1, <3>1
  <2>2. CASE swapped[i - 1][i] \in DOMAIN slots
    <3> DEFINE l == swapped[i - 1]
               x == slots[l[i]]
    <3>0. x \in 1..n /\ DOMAIN l = 1..n /\ i \in 1..n
      BY <2>1, <2>2
    <3>1. ToSet(Swap(l, x, i)) = ToSet(l)
      <4> HIDE DEF l, x, n
      <4>. QED  BY <1>2, <3>0, SwapSet
    <3>. QED  BY <1>1, <2>1, <2>2, <3>1
  <2>3. CASE swapped[i - 1][i] \notin DOMAIN slots
    BY <1>1, <2>1, <2>3
  <2>. QED  BY <2>2, <2>3
<1>5. n \in S
  <2> HIDE DEF S, n
  <2>1. 0..n \subseteq S
    BY <1>2, <1>3, <1>4, UpTo
  <2>. QED  BY <1>2, <2>1
<1>. QED  BY <1>1, <1>2, <1>5

(***************************************************************************)
(* If there is one mount of the cookie's volume, sortVolumeMounts puts it  *)
(* first: after step i it is first or still where it was, further on.      *)
(***************************************************************************)
LEMMA CookieMountFirst ==
    ASSUME NEW E, NEW mounts \in Seq(E), Len(mounts) > 1, NEW c \in 1..Len(mounts),
           \A k \in 1..Len(mounts) : mounts[k].name = "rabbitmq-erlang-cookie" <=> k = c
    PROVE  \A k \in 1..Len(mounts) :
              sortVolumeMounts(mounts)[k].name = "rabbitmq-erlang-cookie" <=> k = 1
<1> DEFINE n == Len(mounts)
           M == ToSet(mounts)
           sorted == {m \in M : m.name \in {"rabbitmq-erlang-cookie", "persistence"}}
           slots == [m \in sorted |-> IF m.name = "persistence" THEN 2 ELSE 1]
           Only(l, x) == \A k \in 1..n : l[k].name = "rabbitmq-erlang-cookie" <=> k = x
<1>1. n \in Nat /\ n > 1 /\ c \in 1..n /\ Only(mounts, c)
  OBVIOUS
<1>2. mounts \in Seq(M)
  BY DEF ToSet
<1>3. sortVolumeMounts(mounts) = SwapInto(slots, mounts)
  BY DEF sortVolumeMounts, MountSlots
<1>4. \A x \in DOMAIN slots : slots[x] \in 1..n
  BY <1>1
<1>5. PICK swapped : Swaps(swapped, M, slots, mounts)
  <2> HIDE DEF slots, M
  <2>. QED  BY <1>2, <1>4, SwapLoop
<1>6. /\ \A i \in 0..n : swapped[i] \in [1..n -> M]
      /\ swapped[0] = mounts
      /\ \A i \in 1..n :
            swapped[i] = IF swapped[i - 1][i] \in DOMAIN slots
                         THEN Swap(swapped[i - 1], slots[swapped[i - 1][i]], i)
                         ELSE swapped[i - 1]
      /\ SwapInto(slots, mounts) = swapped[n]
  BY <1>5 DEF Swaps
<1> DEFINE S == {i \in 0..n : Only(swapped[i], 1) \/ (i < c /\ Only(swapped[i], c))}
<1>7. 0 \in S
  BY <1>1, <1>6
<1>8. \A i \in 1..n : i - 1 \in S => i \in S
  <2> SUFFICES ASSUME NEW i \in 1..n, i - 1 \in S PROVE i \in S
    OBVIOUS
  <2> DEFINE l == swapped[i - 1]
             r == swapped[i]
  <2>1. l \in [1..n -> M] /\ l[i] \in M
    <3>1. i - 1 \in 0..n
      BY <1>1
    <3>2. \A k \in 0..n : swapped[k] \in [1..n -> M]
      BY <1>6
    <3>3. l \in [1..n -> M]
      BY <3>1, <3>2
    <3> HIDE DEF l
    <3>. QED  BY <3>3
  <2>2. r = IF l[i].name = "rabbitmq-erlang-cookie" THEN Swap(l, 1, i)
            ELSE IF l[i].name = "persistence" THEN Swap(l, 2, i) ELSE l
    BY <1>6, <2>1
  <2>3. /\ Only(l, 1) \/ (i <= c /\ Only(l, c))
        /\ i \in 1..n /\ i \in 0..n
    BY <1>1
  <2> SUFFICES Only(r, 1) \/ (i < c /\ Only(r, c))
    BY <2>3
  <2> HIDE DEF l, r, n, M
  <2>4. /\ \A k \in 1..n : Swap(l, 1, i)[k] = IF k = 1 THEN l[i] ELSE IF k = i THEN l[1] ELSE l[k]
        /\ \A k \in 1..n : Swap(l, 2, i)[k] = IF k = 2 THEN l[i] ELSE IF k = i THEN l[2] ELSE l[k]
    <3>1. 1 \in 1..n /\ 2 \in 1..n
      BY <1>1
    <3>. QED  BY <1>1, <2>1, <2>3, <3>1 DEF Swap
  <2>5. CASE l[i].name = "rabbitmq-erlang-cookie"
    <3>1. r = Swap(l, 1, i)
      BY <2>2, <2>5
    <3>2. Only(r, 1)
      BY <1>1, <2>3, <2>4, <2>5, <3>1
    <3>. QED  BY <3>2
  <2>6. CASE l[i].name = "persistence"
    <3>1. r = Swap(l, 2, i)
      BY <2>2, <2>6
    <3>2. CASE Only(l, 1)
      <4>1. i # 1
        BY <1>1, <2>6, <3>2
      <4>2. Only(r, 1)
        BY <1>1, <2>3, <2>4, <3>1, <3>2, <4>1
      <4>. QED  BY <4>2
    <3>3. CASE i <= c /\ Only(l, c)
      <4>1. i < c
        BY <1>1, <2>3, <2>6, <3>3
      <4>2. CASE c = 2
        <5>1. i = 1
          BY <2>3, <4>1, <4>2
        <5>2. Only(r, 1)
          BY <1>1, <2>4, <3>1, <3>3, <4>2, <5>1
        <5>. QED  BY <5>2
      <4>3. CASE c # 2
        <5>1. Only(r, c)
          BY <1>1, <2>3, <2>4, <3>1, <3>3, <4>1, <4>3
        <5>. QED  BY <4>1, <5>1
      <4>. QED  BY <4>2, <4>3
    <3>. QED  BY <2>3, <3>2, <3>3
  <2>7. CASE l[i].name \notin {"rabbitmq-erlang-cookie", "persistence"}
    <3>1. r = l
      BY <2>2, <2>7
    <3>2. Only(l, c) => i # c
      BY <1>1, <2>3, <2>7
    <3>. QED  BY <1>1, <2>3, <3>1, <3>2, SMTT(30)
  <2>. QED  BY <2>5, <2>6, <2>7
<1>9. n \in S
  <2> HIDE DEF S, n
  <2>1. 0..n \subseteq S
    BY <1>1, <1>7, <1>8, UpTo
  <2>. QED  BY <1>1, <2>1
<1>. QED  BY <1>1, <1>3, <1>6, <1>9

LEMMA OfElements ==
    ASSUME NEW S, NEW l \in Seq(S), NEW T, ToSet(l) \subseteq T
    PROVE  l \in Seq(T)
<1>1. Len(l) \in Nat /\ l \in [1..Len(l) -> T]
  BY DEF ToSet
<1>. QED  BY <1>1, SeqDef

LEMMA EnvVarsFacts ==
    /\ EnvVars \in Seq(ToSet(EnvVars)) /\ Len(EnvVars) = 7 /\ DOMAIN EnvVars = 1..7
    /\ \A k, l \in 1..7 : EnvVars[k] = EnvVars[l] => k = l
    /\ DOMAIN EnvSlots = {EnvVars[k] : k \in 1..3}
    /\ \A k \in 1..3 : EnvSlots[EnvVars[k]] = k
<1> DEFINE S == {"MY_POD_NAME", "MY_POD_NAMESPACE", "K8S_SERVICE_NAME",
                 "RABBITMQ_ENABLED_PLUGINS_FILE", "RABBITMQ_USE_LONGNAME",
                 "RABBITMQ_NODENAME", "K8S_HOSTNAME_SUFFIX"}
           p == envVarsK8sObjects
           q == <<"RABBITMQ_ENABLED_PLUGINS_FILE", "RABBITMQ_USE_LONGNAME",
                  "RABBITMQ_NODENAME", "K8S_HOSTNAME_SUFFIX">>
           v == EnvVars
<1>1. /\ p \in Seq(S) /\ Len(p) = 3
      /\ p[1] = "MY_POD_NAME" /\ p[2] = "MY_POD_NAMESPACE" /\ p[3] = "K8S_SERVICE_NAME"
  BY DEF envVarsK8sObjects
<1>2. /\ q \in Seq(S) /\ Len(q) = 4
      /\ q[1] = "RABBITMQ_ENABLED_PLUGINS_FILE" /\ q[2] = "RABBITMQ_USE_LONGNAME"
      /\ q[3] = "RABBITMQ_NODENAME" /\ q[4] = "K8S_HOSTNAME_SUFFIX"
  OBVIOUS
<1>3. v = p \o q
  BY DEF EnvVars
<1> HIDE DEF S, p, q, v
<1>4. /\ v \in Seq(S) /\ Len(v) = 7 /\ DOMAIN v = 1..7
      /\ v[1] = p[1] /\ v[2] = p[2] /\ v[3] = p[3]
      /\ v[4] = q[1] /\ v[5] = q[2] /\ v[6] = q[3] /\ v[7] = q[4]
  <2>1. p \in Seq(S) /\ q \in Seq(S)
    BY <1>1, <1>2
  <2>2. /\ v \in Seq(S) /\ Len(v) = Len(p) + Len(q)
        /\ \A k \in 1..Len(p) + Len(q) : v[k] = IF k <= Len(p) THEN p[k] ELSE q[k - Len(p)]
    BY <1>3, <2>1, ConcatProperties, Zenon
  <2>3. /\ v \in Seq(S) /\ Len(v) = 7
        /\ \A k \in 1..7 : v[k] = IF k <= 3 THEN p[k] ELSE q[k - 3]
    BY <1>1, <1>2, <2>2
  <2>. QED  BY <2>3
<1>5. \A k \in 1..7 : k = 1 \/ k = 2 \/ k = 3 \/ k = 4 \/ k = 5 \/ k = 6 \/ k = 7
  OBVIOUS
<1>6. \A k, l \in 1..7 : v[k] = v[l] => k = l
  BY <1>1, <1>2, <1>4, <1>5
<1>7. {v[k] : k \in 1..3} = {v[1], v[2], v[3]}
  OBVIOUS
<1>8. DOMAIN EnvSlots = {"MY_POD_NAME", "MY_POD_NAMESPACE", "K8S_SERVICE_NAME"}
  BY DEF EnvSlots
<1>9. \A k \in 1..3 : EnvSlots[v[k]] = k
  BY <1>1, <1>4 DEF EnvSlots
<1>10. v \in Seq(ToSet(v))
  BY <1>4, OfElements
<1>. QED  BY <1>1, <1>4, <1>6, <1>7, <1>8, <1>9, <1>10 DEF v

(***************************************************************************)
(* If the three variables are in the list once each, in their order,       *)
(* sortEnvVar puts them first: each is moved to its place at its turn, and *)
(* no later swap touches it.                                               *)
(***************************************************************************)
LEMMA VariablesFirst ==
    ASSUME NEW E, NEW env \in Seq(E), NEW p \in [1..3 -> 1..Len(env)],
           p[1] < p[2], p[2] < p[3],
           \A k \in 1..3, x \in 1..Len(env) : env[x] = EnvVars[k] <=> x = p[k]
    PROVE  \A k \in 1..3 : sortEnvVar(env)[k] = EnvVars[k]
<1> DEFINE n == Len(env)
           pos(k, i) == IF p[k] <= i THEN k ELSE p[k]
           Placed(l, i) == \A k \in 1..3, x \in 1..n : l[x] = EnvVars[k] <=> x = pos(k, i)
<1>1. /\ n \in Nat /\ \A k \in 1..3 : p[k] \in 1..n
      /\ \A k \in 1..3 : k <= p[k]
      /\ \A k, m \in 1..3 : k < m => p[k] < p[m]
  <2>1. n \in Nat /\ p[1] \in 1..n /\ p[2] \in 1..n /\ p[3] \in 1..n
    OBVIOUS
  <2>. QED  BY <2>1
<1>2. /\ DOMAIN EnvSlots = {EnvVars[k] : k \in 1..3}
      /\ \A k \in 1..3 : EnvSlots[EnvVars[k]] = k
      /\ \A k, m \in 1..3 : EnvVars[k] = EnvVars[m] => k = m
  BY EnvVarsFacts
<1>3. \A x \in DOMAIN EnvSlots : EnvSlots[x] \in 1..n
  BY <1>1, <1>2
<1>4. PICK swapped : Swaps(swapped, E, EnvSlots, env)
  BY <1>3, SwapLoop
<1>5. /\ \A i \in 0..n : swapped[i] \in [1..n -> E]
      /\ swapped[0] = env
      /\ \A i \in 1..n :
            swapped[i] = IF swapped[i - 1][i] \in DOMAIN EnvSlots
                         THEN Swap(swapped[i - 1], EnvSlots[swapped[i - 1][i]], i)
                         ELSE swapped[i - 1]
      /\ sortEnvVar(env) = swapped[n]
  BY <1>4 DEF Swaps, sortEnvVar
<1> DEFINE S == {i \in 0..n : Placed(swapped[i], i)}
<1>6. 0 \in S
  <2>1. \A k \in 1..3 : pos(k, 0) = p[k]
    BY <1>1
  <2>. QED  BY <1>1, <1>5, <2>1, SMTT(30)
<1>7. \A i \in 1..n : i - 1 \in S => i \in S
  <2> SUFFICES ASSUME NEW i \in 1..n, i - 1 \in S PROVE Placed(swapped[i], i)
    <3>1. 1..n \subseteq 0..n
      BY <1>1
    <3> HIDE DEF Placed, n
    <3>. QED  BY <3>1
  <2> DEFINE l == swapped[i - 1]
             r == swapped[i]
  <2>1. l \in [1..n -> E] /\ Placed(l, i - 1)
    <3>1. i - 1 \in 0..n
      BY <1>1
    <3>. QED  BY <1>5, <3>1
  <2>2. r = IF l[i] \in DOMAIN EnvSlots THEN Swap(l, EnvSlots[l[i]], i) ELSE l
    BY <1>5
  <2>3. i \in 1..n /\ i \in Nat
    BY <1>1
  <2> HIDE DEF l, r, n
  <2>4. ASSUME NEW k \in 1..3, p[k] = i PROVE Placed(r, i)
    <3>1. l[i] = EnvVars[k]
      BY <1>1, <2>1, <2>3, <2>4
    <3>2. r = Swap(l, k, i)
      BY <1>2, <2>2, <3>1
    <3>3. k \in 1..n /\ k <= i
      BY <1>1, <2>3, <2>4
    <3>4. \A x \in 1..n : r[x] = IF x = k THEN l[i] ELSE IF x = i THEN l[k] ELSE l[x]
      BY <1>1, <2>1, <2>3, <3>2, <3>3 DEF Swap
    <3>5. pos(k, i) = k /\ pos(k, i - 1) = i
      BY <1>1, <2>3, <2>4
    <3>6. ASSUME NEW m \in 1..3, m # k
          PROVE  pos(m, i) = pos(m, i - 1) /\ pos(m, i) # k /\ pos(m, i) # i /\ pos(m, i) \in 1..n
      <4>1. CASE m < k
        BY <1>1, <2>3, <2>4, <3>3, <4>1
      <4>2. CASE m > k
        BY <1>1, <2>3, <2>4, <3>3, <4>2
      <4>. QED  BY <3>6, <4>1, <4>2
    <3> HIDE DEF pos
    <3>7. ASSUME NEW x \in 1..n PROVE r[x] = EnvVars[k] <=> x = pos(k, i)
      BY <2>1, <2>3, <3>1, <3>3, <3>4, <3>5
    <3>8. ASSUME NEW m \in 1..3, m # k, NEW x \in 1..n PROVE r[x] = EnvVars[m] <=> x = pos(m, i)
      BY <1>2, <2>1, <2>3, <3>1, <3>3, <3>4, <3>6, <3>8, SMTT(30)
    <3>. QED  BY <3>7, <3>8
  <2>5. ASSUME \A k \in 1..3 : p[k] # i PROVE Placed(r, i)
    <3>1. \A k \in 1..3 : pos(k, i) = pos(k, i - 1) /\ pos(k, i - 1) # i
      BY <1>1, <2>3, <2>5
    <3>2. l[i] \notin DOMAIN EnvSlots
      BY <1>2, <2>1, <2>3, <3>1
    <3>. QED  BY <2>1, <2>2, <3>1, <3>2
  <2>. QED  BY <2>4, <2>5 DEF r
<1>8. n \in S
  <2> HIDE DEF S, n
  <2>1. 0..n \subseteq S
    BY <1>1, <1>6, <1>7, UpTo
  <2>. QED  BY <1>1, <2>1
<1>9. \A k \in 1..3 : pos(k, n) = k /\ k \in 1..n
  BY <1>1
<1>. QED  BY <1>5, <1>8, <1>9

-----------------------------------------------------------------------------
(* Strategic merge. *)

\* The next element is taken from the rest.
FromRest(key, server, rest, patch, m) ==
    m.j > Len(patch) \/
    (m.i <= Len(rest) /\ At(key, server, rest[m.i]) < At(key, server, patch[m.j]))

Merges(merged, key, server, patch) ==
    LET rest == Unpatched(key, server, patch)
        last == Len(rest) + Len(patch)
    IN  /\ merged[0] = [list |-> <<>>, i |-> 1, j |-> 1]
        /\ \A n \in 1..last :
              merged[n] =
                LET m == merged[n - 1]
                IN  IF FromRest(key, server, rest, patch, m)
                    THEN [list |-> Append(m.list, rest[m.i]), i |-> m.i + 1, j |-> m.j]
                    ELSE [list |-> Append(m.list, patch[m.j]), i |-> m.i, j |-> m.j + 1]
        /\ StrategicMergePatch(key, server, patch) = merged[last].list

LEMMA MergeLoop ==
    ASSUME NEW E, NEW key, NEW server \in Seq(E), NEW patch \in Seq(E)
    PROVE  \E merged : Merges(merged, key, server, patch)
<1> DEFINE rest == Unpatched(key, server, patch)
           n == Len(rest) + Len(patch)
           V == {rest[k] : k \in Nat} \cup {patch[k] : k \in Nat}
           A == [list: Seq(V), i: Nat, j: Nat]
           a == [list |-> <<>>, i |-> 1, j |-> 1]
           Step(m, x) ==
               IF m.j > Len(patch) \/
                  (m.i <= Len(rest) /\ At(key, server, rest[m.i]) < At(key, server, patch[m.j]))
               THEN [list |-> Append(m.list, rest[m.i]), i |-> m.i + 1, j |-> m.j]
               ELSE [list |-> Append(m.list, patch[m.j]), i |-> m.i, j |-> m.j + 1]
           F == [p \in A \X (1..n) |-> Step(p[1], p[2])]
           merged[k \in 0..Len(rest) + Len(patch)] ==
               IF k = 0 THEN [list |-> <<>>, i |-> 1, j |-> 1]
               ELSE LET m == merged[k - 1]
                    IN  IF m.j > Len(patch) \/
                           (m.i <= Len(rest) /\ At(key, server, rest[m.i]) < At(key, server, patch[m.j]))
                        THEN [list |-> Append(m.list, rest[m.i]), i |-> m.i + 1, j |-> m.j]
                        ELSE [list |-> Append(m.list, patch[m.j]), i |-> m.i, j |-> m.j + 1]
<1>1. StrategicMergePatch(key, server, patch) = merged[n].list
  BY DEF StrategicMergePatch
<1>2. rest \in Seq(E)
  BY FilterElements DEF Unpatched
<1> HIDE DEF rest
<1>3. n \in Nat /\ a \in A
  BY <1>2
<1>4. \A m \in A, x \in 1..n : Step(m, x) \in A
  <2> SUFFICES ASSUME NEW m \in A PROVE Step(m, 1) \in A
    OBVIOUS
  <2>1. m.list \in Seq(V) /\ m.i \in Nat /\ m.j \in Nat
    OBVIOUS
  <2>2. rest[m.i] \in V /\ patch[m.j] \in V
    BY <2>1
  <2> HIDE DEF V
  <2>3. Append(m.list, rest[m.i]) \in Seq(V) /\ Append(m.list, patch[m.j]) \in Seq(V)
    BY <2>1, <2>2
  <2>. QED  BY <2>1, <2>3
<1>5. \A f : f = [i \in 0..n |-> IF i = 0 THEN a ELSE Step(f[i - 1], i)] =>
             merged = [i \in 0..n |-> IF i = 0 THEN a ELSE Step(merged[i - 1], i)]
  BY Zenon
<1>6. \A m, x : Step(m, x) = IF FromRest(key, server, rest, patch, m)
                      THEN [list |-> Append(m.list, rest[m.i]), i |-> m.i + 1, j |-> m.j]
                      ELSE [list |-> Append(m.list, patch[m.j]), i |-> m.i, j |-> m.j + 1]
  BY Zenon DEF FromRest
<1> HIDE DEF n, A, a, Step, merged
<1>7. F \in [A \X (1..n) -> A]
  BY <1>4
<1>8. \A q \in A, i \in 1..n : F[<<q, i>>] = Step(q, i)
  BY <1>4
<1> HIDE DEF F
<1>9. PICK f : Iterates(f, n, A, a, F)
  BY <1>3, <1>7, Iteration
<1>10. f \in [0..n -> A] /\ f[0] = a /\ \A i \in 1..n : f[i] = F[<<f[i - 1], i>>]
  BY <1>9 DEF Iterates
<1>11. \A i \in 1..n : i - 1 \in 0..n /\ f[i - 1] \in A
  BY <1>3, <1>10
<1>12. \A i \in 1..n : f[i] = Step(f[i - 1], i)
  BY <1>8, <1>10, <1>11
<1>13. f = [i \in 0..n |-> IF i = 0 THEN a ELSE Step(f[i - 1], i)]
  BY <1>3, <1>10, <1>12
<1>14. merged = [i \in 0..n |-> IF i = 0 THEN a ELSE Step(merged[i - 1], i)]
  BY <1>5, <1>13
<1>15. merged[0] = a /\ \A i \in 1..n : merged[i] = Step(merged[i - 1], i)
  BY <1>3, <1>14
<1>16. \A i \in 1..n :
          merged[i] = LET m == merged[i - 1]
                      IN  IF FromRest(key, server, rest, patch, m)
                          THEN [list |-> Append(m.list, rest[m.i]), i |-> m.i + 1, j |-> m.j]
                          ELSE [list |-> Append(m.list, patch[m.j]), i |-> m.i, j |-> m.j + 1]
  BY <1>6, <1>15, Zenon
<1>17. Merges(merged, key, server, patch)
  BY <1>1, <1>15, <1>16, Zenon DEF Merges, n, a, rest
<1>. QED  BY <1>17

(***************************************************************************)
(* After n steps of the merge: what has been taken is in the list; what    *)
(* was taken from the patch did not have to wait for the rest, and what    *)
(* was taken from the rest had to come before something of the patch.      *)
(***************************************************************************)
Progress(m, E, key, server, rest, patch, n) ==
    /\ m.list \in Seq(E) /\ Len(m.list) = n
    /\ m.i \in 1..Len(rest) + 1 /\ m.j \in 1..Len(patch) + 1 /\ m.i + m.j = n + 2
    /\ ToSet(m.list) = {rest[a] : a \in 1..m.i - 1} \cup {patch[b] : b \in 1..m.j - 1}
    /\ \A b \in 1..m.j - 1 : \E a \in 1..m.i :
          a > Len(rest) \/ ~(At(key, server, rest[a]) < At(key, server, patch[b]))
    /\ m.j <= Len(patch) => \A a \in 1..m.i - 1 : \E b \in 1..m.j :
          At(key, server, rest[a]) < At(key, server, patch[b])

LEMMA UnpatchedType ==
    ASSUME NEW E, NEW key, NEW server \in Seq(E), NEW patch \in Seq(E)
    PROVE  Unpatched(key, server, patch) \in Seq(E)
BY FilterElements DEF Unpatched

LEMMA OneMore ==
    ASSUME NEW i \in Int, NEW j \in Int, NEW n \in Nat, i + j = n + 1
    PROVE  (i + 1) + j = n + 2 /\ i + (j + 1) = n + 2
OBVIOUS

LEMMA TakeFromRest ==
    ASSUME NEW E, NEW key, NEW server, NEW rest \in Seq(E), NEW patch \in Seq(E),
           NEW n \in 1..Len(rest) + Len(patch), NEW m,
           Progress(m, E, key, server, rest, patch, n - 1), FromRest(key, server, rest, patch, m)
    PROVE  LET next == [list |-> Append(m.list, rest[m.i]), i |-> m.i + 1, j |-> m.j]
           IN  /\ m.i \in 1..Len(rest)
               /\ Progress(next, E, key, server, rest, patch, n)
<1> DEFINE next == [list |-> Append(m.list, rest[m.i]), i |-> m.i + 1, j |-> m.j]
           R == Len(rest)
           P == Len(patch)
<1>1. R \in Nat /\ P \in Nat /\ n \in Nat
  OBVIOUS
<1>2. /\ m.list \in Seq(E) /\ Len(m.list) = n - 1
      /\ m.i \in 1..R + 1 /\ m.j \in 1..P + 1 /\ m.i + m.j = n + 1
  BY <1>1 DEF Progress
<1>3. m.i \in 1..R
  BY <1>1, <1>2 DEF FromRest
<1>4. rest[m.i] \in E
  BY <1>3
<1>5. next.list = Append(m.list, rest[m.i]) /\ next.i = m.i + 1 /\ next.j = m.j
  OBVIOUS
<1> HIDE DEF next
<1>6. next.list \in Seq(E) /\ Len(next.list) = n
  BY <1>1, <1>2, <1>4, <1>5
<1>7. next.i \in 1..R + 1 /\ next.j \in 1..P + 1 /\ next.i + next.j = n + 2
  <2> HIDE DEF R, P
  <2>1. m.i \in 1..R /\ m.j \in 1..P + 1 /\ m.i + m.j = n + 1
    BY <1>2, <1>3
  <2>2. next.i = m.i + 1 /\ next.j = m.j
    BY <1>5
  <2>3. m.i \in Int /\ m.j \in Int
    BY <1>1, <2>1
  <2>4. next.i \in 1..R + 1
    BY <1>1, <2>1, <2>2
  <2>5. next.j \in 1..P + 1
    BY <1>1, <2>1, <2>2
  <2>6. next.i + next.j = n + 2
    <3>1. (m.i + 1) + m.j = n + 2 /\ m.i + (m.j + 1) = n + 2
      BY <1>1, <2>1, <2>3, OneMore, Zenon
    <3>. QED  BY <2>2, <3>1, Zenon
  <2>. QED  BY <2>4, <2>5, <2>6
<1>8. ToSet(next.list) = {rest[a] : a \in 1..next.i - 1} \cup {patch[b] : b \in 1..next.j - 1}
  <2>1. ToSet(next.list) = ToSet(m.list) \cup {rest[m.i]}
    BY <1>2, <1>4, <1>5, AppendElements, SMTT(30)
  <2>2. ToSet(m.list) = {rest[a] : a \in 1..m.i - 1} \cup {patch[b] : b \in 1..m.j - 1}
    BY DEF Progress
  <2>3. {rest[a] : a \in 1..next.i - 1} = {rest[a] : a \in 1..m.i - 1} \cup {rest[m.i]}
    BY <1>1, <1>3, <1>5
  <2>. QED  BY <1>5, <2>1, <2>2, <2>3
<1>9. \A b \in 1..next.j - 1 : \E a \in 1..next.i :
          a > R \/ ~(At(key, server, rest[a]) < At(key, server, patch[b]))
  <2>1. 1..m.i \subseteq 1..next.i
    BY <1>1, <1>3, <1>5
  <2>. QED  BY <1>5, <2>1 DEF Progress
<1>10. next.j <= P => \A a \in 1..next.i - 1 : \E b \in 1..next.j :
          At(key, server, rest[a]) < At(key, server, patch[b])
  <2> SUFFICES ASSUME m.j <= P, NEW a \in 1..m.i
               PROVE  \E b \in 1..m.j : At(key, server, rest[a]) < At(key, server, patch[b])
    BY <1>1, <1>3, <1>5
  <2>1. CASE a = m.i
    <3>1. m.j \in 1..m.j /\ ~(m.j > P)
      BY <1>1, <1>2
    <3>. QED  BY <2>1, <3>1 DEF FromRest
  <2>2. CASE a # m.i
    <3>1. a \in 1..m.i - 1
      BY <1>1, <1>3, <2>2
    <3>. QED  BY <3>1 DEF Progress
  <2>. QED  BY <2>1, <2>2
<1>. QED  BY <1>3, <1>6, <1>7, <1>8, <1>9, <1>10 DEF Progress, next

LEMMA TakeFromPatch ==
    ASSUME NEW E, NEW key, NEW server, NEW rest \in Seq(E), NEW patch \in Seq(E),
           NEW n \in 1..Len(rest) + Len(patch), NEW m,
           Progress(m, E, key, server, rest, patch, n - 1), ~FromRest(key, server, rest, patch, m)
    PROVE  LET next == [list |-> Append(m.list, patch[m.j]), i |-> m.i, j |-> m.j + 1]
           IN  /\ m.j \in 1..Len(patch)
               /\ Progress(next, E, key, server, rest, patch, n)
<1> DEFINE next == [list |-> Append(m.list, patch[m.j]), i |-> m.i, j |-> m.j + 1]
           R == Len(rest)
           P == Len(patch)
<1>1. R \in Nat /\ P \in Nat /\ n \in Nat
  OBVIOUS
<1>2. /\ m.list \in Seq(E) /\ Len(m.list) = n - 1
      /\ m.i \in 1..R + 1 /\ m.j \in 1..P + 1 /\ m.i + m.j = n + 1
  BY <1>1 DEF Progress
<1>3. m.j \in 1..P
  BY <1>1, <1>2 DEF FromRest
<1>4. patch[m.j] \in E
  BY <1>3
<1>5. next.list = Append(m.list, patch[m.j]) /\ next.i = m.i /\ next.j = m.j + 1
  OBVIOUS
<1> HIDE DEF next
<1>6. next.list \in Seq(E) /\ Len(next.list) = n
  BY <1>1, <1>2, <1>4, <1>5
<1>7. next.i \in 1..R + 1 /\ next.j \in 1..P + 1 /\ next.i + next.j = n + 2
  <2> HIDE DEF R, P
  <2>1. m.i \in 1..R + 1 /\ m.j \in 1..P /\ m.i + m.j = n + 1
    BY <1>2, <1>3
  <2>2. next.i = m.i /\ next.j = m.j + 1
    BY <1>5
  <2>3. m.i \in Int /\ m.j \in Int
    BY <1>1, <2>1
  <2>4. next.i \in 1..R + 1
    BY <1>1, <2>1, <2>2
  <2>5. next.j \in 1..P + 1
    BY <1>1, <2>1, <2>2
  <2>6. next.i + next.j = n + 2
    <3>1. (m.i + 1) + m.j = n + 2 /\ m.i + (m.j + 1) = n + 2
      BY <1>1, <2>1, <2>3, OneMore, Zenon
    <3>. QED  BY <2>2, <3>1, Zenon
  <2>. QED  BY <2>4, <2>5, <2>6
<1>8. ToSet(next.list) = {rest[a] : a \in 1..next.i - 1} \cup {patch[b] : b \in 1..next.j - 1}
  <2>1. ToSet(next.list) = ToSet(m.list) \cup {patch[m.j]}
    BY <1>2, <1>4, <1>5, AppendElements, SMTT(30)
  <2>2. ToSet(m.list) = {rest[a] : a \in 1..m.i - 1} \cup {patch[b] : b \in 1..m.j - 1}
    BY DEF Progress
  <2>3. {patch[b] : b \in 1..next.j - 1} = {patch[b] : b \in 1..m.j - 1} \cup {patch[m.j]}
    BY <1>1, <1>3, <1>5
  <2>. QED  BY <1>5, <2>1, <2>2, <2>3
<1>9. \A b \in 1..next.j - 1 : \E a \in 1..next.i :
          a > R \/ ~(At(key, server, rest[a]) < At(key, server, patch[b]))
  <2> SUFFICES ASSUME NEW b \in 1..m.j
               PROVE  \E a \in 1..m.i :
                         a > R \/ ~(At(key, server, rest[a]) < At(key, server, patch[b]))
    BY <1>1, <1>3, <1>5
  <2>1. CASE b = m.j
    <3>1. m.i \in 1..m.i /\ (m.i > R <=> ~(m.i <= R))
      BY <1>1, <1>2
    <3>. QED  BY <2>1, <3>1 DEF FromRest
  <2>2. CASE b # m.j
    <3>1. b \in 1..m.j - 1
      BY <1>1, <1>3, <2>2
    <3>. QED  BY <3>1 DEF Progress
  <2>. QED  BY <2>1, <2>2
<1>10. next.j <= P => \A a \in 1..next.i - 1 : \E b \in 1..next.j :
          At(key, server, rest[a]) < At(key, server, patch[b])
  <2>1. 1..m.j \subseteq 1..next.j /\ m.j <= P
    BY <1>1, <1>3, <1>5
  <2>. QED  BY <1>5, <2>1 DEF Progress
<1>. QED  BY <1>3, <1>6, <1>7, <1>8, <1>9, <1>10 DEF Progress, next

LEMMA MergeProgress ==
    ASSUME NEW E, NEW key, NEW server \in Seq(E), NEW patch \in Seq(E),
           NEW merged, Merges(merged, key, server, patch)
    PROVE  LET rest == Unpatched(key, server, patch)
           IN  \A n \in 0..Len(rest) + Len(patch) :
                  Progress(merged[n], E, key, server, rest, patch, n)
<1> DEFINE rest == Unpatched(key, server, patch)
           last == Len(rest) + Len(patch)
           S == {n \in 0..last : Progress(merged[n], E, key, server, rest, patch, n)}
<1>1. rest \in Seq(E)
  BY UnpatchedType
<1>2. merged[0] = [list |-> <<>>, i |-> 1, j |-> 1]
  BY DEF Merges
<1>3. \A n \in 1..last : merged[n] =
          LET m == merged[n - 1]
          IN  IF FromRest(key, server, rest, patch, m)
              THEN [list |-> Append(m.list, rest[m.i]), i |-> m.i + 1, j |-> m.j]
              ELSE [list |-> Append(m.list, patch[m.j]), i |-> m.i, j |-> m.j + 1]
  BY DEF Merges
<1> HIDE DEF rest
<1>4. last \in Nat
  BY <1>1
<1>5. 0 \in S
  <2>1. merged[0].list = <<>> /\ merged[0].i = 1 /\ merged[0].j = 1
    BY <1>2
  <2>2. <<>> \in Seq(E) /\ Len(<<>>) = 0 /\ ToSet(<<>>) = {}
    BY DEF ToSet
  <2>3. Len(rest) \in Nat /\ Len(patch) \in Nat /\ 1..1 - 1 = {}
    BY <1>1
  <2>4. Progress(merged[0], E, key, server, rest, patch, 0)
    BY <2>1, <2>2, <2>3 DEF Progress
  <2>. QED  BY <1>4, <2>4
<1>6. \A n \in 1..last : n - 1 \in S => n \in S
  <2> SUFFICES ASSUME NEW n \in 1..last, n - 1 \in S
               PROVE  Progress(merged[n], E, key, server, rest, patch, n)
    BY <1>4
  <2> DEFINE m == merged[n - 1]
  <2>1. Progress(m, E, key, server, rest, patch, n - 1)
    OBVIOUS
  <2>2. CASE FromRest(key, server, rest, patch, m)
    <3>1. merged[n] = [list |-> Append(m.list, rest[m.i]), i |-> m.i + 1, j |-> m.j]
      BY <1>3, <2>2
    <3> HIDE DEF m, last, S
    <3>. QED  BY <1>1, <2>1, <2>2, <3>1, TakeFromRest DEF last
  <2>3. CASE ~FromRest(key, server, rest, patch, m)
    <3>1. merged[n] = [list |-> Append(m.list, patch[m.j]), i |-> m.i, j |-> m.j + 1]
      BY <1>3, <2>3
    <3> HIDE DEF m, last, S
    <3>. QED  BY <1>1, <2>1, <2>3, <3>1, TakeFromPatch DEF last
  <2>. QED  BY <2>2, <2>3
<1>7. 0..last \subseteq S
  <2> HIDE DEF S, last
  <2>. QED  BY <1>4, <1>5, <1>6, UpTo
<1>. QED  BY <1>7 DEF rest

LEMMA BothDone ==
    ASSUME NEW R \in Nat, NEW P \in Nat, NEW i \in 1..R + 1, NEW j \in 1..P + 1,
           i + j = R + P + 2
    PROVE  i - 1 = R /\ j - 1 = P
OBVIOUS

Keys(key, l) == {key[l[b]] : b \in 1..Len(l)}
DistinctKeys(key, l) == \A a, b \in 1..Len(l) : key[l[a]] = key[l[b]] => a = b
Kept(key, server, patch) == {x \in ToSet(server) : key[x] \notin Keys(key, patch)}
MergedSet(key, server, patch) == ToSet(patch) \cup Kept(key, server, patch)

\* from[k] is where the k-th element of the sublist was in the list.
Sublist(from, sub, list) ==
    /\ from \in [1..Len(sub) -> 1..Len(list)]
    /\ \A k \in 1..Len(sub) : sub[k] = list[from[k]]
    /\ \A k, l \in 1..Len(sub) : k < l => from[k] < from[l]

\* What the patch leaves of the list, in its order and without its keys.
LEMMA UnpatchedElements ==
    ASSUME NEW E, NEW key, NEW server \in Seq(E), NEW patch \in Seq(E)
    PROVE  /\ Unpatched(key, server, patch) \in Seq(E)
           /\ ToSet(Unpatched(key, server, patch)) = Kept(key, server, patch)
<1> DEFINE T == {x \in ToSet(server) : key[x] \notin Keys(key, patch)}
<1>1. Unpatched(key, server, patch) = Filter(server, T)
  <2>1. DOMAIN patch = 1..Len(patch)
    OBVIOUS
  <2>. QED  BY <2>1 DEF Unpatched, Keys
<1>2. Filter(server, T) \in Seq(E) /\ ToSet(Filter(server, T)) = ToSet(server) \cap T
  <2> HIDE DEF T
  <2>. QED  BY FilterElements
<1>3. ToSet(server) \cap T = T
  OBVIOUS
<1>. QED  BY <1>1, <1>2, <1>3 DEF Kept

LEMMA UnpatchedOrder ==
    ASSUME NEW E, NEW key, NEW server \in Seq(E), NEW patch \in Seq(E)
    PROVE  \E from : Sublist(from, Unpatched(key, server, patch), server)
<1> DEFINE T == {x \in ToSet(server) : key[x] \notin Keys(key, patch)}
           rest == Filter(server, T)
<1>1. Unpatched(key, server, patch) = rest
  <2>1. DOMAIN patch = 1..Len(patch)
    OBVIOUS
  <2>. QED  BY <2>1 DEF Unpatched, Keys
<1>2. PICK from \in [1..Len(rest) -> 1..Len(server)] :
         /\ \A k \in 1..Len(rest) : rest[k] = server[from[k]]
         /\ \A k, l \in 1..Len(rest) : k < l => from[k] < from[l]
  <2> HIDE DEF T
  <2>. QED  BY FilterKeepsOrder
<1> HIDE DEF rest
<1>3. Sublist(from, rest, server)
  BY <1>2 DEF Sublist
<1>. QED  BY <1>1, <1>3

LEMMA UnpatchedKeys ==
    ASSUME NEW E, NEW key, NEW server \in Seq(E), NEW patch \in Seq(E),
           NEW a \in 1..Len(Unpatched(key, server, patch)), NEW b \in 1..Len(patch)
    PROVE  key[Unpatched(key, server, patch)[a]] # key[patch[b]]
<1> DEFINE rest == Unpatched(key, server, patch)
<1>1. /\ rest \in Seq(E)
      /\ ToSet(rest) = Kept(key, server, patch)
  BY UnpatchedElements
<1> HIDE DEF rest
<1>2. rest[a] \in ToSet(rest)
  BY <1>1 DEF ToSet, rest
<1>3. key[patch[b]] \in Keys(key, patch)
  BY DEF Keys
<1>4. key[rest[a]] # key[patch[b]]
  BY <1>1, <1>2, <1>3 DEF Kept
<1>. QED  BY <1>4 DEF rest

LEMMA MergedElements ==
    ASSUME NEW E, NEW key, NEW server \in Seq(E), NEW patch \in Seq(E)
    PROVE  /\ StrategicMergePatch(key, server, patch) \in Seq(E)
           /\ ToSet(StrategicMergePatch(key, server, patch)) =
                MergedSet(key, server, patch)
<1> DEFINE rest == Unpatched(key, server, patch)
           last == Len(rest) + Len(patch)
<1>1. PICK merged : Merges(merged, key, server, patch)
  BY MergeLoop
<1> DEFINE m == merged[last]
<1>2. StrategicMergePatch(key, server, patch) = m.list
  BY <1>1 DEF Merges
<1>3. rest \in Seq(E) /\ ToSet(rest) = Kept(key, server, patch)
  BY UnpatchedElements
<1>4. \A n \in 0..last : Progress(merged[n], E, key, server, rest, patch, n)
  BY <1>1, MergeProgress
<1> HIDE DEF rest
<1>5. Progress(m, E, key, server, rest, patch, last)
  <2>1. last \in 0..last
    BY <1>3
  <2> HIDE DEF last
  <2>. QED  BY <1>4, <2>1
<1> HIDE DEF m
<1>6. m.i \in 1..Len(rest) + 1 /\ m.j \in 1..Len(patch) + 1 /\ m.i + m.j = last + 2
  BY <1>5 DEF Progress
<1>7. Len(rest) \in Nat /\ Len(patch) \in Nat
  BY <1>3
<1>8. m.i - 1 = Len(rest) /\ m.j - 1 = Len(patch)
  BY <1>6, <1>7, BothDone, SMTT(30)
<1>9. m.list \in Seq(E) /\ ToSet(m.list) =
          {rest[a] : a \in 1..Len(rest)} \cup {patch[b] : b \in 1..Len(patch)}
  BY <1>5, <1>8 DEF Progress
<1>10. ToSet(rest) = {rest[a] : a \in 1..Len(rest)} /\ ToSet(patch) = {patch[b] : b \in 1..Len(patch)}
  BY <1>3 DEF ToSet
<1>. QED  BY <1>2, <1>3, <1>9, <1>10 DEF MergedSet

LEMMA AppendDistinct ==
    ASSUME NEW E, NEW key, NEW l \in Seq(E), NEW x \in E,
           DistinctKeys(key, l), \A y \in ToSet(l) : key[y] # key[x]
    PROVE  DistinctKeys(key, Append(l, x))
<1> DEFINE r == Append(l, x)
           n == Len(l)
<1>1. /\ n \in Nat /\ Len(r) = n + 1 /\ r[n + 1] = x
      /\ \A a \in 1..n : r[a] = l[a]
      /\ DOMAIN l = 1..n
  OBVIOUS
<1> HIDE DEF r
<1>2. \A a \in 1..n : key[r[a]] # key[x]
  BY <1>1 DEF ToSet
<1>3. \A a \in 1..n + 1 : a \in 1..n \/ a = n + 1
  BY <1>1
<1> HIDE DEF n
<1>4. ASSUME NEW a \in 1..n + 1, NEW b \in 1..n + 1, key[r[a]] = key[r[b]] PROVE a = b
  <2>1. CASE a \in 1..n /\ b \in 1..n
    BY <1>1, <1>4, <2>1 DEF n, DistinctKeys
  <2>2. CASE a = n + 1 \/ b = n + 1
    BY <1>1, <1>2, <1>3, <1>4, <2>2
  <2>. QED  BY <1>3, <2>1, <2>2
<1>. QED  BY <1>1, <1>4 DEF r, DistinctKeys

LEMMA UnpatchedDistinct ==
    ASSUME NEW E, NEW key, NEW server \in Seq(E), NEW patch \in Seq(E),
           DistinctKeys(key, server),
           NEW k \in 1..Len(Unpatched(key, server, patch)),
           NEW l \in 1..Len(Unpatched(key, server, patch)), k < l
    PROVE  key[Unpatched(key, server, patch)[k]] # key[Unpatched(key, server, patch)[l]]
<1> DEFINE rest == Unpatched(key, server, patch)
<1>1. PICK from : Sublist(from, rest, server)
  BY UnpatchedOrder
<1> HIDE DEF rest
<1>2. k \in 1..Len(rest) /\ l \in 1..Len(rest)
  BY DEF rest
<1>3. /\ from[k] \in 1..Len(server) /\ from[l] \in 1..Len(server) /\ from[k] < from[l]
      /\ rest[k] = server[from[k]] /\ rest[l] = server[from[l]]
  BY <1>1, <1>2 DEF Sublist
<1>4. from[k] # from[l]
  BY <1>3
<1>5. key[rest[k]] # key[rest[l]]
  BY <1>3, <1>4 DEF DistinctKeys
<1>. QED  BY <1>5 DEF rest

\* A merge of lists without repeated keys has no repeated keys.
LEMMA MergedDistinct ==
    ASSUME NEW E, NEW key, NEW server \in Seq(E), NEW patch \in Seq(E),
           DistinctKeys(key, server), DistinctKeys(key, patch)
    PROVE  DistinctKeys(key, StrategicMergePatch(key, server, patch))
<1> DEFINE rest == Unpatched(key, server, patch)
           last == Len(rest) + Len(patch)
<1>1. PICK merged : Merges(merged, key, server, patch)
  BY MergeLoop
<1>2. StrategicMergePatch(key, server, patch) = merged[last].list
  BY <1>1 DEF Merges
<1>3. rest \in Seq(E)
  BY UnpatchedElements
<1>4. \A a \in 1..Len(rest), b \in 1..Len(patch) : key[rest[a]] # key[patch[b]]
  BY UnpatchedKeys
<1>5. \A n \in 0..last : Progress(merged[n], E, key, server, rest, patch, n)
  BY <1>1, MergeProgress
<1>6. /\ merged[0] = [list |-> <<>>, i |-> 1, j |-> 1]
      /\ \A n \in 1..last : merged[n] =
            LET m == merged[n - 1]
            IN  IF FromRest(key, server, rest, patch, m)
                THEN [list |-> Append(m.list, rest[m.i]), i |-> m.i + 1, j |-> m.j]
                ELSE [list |-> Append(m.list, patch[m.j]), i |-> m.i, j |-> m.j + 1]
  BY <1>1 DEF Merges
<1>7. \A k, l \in 1..Len(rest) : k < l => key[rest[k]] # key[rest[l]]
  BY UnpatchedDistinct
<1> HIDE DEF rest
<1> DEFINE S == {n \in 0..last : DistinctKeys(key, merged[n].list)}
<1>8. last \in Nat
  BY <1>3
<1>9. 0 \in S
  <2>1. merged[0].list = <<>>
    BY <1>6
  <2>2. DistinctKeys(key, <<>>)
    BY DEF DistinctKeys
  <2>. QED  BY <1>8, <2>1, <2>2
<1>10. \A n \in 1..last : n - 1 \in S => n \in S
  <2> SUFFICES ASSUME NEW n \in 1..last, n - 1 \in S PROVE DistinctKeys(key, merged[n].list)
    <3>1. 1..last \subseteq 0..last
      BY <1>8
    <3> HIDE DEF last
    <3>. QED  BY <3>1
  <2> DEFINE m == merged[n - 1]
  <2>1. Progress(m, E, key, server, rest, patch, n - 1) /\ DistinctKeys(key, m.list)
    <3>1. n - 1 \in 0..last
      BY <1>8
    <3> HIDE DEF last
    <3>. QED  BY <1>5, <3>1
  <2>6. merged[n] = IF FromRest(key, server, rest, patch, m)
                    THEN [list |-> Append(m.list, rest[m.i]), i |-> m.i + 1, j |-> m.j]
                    ELSE [list |-> Append(m.list, patch[m.j]), i |-> m.i, j |-> m.j + 1]
    BY <1>6
  <2> HIDE DEF m
  <2>2. /\ m.list \in Seq(E)
        /\ ToSet(m.list) = {rest[a] : a \in 1..m.i - 1} \cup {patch[b] : b \in 1..m.j - 1}
        /\ m.i \in 1..Len(rest) + 1 /\ m.j \in 1..Len(patch) + 1
    BY <2>1 DEF Progress
  <2>3. Len(rest) \in Nat /\ Len(patch) \in Nat
    BY <1>3
  <2>4. CASE FromRest(key, server, rest, patch, m)
    <3>1. merged[n].list = Append(m.list, rest[m.i])
      BY <2>4, <2>6
    <3>2. m.i \in 1..Len(rest)
      BY <1>3, <2>1, <2>4, TakeFromRest
    <3>3. \A y \in ToSet(m.list) : key[y] # key[rest[m.i]]
      <4>1. ASSUME NEW a \in 1..m.i - 1 PROVE key[rest[a]] # key[rest[m.i]]
        <5>1. a \in 1..Len(rest) /\ a < m.i
          BY <2>3, <3>2
        <5>. QED  BY <1>7, <3>2, <5>1
      <4>2. ASSUME NEW b \in 1..m.j - 1 PROVE key[patch[b]] # key[rest[m.i]]
        <5>1. b \in 1..Len(patch)
          BY <2>2, <2>3
        <5>. QED  BY <1>4, <3>2, <5>1
      <4>. QED  BY <2>2, <4>1, <4>2
    <3>4. rest[m.i] \in E
      BY <1>3, <3>2
    <3>5. DistinctKeys(key, Append(m.list, rest[m.i]))
      BY <2>1, <2>2, <3>3, <3>4, AppendDistinct
    <3>. QED  BY <3>1, <3>5
  <2>5. CASE ~FromRest(key, server, rest, patch, m)
    <3>1. merged[n].list = Append(m.list, patch[m.j])
      BY <2>5, <2>6
    <3>2. m.j \in 1..Len(patch)
      BY <1>3, <2>1, <2>5, TakeFromPatch
    <3>3. \A y \in ToSet(m.list) : key[y] # key[patch[m.j]]
      <4>1. ASSUME NEW a \in 1..m.i - 1 PROVE key[rest[a]] # key[patch[m.j]]
        <5>1. a \in 1..Len(rest)
          BY <2>2, <2>3
        <5>. QED  BY <1>4, <3>2, <5>1
      <4>2. ASSUME NEW b \in 1..m.j - 1 PROVE key[patch[b]] # key[patch[m.j]]
        <5>1. b \in 1..Len(patch) /\ b # m.j
          BY <2>3, <3>2
        <5>. QED  BY <3>2, <5>1 DEF DistinctKeys
      <4>. QED  BY <2>2, <4>1, <4>2
    <3>4. patch[m.j] \in E
      BY <3>2
    <3>5. DistinctKeys(key, Append(m.list, patch[m.j]))
      BY <2>1, <2>2, <3>3, <3>4, AppendDistinct
    <3>. QED  BY <3>1, <3>5
  <2>. QED  BY <2>4, <2>5
<1>11. last \in S
  <2> HIDE DEF S, last
  <2>1. 0..last \subseteq S
    BY <1>8, <1>9, <1>10, UpTo
  <2>. QED  BY <1>8, <2>1
<1>. QED  BY <1>2, <1>11

(***************************************************************************)
(* The merge and the order of the list it is made into: elements of the    *)
(* merged list that the server's list has too are in its order, if those   *)
(* of the patch are.                                                       *)
(***************************************************************************)
InKeyOrder(key, server, list) ==
    \A i, j \in 1..Len(list) :
        At(key, server, list[i]) > 0 /\ At(key, server, list[j]) > 0 =>
            (i < j <=> At(key, server, list[i]) < At(key, server, list[j]))

LEMMA AtFacts ==
    ASSUME NEW E, NEW key, NEW server \in Seq(E), DistinctKeys(key, server), NEW x
    PROVE  /\ At(key, server, x) \in 0..Len(server)
           /\ \A k \in 1..Len(server) : At(key, server, x) = k <=> key[server[k]] = key[x]
<1> DEFINE n == Len(server)
           Has(i) == key[server[i]] = key[x]
<1>1. n \in Nat /\ DOMAIN server = 1..n
  OBVIOUS
<1>2. \A i, k \in 1..n : Has(i) /\ Has(k) => i = k
  BY DEF DistinctKeys
<1>3. At(key, server, x) = IF \E i \in 1..n : Has(i) THEN CHOOSE i \in 1..n : Has(i) ELSE 0
  BY <1>1 DEF At
<1> HIDE DEF Has, n
<1>4. CASE \E i \in 1..n : Has(i)
  <2>1. PICK i \in 1..n : Has(i)
    BY <1>4
  <2>2. At(key, server, x) = i
    BY <1>2, <1>3, <2>1
  <2>. QED  BY <1>1, <1>2, <2>1, <2>2 DEF Has, n
<1>5. CASE ~\E i \in 1..n : Has(i)
  BY <1>1, <1>3, <1>5 DEF Has, n
<1>. QED  BY <1>4, <1>5

LEMMA AppendInOrder ==
    ASSUME NEW E, NEW key, NEW server, NEW l \in Seq(E), NEW x \in E,
           InKeyOrder(key, server, l), At(key, server, x) \in Nat,
           \A y \in ToSet(l) : At(key, server, y) \in Nat /\
              (At(key, server, y) > 0 /\ At(key, server, x) > 0 =>
                  At(key, server, y) < At(key, server, x))
    PROVE  InKeyOrder(key, server, Append(l, x))
<1> DEFINE r == Append(l, x)
           n == Len(l)
           A(y) == At(key, server, y)
<1>1. /\ n \in Nat /\ Len(r) = n + 1 /\ r[n + 1] = x
      /\ \A a \in 1..n : r[a] = l[a]
      /\ DOMAIN l = 1..n
  OBVIOUS
<1> HIDE DEF r
<1>2. \A a \in 1..n : A(r[a]) \in Nat /\ (A(r[a]) > 0 /\ A(x) > 0 => A(r[a]) < A(x))
  BY <1>1 DEF ToSet
<1>3. \A a \in 1..n + 1 : a \in 1..n \/ a = n + 1
  BY <1>1
<1>4. \A i, j \in 1..n : A(r[i]) > 0 /\ A(r[j]) > 0 => (i < j <=> A(r[i]) < A(r[j]))
  BY <1>1 DEF InKeyOrder
<1>5. A(x) \in Nat
  OBVIOUS
<1> HIDE DEF n, A
<1>6. ASSUME NEW i \in 1..n + 1, NEW j \in 1..n + 1, A(r[i]) > 0, A(r[j]) > 0
      PROVE  i < j <=> A(r[i]) < A(r[j])
  <2>1. CASE i \in 1..n /\ j \in 1..n
    BY <1>4, <1>6, <2>1
  <2>2. CASE i = n + 1 /\ j = n + 1
    BY <1>1, <1>5, <2>2
  <2>3. CASE i \in 1..n /\ j = n + 1
    <3>1. i < j
      BY <1>1, <2>3
    <3>2. A(r[i]) < A(r[j])
      BY <1>1, <1>2, <1>6, <2>3
    <3>. QED  BY <3>1, <3>2
  <2>4. CASE i = n + 1 /\ j \in 1..n
    <3>1. ~(i < j)
      BY <1>1, <2>4
    <3>2. A(r[j]) < A(r[i]) /\ A(r[i]) \in Nat /\ A(r[j]) \in Nat
      BY <1>1, <1>2, <1>5, <1>6, <2>4
    <3>. QED  BY <3>1, <3>2
  <2>. QED  BY <1>3, <2>1, <2>2, <2>3, <2>4
<1>. QED  BY <1>1, <1>6 DEF InKeyOrder, r, A

LEMMA MergedInOrder ==
    ASSUME NEW E, NEW key, NEW server \in Seq(E), NEW patch \in Seq(E),
           DistinctKeys(key, server), InKeyOrder(key, server, patch)
    PROVE  InKeyOrder(key, server, StrategicMergePatch(key, server, patch))
<1> DEFINE rest == Unpatched(key, server, patch)
           last == Len(rest) + Len(patch)
           A(x) == At(key, server, x)
<1>1. PICK merged : Merges(merged, key, server, patch)
  BY MergeLoop
<1>2. StrategicMergePatch(key, server, patch) = merged[last].list
  BY <1>1 DEF Merges
<1>3. rest \in Seq(E)
  BY UnpatchedElements
<1>4. \A a \in 1..Len(rest), b \in 1..Len(patch) : key[rest[a]] # key[patch[b]]
  BY UnpatchedKeys
<1>5. \A n \in 0..last : Progress(merged[n], E, key, server, rest, patch, n)
  BY <1>1, MergeProgress
<1>6. /\ merged[0] = [list |-> <<>>, i |-> 1, j |-> 1]
      /\ \A n \in 1..last : merged[n] =
            LET m == merged[n - 1]
            IN  IF FromRest(key, server, rest, patch, m)
                THEN [list |-> Append(m.list, rest[m.i]), i |-> m.i + 1, j |-> m.j]
                ELSE [list |-> Append(m.list, patch[m.j]), i |-> m.i, j |-> m.j + 1]
  BY <1>1 DEF Merges
<1>7. PICK from : Sublist(from, rest, server)
  BY UnpatchedOrder
<1> HIDE DEF rest
<1>8. \A x : A(x) \in 0..Len(server) /\
             \A k \in 1..Len(server) : A(x) = k <=> key[server[k]] = key[x]
  BY AtFacts
<1>9. Len(server) \in Nat /\ \A x : A(x) \in Nat
  <2>1. Len(server) \in Nat
    OBVIOUS
  <2>. QED  BY <1>8, <2>1
<1>10. \A a \in 1..Len(rest) :
          from[a] \in 1..Len(server) /\ rest[a] = server[from[a]] /\ A(rest[a]) = from[a]
  <2> SUFFICES ASSUME NEW a \in 1..Len(rest)
               PROVE  /\ from[a] \in 1..Len(server) /\ rest[a] = server[from[a]]
                      /\ A(rest[a]) = from[a]
    OBVIOUS
  <2>1. from[a] \in 1..Len(server) /\ rest[a] = server[from[a]]
    BY <1>7 DEF Sublist
  <2>2. key[server[from[a]]] = key[rest[a]]
    BY <2>1
  <2> HIDE DEF A
  <2>. QED  BY <1>8, <2>1, <2>2
<1>11. \A a, c \in 1..Len(rest) : a < c => A(rest[a]) < A(rest[c])
  BY <1>7, <1>10 DEF Sublist
<1>12. \A a \in 1..Len(rest), b \in 1..Len(patch) : A(rest[a]) # A(patch[b])
  BY <1>4, <1>8, <1>10
<1>13. \A b, c \in 1..Len(patch) : A(patch[b]) > 0 /\ A(patch[c]) > 0 =>
                                  (b < c <=> A(patch[b]) < A(patch[c]))
  BY DEF InKeyOrder
<1> DEFINE S == {n \in 0..last : InKeyOrder(key, server, merged[n].list)}
<1>14. last \in Nat
  BY <1>3
<1>15. 0 \in S
  <2>1. merged[0].list = <<>>
    BY <1>6
  <2>2. InKeyOrder(key, server, <<>>)
    BY DEF InKeyOrder
  <2>. QED  BY <1>14, <2>1, <2>2
<1>16. \A n \in 1..last : n - 1 \in S => n \in S
  <2> SUFFICES ASSUME NEW n \in 1..last, n - 1 \in S
               PROVE  InKeyOrder(key, server, merged[n].list)
    <3>1. 1..last \subseteq 0..last
      BY <1>14
    <3> HIDE DEF last
    <3>. QED  BY <3>1
  <2> DEFINE m == merged[n - 1]
  <2>1. Progress(m, E, key, server, rest, patch, n - 1) /\ InKeyOrder(key, server, m.list)
    <3>1. n - 1 \in 0..last
      BY <1>14
    <3> HIDE DEF last
    <3>. QED  BY <1>5, <3>1
  <2>2. merged[n] = IF FromRest(key, server, rest, patch, m)
                    THEN [list |-> Append(m.list, rest[m.i]), i |-> m.i + 1, j |-> m.j]
                    ELSE [list |-> Append(m.list, patch[m.j]), i |-> m.i, j |-> m.j + 1]
    BY <1>6
  <2> HIDE DEF m
  <2>3. /\ m.list \in Seq(E)
        /\ ToSet(m.list) = {rest[a] : a \in 1..m.i - 1} \cup {patch[b] : b \in 1..m.j - 1}
        /\ m.i \in 1..Len(rest) + 1 /\ m.j \in 1..Len(patch) + 1
        /\ \A b \in 1..m.j - 1 : \E a \in 1..m.i :
              a > Len(rest) \/ ~(A(rest[a]) < A(patch[b]))
        /\ m.j <= Len(patch) => \A a \in 1..m.i - 1 : \E b \in 1..m.j :
              A(rest[a]) < A(patch[b])
    BY <2>1 DEF Progress
  <2>4. Len(rest) \in Nat /\ Len(patch) \in Nat
    BY <1>3
  <2>5. CASE FromRest(key, server, rest, patch, m)
    <3>1. merged[n].list = Append(m.list, rest[m.i])
      BY <2>2, <2>5
    <3>2. m.i \in 1..Len(rest)
      BY <1>3, <2>1, <2>5, TakeFromRest
    <3> HIDE DEF A
    <3>3. \A y \in ToSet(m.list) : A(y) < A(rest[m.i])
      <4>1. ASSUME NEW a \in 1..m.i - 1 PROVE A(rest[a]) < A(rest[m.i])
        <5>1. a \in 1..Len(rest) /\ a < m.i
          BY <2>4, <3>2
        <5>. QED  BY <1>11, <3>2, <5>1
      <4>2. ASSUME NEW b \in 1..m.j - 1 PROVE A(patch[b]) < A(rest[m.i])
        <5>1. b \in 1..Len(patch)
          BY <2>3, <2>4
        <5>2. PICK a \in 1..m.i : a > Len(rest) \/ ~(A(rest[a]) < A(patch[b]))
          BY <2>3
        <5>3. a \in 1..Len(rest) /\ ~(a > Len(rest)) /\ (a < m.i \/ a = m.i)
          BY <2>4, <3>2
        <5>4. ~(A(rest[a]) < A(patch[b])) /\ A(rest[a]) # A(patch[b])
          BY <1>12, <5>1, <5>2, <5>3
        <5>5. A(rest[a]) = A(rest[m.i]) \/ A(rest[a]) < A(rest[m.i])
          BY <1>11, <3>2, <5>3
        <5>. QED  BY <1>9, <5>4, <5>5
      <4>. QED  BY <2>3, <4>1, <4>2
    <3>4. rest[m.i] \in E
      BY <1>3, <3>2
    <3>5. InKeyOrder(key, server, Append(m.list, rest[m.i]))
      BY <1>9, <2>1, <2>3, <3>3, <3>4, AppendInOrder DEF A
    <3>. QED  BY <3>1, <3>5
  <2>6. CASE ~FromRest(key, server, rest, patch, m)
    <3>1. merged[n].list = Append(m.list, patch[m.j])
      BY <2>2, <2>6
    <3>2. m.j \in 1..Len(patch) /\ m.j <= Len(patch)
      <4>1. m.j \in 1..Len(patch)
        BY <1>3, <2>1, <2>6, TakeFromPatch
      <4>. QED  BY <2>4, <4>1
    <3> HIDE DEF A
    <3>3. \A y \in ToSet(m.list) : A(y) > 0 /\ A(patch[m.j]) > 0 => A(y) < A(patch[m.j])
      <4>1. ASSUME NEW b \in 1..m.j - 1, A(patch[b]) > 0, A(patch[m.j]) > 0
            PROVE  A(patch[b]) < A(patch[m.j])
        <5>1. b \in 1..Len(patch) /\ b < m.j
          BY <2>4, <3>2
        <5>. QED  BY <1>13, <3>2, <4>1, <5>1
      <4>2. ASSUME NEW a \in 1..m.i - 1, A(patch[m.j]) > 0
            PROVE  A(rest[a]) < A(patch[m.j])
        <5>1. PICK b \in 1..m.j : A(rest[a]) < A(patch[b])
          BY <2>3, <3>2
        <5>2. b \in 1..Len(patch) /\ (b < m.j \/ b = m.j)
          BY <2>4, <3>2
        <5>3. A(patch[b]) > 0
          BY <1>9, <5>1
        <5>4. A(patch[b]) < A(patch[m.j]) \/ A(patch[b]) = A(patch[m.j])
          BY <1>13, <3>2, <4>2, <5>2, <5>3
        <5>. QED  BY <1>9, <5>1, <5>4
      <4>. QED  BY <2>3, <4>1, <4>2
    <3>4. patch[m.j] \in E
      BY <3>2
    <3>5. InKeyOrder(key, server, Append(m.list, patch[m.j]))
      BY <1>9, <2>1, <2>3, <3>3, <3>4, AppendInOrder DEF A
    <3>. QED  BY <3>1, <3>5
  <2>. QED  BY <2>5, <2>6
<1>17. last \in S
  <2> HIDE DEF S, last
  <2>1. 0..last \subseteq S
    BY <1>14, <1>15, <1>16, UpTo
  <2>. QED  BY <1>14, <2>1
<1>. QED  BY <1>2, <1>17

-----------------------------------------------------------------------------
(* The environment and the mounts of the container. *)

(***************************************************************************)
(* Whatever variables an override adds or repeats, the three that others   *)
(* refer to come first in the list that patchPodSpec makes for the         *)
(* rabbitmq container, if that is Containers[0], unless the override       *)
(* itself lists the operator's variables in another order.                 *)
(***************************************************************************)
THEOREM VariablesDefinedFirst ==
    ASSUME NEW s, NEW T, s.env \in Seq(T), IsInjective(s.env), InOperatorOrder(s.env),
           RabbitmqIsFirst(s)
    PROVE  \A k \in 1..3 : PatchedEnv(s)[k] = EnvVars[k]
<1> DEFINE env == s.env
           V == EnvVars
           D == ToSet(V) \cup ToSet(env)
           E == D
           key == [e \in D |-> e]
           L == StrategicMergePatch(key, V, env)
<1>1. CASE env = <<>>
  BY <1>1 DEF PatchedEnv
<1>2. CASE env # <<>>
  <2>1. PatchedEnv(s) = sortEnvVar(L)
    BY <1>2 DEF PatchedEnv, MergedEnv
  <2>2. /\ V \in Seq(E) /\ Len(V) = 7 /\ DOMAIN V = 1..7
        /\ \A k, l \in 1..7 : V[k] = V[l] => k = l
        /\ env \in Seq(E) /\ DOMAIN env = 1..Len(env)
    <3>1. V \in Seq(ToSet(V)) /\ env \in Seq(T)
      BY EnvVarsFacts
    <3>2. ToSet(V) \subseteq E /\ ToSet(env) \subseteq E
      OBVIOUS
    <3>3. V \in Seq(E) /\ env \in Seq(E)
      <4> HIDE DEF E
      <4>. QED  BY <3>1, <3>2, OfElements
    <3>. QED  BY <3>3, EnvVarsFacts
  <2>3. \A e \in D : key[e] = e
    OBVIOUS
  <2> HIDE DEF V, env, key, E
  <2>4. (\A k \in 1..7 : V[k] \in D) /\ (\A b \in 1..Len(env) : env[b] \in D)
    BY <2>2 DEF ToSet
  <2>5. DistinctKeys(key, V)
    BY <2>2, <2>3, <2>4 DEF DistinctKeys
  <2>6. \A a, b \in 1..Len(env) : env[a] = env[b] => a = b
    BY <2>2 DEF IsInjective, env
  <2>7. DistinctKeys(key, env)
    BY <2>3, <2>4, <2>6 DEF DistinctKeys
  <2>8. \A x : At(key, V, x) \in 0..7 /\ \A k \in 1..7 : At(key, V, x) = k <=> key[V[k]] = key[x]
    <3>1. \A x : /\ At(key, V, x) \in 0..Len(V)
                 /\ \A k \in 1..Len(V) : At(key, V, x) = k <=> key[V[k]] = key[x]
      <4>1. V \in Seq(E)
        BY <2>2
      <4> HIDE DEF D
      <4>. QED  BY <4>1, <2>5, AtFacts
    <3>. QED  BY <2>2, <3>1
  <2>9. \A x \in D, k \in 1..7 : At(key, V, x) = k <=> V[k] = x
    BY <2>3, <2>4, <2>8
  <2>10. InKeyOrder(key, V, env)
    <3> SUFFICES ASSUME NEW i \in 1..Len(env), NEW j \in 1..Len(env),
                        At(key, V, env[i]) > 0, At(key, V, env[j]) > 0
                 PROVE  i < j <=> At(key, V, env[i]) < At(key, V, env[j])
      BY DEF InKeyOrder
    <3>1. At(key, V, env[i]) \in 1..7 /\ At(key, V, env[j]) \in 1..7
      BY <2>8
    <3>2. V[At(key, V, env[i])] = env[i] /\ V[At(key, V, env[j])] = env[j]
      BY <2>4, <2>9, <3>1
    <3>3. \A a, b \in 1..Len(env), k, l \in 1..7 :
             env[a] = V[k] /\ env[b] = V[l] => (a < b <=> k < l)
      BY <2>2 DEF InOperatorOrder, V, env
    <3>. QED  BY <3>1, <3>2, <3>3
  <2>11. L \in Seq(E) /\ ToSet(L) = MergedSet(key, V, env)
    <3>1. V \in Seq(E) /\ env \in Seq(E)
      BY <2>2
    <3> HIDE DEF D
    <3>. QED  BY <3>1, MergedElements
  <2>12. DistinctKeys(key, L)
    BY <2>2, <2>5, <2>7, MergedDistinct
  <2>13. InKeyOrder(key, V, L)
    BY <2>2, <2>5, <2>10, MergedInOrder
  <2> HIDE DEF L
  <2>14. Len(L) \in Nat /\ DOMAIN L = 1..Len(L)
    BY <2>11
  <2>15. \A a \in 1..Len(L) : L[a] \in D
    BY <2>11, <2>14 DEF ToSet, Kept, MergedSet
  <2>16. \A k \in 1..7 : \E a \in 1..Len(L) : L[a] = V[k]
    <3> SUFFICES ASSUME NEW k \in 1..7 PROVE V[k] \in ToSet(L)
      BY <2>14 DEF ToSet
    <3>1. CASE V[k] \in ToSet(env)
      BY <2>11, <3>1 DEF MergedSet
    <3>2. CASE V[k] \notin ToSet(env)
      <4>1. key[V[k]] \notin Keys(key, env)
        <5>1. key[V[k]] = V[k] /\ \A b \in 1..Len(env) : key[env[b]] = env[b] /\ env[b] # V[k]
          BY <2>2, <2>3, <2>4, <3>2 DEF ToSet
        <5>. QED  BY <5>1 DEF Keys
      <4>2. V[k] \in ToSet(V)
        BY <2>2 DEF ToSet
      <4>. QED  BY <2>11, <4>1, <4>2 DEF Kept, MergedSet
    <3>. QED  BY <3>1, <3>2
  <2>17. \A a, b \in 1..Len(L) : L[a] = L[b] => a = b
    BY <2>12 DEF DistinctKeys
  <2>18. PICK x \in 1..Len(L), y \in 1..Len(L), z \in 1..Len(L) :
            L[x] = V[1] /\ L[y] = V[2] /\ L[z] = V[3]
    BY <2>16
  <2> DEFINE p == [k \in 1..3 |-> IF k = 1 THEN x ELSE IF k = 2 THEN y ELSE z]
  <2>19. \A k \in 1..3 : p[k] \in 1..Len(L) /\ L[p[k]] = V[k]
    BY <2>18
  <2>20. p \in [1..3 -> 1..Len(L)]
    BY <2>19
  <2> HIDE DEF p
  <2>21. \A k \in 1..3, i \in 1..Len(L) : L[i] = V[k] <=> i = p[k]
    BY <2>17, <2>19
  <2>22. \A k \in 1..3 : At(key, V, L[p[k]]) = k
    BY <2>9, <2>15, <2>19, SMTT(30)
  <2>23. p[1] < p[2] /\ p[2] < p[3]
    <3>1. \A i, j \in 1..Len(L) : At(key, V, L[i]) > 0 /\ At(key, V, L[j]) > 0 =>
             (i < j <=> At(key, V, L[i]) < At(key, V, L[j]))
      BY <2>13 DEF InKeyOrder
    <3>2. /\ p[1] \in 1..Len(L) /\ p[2] \in 1..Len(L) /\ p[3] \in 1..Len(L)
          /\ At(key, V, L[p[1]]) = 1 /\ At(key, V, L[p[2]]) = 2 /\ At(key, V, L[p[3]]) = 3
      BY <2>19, <2>22
    <3>3. p[1] < p[2] <=> At(key, V, L[p[1]]) < At(key, V, L[p[2]])
      BY <2>14, <3>1, <3>2, SMTT(30)
    <3>4. p[2] < p[3] <=> At(key, V, L[p[2]]) < At(key, V, L[p[3]])
      BY <2>14, <3>1, <3>2
    <3>. QED  BY <3>2, <3>3, <3>4
  <2>24. \A k \in 1..3 : sortEnvVar(L)[k] = V[k]
    BY <2>11, <2>20, <2>21, <2>23, VariablesFirst DEF V
  <2>. QED  BY <2>1, <2>24 DEF V
<1>. QED  BY <1>1, <1>2

\* The mounts of rabbitmqContainerVolumeMounts, as a set.
OwnMounts(s) ==
    {Mount("lib", "rabbitmq-erlang-cookie"), Mount("lib/mnesia", "persistence"),
     Mount("operator", "rabbitmq-plugins"), Mount("10-operatorDefaults", "rabbitmq-confd"),
     Mount("90-userDefined", "rabbitmq-confd"), Mount("pod-info", "pod-info")} \cup
    (IF ~VaultDefaultUserSecretEnabled(s) THEN {Mount("11-default_user", "rabbitmq-confd")}
     ELSE {}) \cup
    (IF "rabbitmq-env.conf" \in s.files THEN {Mount("rabbitmq-env.conf", "server-conf")}
     ELSE {}) \cup
    (IF "advanced.config" \in s.files THEN {Mount("advanced.config", "server-conf")}
     ELSE {}) \cup
    (IF SecretTLSEnabled(s) THEN {Mount("rabbitmq-tls", "rabbitmq-tls")} ELSE {})

DistinctPaths(l) == \A a, b \in 1..Len(l) : l[a].path = l[b].path => a = b

\* A list of the mounts M that starts with first, no path in it twice.
MountList(l, first, M) ==
    /\ l \in Seq(M) /\ ToSet(l) = M /\ DistinctPaths(l)
    /\ Len(l) > 0 /\ l[1] = first

LEMMA AddMount ==
    ASSUME NEW l, NEW first, NEW M, MountList(l, first, M),
           NEW m, \A x \in M : x.path # m.path, NEW test
    PROVE  MountList(l \o When(test, <<m>>), first, M \cup IF test THEN {m} ELSE {})
<1>1. l \in Seq(M) /\ ToSet(l) = M /\ DistinctPaths(l) /\ Len(l) > 0 /\ l[1] = first
  BY DEF MountList
<1>2. CASE test
  <2> DEFINE N == M \cup {m}
             n == Len(l)
             r == Append(l, m)
  <2>1. l \o When(test, <<m>>) = r
    BY <1>1, <1>2 DEF When
  <2>2. l \in Seq(N) /\ m \in N
    BY <1>1
  <2>3. r \in Seq(N) /\ Len(r) = n + 1 /\ r[n + 1] = m /\ \A a \in 1..n : r[a] = l[a]
    <3> HIDE DEF N
    <3>. QED  BY <2>2
  <2>4. ToSet(r) = N
    <3>1. ToSet(r) = ToSet(l) \cup {m}
      <4> HIDE DEF N
      <4>. QED  BY <2>2, AppendElements
    <3>. QED  BY <1>1, <3>1
  <2>5. n \in Nat /\ n > 0 /\ \A a \in 1..n : l[a].path # m.path
    BY <1>1 DEF ToSet
  <2> HIDE DEF r, n
  <2>6. \A a \in 1..n + 1 : a \in 1..n \/ a = n + 1
    BY <2>5
  <2>7. DistinctPaths(r)
    <3> SUFFICES ASSUME NEW a \in 1..n + 1, NEW b \in 1..n + 1, r[a].path = r[b].path
                 PROVE  a = b
      BY <2>3 DEF DistinctPaths
    <3>1. CASE a \in 1..n /\ b \in 1..n
      BY <1>1, <2>3, <3>1 DEF DistinctPaths, n
    <3>2. CASE a = n + 1 \/ b = n + 1
      BY <2>3, <2>5, <2>6, <3>2
    <3>. QED  BY <2>6, <3>1, <3>2
  <2>8. Len(r) > 0 /\ r[1] = first
    BY <1>1, <2>3, <2>5
  <2>9. M \cup (IF test THEN {m} ELSE {}) = N
    BY <1>2
  <2> HIDE DEF N
  <2>. QED  BY <2>1, <2>3, <2>4, <2>7, <2>8, <2>9 DEF MountList
<1>3. CASE ~test
  <2>1. l \o When(test, <<m>>) = l
    BY <1>1, <1>3 DEF When
  <2>2. M \cup (IF test THEN {m} ELSE {}) = M
    BY <1>3
  <2>. QED  BY <2>1, <2>2
<1>. QED  BY <1>2, <1>3

LEMMA OwnMountList ==
    ASSUME NEW s
    PROVE  MountList(rabbitmqContainerVolumeMounts(s),
                     Mount("lib", "rabbitmq-erlang-cookie"), OwnMounts(s))
<1> DEFINE m1 == Mount("lib", "rabbitmq-erlang-cookie")
           m2 == Mount("lib/mnesia", "persistence")
           m3 == Mount("operator", "rabbitmq-plugins")
           m4 == Mount("10-operatorDefaults", "rabbitmq-confd")
           m5 == Mount("90-userDefined", "rabbitmq-confd")
           m6 == Mount("pod-info", "pod-info")
           m7 == Mount("11-default_user", "rabbitmq-confd")
           m8 == Mount("rabbitmq-env.conf", "server-conf")
           m9 == Mount("advanced.config", "server-conf")
           m10 == Mount("rabbitmq-tls", "rabbitmq-tls")
           t7 == ~VaultDefaultUserSecretEnabled(s)
           t8 == "rabbitmq-env.conf" \in s.files
           t9 == "advanced.config" \in s.files
           t10 == SecretTLSEnabled(s)
           M6 == {m1, m2, m3, m4, m5, m6}
           M7 == M6 \cup IF t7 THEN {m7} ELSE {}
           M8 == M7 \cup IF t8 THEN {m8} ELSE {}
           M9 == M8 \cup IF t9 THEN {m9} ELSE {}
           M10 == M9 \cup IF t10 THEN {m10} ELSE {}
           l6 == <<m1, m2, m3, m4, m5, m6>>
           l7 == l6 \o When(t7, <<m7>>)
           l8 == l7 \o When(t8, <<m8>>)
           l9 == l8 \o When(t9, <<m9>>)
           l10 == l9 \o When(t10, <<m10>>)
<1>1. /\ m1.path = "lib" /\ m2.path = "lib/mnesia" /\ m3.path = "operator"
      /\ m4.path = "10-operatorDefaults" /\ m5.path = "90-userDefined" /\ m6.path = "pod-info"
      /\ m7.path = "11-default_user" /\ m8.path = "rabbitmq-env.conf"
      /\ m9.path = "advanced.config" /\ m10.path = "rabbitmq-tls"
  BY DEF Mount
<1>2. rabbitmqContainerVolumeMounts(s) = l10
  BY DEF rabbitmqContainerVolumeMounts
<1>3. OwnMounts(s) = M10
  BY DEF OwnMounts
<1> HIDE DEF m1, m2, m3, m4, m5, m6, m7, m8, m9, m10, t7, t8, t9, t10
<1>4. MountList(l6, m1, M6)
  <2>1. l6 \in Seq(M6) /\ Len(l6) = 6 /\ DOMAIN l6 = 1..6
    OBVIOUS
  <2>2. l6[1] = m1 /\ l6[2] = m2 /\ l6[3] = m3 /\ l6[4] = m4 /\ l6[5] = m5 /\ l6[6] = m6
    OBVIOUS
  <2> HIDE DEF l6
  <2>3. \A a \in 1..6 : a = 1 \/ a = 2 \/ a = 3 \/ a = 4 \/ a = 5 \/ a = 6
    OBVIOUS
  <2>4. ToSet(l6) = M6
    BY <2>1, <2>2, <2>3 DEF ToSet
  <2>5. DistinctPaths(l6)
    BY <1>1, <2>1, <2>2, <2>3 DEF DistinctPaths
  <2>. QED  BY <2>1, <2>2, <2>4, <2>5 DEF MountList
<1>5. /\ \A x \in M6 : x.path # m7.path
      /\ \A x \in M7 : x.path # m8.path
      /\ \A x \in M8 : x.path # m9.path
      /\ \A x \in M9 : x.path # m10.path
  BY <1>1
<1> HIDE DEF M6, l6
<1>6. MountList(l7, m1, M7)
  BY <1>4, <1>5, AddMount
<1> HIDE DEF M7, l7
<1>7. MountList(l8, m1, M8)
  BY <1>5, <1>6, AddMount
<1> HIDE DEF M8, l8
<1>8. MountList(l9, m1, M9)
  BY <1>5, <1>7, AddMount
<1> HIDE DEF M9, l9
<1>9. MountList(l10, m1, M10)
  BY <1>5, <1>8, AddMount
<1>. QED  BY <1>2, <1>3, <1>9 DEF m1

\* M has mounts of the override and of the operator, and every path of the
\* operator's.
Mounted(M, s) ==
    /\ M \subseteq ToSet(s.mounts) \cup OwnMounts(s)
    /\ \A m \in OwnMounts(s) : \E x \in M : x.path = m.path

\* The merged mounts, before they are sorted.
LEMMA MergedMountsFacts ==
    ASSUME NEW s, NEW T, s.mounts \in Seq(T), DistinctPaths(s.mounts)
    PROVE  /\ MergedMounts(s) \in Seq(ToSet(MergedMounts(s)))
           /\ DistinctPaths(MergedMounts(s)) /\ Len(MergedMounts(s)) > 1
           /\ Mounted(ToSet(MergedMounts(s)), s)
<1> DEFINE own == rabbitmqContainerVolumeMounts(s)
           patch == s.mounts
           D == ToSet(own) \cup ToSet(patch)
           key == [m \in D |-> m.path]
           L == StrategicMergePatch(key, own, patch)
           O == OwnMounts(s)
           E == D
<1>1. MergedMounts(s) = L
  BY DEF MergedMounts
<1>2. own \in Seq(O) /\ ToSet(own) = O /\ DistinctPaths(own)
  BY OwnMountList DEF MountList
<1>3. \A m \in D : key[m] = m.path
  OBVIOUS
<1>4. patch \in Seq(T) /\ DistinctPaths(patch)
  OBVIOUS
<1>5. O \subseteq D /\ ToSet(patch) \subseteq D /\ D = O \cup ToSet(patch)
  BY <1>2
<1> HIDE DEF own, patch, key, O, D
<1>6. own \in Seq(E) /\ patch \in Seq(E)
  <2>1. ToSet(own) \subseteq E /\ ToSet(patch) \subseteq E
    BY <1>2, <1>5
  <2> HIDE DEF E
  <2>. QED  BY <1>2, <1>4, <2>1, OfElements
<1> HIDE DEF E
<1>7. /\ \A a \in 1..Len(own) : own[a] \in D
      /\ \A b \in 1..Len(patch) : patch[b] \in D
  BY <1>6 DEF E
<1>8. DistinctKeys(key, own) /\ DistinctKeys(key, patch)
  BY <1>2, <1>3, <1>4, <1>7 DEF DistinctKeys, DistinctPaths
<1>9. L \in Seq(E) /\ ToSet(L) = MergedSet(key, own, patch)
  BY <1>6, MergedElements
<1>10. DistinctKeys(key, L)
  BY <1>6, <1>8, MergedDistinct
<1> HIDE DEF L
<1>11. \A a \in 1..Len(L) : L[a] \in D
  BY <1>9 DEF E
<1>12. DistinctPaths(L)
  BY <1>3, <1>10, <1>11 DEF DistinctKeys, DistinctPaths
<1>13. ToSet(L) \subseteq ToSet(patch) \cup O
  BY <1>2, <1>9 DEF MergedSet, Kept
<1>14. \A m \in O : \E x \in ToSet(L) : x.path = m.path
  <2> SUFFICES ASSUME NEW m \in O PROVE \E x \in ToSet(L) : x.path = m.path
    OBVIOUS
  <2>1. CASE m.path \in Keys(key, patch)
    <3>1. PICK b \in 1..Len(patch) : m.path = key[patch[b]]
      BY <2>1 DEF Keys
    <3>2. patch[b] \in ToSet(patch)
      BY <1>4 DEF ToSet
    <3>3. patch[b].path = m.path
      BY <1>3, <1>7, <3>1
    <3>. QED  BY <1>9, <3>2, <3>3 DEF MergedSet
  <2>2. CASE m.path \notin Keys(key, patch)
    <3>1. m \in ToSet(own) /\ key[m] = m.path
      BY <1>2, <1>3, <1>5
    <3>2. m \in ToSet(L)
      BY <1>9, <2>2, <3>1 DEF MergedSet, Kept
    <3>. QED  BY <3>2
  <2>. QED  BY <2>1, <2>2
<1>15. Len(L) > 1
  <2> DEFINE lib == Mount("lib", "rabbitmq-erlang-cookie")
             mnesia == Mount("lib/mnesia", "persistence")
  <2>1. lib \in O /\ mnesia \in O
    BY DEF O, OwnMounts
  <2>2. lib.path = "lib" /\ mnesia.path = "lib/mnesia"
    BY DEF Mount
  <2> HIDE DEF lib, mnesia
  <2>3. PICK x \in ToSet(L), y \in ToSet(L) : x.path = "lib" /\ y.path = "lib/mnesia"
    BY <1>14, <2>1, <2>2
  <2>4. PICK a \in 1..Len(L), b \in 1..Len(L) : L[a] = x /\ L[b] = y
    BY <1>9 DEF ToSet
  <2>5. a # b
    BY <2>3, <2>4
  <2>6. Len(L) \in Nat
    BY <1>9
  <2>. QED  BY <2>5, <2>6
<1>16. L \in Seq(ToSet(L))
  BY <1>9, OfElements
<1>17. Mounted(ToSet(L), s)
  BY <1>13, <1>14 DEF Mounted, O, patch
<1>. QED  BY <1>1, <1>12, <1>15, <1>16, <1>17

LEMMA SortedMountSet ==
    ASSUME NEW E, NEW mounts \in Seq(E), Len(mounts) > 1
    PROVE  /\ sortVolumeMounts(mounts) \in [1..Len(mounts) -> E]
           /\ ToSet(sortVolumeMounts(mounts)) = ToSet(mounts)
<1> DEFINE sorted == {m \in ToSet(mounts) : m.name \in {"rabbitmq-erlang-cookie", "persistence"}}
           slots == [m \in sorted |-> IF m.name = "persistence" THEN 2 ELSE 1]
<1>1. sortVolumeMounts(mounts) = SwapInto(slots, mounts)
  BY DEF sortVolumeMounts, MountSlots
<1>2. \A x \in DOMAIN slots : slots[x] \in 1..Len(mounts)
  OBVIOUS
<1> HIDE DEF slots
<1>. QED  BY <1>1, <1>2, SwapElements

\* What the rabbitmq container mounts, whatever the override is.
LEMMA PatchedMountsFacts ==
    ASSUME NEW s, NEW T, s.mounts \in Seq(T), DistinctPaths(s.mounts)
    PROVE  Mounted(ToSet(PatchedMounts(s)), s)
<1>1. CASE s.mounts = <<>>
  <2>1. PatchedMounts(s) = rabbitmqContainerVolumeMounts(s)
    BY <1>1 DEF PatchedMounts
  <2>2. ToSet(PatchedMounts(s)) = OwnMounts(s)
    BY <2>1, OwnMountList DEF MountList
  <2>. QED  BY <2>2 DEF Mounted
<1>2. CASE s.mounts # <<>>
  <2> DEFINE L == MergedMounts(s)
  <2>1. PatchedMounts(s) = sortVolumeMounts(L) \/ PatchedMounts(s) = L
    BY <1>2 DEF PatchedMounts
  <2>2. L \in Seq(ToSet(L)) /\ Len(L) > 1 /\ Mounted(ToSet(L), s)
    BY MergedMountsFacts
  <2> HIDE DEF L
  <2>3. ToSet(sortVolumeMounts(L)) = ToSet(L)
    BY <2>2, SortedMountSet
  <2>. QED  BY <2>1, <2>2, <2>3
<1>. QED  BY <1>1, <1>2

(***************************************************************************)
(* The mount of /var/lib/rabbitmq/ comes before that of                    *)
(* /var/lib/rabbitmq/mnesia/ in the list that patchPodSpec makes for the   *)
(* rabbitmq container, if that is Containers[0], whatever the override     *)
(* adds, as long as the cookie's volume is mounted at the first path and   *)
(* nowhere else.                                                           *)
(***************************************************************************)
THEOREM MountsSorted ==
    ASSUME NEW s, NEW T, s.mounts \in Seq(T), DistinctPaths(s.mounts), RabbitmqIsFirst(s),
           \A m \in ToSet(PatchedMounts(s)) : m.path = "lib" <=> m.name = "rabbitmq-erlang-cookie",
           NEW i \in DOMAIN PatchedMounts(s), NEW j \in DOMAIN PatchedMounts(s),
           PatchedMounts(s)[i].path = "lib", PatchedMounts(s)[j].path = "lib/mnesia"
    PROVE  i < j
<1> DEFINE P == PatchedMounts(s)
<1>1. CASE s.mounts = <<>>
  <2> DEFINE first == Mount("lib", "rabbitmq-erlang-cookie")
  <2>1. MountList(P, first, OwnMounts(s))
    BY <1>1, OwnMountList DEF PatchedMounts
  <2>2. first.path = "lib"
    BY DEF Mount
  <2> HIDE DEF P, first
  <2>3. /\ Len(P) \in Nat /\ Len(P) > 0 /\ DOMAIN P = 1..Len(P) /\ P[1] = first
        /\ \A a, b \in 1..Len(P) : P[a].path = P[b].path => a = b
    BY <2>1 DEF MountList, DistinctPaths
  <2>4. i \in 1..Len(P) /\ j \in 1..Len(P) /\ P[i].path = "lib" /\ P[j].path = "lib/mnesia"
    BY <2>3 DEF P
  <2>5. i = 1 /\ j # 1
    BY <2>2, <2>3, <2>4
  <2>. QED  BY <2>3, <2>4, <2>5
<1>2. CASE s.mounts # <<>>
  <2> DEFINE L == MergedMounts(s)
             n == Len(L)
             Cookie(m) == m.name = "rabbitmq-erlang-cookie"
  <2>1. P = sortVolumeMounts(L)
    BY <1>2 DEF PatchedMounts
  <2>2. L \in Seq(ToSet(L)) /\ DistinctPaths(L) /\ Len(L) > 1
    BY MergedMountsFacts
  <2>3. \A m \in ToSet(P) : m.path = "lib" <=> Cookie(m)
    OBVIOUS
  <2>4. i \in DOMAIN P /\ j \in DOMAIN P /\ P[i].path = "lib" /\ P[j].path = "lib/mnesia"
    OBVIOUS
  <2> HIDE DEF L, P
  <2>5. P \in [1..n -> ToSet(L)] /\ ToSet(P) = ToSet(L)
    BY <2>1, <2>2, SortedMountSet
  <2>6. n \in Nat /\ DOMAIN L = 1..n /\ DOMAIN P = 1..n
    BY <2>2, <2>5
  <2>7. P[i] \in ToSet(L) /\ P[j] \in ToSet(L)
    BY <2>4, <2>5, <2>6
  <2>8. PICK c \in 1..n : L[c] = P[i]
    BY <2>6, <2>7 DEF ToSet
  <2>9. \A k \in 1..n : L[k] \in ToSet(P)
    BY <2>5, <2>6 DEF ToSet
  <2>10. \A k \in 1..n : L[k].path = "lib" <=> k = c
    BY <2>2, <2>4, <2>8 DEF DistinctPaths
  <2>11. \A k \in 1..n : L[k].name = "rabbitmq-erlang-cookie" <=> k = c
    BY <2>3, <2>9, <2>10
  <2>12. \A k \in 1..n : sortVolumeMounts(L)[k].name = "rabbitmq-erlang-cookie" <=> k = 1
    BY <2>2, <2>8, <2>11, CookieMountFirst
  <2>13. P[i] \in ToSet(P) /\ P[j] \in ToSet(P)
    BY <2>5, <2>7
  <2>14. Cookie(P[i]) /\ ~Cookie(P[j])
    BY <2>3, <2>4, <2>13
  <2>15. i = 1 /\ j # 1 /\ j \in 1..n
    BY <2>1, <2>4, <2>6, <2>12, <2>14
  <2>. QED  BY <2>6, <2>15
<1>. QED  BY <1>1, <1>2

=============================================================================
