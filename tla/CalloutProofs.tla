--------------------------- MODULE CalloutProofs ---------------------------
(***************************************************************************)
(* The queue of callouts stays sorted and in step with the flags, no reset *)
(* and no wakeup is lost, and a handler fires only for an armed callout.   *)
(* First what callout_remove and callout_insert do to a sorted queue; then *)
(* CalloutInv, step by step.                                               *)
(***************************************************************************)
EXTENDS Callout, WellFoundedInduction, TLAPS

-----------------------------------------------------------------------------
(* The queue.                                                              *)

\* c is on the queue q.
On(q, c) == \E i \in DOMAIN q : q[i] = c

\* Each callout once, nearest timeout first.
Sorted(q, to) ==
  /\ q \in Seq(Callouts)
  /\ \A i, j \in DOMAIN q : i < j => q[i] # q[j] /\ to[q[i]] <= to[q[j]]

\* The elements of a sequence cut in two around a third part.
LEMMA JoinProps ==
  ASSUME NEW S, NEW a \in Seq(S), NEW b \in Seq(S)
  PROVE  /\ a \o b \in Seq(S)
         /\ Len(a \o b) = Len(a) + Len(b)
         /\ \A j \in 1 .. Len(a) : (a \o b)[j] = a[j]
         /\ \A j \in Len(a) + 1 .. Len(a) + Len(b) : (a \o b)[j] = b[j - Len(a)]
<1>1. a \o b \in Seq(S)
  OBVIOUS
<1>2. Len(a \o b) = Len(a) + Len(b)
  OBVIOUS
<1>3. \A j \in 1 .. Len(a) : (a \o b)[j] = a[j]
  OBVIOUS
<1>4. \A j \in Len(a) + 1 .. Len(a) + Len(b) : (a \o b)[j] = b[j - Len(a)]
  OBVIOUS
<1> QED BY <1>1, <1>2, <1>3, <1>4

\* The two parts of a queue before and from a position.
LEMMA CutProps ==
  ASSUME NEW S, NEW q \in Seq(S), NEW k \in 1 .. Len(q) + 1
  PROVE  /\ SubSeq(q, 1, k - 1) \in Seq(S) /\ Len(SubSeq(q, 1, k - 1)) = k - 1
         /\ \A j \in 1 .. k - 1 : SubSeq(q, 1, k - 1)[j] = q[j]
         /\ SubSeq(q, k, Len(q)) \in Seq(S) /\ Len(SubSeq(q, k, Len(q))) = Len(q) - k + 1
         /\ \A j \in 1 .. Len(q) - k + 1 : SubSeq(q, k, Len(q))[j] = q[k + j - 1]
<1>1. Len(q) \in Nat /\ DOMAIN q = 1 .. Len(q)
  OBVIOUS
<1>2. /\ SubSeq(q, 1, k - 1) \in Seq(S) /\ Len(SubSeq(q, 1, k - 1)) = k - 1
      /\ \A j \in 1 .. k - 1 : SubSeq(q, 1, k - 1)[j] = q[j]
  BY <1>1
<1>3. /\ SubSeq(q, k, Len(q)) \in Seq(S) /\ Len(SubSeq(q, k, Len(q))) = Len(q) - k + 1
      /\ \A j \in 1 .. Len(q) - k + 1 : SubSeq(q, k, Len(q))[j] = q[k + j - 1]
  BY <1>1
<1> QED BY <1>2, <1>3

\* callout_remove takes c out and leaves the others in their order.
LEMMA RemoveProps ==
  ASSUME NEW q \in Seq(Callouts), NEW to, Sorted(q, to), NEW c
  PROVE  /\ callout_remove(q, c) \in Seq(Callouts)
         /\ \A t : On(callout_remove(q, c), t) <=> t # c /\ On(q, t)
         /\ \A i, j \in DOMAIN callout_remove(q, c) : i < j =>
              \E m, n \in DOMAIN q :
                 m < n /\ callout_remove(q, c)[i] = q[m] /\ callout_remove(q, c)[j] = q[n]
<1> DEFINE p == callout_remove(q, c)
<1>1. CASE ~On(q, c)
  <2>1. p = q
    BY <1>1 DEF callout_remove, On
  <2> HIDE DEF p
  <2>2. \A t : On(p, t) <=> t # c /\ On(q, t)
    BY <1>1, <2>1
  <2>3. \A i, j \in DOMAIN p : i < j => \E m, n \in DOMAIN q : m < n /\ p[i] = q[m] /\ p[j] = q[n]
    BY <2>1
  <2> QED BY <2>1, <2>2, <2>3 DEF p
<1>2. CASE On(q, c)
  <2> DEFINE k == Position(q, c)
             a == SubSeq(q, 1, k - 1)
             b == SubSeq(q, k + 1, Len(q))
  <2>1. k \in DOMAIN q /\ q[k] = c
    BY <1>2 DEF On, Position
  <2>2. Len(q) \in Nat /\ DOMAIN q = 1 .. Len(q)
    OBVIOUS
  <2>3. p = a \o b
    BY <1>2, Zenon DEF callout_remove, On
  <2> HIDE DEF k
  <2>4. k \in 1 .. Len(q) + 1 /\ k + 1 \in 1 .. Len(q) + 1
    BY <2>1, <2>2
  <2>5. /\ a \in Seq(Callouts) /\ Len(a) = k - 1
        /\ \A j \in 1 .. k - 1 : a[j] = q[j]
    BY <2>4, CutProps
  <2>6. /\ b \in Seq(Callouts) /\ Len(b) = Len(q) - (k + 1) + 1
        /\ \A j \in 1 .. Len(q) - (k + 1) + 1 : b[j] = q[(k + 1) + j - 1]
    BY <2>4, CutProps
  <2> HIDE DEF a, b, p
  <2>7. /\ p \in Seq(Callouts) /\ Len(p) = Len(a) + Len(b)
        /\ \A j \in 1 .. Len(a) : p[j] = a[j]
        /\ \A j \in Len(a) + 1 .. Len(a) + Len(b) : p[j] = b[j - Len(a)]
    BY <2>3, <2>5, <2>6, JoinProps, Zenon
  <2>8. Len(p) = Len(q) - 1 /\ DOMAIN p = 1 .. Len(q) - 1
    BY <2>1, <2>2, <2>5, <2>6, <2>7
  <2>9. \A j \in 1 .. k - 1 : p[j] = q[j]
    BY <2>5, <2>7
  <2>10. \A j \in k .. Len(q) - 1 : p[j] = q[j + 1]
    <3>1. SUFFICES ASSUME NEW j \in k .. Len(q) - 1 PROVE p[j] = q[j + 1]
      OBVIOUS
    <3>2. j \in Len(a) + 1 .. Len(a) + Len(b) /\ j - Len(a) \in 1 .. Len(q) - (k + 1) + 1
      BY <2>1, <2>2, <2>5, <2>6
    <3>3. p[j] = b[j - Len(a)] /\ b[j - Len(a)] = q[(k + 1) + (j - Len(a)) - 1]
      BY <3>2, <2>6, <2>7
    <3>4. (k + 1) + (j - Len(a)) - 1 = j + 1
      BY <2>1, <2>2, <2>5
    <3> QED BY <3>3, <3>4
  <2>11. \A i \in DOMAIN q : q[i] = c <=> i = k
    <3>1. \A i, j \in DOMAIN q : i < j => q[i] # q[j]
      BY DEF Sorted
    <3> QED BY <3>1, <2>1, <2>2
  <2>12. ASSUME NEW t PROVE On(p, t) <=> t # c /\ On(q, t)
    <3>1. ASSUME NEW i \in DOMAIN p, p[i] = t PROVE t # c /\ On(q, t)
      <4>1. CASE i < k
        <5>1. i \in 1 .. k - 1 /\ i \in DOMAIN q /\ i # k
          BY <2>1, <2>2, <2>8, <3>1, <4>1
        <5> QED BY <5>1, <2>9, <2>11, <3>1 DEF On
      <4>2. CASE ~(i < k)
        <5>1. i \in k .. Len(q) - 1 /\ i + 1 \in DOMAIN q /\ i + 1 # k
          BY <2>1, <2>2, <2>8, <3>1, <4>2
        <5> QED BY <5>1, <2>10, <2>11, <3>1 DEF On
      <4> QED BY <4>1, <4>2
    <3>2. ASSUME t # c, NEW i \in DOMAIN q, q[i] = t PROVE On(p, t)
      <4>0. i # k
        BY <2>1, <3>2
      <4>1. CASE i < k
        <5>1. i \in 1 .. k - 1 /\ i \in DOMAIN p
          BY <2>1, <2>2, <2>8, <4>1
        <5> QED BY <5>1, <2>9, <3>2 DEF On
      <4>2. CASE ~(i < k)
        <5>1. i - 1 \in k .. Len(q) - 1 /\ i - 1 \in DOMAIN p /\ (i - 1) + 1 = i
          BY <2>1, <2>2, <2>8, <4>0, <4>2
        <5>2. p[i - 1] = q[i]
          BY <5>1, <2>10
        <5> QED BY <5>1, <5>2, <3>2 DEF On
      <4> QED BY <4>1, <4>2
    <3> QED BY <3>1, <3>2 DEF On
  <2>13. ASSUME NEW i \in DOMAIN p, NEW j \in DOMAIN p, i < j
         PROVE  \E m, n \in DOMAIN q : m < n /\ p[i] = q[m] /\ p[j] = q[n]
    <3>1. i \in 1 .. Len(q) - 1 /\ j \in 1 .. Len(q) - 1
      BY <2>8, <2>13
    <3>2. CASE j < k
      <4>1. i \in 1 .. k - 1 /\ j \in 1 .. k - 1 /\ i \in DOMAIN q /\ j \in DOMAIN q
        BY <2>1, <2>2, <2>13, <3>1, <3>2
      <4> QED BY <4>1, <2>9, <2>13
    <3>3. CASE i < k /\ ~(j < k)
      <4>1. i \in 1 .. k - 1 /\ j \in k .. Len(q) - 1 /\ i \in DOMAIN q /\ j + 1 \in DOMAIN q /\ i < j + 1
        BY <2>1, <2>2, <2>13, <3>1, <3>3
      <4> QED BY <4>1, <2>9, <2>10, Zenon
    <3>4. CASE ~(i < k)
      <4>1. /\ i \in k .. Len(q) - 1 /\ j \in k .. Len(q) - 1
            /\ i + 1 \in DOMAIN q /\ j + 1 \in DOMAIN q /\ i + 1 < j + 1
        BY <2>1, <2>2, <2>13, <3>1, <3>4
      <4> QED BY <4>1, <2>10
    <3> QED BY <3>2, <3>3, <3>4
  <2> QED BY <2>7, <2>12, <2>13 DEF p
<1> QED BY <1>1, <1>2

\* Without c the queue is sorted, also under timeouts that differ for c only:
\* callout_reset_sbt stores the new timeout while c is still linked.
LEMMA RemoveSorted ==
  ASSUME NEW q \in Seq(Callouts), NEW to, Sorted(q, to), NEW c, NEW new,
         \A t \in Callouts : t # c => new[t] = to[t]
  PROVE  Sorted(callout_remove(q, c), new)
<1> DEFINE p == callout_remove(q, c)
<1>1. /\ p \in Seq(Callouts)
      /\ \A t : On(p, t) <=> t # c /\ On(q, t)
      /\ \A i, j \in DOMAIN p : i < j =>
           \E m, n \in DOMAIN q : m < n /\ p[i] = q[m] /\ p[j] = q[n]
  BY RemoveProps
<1> HIDE DEF p
<1>2. ASSUME NEW i \in DOMAIN p, NEW j \in DOMAIN p, i < j
      PROVE  p[i] # p[j] /\ new[p[i]] <= new[p[j]]
  <2>1. PICK m \in DOMAIN q, n \in DOMAIN q : m < n /\ p[i] = q[m] /\ p[j] = q[n]
    BY <1>1, <1>2
  <2>2. q[m] # q[n] /\ to[q[m]] <= to[q[n]]
    BY <2>1 DEF Sorted
  <2>3. On(p, p[i]) /\ On(p, p[j])
    BY <1>2 DEF On
  <2>4. p[i] # c /\ p[j] # c
    BY <1>1, <2>3
  <2>5. p[i] \in Callouts /\ p[j] \in Callouts
    BY <1>1, <1>2
  <2> QED BY <2>1, <2>2, <2>4, <2>5
<1> QED BY <1>1, <1>2 DEF Sorted, p

\* A set of positions has a first one: < is well-founded on the naturals.
LEMMA Least ==
  ASSUME NEW S \in SUBSET Nat, S # {}
  PROVE  \E i \in S : \A j \in S : i <= j
<1> DEFINE R == {ss \in Nat \X Nat : ss[1] < ss[2]}
<1>1. R = OpToRel(<, Nat)
  BY DEF OpToRel
<1>2. IsWellFoundedOn(R, Nat)
  BY <1>1, NatLessThanWellFounded
<1>3. \A m, n \in Nat : m < n => <<m, n>> \in R
  OBVIOUS
<1> HIDE DEF R
<1>4. PICK i \in S : \A j \in S : <<j, i>> \notin R
  BY <1>2, WFMin, Zenon
<1>5. \A j \in S : i <= j
  <2>1. SUFFICES ASSUME NEW j \in S PROVE i <= j
    OBVIOUS
  <2>2. i \in Nat /\ j \in Nat /\ ~(j < i)
    BY <1>3, <1>4, Zenon
  <2> QED BY <2>2
<1> QED BY <1>4, <1>5

\* callout_insert keeps the queue sorted and adds c to it.
LEMMA InsertProps ==
  ASSUME NEW q \in Seq(Callouts), NEW to \in [Callouts -> Nat], Sorted(q, to),
         NEW c \in Callouts, ~On(q, c)
  PROVE  /\ Sorted(callout_insert(q, to, c), to)
         /\ \A t : On(callout_insert(q, to, c), t) <=> t = c \/ On(q, t)
<1> DEFINE later == {i \in DOMAIN q : callout_cmp(to[c], to[q[i]])}
           k == IF later = {} THEN Len(q) + 1
                ELSE CHOOSE i \in later : \A j \in later : i <= j
           a == SubSeq(q, 1, k - 1)
           b == SubSeq(q, k, Len(q))
           e == <<c>>
           d == a \o e
           p == callout_insert(q, to, c)
<1>1. Len(q) \in Nat /\ DOMAIN q = 1 .. Len(q)
  OBVIOUS
<1>2. \A i \in DOMAIN q : q[i] \in Callouts /\ to[q[i]] \in Nat /\ to[c] \in Nat
  OBVIOUS
<1>3. /\ k \in 1 .. Len(q) + 1
      /\ \A i \in 1 .. k - 1 : to[q[i]] <= to[c]
      /\ k <= Len(q) => to[c] <= to[q[k]]
  <2>1. CASE later = {}
    <3>1. k = Len(q) + 1
      BY <2>1
    <3>2. \A i \in DOMAIN q : ~(to[c] < to[q[i]])
      BY <2>1 DEF callout_cmp
    <3> HIDE DEF k
    <3> QED BY <1>1, <1>2, <3>1, <3>2
  <2>2. CASE later # {}
    <3>1. later \in SUBSET Nat
      BY <1>1
    <3>2. k \in later /\ \A j \in later : k <= j
      BY <2>2, <3>1, Least
    <3> HIDE DEF k
    <3>3. k \in 1 .. Len(q) /\ to[c] < to[q[k]]
      BY <1>1, <3>2 DEF callout_cmp
    <3>4. \A i \in 1 .. k - 1 : i \in DOMAIN q /\ i \notin later
      BY <1>1, <3>2, <3>3
    <3>5. \A i \in 1 .. k - 1 : ~(to[c] < to[q[i]])
      BY <3>4 DEF callout_cmp
    <3> QED BY <1>1, <1>2, <3>3, <3>4, <3>5
  <2> QED BY <2>1, <2>2
<1>4. p = d \o b
  BY DEF callout_insert
<1> HIDE DEF k, p
<1>5. /\ a \in Seq(Callouts) /\ Len(a) = k - 1 /\ \A j \in 1 .. k - 1 : a[j] = q[j]
      /\ b \in Seq(Callouts) /\ Len(b) = Len(q) - k + 1
      /\ \A j \in 1 .. Len(q) - k + 1 : b[j] = q[k + j - 1]
  BY <1>3, CutProps
<1> HIDE DEF a, b
<1>6. e \in Seq(Callouts) /\ Len(e) = 1 /\ e[1] = c
  OBVIOUS
<1> HIDE DEF e
<1>7. /\ d \in Seq(Callouts) /\ Len(d) = Len(a) + Len(e)
      /\ \A j \in 1 .. Len(a) : d[j] = a[j]
      /\ \A j \in Len(a) + 1 .. Len(a) + Len(e) : d[j] = e[j - Len(a)]
  <2>1. a \in Seq(Callouts) /\ e \in Seq(Callouts)
    BY <1>5, <1>6
  <2> QED BY ONLY <2>1, JoinProps, Zenon DEF d
<1>8. d \in Seq(Callouts) /\ Len(d) = k /\ d[k] = c /\ \A j \in 1 .. k - 1 : d[j] = q[j]
  <2>1. Len(d) = k
    BY <1>3, <1>5, <1>6, <1>7
  <2>2. k \in Len(a) + 1 .. Len(a) + Len(e) /\ k - Len(a) = 1
    BY <1>1, <1>3, <1>5, <1>6
  <2>3. d[k] = c
    BY <1>6, <1>7, <2>2
  <2> QED BY <1>5, <1>7, <2>1, <2>3, Zenon
<1> HIDE DEF d
<1>9. /\ p \in Seq(Callouts) /\ Len(p) = Len(d) + Len(b)
      /\ \A j \in 1 .. Len(d) : p[j] = d[j]
      /\ \A j \in Len(d) + 1 .. Len(d) + Len(b) : p[j] = b[j - Len(d)]
  <2>1. d \in Seq(Callouts) /\ b \in Seq(Callouts)
    BY <1>5, <1>8
  <2> QED BY ONLY <1>4, <2>1, JoinProps, Zenon
<1>10. Len(p) = Len(q) + 1 /\ DOMAIN p = 1 .. Len(q) + 1
  BY <1>1, <1>3, <1>5, <1>8, <1>9
<1>11. p[k] = c /\ \A j \in 1 .. k - 1 : p[j] = q[j]
  <2>1. k \in 1 .. Len(d) /\ \A j \in 1 .. k - 1 : j \in 1 .. Len(d)
    BY <1>1, <1>3, <1>8
  <2>2. p[k] = d[k] /\ \A j \in 1 .. k - 1 : p[j] = d[j]
    BY <1>9, <2>1
  <2> QED BY <1>8, <2>2
<1>12. \A j \in k + 1 .. Len(q) + 1 : p[j] = q[j - 1]
  <2>1. SUFFICES ASSUME NEW j \in k + 1 .. Len(q) + 1 PROVE p[j] = q[j - 1]
    OBVIOUS
  <2>2. j \in Len(d) + 1 .. Len(d) + Len(b) /\ j - Len(d) \in 1 .. Len(q) - k + 1
    BY <1>1, <1>3, <1>5, <1>8
  <2>3. p[j] = b[j - Len(d)] /\ b[j - Len(d)] = q[k + (j - Len(d)) - 1]
    BY <2>2, <1>5, <1>9, Zenon
  <2>4. k + (j - Len(d)) - 1 = j - 1
    BY <1>1, <1>3, <1>8
  <2> QED BY <2>3, <2>4
<1>13. \A i, j \in DOMAIN q : i < j => q[i] # q[j] /\ to[q[i]] <= to[q[j]]
  BY DEF Sorted
<1>14. \A i \in DOMAIN q : q[i] # c
  BY DEF On
<1>15. \A i \in DOMAIN q : i >= k => to[c] <= to[q[i]]
  <2>1. SUFFICES ASSUME NEW i \in DOMAIN q, i >= k PROVE to[c] <= to[q[i]]
    OBVIOUS
  <2>2. k \in DOMAIN q /\ to[c] <= to[q[k]]
    BY <1>1, <1>3, <2>1
  <2>3. CASE i = k
    BY <2>2, <2>3
  <2>4. CASE k < i
    <3>1. to[q[k]] <= to[q[i]]
      BY <2>2, <2>4, <1>13
    <3> QED BY <1>2, <2>2, <3>1
  <2> QED BY <1>1, <2>1, <2>2, <2>3, <2>4
<1>16. ASSUME NEW i \in DOMAIN p, NEW j \in DOMAIN p, i < j
       PROVE  p[i] # p[j] /\ to[p[i]] <= to[p[j]]
  <2>1. CASE j < k
    <3>1. i \in 1 .. k - 1 /\ j \in 1 .. k - 1 /\ i \in DOMAIN q /\ j \in DOMAIN q
      BY <1>1, <1>3, <1>10, <1>16, <2>1
    <3> QED BY <3>1, <1>11, <1>13, <1>16
  <2>2. CASE j = k
    <3>1. i \in 1 .. k - 1 /\ i \in DOMAIN q
      BY <1>1, <1>3, <1>10, <1>16, <2>2
    <3> QED BY <3>1, <2>2, <1>3, <1>11, <1>14
  <2>3. CASE j > k /\ i < k
    <3>1. /\ i \in 1 .. k - 1 /\ i \in DOMAIN q /\ j \in k + 1 .. Len(q) + 1 /\ j - 1 \in DOMAIN q
          /\ i < j - 1
      BY <1>1, <1>3, <1>10, <1>16, <2>3
    <3> QED BY <3>1, <1>11, <1>12, <1>13
  <2>4. CASE j > k /\ i = k
    <3>1. j \in k + 1 .. Len(q) + 1 /\ j - 1 \in DOMAIN q /\ j - 1 >= k
      BY <1>1, <1>3, <1>10, <1>16, <2>4
    <3> QED BY <3>1, <2>4, <1>11, <1>12, <1>14, <1>15
  <2>5. CASE i > k
    <3>1. /\ i \in k + 1 .. Len(q) + 1 /\ j \in k + 1 .. Len(q) + 1
          /\ i - 1 \in DOMAIN q /\ j - 1 \in DOMAIN q /\ i - 1 < j - 1
      BY <1>1, <1>3, <1>10, <1>16, <2>5
    <3> QED BY <3>1, <1>12, <1>13
  <2> QED BY <1>1, <1>3, <1>10, <1>16, <2>1, <2>2, <2>3, <2>4, <2>5
<1>17. ASSUME NEW t PROVE On(p, t) <=> t = c \/ On(q, t)
  <2>1. ASSUME NEW i \in DOMAIN p, p[i] = t, t # c PROVE On(q, t)
    <3>1. CASE i < k
      <4>1. i \in 1 .. k - 1 /\ i \in DOMAIN q
        BY <1>1, <1>3, <1>10, <3>1
      <4> QED BY <4>1, <1>11, <2>1 DEF On
    <3>2. CASE i > k
      <4>1. i \in k + 1 .. Len(q) + 1 /\ i - 1 \in DOMAIN q
        BY <1>1, <1>3, <1>10, <3>2
      <4> QED BY <4>1, <1>12, <2>1 DEF On
    <3> QED BY <1>1, <1>3, <1>10, <1>11, <2>1, <3>1, <3>2
  <2>2. k \in DOMAIN p /\ p[k] = c
    BY <1>1, <1>3, <1>10, <1>11
  <2>3. ASSUME NEW i \in DOMAIN q, q[i] = t PROVE On(p, t)
    <3>1. CASE i < k
      <4>1. i \in 1 .. k - 1 /\ i \in DOMAIN p
        BY <1>1, <1>3, <1>10, <3>1
      <4> QED BY <4>1, <1>11, <2>3 DEF On
    <3>2. CASE ~(i < k)
      <4>1. i + 1 \in k + 1 .. Len(q) + 1 /\ i + 1 \in DOMAIN p /\ (i + 1) - 1 = i
        BY <1>1, <1>3, <1>10, <3>2
      <4>2. p[i + 1] = q[i]
        BY <4>1, <1>12
      <4> QED BY <4>1, <4>2, <2>3 DEF On
    <3> QED BY <3>1, <3>2
  <2> QED BY <2>1, <2>2, <2>3 DEF On
<1> QED BY <1>9, <1>16, <1>17 DEF Sorted, p

-----------------------------------------------------------------------------
(* The invariant.                                                          *)

\* QueueSorted, said of any queue.
LEMMA QueueIsSorted == CalloutInv => queue \in Seq(Callouts) /\ Sorted(queue, timeout)
  BY DEF CalloutInv, QueueSound, TypeOK, QueueSorted, Sorted

\* Before the first reset the queue is empty and the thread has just started.
LEMMA CalloutInitInv == Init => CalloutInv
<1> SUFFICES ASSUME Init PROVE CalloutInv
  OBVIOUS
<1> USE CalloutAssumption DEF Init
<1>1. TypeOK
  <2>1. queue \in Seq(Callouts) /\ armed \subseteq Callouts
    OBVIOUS
  <2>6. work \in BOOLEAN
    BY Zenon
  <2>2. timeout \in [Callouts -> 0 .. MaxTime] /\ flags \in [Callouts -> SUBSET Flags]
    OBVIOUS
  <2>3. /\ signalling \in [Callers -> Callouts \cup {None}]
        /\ draining \in [Callers -> Callouts \cup {None}]
    OBVIOUS
  <2>4. now \in 0 .. MaxTime /\ wake \in 0 .. MaxTime /\ cur \in Callouts \cup {None}
    OBVIOUS
  <2>5. pc = "woken"
    OBVIOUS
  <2> QED BY ONLY <2>1, <2>2, <2>3, <2>4, <2>5, <2>6 DEF TypeOK
<1>2. QueueSorted /\ NoLostWakeup
  BY DEF QueueSorted, NoLostWakeup
<1>3. QueuedPending /\ ArmedQueued
  BY DEF QueuedPending, ArmedQueued, Queued
<1>4. CurInv /\ WaitInv /\ ActiveInv /\ HandledInv
  BY DEF CurInv, WaitInv, ActiveInv, HandledInv
<1> QED BY <1>1, <1>2, <1>3, <1>4 DEF CalloutInv, QueueSound

\* What the thread does once it looks at the queue q with the flags fl: it
\* waits for work, sleeps, or goes into a handler.
Goes(q, fl) ==
  /\ queue' = q /\ work' \in BOOLEAN /\ wake' \in 0 .. MaxTime
  /\ \/ q = <<>> /\ pc' = "wait" /\ cur' = None /\ flags' = fl
     \/ pc' = "sleep" /\ cur' \in Callouts /\ flags' = fl
     \/ pc' = "handler" /\ cur' \in Callouts /\ flags' = [fl EXCEPT ![cur'] = @ \ {"PENDING"}]

\* What it may rely on when it does so.
Settled(q, fl) ==
  /\ Sorted(q, timeout) /\ fl \in [Callouts -> SUBSET Flags]
  /\ \A c \in Callouts : /\ On(q, c) => "PENDING" \in fl[c]
                         /\ "PENDING" \in fl[c] => On(q, c) \/ "WAITING" \in fl[c]
                         /\ "WAITING" \in fl[c] => \E u \in Callers : draining[u] = c
                         /\ c \in armed <=> "ACTIVE" \in fl[c]
  /\ \A c \in armed : On(q, c) \/ \E u \in Callers : draining[u] = c

\* The top of the thread's loop ends in one of the three.
LEMMA ScanGoes ==
  ASSUME TypeOK, NEW q \in Seq(Callouts), NEW fl, Scan(q, fl)
  PROVE  Goes(q, fl)
<1>1. work \in BOOLEAN /\ wake \in 0 .. MaxTime /\ timeout \in [Callouts -> 0 .. MaxTime]
  BY DEF TypeOK
<1>2. CASE q = <<>>
  BY <1>1, <1>2 DEF Scan, Goes
<1>3. CASE q # <<>>
  <2>1. Head(q) \in Callouts
    BY <1>3
  <2>2. work' = FALSE /\ (Dispatch(q, fl, Head(q)) \/ Sleep(q, fl, Head(q)))
    BY <1>3 DEF Scan
  <2> DEFINE c == Head(q)
  <2> HIDE DEF c
  <2>3. CASE Dispatch(q, fl, c)
    BY <1>1, <2>1, <2>2, <2>3, Zenon DEF Dispatch, Goes, c
  <2>4. CASE Sleep(q, fl, c)
    BY <1>1, <2>1, <2>2, <2>4, Zenon DEF Sleep, Goes, c
  <2> QED BY <2>2, <2>3, <2>4 DEF c
<1> QED BY <1>2, <1>3

\* A step of the thread that ends so keeps the invariant.
LEMMA GoesInv ==
  ASSUME TypeOK, NEW q, NEW fl, Settled(q, fl), Goes(q, fl), UNCHANGED others
  PROVE  CalloutInv'
<1> USE DEF others
<1>1. /\ timeout' = timeout /\ now' = now /\ signalling' = signalling /\ draining' = draining
      /\ armed' = armed /\ queue' = q /\ work' \in BOOLEAN /\ wake' \in 0 .. MaxTime
  BY DEF Goes
<1>2. /\ pc' \in {"wait", "sleep", "handler"} /\ cur' \in Callouts \cup {None}
      /\ pc' # "wait" => cur' \in Callouts
      /\ pc' = "wait" => q = <<>>
  BY DEF Goes
<1>3. /\ flags' \in [Callouts -> SUBSET Flags]
      /\ \A c \in Callouts :
           /\ "PENDING" \in flags'[c] <=> "PENDING" \in fl[c] /\ ~(pc' = "handler" /\ cur' = c)
           /\ "WAITING" \in flags'[c] <=> "WAITING" \in fl[c]
           /\ "ACTIVE" \in flags'[c] <=> "ACTIVE" \in fl[c]
  <2>0. fl \in [Callouts -> SUBSET Flags]
    BY DEF Settled
  <2>1. CASE flags' = fl /\ pc' # "handler"
    BY <2>0, <2>1
  <2>2. CASE pc' = "handler" /\ cur' \in Callouts /\ flags' = [fl EXCEPT ![cur'] = @ \ {"PENDING"}]
    BY <2>0, <2>2
  <2> QED BY <2>1, <2>2 DEF Goes
<1>4. TypeOK'
  BY <1>1, <1>2, <1>3 DEF TypeOK, Settled, Sorted
<1>5. QueueSorted'
  BY <1>1 DEF QueueSorted, Settled, Sorted
<1>6. \A c : Queued(c)' <=> On(q, c)
  BY <1>1 DEF Queued, On
<1>7. QueuedPending'
  BY <1>3, <1>6 DEF QueuedPending, Settled
<1>8. ArmedQueued' /\ WaitInv' /\ ActiveInv'
  BY <1>1, <1>3, <1>6 DEF ArmedQueued, WaitInv, ActiveInv, Settled
<1>9. NoLostWakeup' /\ CurInv' /\ HandledInv'
  BY <1>1, <1>2 DEF NoLostWakeup, CurInv, HandledInv
<1> QED BY <1>4, <1>5, <1>7, <1>8, <1>9 DEF CalloutInv, QueueSound

\* Outside a handler the queue and the flags are what the thread relies on.
LEMMA SettledNow ==
  ASSUME CalloutInv, pc \notin {"handler", "fired", "return"}
  PROVE  Settled(queue, flags)
<1>1. Sorted(queue, timeout) /\ flags \in [Callouts -> SUBSET Flags] /\ \A c : On(queue, c) <=> Queued(c)
  BY QueueIsSorted DEF CalloutInv, QueueSound, TypeOK, On, Queued
<1>2. QueuedPending /\ ArmedQueued /\ WaitInv /\ ActiveInv
  BY DEF CalloutInv, QueueSound
<1> QED BY <1>1, <1>2 DEF Settled, QueuedPending, ArmedQueued, WaitInv, ActiveInv

\* The thread starts, or wakes from its wait for work.
LEMMA ThreadWokenInv == ASSUME CalloutInv, ThreadWoken PROVE CalloutInv'
<1>1. TypeOK /\ queue \in Seq(Callouts) /\ Settled(queue, flags)
  BY SettledNow DEF CalloutInv, QueueSound, TypeOK, ThreadWoken
<1>2. Goes(queue, flags)
  BY <1>1, ScanGoes DEF ThreadWoken
<1> QED BY <1>1, <1>2, GoesInv DEF ThreadWoken

\* The callout at hand goes into its handler, or the thread sleeps on for it.
LEMMA ResumeInv == ASSUME CalloutInv, ResumeTimedout \/ ResumeSignalled PROVE CalloutInv'
<1>1. pc \in {"timedout", "signalled"} /\ UNCHANGED others
  BY DEF ResumeTimedout, ResumeSignalled
<1>2. TypeOK /\ queue \in Seq(Callouts) /\ Settled(queue, flags) /\ cur \in Callouts
  BY <1>1, SettledNow DEF CalloutInv, QueueSound, TypeOK, CurInv
<1>3. Goes(queue, flags)
  <2>0. work \in BOOLEAN /\ wake \in 0 .. MaxTime /\ timeout \in [Callouts -> 0 .. MaxTime]
    BY <1>2 DEF TypeOK
  <2>1. CASE Scan(queue, flags)
    BY <1>2, <2>1, ScanGoes
  <2>2. CASE Dispatch(queue, flags, cur) /\ work' \in BOOLEAN
    BY <1>2, <2>0, <2>2 DEF Dispatch, Goes
  <2>3. CASE Sleep(queue, flags, cur) /\ work' \in BOOLEAN
    BY <1>2, <2>0, <2>3 DEF Sleep, Goes
  <2> QED BY <2>0, <2>1, <2>2, <2>3, Zenon DEF ResumeTimedout, ResumeSignalled
<1> QED BY <1>1, <1>2, <1>3, GoesInv

\* A callout whose handler returned is off the queue or pending again.
LEMMA HandlerReturnedInv == ASSUME CalloutInv, HandlerReturned PROVE CalloutInv'
<1>1. TypeOK /\ Sorted(queue, timeout) /\ queue \in Seq(Callouts) /\ cur \in Callouts
      /\ flags \in [Callouts -> SUBSET Flags] /\ \A c : On(queue, c) <=> Queued(c)
  BY QueueIsSorted DEF CalloutInv, QueueSound, TypeOK, CurInv, HandlerReturned, On, Queued
<1>2. /\ \A c \in Callouts : On(queue, c) => "PENDING" \in flags[c] \/ cur = c
      /\ \A c \in Callouts : "PENDING" \in flags[c] => On(queue, c) \/ "WAITING" \in flags[c]
      /\ \A c \in Callouts : "WAITING" \in flags[c] => \E u \in Callers : draining[u] = c
      /\ \A c \in Callouts : c \in armed <=> "ACTIVE" \in flags[c]
      /\ \A c \in armed : On(queue, c) \/ \E u \in Callers : draining[u] = c
      /\ cur \in armed => "PENDING" \in flags[cur]
  <2>1. QueuedPending /\ ArmedQueued /\ WaitInv /\ ActiveInv /\ HandledInv
    BY DEF CalloutInv, QueueSound
  <2> QED BY <1>1, <2>1 DEF QueuedPending, ArmedQueued, WaitInv, ActiveInv, HandledInv, HandlerReturned
<1>3. CASE Queued(cur) /\ Finished(cur)
  <2> DEFINE q == callout_remove(queue, cur)
             fl == [flags EXCEPT ![cur] = @ \cup {"COMPLETED"}]
  <2>1. Scan(q, fl) /\ UNCHANGED others
    BY <1>3 DEF HandlerReturned
  <2>2. q \in Seq(Callouts) /\ \A t : On(q, t) <=> t # cur /\ On(queue, t)
    BY <1>1, RemoveProps
  <2>3. Sorted(q, timeout)
    BY <1>1, RemoveSorted
  <2>4. /\ fl \in [Callouts -> SUBSET Flags]
        /\ \A c \in Callouts : /\ "PENDING" \in fl[c] <=> "PENDING" \in flags[c]
                               /\ "WAITING" \in fl[c] <=> "WAITING" \in flags[c]
                               /\ "ACTIVE" \in fl[c] <=> "ACTIVE" \in flags[c]
    BY <1>1 DEF Flags
  <2> HIDE DEF q, fl
  <2>5. "PENDING" \in flags[cur] => "WAITING" \in flags[cur]
    BY <1>3 DEF Finished
  <2>6. armed \subseteq Callouts
    BY <1>1 DEF TypeOK
  <2>7. Settled(q, fl)
    <3>1. \A c \in Callouts : On(q, c) => "PENDING" \in fl[c]
      BY <1>2, <2>2, <2>4
    <3>2. \A c \in Callouts : "PENDING" \in fl[c] => On(q, c) \/ "WAITING" \in fl[c]
      BY <1>2, <2>2, <2>4, <2>5
    <3>3. \A c \in armed : On(q, c) \/ \E u \in Callers : draining[u] = c
      BY <1>2, <2>2, <2>5, <2>6
    <3> QED BY <1>2, <2>3, <2>4, <3>1, <3>2, <3>3 DEF Settled
  <2> QED BY <1>1, <2>1, <2>2, <2>7, ScanGoes, GoesInv
<1>4. CASE ~(Queued(cur) /\ Finished(cur))
  <2>1. Scan(queue, flags) /\ UNCHANGED others
    BY <1>4 DEF HandlerReturned
  <2>2. On(queue, cur) => "PENDING" \in flags[cur]
    BY <1>1, <1>4 DEF Finished
  <2>3. Settled(queue, flags)
    BY <1>1, <1>2, <2>2 DEF Settled
  <2> QED BY <1>1, <2>1, <2>3, ScanGoes, GoesInv
<1> QED BY <1>3, <1>4

\* The steps that touch neither the queue nor the flags.
LEMMA QuietInv ==
  ASSUME CalloutInv, SleepTimeout \/ Tick \/ UNCHANGED vars
  PROVE  CalloutInv'
<1>1. UNCHANGED <<queue, timeout, flags, work, cur, wake, signalling, draining, armed>>
  BY DEF SleepTimeout, others, Tick, vars
<1>2. /\ pc' = pc \/ (pc = "sleep" /\ pc' = "timedout")
      /\ now' \in 0 .. MaxTime
  BY CalloutAssumption DEF CalloutInv, QueueSound, TypeOK, SleepTimeout, others, Tick, vars
<1>3. /\ TypeOK /\ QueueSorted /\ QueuedPending /\ ArmedQueued /\ NoLostWakeup
      /\ CurInv /\ WaitInv /\ ActiveInv /\ HandledInv
  BY DEF CalloutInv, QueueSound
<1>4. TypeOK'
  BY <1>1, <1>2, <1>3 DEF TypeOK
<1>5. QueueSorted' /\ QueuedPending'
  BY <1>1, <1>2, <1>3 DEF QueueSorted, QueuedPending, Queued
<1>6. ArmedQueued' /\ NoLostWakeup'
  BY <1>1, <1>2, <1>3 DEF ArmedQueued, NoLostWakeup, Queued
<1>7. CurInv' /\ WaitInv' /\ ActiveInv' /\ HandledInv'
  BY <1>1, <1>2, <1>3 DEF CurInv, WaitInv, ActiveInv, HandledInv
<1> QED BY <1>4, <1>5, <1>6, <1>7 DEF CalloutInv, QueueSound

\* What arming a callout does to the queue, whether it was on it or not.
LEMMA RearmQueue ==
  ASSUME CalloutInv, NEW c \in Callouts, NEW d \in Delays, now + d <= MaxTime, Rearm(c, d)
  PROVE  /\ queue' \in Seq(Callouts) /\ QueueSorted'
         /\ \A t : Queued(t)' <=> t = c \/ Queued(t)
         /\ timeout' \in [Callouts -> 0 .. MaxTime]
         /\ work \in BOOLEAN => work' \in BOOLEAN
<1> DEFINE to == [timeout EXCEPT ![c] = Deadline(c, d)]
           r == callout_remove(queue, c)
           q == callout_insert(r, to, c)
<1>1. queue' = q /\ timeout' = to /\ work' = (work \/ Head(q) = c)
  BY DEF Rearm
<1>2. TypeOK /\ queue \in Seq(Callouts) /\ Sorted(queue, timeout)
  BY QueueIsSorted DEF CalloutInv, QueueSound
<1>3. Deadline(c, d) \in 0 .. MaxTime /\ timeout \in [Callouts -> 0 .. MaxTime]
  BY <1>2, CalloutAssumption DEF TypeOK, Deadline
<1>4. /\ to \in [Callouts -> 0 .. MaxTime] /\ to \in [Callouts -> Nat]
      /\ \A t \in Callouts : t # c => to[t] = timeout[t]
  BY <1>3
<1> HIDE DEF to
<1>5. r \in Seq(Callouts) /\ \A t : On(r, t) <=> t # c /\ On(queue, t)
  BY <1>2, RemoveProps
<1>6. Sorted(r, to)
  BY <1>2, <1>4, RemoveSorted
<1> HIDE DEF r
<1>7. Sorted(q, to) /\ \A t : On(q, t) <=> t = c \/ On(r, t)
  BY <1>4, <1>5, <1>6, InsertProps
<1> HIDE DEF q
<1>8. queue' \in Seq(Callouts) /\ QueueSorted'
  BY <1>1, <1>7 DEF Sorted, QueueSorted
<1>9. \A t : Queued(t)' <=> t = c \/ Queued(t)
  BY <1>1, <1>5, <1>7, Zenon DEF Queued, On
<1> QED BY <1>1, <1>4, <1>8, <1>9

\* What arming does to the rest: whoever arms c, the callouts stay queued,
\* pending and active as they should be.
LEMMA RearmKeeps ==
  ASSUME CalloutInv, NEW c \in Callouts, NEW d \in Delays, now + d <= MaxTime, Rearm(c, d),
         UNCHANGED <<now, cur, wake, draining>>,
         pc' = pc \/ (pc = "handler" /\ cur = c /\ pc' = "fired")
  PROVE  /\ QueuedPending' /\ ArmedQueued' /\ CurInv' /\ WaitInv' /\ ActiveInv' /\ HandledInv'
         /\ flags' \in [Callouts -> SUBSET Flags] /\ armed' \subseteq Callouts
<1>1. flags' = [flags EXCEPT ![c] = {"PENDING", "ACTIVE"}] /\ armed' = armed \cup {c}
  BY DEF Rearm
<1>2. /\ TypeOK /\ QueuedPending /\ ArmedQueued
      /\ CurInv /\ WaitInv /\ ActiveInv /\ HandledInv
  BY DEF CalloutInv, QueueSound
<1>3. flags \in [Callouts -> SUBSET Flags] /\ armed \subseteq Callouts
  BY <1>2 DEF TypeOK
<1>4. flags' \in [Callouts -> SUBSET Flags] /\ armed' \subseteq Callouts
  BY <1>1, <1>3 DEF Flags
<1>5. \A t : Queued(t)' <=> t = c \/ Queued(t)
  BY RearmQueue
<1>6. flags'[c] = {"PENDING", "ACTIVE"} /\ \A t \in Callouts : t # c => flags'[t] = flags[t]
  BY <1>1, <1>3
<1>7. draining' = draining /\ cur' = cur
  OBVIOUS
<1>8. QueuedPending'
  BY <1>2, <1>5, <1>6, <1>7 DEF QueuedPending
<1>9. ArmedQueued'
  BY <1>1, <1>2, <1>5, <1>7 DEF ArmedQueued
<1>10. CurInv'
  BY <1>2, <1>7 DEF CurInv
<1>11. WaitInv' /\ ActiveInv'
  BY <1>1, <1>2, <1>6, <1>7 DEF WaitInv, ActiveInv
<1>12. HandledInv'
  BY <1>1, <1>2, <1>3, <1>6, <1>7 DEF HandledInv
<1> QED BY <1>4, <1>8, <1>9, <1>10, <1>11, <1>12

\* The handler returns at once, fires, or fires and arms its callout again.
LEMMA HandlerInv == ASSUME CalloutInv, Handler PROVE CalloutInv'
<1>1. /\ pc = "handler" /\ cur \in Callouts
      /\ UNCHANGED <<now, cur, wake, signalling, draining>>
  BY DEF Handler, CalloutInv, CurInv
<1>2. /\ TypeOK /\ QueueSorted /\ QueuedPending /\ ArmedQueued /\ NoLostWakeup
      /\ CurInv /\ WaitInv /\ ActiveInv /\ HandledInv
  BY DEF CalloutInv, QueueSound
<1>3. flags \in [Callouts -> SUBSET Flags] /\ armed \subseteq Callouts
  BY <1>2 DEF TypeOK
<1>4. pc' \in {"fired", "return"}
  BY DEF Handler
<1>5. NoLostWakeup' /\ CurInv'
  BY <1>1, <1>4 DEF NoLostWakeup, CurInv
<1>6. CASE Stale(cur) /\ UNCHANGED <<queue, timeout, flags, work, armed>>
  <2>1. TypeOK'
    BY <1>1, <1>2, <1>4, <1>6 DEF TypeOK
  <2>2. QueueSorted' /\ QueuedPending' /\ ArmedQueued'
    BY <1>1, <1>2, <1>4, <1>6 DEF QueueSorted, QueuedPending, ArmedQueued, Queued
  <2>3. WaitInv' /\ ActiveInv'
    BY <1>1, <1>2, <1>6 DEF WaitInv, ActiveInv
  <2>4. HandledInv'
    BY <1>1, <1>2, <1>6 DEF HandledInv, ActiveInv, Stale
  <2> QED BY <1>5, <2>1, <2>2, <2>3, <2>4 DEF CalloutInv, QueueSound
<1>7. CASE /\ ~Stale(cur)
           /\ flags' = [flags EXCEPT ![cur] = @ \ {"ACTIVE"}]
           /\ armed' = armed \ {cur} /\ UNCHANGED <<queue, timeout, work>>
  <2>1. /\ flags' \in [Callouts -> SUBSET Flags] /\ armed' \subseteq Callouts
        /\ \A t \in Callouts : /\ "PENDING" \in flags'[t] <=> "PENDING" \in flags[t]
                               /\ "WAITING" \in flags'[t] <=> "WAITING" \in flags[t]
                               /\ "ACTIVE" \in flags'[t] <=> "ACTIVE" \in flags[t] /\ t # cur
    BY <1>1, <1>3, <1>7
  <2>2. TypeOK'
    BY <1>1, <1>2, <1>4, <1>7, <2>1 DEF TypeOK
  <2>3. QueueSorted' /\ QueuedPending'
    BY <1>1, <1>2, <1>4, <1>7, <2>1 DEF QueueSorted, QueuedPending, Queued
  <2>4. ArmedQueued' /\ HandledInv'
    BY <1>1, <1>2, <1>7 DEF ArmedQueued, HandledInv, Queued
  <2>5. WaitInv' /\ ActiveInv'
    BY <1>1, <1>2, <1>7, <2>1 DEF WaitInv, ActiveInv
  <2> QED BY <1>5, <2>2, <2>3, <2>4, <2>5 DEF CalloutInv, QueueSound
<1>8. CASE pc' = "fired" /\ \E d \in Delays : now + d <= MaxTime /\ Rearm(cur, d)
  <2>1. PICK d \in Delays : now + d <= MaxTime /\ Rearm(cur, d)
    BY <1>8
  <2>2. /\ queue' \in Seq(Callouts) /\ QueueSorted' /\ timeout' \in [Callouts -> 0 .. MaxTime]
        /\ work \in BOOLEAN => work' \in BOOLEAN
    BY <1>1, <2>1, RearmQueue
  <2>3. /\ QueuedPending' /\ ArmedQueued' /\ CurInv' /\ WaitInv' /\ ActiveInv' /\ HandledInv'
        /\ flags' \in [Callouts -> SUBSET Flags] /\ armed' \subseteq Callouts
    BY <1>1, <1>8, <2>1, RearmKeeps
  <2>4. TypeOK'
    BY <1>1, <1>2, <1>4, <2>2, <2>3 DEF TypeOK
  <2> QED BY <1>5, <2>2, <2>3, <2>4 DEF CalloutInv, QueueSound
<1> QED BY <1>6, <1>7, <1>8 DEF Handler

\* The caller that puts a callout at the head of an empty queue is the one
\* that signals, and nobody else's signal is withdrawn.
LEMMA ResetInv ==
  ASSUME CalloutInv, NEW u \in Callers, NEW c \in Callouts, NEW d \in Delays,
         callout_reset_sbt(u, c, d)
  PROVE  CalloutInv'
<1>1. /\ Rearm(c, d) /\ now + d <= MaxTime /\ signalling[u] = None
      /\ signalling' = [signalling EXCEPT ![u] = IF NeedsSignal(c) THEN c ELSE None]
      /\ UNCHANGED <<now, pc, cur, wake, draining>>
  BY DEF callout_reset_sbt, Idle
<1>2. TypeOK /\ NoLostWakeup
  BY DEF CalloutInv, QueueSound
<1>3. /\ queue' \in Seq(Callouts) /\ QueueSorted' /\ timeout' \in [Callouts -> 0 .. MaxTime]
      /\ work \in BOOLEAN => work' \in BOOLEAN
      /\ \A t : Queued(t)' <=> t = c \/ Queued(t)
  BY <1>1, RearmQueue
<1>4. /\ QueuedPending' /\ ArmedQueued' /\ CurInv' /\ WaitInv' /\ ActiveInv' /\ HandledInv'
      /\ flags' \in [Callouts -> SUBSET Flags] /\ armed' \subseteq Callouts
  BY <1>1, RearmKeeps
<1>5. signalling \in [Callers -> Callouts \cup {None}]
  BY <1>2 DEF TypeOK
<1>6. /\ signalling' \in [Callers -> Callouts \cup {None}]
      /\ NeedsSignal(c) => signalling'[u] = c
      /\ \A v \in Callers : v # u => signalling'[v] = signalling[v]
  BY <1>1, <1>5
<1>7. TypeOK'
  BY <1>1, <1>2, <1>3, <1>4, <1>6 DEF TypeOK
<1>8. NoLostWakeup'
  <2> SUFFICES ASSUME pc = "wait" PROVE \E v \in Callers : signalling'[v] # None
    BY <1>1 DEF NoLostWakeup
  <2>1. CASE queue = <<>>
    <3>1. \A t : ~Queued(t)
      BY <2>1 DEF Queued
    <3>2. \A t : On(queue', t) <=> t = c
      BY <1>3, <3>1, Zenon DEF Queued, On
    <3>3. queue' # <<>>
      BY <3>2 DEF On
    <3>4. On(queue', Head(queue'))
      <4>1. Len(queue') \in Nat /\ DOMAIN queue' = 1 .. Len(queue') /\ Len(queue') # 0
        BY <1>3, <3>3
      <4>2. Head(queue') = queue'[1] /\ 1 \in DOMAIN queue'
        BY <1>3, <3>3, <4>1
      <4> QED BY <4>2 DEF On
    <3>5. NeedsSignal(c)
      BY <3>2, <3>4 DEF NeedsSignal
    <3> QED BY <1>6, <3>5, CalloutAssumption
  <2>2. CASE queue # <<>>
    <3>1. PICK v \in Callers : signalling[v] # None
      BY <1>2, <2>2 DEF NoLostWakeup
    <3> QED BY <1>1, <1>6, <3>1
  <2> QED BY <2>1, <2>2
<1> QED BY <1>3, <1>4, <1>7, <1>8 DEF CalloutInv, QueueSound

\* The signal of callout_reset_sbt: the thread no longer waits.
LEMMA SignalInv ==
  ASSUME CalloutInv, NEW u \in Callers, ResetSignal(u)
  PROVE  CalloutInv'
<1>1. /\ signalling' = [signalling EXCEPT ![u] = None] /\ pc' = Woken(pc)
      /\ UNCHANGED <<queue, timeout, flags, work, now, cur, wake, draining, armed>>
  BY DEF ResetSignal
<1>2. /\ TypeOK /\ QueueSorted /\ QueuedPending /\ ArmedQueued
      /\ CurInv /\ WaitInv /\ ActiveInv /\ HandledInv
  BY DEF CalloutInv, QueueSound
<1>3. /\ pc' # "wait" /\ pc' \in {"woken", "signalled", pc}
      /\ pc' = "signalled" => pc \in {"sleep", "signalled"}
  BY <1>1 DEF Woken
<1>4. TypeOK'
  BY <1>1, <1>2, <1>3 DEF TypeOK
<1>5. QueueSorted' /\ NoLostWakeup'
  BY <1>1, <1>2, <1>3 DEF QueueSorted, NoLostWakeup
<1>6. QueuedPending' /\ ArmedQueued'
  <2>1. pc \in {"handler", "fired", "return"} => pc' = pc
    BY <1>1 DEF Woken
  <2> QED BY <1>1, <1>2, <2>1 DEF QueuedPending, ArmedQueued, Queued
<1>7. CurInv' /\ WaitInv' /\ ActiveInv' /\ HandledInv'
  BY <1>1, <1>2, <1>3 DEF CurInv, WaitInv, ActiveInv, HandledInv
<1> QED BY <1>4, <1>5, <1>6, <1>7 DEF CalloutInv, QueueSound

\* callout_stop, and the end of callout_drain: c is off the queue, without flags.
LEMMA StopInv ==
  ASSUME CalloutInv, NEW c \in Callouts,
         queue' = callout_remove(queue, c), flags' = [flags EXCEPT ![c] = {}],
         armed' = armed \ {c},
         UNCHANGED <<timeout, work, now, pc, cur, wake, signalling>>,
         draining' \in [Callers -> Callouts \cup {None}],
         \A v \in Callers : draining[v] # c => draining'[v] = draining[v]
  PROVE  CalloutInv'
<1>1. /\ TypeOK /\ QueueSorted /\ QueuedPending /\ ArmedQueued /\ NoLostWakeup
      /\ CurInv /\ WaitInv /\ ActiveInv /\ HandledInv
  BY DEF CalloutInv, QueueSound
<1>2. queue \in Seq(Callouts) /\ Sorted(queue, timeout)
  BY QueueIsSorted
<1>3. queue' \in Seq(Callouts) /\ \A t : On(queue', t) <=> t # c /\ On(queue, t)
  BY <1>2, RemoveProps
<1>4. Sorted(queue', timeout')
  BY <1>2, RemoveSorted
<1>5. QueueSorted' /\ \A t : Queued(t)' <=> t # c /\ Queued(t)
  BY <1>3, <1>4 DEF QueueSorted, Sorted, Queued, On
<1>6. flags \in [Callouts -> SUBSET Flags] /\ armed \subseteq Callouts
  BY <1>1 DEF TypeOK
<1>7. /\ flags' \in [Callouts -> SUBSET Flags] /\ armed' \subseteq Callouts
      /\ flags'[c] = {} /\ \A t \in Callouts : t # c => flags'[t] = flags[t]
  BY <1>6
<1>8. TypeOK'
  BY <1>1, <1>3, <1>7 DEF TypeOK
<1>9. QueuedPending'
  BY <1>1, <1>5, <1>7 DEF QueuedPending
<1>10. ArmedQueued' /\ WaitInv'
  BY <1>1, <1>5, <1>6, <1>7 DEF ArmedQueued, WaitInv
<1>11. ActiveInv' /\ HandledInv'
  BY <1>1, <1>6, <1>7 DEF ActiveInv, HandledInv
<1>12. NoLostWakeup' /\ CurInv'
  <2>1. queue = <<>> => queue' = <<>>
    BY DEF callout_remove
  <2> QED BY <1>1, <2>1 DEF NoLostWakeup, CurInv
<1> QED BY <1>5, <1>8, <1>9, <1>10, <1>11, <1>12 DEF CalloutInv, QueueSound

\* callout_drain that has to wait.
LEMMA DrainInv ==
  ASSUME CalloutInv, NEW u \in Callers, NEW c \in Callouts, callout_drain(u, c)
  PROVE  CalloutInv'
<1>1. /\ flags' = [flags EXCEPT ![c] = @ \cup {"WAITING"}] /\ work' = TRUE /\ pc' = Woken(pc)
      /\ draining' = [draining EXCEPT ![u] = c] /\ draining[u] = None
      /\ UNCHANGED <<queue, timeout, now, cur, wake, signalling, armed>>
  BY DEF callout_drain, Idle
<1>2. /\ TypeOK /\ QueueSorted /\ QueuedPending /\ ArmedQueued
      /\ CurInv /\ WaitInv /\ ActiveInv /\ HandledInv
  BY DEF CalloutInv, QueueSound
<1>3. /\ flags \in [Callouts -> SUBSET Flags] /\ armed \subseteq Callouts
      /\ draining \in [Callers -> Callouts \cup {None}]
  BY <1>2 DEF TypeOK
<1>4. /\ flags' \in [Callouts -> SUBSET Flags]
      /\ \A t \in Callouts : /\ "PENDING" \in flags'[t] <=> "PENDING" \in flags[t]
                             /\ "ACTIVE" \in flags'[t] <=> "ACTIVE" \in flags[t]
                             /\ "WAITING" \in flags'[t] <=> "WAITING" \in flags[t] \/ t = c
  BY <1>1, <1>3 DEF Flags
<1>5. /\ draining' \in [Callers -> Callouts \cup {None}] /\ draining'[u] = c
      /\ \A v \in Callers : draining[v] # None => draining'[v] = draining[v]
  BY <1>1, <1>3
<1>6. /\ pc' # "wait" /\ pc' \in {"woken", "signalled", pc}
      /\ pc' = "signalled" => pc \in {"sleep", "signalled"}
      /\ pc \in {"handler", "fired", "return"} => pc' = pc
  BY <1>1 DEF Woken
<1>7. work' \in BOOLEAN
  BY <1>1, Zenon
<1>8. TypeOK'
  BY <1>1, <1>2, <1>4, <1>5, <1>6, <1>7 DEF TypeOK
<1>9. QueueSorted' /\ NoLostWakeup'
  BY <1>1, <1>2, <1>6 DEF QueueSorted, NoLostWakeup
<1>10. QueuedPending'
  BY <1>1, <1>2, <1>4, <1>6 DEF QueuedPending, Queued
<1>11. \A t \in Callouts : (\E v \in Callers : draining[v] = t) => \E v \in Callers : draining'[v] = t
  BY <1>5, CalloutAssumption
<1>12. ArmedQueued' /\ WaitInv'
  BY <1>1, <1>2, <1>3, <1>4, <1>5, <1>11 DEF ArmedQueued, WaitInv, Queued
<1>13. CurInv' /\ ActiveInv' /\ HandledInv'
  BY <1>1, <1>2, <1>3, <1>4, <1>6 DEF CurInv, ActiveInv, HandledInv
<1> QED BY <1>8, <1>9, <1>10, <1>12, <1>13 DEF CalloutInv, QueueSound

\* Whatever a caller does.
LEMMA CallerInv ==
  ASSUME CalloutInv, NEW u \in Callers, CallerStep(u)
  PROVE  CalloutInv'
<1>1. draining \in [Callers -> Callouts \cup {None}]
  BY DEF CalloutInv, QueueSound, TypeOK
<1>2. CASE \E c \in Callouts, d \in Delays : callout_reset_sbt(u, c, d)
  BY <1>2, ResetInv
<1>3. CASE ResetSignal(u)
  BY <1>3, SignalInv
<1>4. CASE \E c \in Callouts : callout_drain(u, c)
  BY <1>4, DrainInv
<1>5. CASE \E c \in Callouts : callout_stop(u, c) \/ DrainDone(u, c)
  BY <1>1, <1>5, StopInv DEF callout_stop, DrainDone
<1>6. CASE SpuriousWakeup(u)
  <2> DEFINE c == draining[u]
  <2>1. c \in Callouts
    BY <1>1, <1>6 DEF SpuriousWakeup
  <2>2. /\ draining' \in [Callers -> Callouts \cup {None}]
        /\ \A v \in Callers : draining[v] # c => draining'[v] = draining[v]
    BY <1>1, <1>6 DEF SpuriousWakeup
  <2>3. /\ queue' = callout_remove(queue, c) /\ flags' = [flags EXCEPT ![c] = {}]
        /\ armed' = armed \ {c} /\ UNCHANGED <<timeout, work, now, pc, cur, wake, signalling>>
    BY <1>6 DEF SpuriousWakeup
  <2> QED BY ONLY CalloutInv, <2>1, <2>2, <2>3, StopInv, Zenon
<1> QED BY <1>2, <1>3, <1>4, <1>5, <1>6 DEF CallerStep

\* Every step of the thread, of a caller and of the clock.
LEMMA CalloutStepInv == CalloutInv /\ [Next]_vars => CalloutInv'
<1> SUFFICES ASSUME CalloutInv, [Next]_vars PROVE CalloutInv'
  OBVIOUS
<1>1. CASE ThreadStep
  BY <1>1, ThreadWokenInv, QuietInv, ResumeInv, HandlerInv, HandlerReturnedInv DEF ThreadStep
<1>2. CASE Tick \/ UNCHANGED vars
  BY <1>2, QuietInv
<1>3. CASE \E u \in Callers : CallerStep(u)
  BY <1>3, CallerInv
<1> QED BY <1>1, <1>2, <1>3 DEF Next

\* The timer service of vmm_callout.c keeps its queue sorted and its flags in
\* step with it, loses no reset and no wakeup, for any number of callouts,
\* callers and delays.
THEOREM CalloutCorrect == Spec => []QueueSound
<1>1. CalloutInv => QueueSound
  BY DEF CalloutInv
<1> QED BY <1>1, CalloutInitInv, CalloutStepInv, PTL DEF Spec

\* A handler fires only for a callout that was reset and neither stopped nor
\* fired since, whatever callers do while the handler is on its way.
THEOREM FiresOnlyArmedHolds == Spec => FiresOnlyArmed
<1>1. CalloutInv /\ [Next]_vars => [pc = "handler" /\ pc' = "fired" => cur \in armed]_vars
  <2> SUFFICES ASSUME CalloutInv, Next, pc = "handler", pc' = "fired" PROVE cur \in armed
    BY DEF vars
  <2>1. cur \in Callouts /\ ActiveInv
    BY DEF CalloutInv, CurInv
  <2>2. CASE Handler
    BY <2>1, <2>2 DEF Handler, Stale, ActiveInv
  <2>3. CASE ThreadStep /\ ~Handler
    BY <2>3 DEF ThreadStep, ThreadWoken, SleepTimeout, ResumeTimedout, ResumeSignalled, HandlerReturned
  <2>4. CASE Tick
    BY <2>4 DEF Tick
  <2>5. ASSUME NEW u \in Callers, CallerStep(u) PROVE FALSE
    <3>1. pc' \in {pc, Woken(pc)}
      BY <2>5 DEF CallerStep, callout_reset_sbt, ResetSignal, callout_stop, callout_drain, DrainDone, SpuriousWakeup
    <3> QED BY <3>1 DEF Woken
  <2> QED BY <2>2, <2>3, <2>4, <2>5 DEF Next
<1> QED BY <1>1, CalloutInitInv, CalloutStepInv, PTL DEF Spec, FiresOnlyArmed
=============================================================================
