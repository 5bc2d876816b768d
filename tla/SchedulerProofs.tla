-------------------------- MODULE SchedulerProofs --------------------------
(***************************************************************************)
(* Proofs about Scheduler, for any number of environments and of levels:   *)
(* where every environment is, what trap asserts, and when the scheduler   *)
(* stops.                                                                  *)
(***************************************************************************)
EXTENDS Scheduler, SequenceTheorems, WellFoundedInduction, TLAPS

USE EnvAssumption, LevelsAssumption, MethodsAssumption

(* Induction over the natural numbers, on sets.                            *)
Less == {p \in Nat \X Nat : p[1] < p[2]}

LEMMA LeastElement ==
  ASSUME NEW S \in SUBSET Nat, S # {}
  PROVE  \E n \in S : \A m \in S : n <= m
<1>1. IsWellFoundedOn(Less, Nat)
  BY NatLessThanWellFounded DEF OpToRel, Less
<1>2. PICK n \in S : \A m \in S : ~(<<m, n>> \in Less)
  BY <1>1, WFMin
<1>3. ASSUME NEW m \in S PROVE n <= m
  <2>1. m \in Nat /\ n \in Nat
    OBVIOUS
  <2>2. ~(m < n)
    BY <1>2, <2>1 DEF Less
  <2> QED BY <2>1, <2>2
<1> QED BY <1>3

LEMMA Induction ==
  ASSUME NEW S \in SUBSET Nat, 0 \in S, \A n \in S : n + 1 \in S
  PROVE  S = Nat
<1> SUFFICES ASSUME Nat \ S # {} PROVE FALSE
  OBVIOUS
<1>1. PICK n \in Nat \ S : \A m \in Nat \ S : n <= m
  BY LeastElement
<1>2. n # 0 /\ n-1 \in Nat /\ n-1 \notin Nat \ S
  BY <1>1
<1> QED BY <1>2

-----------------------------------------------------------------------------
(* Queues.                                                                 *)
Queue == {q \in Seq(Env) : IsInjective(q)}

LEMMA EmptyQueue ==
  /\ <<>> \in Queue
  /\ \A e : ~Contains(<<>>, e)
  /\ \A q \in Queue : q # <<>> => \E e \in Env : Contains(q, e)
  /\ \A q \in Queue : \A e : Contains(q, e) => e \in Env /\ q # <<>>
BY DEF Queue, IsInjective, Contains

LEMMA EnqueueIs ==
  ASSUME NEW q \in Queue, NEW e \in Env, ~Contains(q, e)
  PROVE  /\ enqueue(q, e) \in Queue
         /\ \A x : Contains(enqueue(q, e), x) <=> x = e \/ Contains(q, x)
<1>1. /\ enqueue(q, e) \in Seq(Env) /\ Len(enqueue(q, e)) = Len(q) + 1
      /\ enqueue(q, e)[1] = e
      /\ \A i \in 2 .. Len(q) + 1 : enqueue(q, e)[i] = q[i - 1]
  BY DEF enqueue, Queue
<1>2. \A x : Contains(enqueue(q, e), x) <=> x = e \/ Contains(q, x)
  <2> TAKE x
  <2>1. ASSUME Contains(q, x) PROVE Contains(enqueue(q, e), x)
    <3>1. PICK i \in 1 .. Len(q) : q[i] = x
      BY <2>1 DEF Contains
    <3>2. i + 1 \in 2 .. Len(q) + 1 /\ (i + 1) - 1 = i
      BY DEF Queue
    <3> QED BY <1>1, <3>1, <3>2 DEF Contains, Queue
  <2>2. ASSUME Contains(enqueue(q, e), x), x # e PROVE Contains(q, x)
    <3>1. PICK i \in 1 .. Len(q) + 1 : enqueue(q, e)[i] = x
      BY <1>1, <2>2 DEF Contains
    <3>2. i - 1 \in 1 .. Len(q) /\ q[i - 1] = x
      BY <1>1, <2>2, <3>1 DEF Queue
    <3> QED BY <3>2 DEF Contains
  <2>3. Contains(enqueue(q, e), e)
    BY <1>1 DEF Contains, Queue
  <2> QED BY <2>1, <2>2, <2>3
<1>3. IsInjective(enqueue(q, e))
  <2> SUFFICES ASSUME NEW i \in 1 .. Len(q) + 1, NEW j \in 1 .. Len(q) + 1,
                      enqueue(q, e)[i] = enqueue(q, e)[j]
               PROVE  i = j
    BY <1>1 DEF IsInjective
  <2>1. \A k \in 1 .. Len(q) : q[k] # e
    BY DEF Contains
  <2>2. \A k, l \in 1 .. Len(q) : q[k] = q[l] => k = l
    BY DEF Queue, IsInjective
  <2> QED BY <1>1, <2>1, <2>2 DEF Queue
<1> QED BY <1>1, <1>2, <1>3 DEF Queue

LEMMA ConcatIs ==
  ASSUME NEW q \in Queue, NEW r \in Queue, \A e : ~(Contains(q, e) /\ Contains(r, e))
  PROVE  /\ q \o r \in Queue
         /\ \A x : Contains(q \o r, x) <=> Contains(q, x) \/ Contains(r, x)
<1>1. /\ q \o r \in Seq(Env) /\ Len(q \o r) = Len(q) + Len(r)
      /\ \A i \in 1 .. Len(q) : (q \o r)[i] = q[i]
      /\ \A i \in Len(q) + 1 .. Len(q) + Len(r) : (q \o r)[i] = r[i - Len(q)]
      /\ Len(q) \in Nat /\ Len(r) \in Nat
  BY DEF Queue
<1>2. \A x : Contains(q \o r, x) <=> Contains(q, x) \/ Contains(r, x)
  <2> TAKE x
  <2>1. ASSUME Contains(q, x) PROVE Contains(q \o r, x)
    BY <1>1, <2>1 DEF Contains
  <2>2. ASSUME Contains(r, x) PROVE Contains(q \o r, x)
    <3>1. PICK i \in 1 .. Len(r) : r[i] = x
      BY <2>2 DEF Contains
    <3>2. i + Len(q) \in Len(q) + 1 .. Len(q) + Len(r) /\ (i + Len(q)) - Len(q) = i
      BY <1>1
    <3>3. (q \o r)[i + Len(q)] = x /\ i + Len(q) \in 1 .. Len(q \o r)
      BY <1>1, <3>1, <3>2
    <3> QED BY <3>3 DEF Contains
  <2>3. ASSUME Contains(q \o r, x), ~Contains(q, x) PROVE Contains(r, x)
    <3>1. PICK i \in 1 .. Len(q) + Len(r) : (q \o r)[i] = x
      BY <1>1, <2>3 DEF Contains
    <3>2. i - Len(q) \in 1 .. Len(r) /\ r[i - Len(q)] = x
      BY <1>1, <2>3, <3>1 DEF Contains
    <3> QED BY <3>2 DEF Contains
  <2> QED BY <2>1, <2>2, <2>3
<1>3. IsInjective(q \o r)
  <2> SUFFICES ASSUME NEW i \in 1 .. Len(q) + Len(r), NEW j \in 1 .. Len(q) + Len(r),
                      (q \o r)[i] = (q \o r)[j]
               PROVE  i = j
    BY <1>1 DEF IsInjective
  <2>1. /\ \A k, l \in 1 .. Len(q) : q[k] = q[l] => k = l
        /\ \A k, l \in 1 .. Len(r) : r[k] = r[l] => k = l
    BY DEF Queue, IsInjective
  <2>2. \A k \in 1 .. Len(q), l \in 1 .. Len(r) : q[k] # r[l]
    BY DEF Contains
  <2>3. CASE i <= Len(q) /\ j <= Len(q)
    BY <1>1, <2>1, <2>3
  <2>4. CASE i > Len(q) /\ j > Len(q)
    BY <1>1, <2>1, <2>4
  <2>5. CASE i <= Len(q) /\ j > Len(q)
    BY <1>1, <2>2, <2>5
  <2>6. CASE i > Len(q) /\ j <= Len(q)
    BY <1>1, <2>2, <2>6
  <2> QED BY <1>1, <2>3, <2>4, <2>5, <2>6
<1> QED BY <1>1, <1>2, <1>3 DEF Queue

LEMMA ReverseIs ==
  ASSUME NEW q \in Queue
  PROVE  /\ Reverse(q) \in Queue
         /\ \A x : Contains(Reverse(q), x) <=> Contains(q, x)
<1>1. /\ Reverse(q) \in Seq(Env) /\ Len(Reverse(q)) = Len(q) /\ Len(q) \in Nat
      /\ \A i \in 1 .. Len(q) : Reverse(q)[i] = q[Len(q) - i + 1]
  BY DEF Reverse, Queue
<1>2. \A i \in 1 .. Len(q) : /\ Len(q) - i + 1 \in 1 .. Len(q)
                             /\ Len(q) - (Len(q) - i + 1) + 1 = i
  BY <1>1
<1>3. \A x : Contains(Reverse(q), x) <=> Contains(q, x)
  <2> TAKE x
  <2>1. ASSUME Contains(q, x) PROVE Contains(Reverse(q), x)
    <3>1. PICK i \in 1 .. Len(q) : q[i] = x
      BY <2>1 DEF Contains
    <3>2. Reverse(q)[Len(q) - i + 1] = x
      BY <1>1, <1>2, <3>1
    <3> QED BY <1>1, <1>2, <3>2 DEF Contains
  <2>2. ASSUME Contains(Reverse(q), x) PROVE Contains(q, x)
    BY <1>1, <1>2, <2>2 DEF Contains
  <2> QED BY <2>1, <2>2
<1>4. IsInjective(Reverse(q))
  <2> SUFFICES ASSUME NEW i \in 1 .. Len(q), NEW j \in 1 .. Len(q),
                      Reverse(q)[i] = Reverse(q)[j]
               PROVE  i = j
    BY <1>1 DEF IsInjective
  <2>1. q[Len(q) - i + 1] = q[Len(q) - j + 1]
    BY <1>1
  <2>2. \A k, l \in 1 .. Len(q) : q[k] = q[l] => k = l
    BY DEF Queue, IsInjective
  <2>3. Len(q) - i + 1 = Len(q) - j + 1
    BY <1>2, <2>1, <2>2
  <2> QED BY <1>1, <2>3
<1> QED BY <1>1, <1>3, <1>4 DEF Queue

(* Taking the element at one place out.                                    *)
LEMMA RemoveAtIs ==
  ASSUME NEW q \in Queue, NEW k \in 1 .. Len(q)
  PROVE  /\ RemoveAt(q, k) \in Queue
         /\ \A x : Contains(RemoveAt(q, k), x) <=> Contains(q, x) /\ x # q[k]
<1>1. /\ RemoveAt(q, k) \in Seq(Env) /\ Len(RemoveAt(q, k)) = Len(q) - 1 /\ Len(q) \in Nat
      /\ \A i \in 1 .. k-1 : RemoveAt(q, k)[i] = q[i]
      /\ \A i \in k .. Len(q) - 1 : RemoveAt(q, k)[i] = q[i + 1]
  <2> DEFINE a == SubSeq(q, 1, k - 1)
             b == SubSeq(q, k + 1, Len(q))
  <2>1. /\ a \in Seq(Env) /\ Len(a) = k - 1
        /\ \A i \in 1 .. k-1 : a[i] = q[i]
    BY DEF Queue
  <2>2. /\ b \in Seq(Env) /\ Len(b) = Len(q) - k /\ Len(q) \in Nat
        /\ \A i \in 1 .. Len(q) - k : b[i] = q[k + i]
    BY DEF Queue
  <2>3. RemoveAt(q, k) = a \o b
    BY DEF RemoveAt
  <2> HIDE DEF a, b
  <2>4. /\ a \o b \in Seq(Env) /\ Len(a \o b) = Len(q) - 1
        /\ \A i \in 1 .. k-1 : (a \o b)[i] = q[i]
    <3>1. a \o b \in Seq(Env) /\ Len(a \o b) = Len(a) + Len(b)
      BY <2>1, <2>2, ConcatProperties
    <3>2. ASSUME NEW i \in 1 .. k-1 PROVE (a \o b)[i] = q[i]
      <4>1. i \in 1 .. Len(a) /\ Len(b) \in Nat
        BY <2>1, <2>2
      <4>2. (a \o b)[i] = a[i]
        BY <2>1, <2>2, <4>1
      <4> QED BY <2>1, <4>2
    <3> QED BY <2>1, <2>2, <3>1, <3>2
  <2>5. ASSUME NEW i \in k .. Len(q) - 1 PROVE (a \o b)[i] = q[i + 1]
    <3>1. (a \o b)[i] = b[i - (k - 1)]
      BY <2>1, <2>2
    <3>2. i - (k - 1) \in 1 .. Len(q) - k /\ k + (i - (k - 1)) = i + 1
      BY <2>2
    <3> QED BY <2>2, <3>1, <3>2
  <2> QED BY <2>2, <2>3, <2>4, <2>5
<1>2. \A i, j \in 1 .. Len(q) : q[i] = q[j] => i = j
  BY DEF Queue, IsInjective
<1>3. \A x : Contains(RemoveAt(q, k), x) <=> Contains(q, x) /\ x # q[k]
  <2> TAKE x
  <2>1. ASSUME Contains(q, x), x # q[k] PROVE Contains(RemoveAt(q, k), x)
    <3>1. PICK i \in 1 .. Len(q) : q[i] = x
      BY <2>1 DEF Contains
    <3>2. CASE i < k
      BY <1>1, <3>1, <3>2 DEF Contains
    <3>3. CASE i > k
      <4>1. i - 1 \in k .. Len(q) - 1 /\ (i - 1) + 1 = i
        BY <1>1, <3>3
      <4>2. RemoveAt(q, k)[i - 1] = x /\ i - 1 \in 1 .. Len(RemoveAt(q, k))
        BY <1>1, <3>1, <4>1
      <4> QED BY <4>2 DEF Contains
    <3> QED BY <1>1, <2>1, <3>1, <3>2, <3>3
  <2>2. ASSUME Contains(RemoveAt(q, k), x) PROVE Contains(q, x) /\ x # q[k]
    <3>1. PICK i \in 1 .. Len(q) - 1 : RemoveAt(q, k)[i] = x
      BY <1>1, <2>2 DEF Contains
    <3>2. CASE i < k
      BY <1>1, <1>2, <3>1, <3>2 DEF Contains
    <3>3. CASE i >= k
      BY <1>1, <1>2, <3>1, <3>3 DEF Contains
    <3> QED BY <1>1, <3>2, <3>3
  <2> QED BY <2>1, <2>2
<1>4. IsInjective(RemoveAt(q, k))
  <2> SUFFICES ASSUME NEW i \in 1 .. Len(q) - 1, NEW j \in 1 .. Len(q) - 1,
                      RemoveAt(q, k)[i] = RemoveAt(q, k)[j]
               PROVE  i = j
    BY <1>1 DEF IsInjective
  <2> QED BY <1>1, <1>2
<1> QED BY <1>1, <1>3, <1>4 DEF Queue

LEMMA RemoveFirstIs ==
  ASSUME NEW q \in Queue, NEW e
  PROVE  /\ RemoveFirst(q, e) \in Queue
         /\ \A x : Contains(RemoveFirst(q, e), x) <=> Contains(q, x) /\ x # e
<1>1. CASE ~Contains(q, e)
  BY <1>1 DEF RemoveFirst, Contains
<1>2. CASE Contains(q, e)
  <2> DEFINE I == {i \in 1 .. Len(q) : q[i] = e}
  <2>1. PICK k \in 1 .. Len(q) : q[k] = e
    BY <1>2 DEF Contains
  <2>2. I = {k}
    BY <2>1 DEF Queue, IsInjective
  <2>3. Min(I) = k
    BY <2>2 DEF Min
  <2>4. RemoveFirst(q, e) = RemoveAt(q, k)
    BY <1>2, <2>2, <2>3 DEF RemoveFirst, SelectInSeq, Contains
  <2> QED BY <2>1, <2>4, RemoveAtIs
<1> QED BY <1>1, <1>2

LEMMA FrontIs ==
  ASSUME NEW q \in Queue, q # <<>>
  PROVE  /\ Last(q) \in Env /\ Contains(q, Last(q))
         /\ Front(q) \in Queue
         /\ \A x : Contains(Front(q), x) <=> Contains(q, x) /\ x # Last(q)
<1>1. Len(q) \in 1 .. Len(q) /\ Len(q) \in Nat
  BY DEF Queue
<1>2. Front(q) = RemoveAt(q, Len(q))
  BY <1>1 DEF Front, RemoveAt, Queue
<1>3. Last(q) \in Env /\ Contains(q, Last(q))
  BY <1>1 DEF Last, Contains, Queue
<1> QED BY <1>1, <1>2, <1>3, RemoveAtIs DEF Last

(* The queues of all levels one after another: what FlattenSeq defines     *)
(* exists, and has the elements of every queue once.                       *)
Joins(ss, f) ==
  f = [i \in 1 .. Len(ss) |-> IF i = 1 THEN ss[i] ELSE f[i-1] \o ss[i]]

JoinStep(ss, f, i) == IF i = 1 THEN ss[i] ELSE f[i-1] \o ss[i]

JoinsUpto(ss, m) ==
  \E f \in [1 .. m -> Seq(Env)] : \A i \in 1 .. m : f[i] = JoinStep(ss, f, i)

LEMMA JoinLonger ==
  ASSUME NEW ss \in Seq(Seq(Env)), NEW m \in Nat, m + 1 <= Len(ss), JoinsUpto(ss, m)
  PROVE  JoinsUpto(ss, m + 1)
<1>1. PICK f \in [1 .. m -> Seq(Env)] : \A i \in 1 .. m : f[i] = JoinStep(ss, f, i)
  BY DEF JoinsUpto
<1> DEFINE g == [i \in 1 .. m + 1 |-> IF i = m + 1 THEN JoinStep(ss, f, i) ELSE f[i]]
<1>2. JoinStep(ss, f, m + 1) \in Seq(Env)
  <2>1. ss[m + 1] \in Seq(Env)
    OBVIOUS
  <2>2. CASE m = 0
    BY <2>1, <2>2 DEF JoinStep
  <2>3. CASE m # 0
    <3>1. f[(m + 1) - 1] \in Seq(Env)
      BY <2>3
    <3> QED BY <2>1, <2>3, <3>1, ConcatProperties DEF JoinStep
  <2> QED BY <2>2, <2>3
<1>3. g \in [1 .. m + 1 -> Seq(Env)]
  BY <1>2
<1>4. ASSUME NEW i \in 1 .. m + 1 PROVE g[i] = JoinStep(ss, g, i)
  <2>1. g[i] = JoinStep(ss, f, i)
    BY <1>1
  <2>2. i # 1 => i - 1 \in 1 .. m /\ g[i - 1] = f[i - 1]
    OBVIOUS
  <2> HIDE DEF g
  <2> QED BY <2>1, <2>2 DEF JoinStep
<1> HIDE DEF g
<1> QED BY <1>3, <1>4 DEF JoinsUpto

LEMMA JoinExists ==
  ASSUME NEW ss \in Seq(Seq(Env))
  PROVE  \E f : Joins(ss, f)
<1> DEFINE S == {m \in Nat : m <= Len(ss) => JoinsUpto(ss, m)}
<1>1. Len(ss) \in Nat
  OBVIOUS
<1>2. JoinsUpto(ss, 0)
  <2> DEFINE f == [i \in 1 .. 0 |-> <<>>]
  <2>1. f \in [1 .. 0 -> Seq(Env)] /\ \A i \in 1 .. 0 : f[i] = JoinStep(ss, f, i)
    OBVIOUS
  <2> HIDE DEF f
  <2> QED BY <2>1 DEF JoinsUpto
<1>3. S = Nat
  <2>1. 0 \in S
    BY <1>2
  <2>2. ASSUME NEW m \in S PROVE m + 1 \in S
    BY <1>1, JoinLonger
  <2> HIDE DEF S
  <2> QED BY <2>1, <2>2, Induction DEF S
<1>4. JoinsUpto(ss, Len(ss))
  BY <1>1, <1>3
<1>5. PICK f \in [1 .. Len(ss) -> Seq(Env)] : \A i \in 1 .. Len(ss) : f[i] = JoinStep(ss, f, i)
  BY <1>4 DEF JoinsUpto
<1>6. Joins(ss, f)
  BY <1>5 DEF Joins, JoinStep
<1> QED BY <1>6

LEMMA FlattenIs ==
  ASSUME NEW ss \in Seq(Queue), Len(ss) # 0,
         \A i, j \in 1 .. Len(ss) : \A e : Contains(ss[i], e) /\ Contains(ss[j], e) => i = j
  PROVE  /\ FlattenSeq(ss) \in Queue
         /\ \A x : Contains(FlattenSeq(ss), x) <=> \E i \in 1 .. Len(ss) : Contains(ss[i], x)
<1> DEFINE flat == CHOOSE f : Joins(ss, f)
           Good(m) == /\ flat[m] \in Queue
                      /\ \A x : Contains(flat[m], x) <=> \E i \in 1 .. m : Contains(ss[i], x)
           S == {m \in Nat : m \in 1 .. Len(ss) => Good(m)}
<1>1. ss \in Seq(Seq(Env)) /\ Len(ss) \in Nat \ {0} /\ \A i \in 1 .. Len(ss) : ss[i] \in Queue
  BY DEF Queue
<1>2. Joins(ss, flat)
  BY <1>1, JoinExists
<1>3. FlattenSeq(ss) = flat[Len(ss)]
  BY <1>1 DEF FlattenSeq, Joins
<1> HIDE DEF flat
<1>4. \A i \in 1 .. Len(ss) : flat[i] = IF i = 1 THEN ss[i] ELSE flat[i-1] \o ss[i]
  BY <1>2 DEF Joins
<1>5. 0 \in S
  OBVIOUS
<1>6. ASSUME NEW m \in S PROVE m + 1 \in S
  <2> SUFFICES ASSUME m + 1 \in 1 .. Len(ss) PROVE Good(m + 1)
    OBVIOUS
  <2>1. CASE m = 0
    <3>1. flat[m + 1] = ss[1]
      BY <1>1, <1>4, <2>1
    <3> QED BY <1>1, <2>1, <3>1
  <2>2. CASE m # 0
    <3>1. flat[m + 1] = flat[m] \o ss[m + 1]
      <4>1. m + 1 # 1 /\ (m + 1) - 1 = m
        BY <2>2
      <4> QED BY <1>4, <4>1
    <3>2. Good(m)
      BY <1>1, <2>2
    <3>3. ASSUME NEW e, Contains(flat[m], e), Contains(ss[m + 1], e) PROVE FALSE
      <4>1. PICK i \in 1 .. m : Contains(ss[i], e)
        BY <3>2, <3>3
      <4>2. i \in 1 .. Len(ss) /\ m + 1 \in 1 .. Len(ss) /\ i # m + 1
        BY <1>1
      <4> QED BY <3>3, <4>1, <4>2
    <3>4. flat[m] \in Queue /\ ss[m + 1] \in Queue
      BY <1>1, <3>2
    <3>5. /\ flat[m + 1] \in Queue
          /\ \A x : Contains(flat[m + 1], x) <=> Contains(flat[m], x) \/ Contains(ss[m + 1], x)
      BY <3>1, <3>3, <3>4, ConcatIs
    <3> QED BY <3>2, <3>5
  <2> QED BY <2>1, <2>2
<1>7. S = Nat
  <2> HIDE DEF S
  <2> QED BY <1>5, <1>6, Induction DEF S
<1>8. Good(Len(ss))
  <2> HIDE DEF Good
  <2> QED BY <1>1, <1>7
<1> QED BY <1>3, <1>8

-----------------------------------------------------------------------------
(* Where the environments are, in queues and with statuses as a function   *)
(* of sched.c leaves them before it calls the scheduler.                   *)
Statuses == {"FREE", "NEW", "READY", "RUNNABLE", "EXIT", "UNKNOWN"}

InSome(ready, e) == \E l \in Levels : Contains(ready[l], e)

Queues(new, ready, exit) ==
  /\ new \in Queue /\ exit \in Queue /\ ready \in [Levels -> Queue]
  /\ \A l, k \in Levels : \A e : Contains(ready[l], e) /\ Contains(ready[k], e) => l = k

Place(new, ready, exit, cur, status, failed, e) ==
  /\ Contains(new, e) <=> status[e] = "NEW"
  /\ Contains(exit, e) <=> status[e] = "EXIT"
  /\ InSome(ready, e) => status[e] \in {"READY", "RUNNABLE"} /\ e # cur
  /\ status[e] = "READY" => InSome(ready, e)
  /\ status[e] = "RUNNABLE" => InSome(ready, e) \/ e = cur \/ failed
  /\ e = cur => status[e] = "RUNNABLE"

Placed(new, ready, exit, cur, status, failed) ==
  /\ Queues(new, ready, exit)
  /\ cur \in Env \union {NoEnv}
  /\ status \in [Env -> Statuses]
  /\ \A e \in Env : Place(new, ready, exit, cur, status, failed, e)

(* The updates the functions make, under names.                            *)
AddTo(ready, l, e)      == [ready EXCEPT ![l] = enqueue(@, e)]
SetTo(status, e, s)     == [status EXCEPT ![e] = s]
Leave(cur, e)           == IF cur = e THEN NoEnv ELSE cur

(* An environment that is in no ready queue goes to one.                   *)
LEMMA MadeReady ==
  ASSUME NEW new, NEW ready, NEW exit, NEW cur, NEW status, NEW failed,
         Placed(new, ready, exit, cur, status, failed),
         NEW e \in Env, ~InSome(ready, e), status[e] # "EXIT",
         NEW l \in Levels, NEW s \in {"READY", "RUNNABLE"},
         NEW new2 \in Queue, \A x : Contains(new2, x) <=> Contains(new, x) /\ x # e
  PROVE  Placed(new2, AddTo(ready, l, e), exit, Leave(cur, e), SetTo(status, e, s), failed)
<1> DEFINE ready2 == AddTo(ready, l, e)
           status2 == SetTo(status, e, s)
           cur2 == Leave(cur, e)
<1>a. cur2 \in Env \union {NoEnv} /\ cur2 # e /\ (cur2 = cur \/ (cur = e /\ cur2 = NoEnv))
  <2>1. cur \in Env \union {NoEnv}
    BY DEF Placed
  <2> QED BY <2>1 DEF Leave
<1> HIDE DEF cur2
<1>1. Queues(new, ready, exit)
  BY DEF Placed
<1>2. /\ enqueue(ready[l], e) \in Queue
      /\ \A x : Contains(enqueue(ready[l], e), x) <=> x = e \/ Contains(ready[l], x)
  BY <1>1, EnqueueIs DEF InSome, Queues
<1>3. /\ ready2 \in [Levels -> Queue]
      /\ \A k \in Levels : \A x : Contains(ready2[k], x) <=> Contains(ready[k], x) \/ (k = l /\ x = e)
  BY <1>1, <1>2 DEF Queues, AddTo
<1> HIDE DEF ready2
<1>4. Queues(new2, ready2, exit)
  BY <1>1, <1>3 DEF Queues, InSome
<1>5. \A x : InSome(ready2, x) <=> InSome(ready, x) \/ x = e
  BY <1>3 DEF InSome
<1>6. /\ status2 \in [Env -> Statuses] /\ status2[e] = s
      /\ \A x \in Env : x # e => status2[x] = status[x]
  BY DEF Placed, Statuses, SetTo
<1> HIDE DEF status2
<1>7. ASSUME NEW x \in Env PROVE Place(new2, ready2, exit, cur2, status2, failed, x)
  <2>1. Place(new, ready, exit, cur, status, failed, x)
    BY DEF Placed
  <2>2. CASE x = e
    BY <1>a, <1>5, <1>6, <2>1, <2>2 DEF Place
  <2>3. CASE x # e
    BY <1>a, <1>5, <1>6, <2>1, <2>3 DEF Place
  <2> QED BY <2>2, <2>3
<1>8. Placed(new2, ready2, exit, cur2, status2, failed)
  BY <1>a, <1>4, <1>6, <1>7 DEF Placed
<1> QED BY <1>8 DEF ready2, status2, cur2

(* An environment leaves the queues, for the EXIT queue, to be blocked or  *)
(* to be freed.                                                            *)
LEMMA TakenOut ==
  ASSUME NEW new, NEW ready, NEW exit, NEW cur, NEW status, NEW failed,
         Placed(new, ready, exit, cur, status, failed),
         NEW e \in Env,
         NEW new2 \in Queue, \A x : Contains(new2, x) <=> Contains(new, x) /\ x # e,
         NEW ready2 \in [Levels -> Queue],
         \A k \in Levels : \A x : Contains(ready2[k], x) <=> Contains(ready[k], x) /\ x # e,
         NEW exit2 \in Queue, NEW s \in {"EXIT", "FREE", "UNKNOWN"},
         \A x : Contains(exit2, x) <=> IF x = e THEN s = "EXIT" ELSE Contains(exit, x)
  PROVE  Placed(new2, ready2, exit2, Leave(cur, e), SetTo(status, e, s), failed)
<1> DEFINE status2 == SetTo(status, e, s)
           cur2 == Leave(cur, e)
<1>a. cur2 \in Env \union {NoEnv} /\ cur2 # e /\ (cur2 = cur \/ (cur = e /\ cur2 = NoEnv))
  <2>1. cur \in Env \union {NoEnv}
    BY DEF Placed
  <2> QED BY <2>1 DEF Leave
<1> HIDE DEF cur2
<1>1. Queues(new2, ready2, exit2)
  BY DEF Placed, Queues
<1>2. \A x : InSome(ready2, x) <=> InSome(ready, x) /\ x # e
  BY DEF InSome
<1>3. /\ status2 \in [Env -> Statuses] /\ status2[e] = s
      /\ \A x \in Env : x # e => status2[x] = status[x]
  BY DEF Placed, Statuses, SetTo
<1> HIDE DEF status2
<1>4. ASSUME NEW x \in Env PROVE Place(new2, ready2, exit2, cur2, status2, failed, x)
  <2>1. Place(new, ready, exit, cur, status, failed, x)
    BY DEF Placed
  <2>2. CASE x = e
    BY <1>a, <1>2, <1>3, <2>1, <2>2 DEF Place
  <2>3. CASE x # e
    BY <1>a, <1>2, <1>3, <2>1, <2>3 DEF Place
  <2> QED BY <2>2, <2>3
<1>5. Placed(new2, ready2, exit2, cur2, status2, failed)
  BY <1>a, <1>1, <1>3, <1>4 DEF Placed
<1> QED BY <1>5 DEF status2, cur2

(* The environment the scheduler takes from a level runs.                  *)
LEMMA Selected ==
  ASSUME NEW new, NEW ready, NEW exit, NEW status, NEW failed,
         Placed(new, ready, exit, NoEnv, status, failed),
         NEW l \in Levels, ready[l] # <<>>
  PROVE  /\ Last(ready[l]) \in Env
         /\ Placed(new, [ready EXCEPT ![l] = Front(@)], exit, Last(ready[l]),
                   [status EXCEPT ![Last(ready[l])] = "RUNNABLE"], failed)
<1> DEFINE e == Last(ready[l])
           ready2 == [ready EXCEPT ![l] = Front(@)]
           status2 == [status EXCEPT ![e] = "RUNNABLE"]
<1>1. Queues(new, ready, exit)
  BY DEF Placed
<1>2. /\ e \in Env /\ Contains(ready[l], e)
      /\ Front(ready[l]) \in Queue
      /\ \A x : Contains(Front(ready[l]), x) <=> Contains(ready[l], x) /\ x # e
  BY <1>1, FrontIs DEF Queues
<1> HIDE DEF e
<1>3. /\ ready2 \in [Levels -> Queue]
      /\ \A k \in Levels : \A x : Contains(ready2[k], x) <=> Contains(ready[k], x) /\ x # e
  BY <1>1, <1>2 DEF Queues
<1> HIDE DEF ready2
<1>4. Queues(new, ready2, exit)
  BY <1>1, <1>3 DEF Queues
<1>5. \A x : InSome(ready2, x) <=> InSome(ready, x) /\ x # e
  BY <1>3 DEF InSome
<1>6. /\ status2 \in [Env -> Statuses] /\ status2[e] = "RUNNABLE"
      /\ \A x \in Env : x # e => status2[x] = status[x]
  BY <1>2 DEF Placed, Statuses
<1> HIDE DEF status2
<1>7. ASSUME NEW x \in Env PROVE Place(new, ready2, exit, e, status2, failed, x)
  <2>1. Place(new, ready, exit, NoEnv, status, failed, x)
    BY DEF Placed
  <2>2. CASE x = e
    <3>1. InSome(ready, x)
      BY <1>2, <2>2 DEF InSome
    <3> QED BY <1>5, <1>6, <2>1, <2>2, <3>1 DEF Place
  <2>3. CASE x # e
    BY <1>5, <1>6, <2>1, <2>3 DEF Place
  <2> QED BY <2>2, <2>3
<1>8. Placed(new, ready2, exit, e, status2, failed)
  BY <1>2, <1>4, <1>6, <1>7 DEF Placed
<1> QED BY <1>2, <1>8 DEF ready2, status2, e

-----------------------------------------------------------------------------
(* The levels: those not in use are empty, and the level curenv goes back  *)
(* to is in use, or no environment is there to go to it.                   *)
Config ==
  /\ num_of_ready_queues \in 1 .. MaxLevels
  /\ scheduler_method \in {"RR", "MLFQ"}
  /\ scheduler_method = "MLFQ" => num_of_ready_queues >= 2

Levelled(ready, cur, index) ==
  /\ index \in Levels
  /\ \A l \in Levels : l >= num_of_ready_queues => ready[l] = <<>>
  /\ scheduler_method = "MLFQ" /\ index >= num_of_ready_queues =>
       cur = NoEnv /\ \A l \in Levels : l >= 1 => ready[l] = <<>>

Running ==
  /\ mode \in {"user", "prompt"}
  /\ scheduler_status \in {"STARTED", "STOPPED"}
  /\ mode = "user" => curenv # NoEnv /\ scheduler_status = "STARTED"
  /\ mode = "prompt" => curenv = NoEnv \/ assertFailed
  /\ StoppedMeansIdle

PlaceInv == Placed(env_new_queue, env_ready_queues, env_exit_queue, curenv, env_status, assertFailed)

Inv ==
  /\ PlaceInv
  /\ Config
  /\ Levelled(env_ready_queues, curenv, indexToEnqueue)
  /\ Running

(* Putting curenv back.                                                    *)
LEMMA Requeued ==
  ASSUME Config,
         NEW new, NEW ready, NEW exit, NEW cur, NEW status, NEW failed,
         Placed(new, ready, exit, cur, status, failed),
         Levelled(ready, cur, indexToEnqueue)
  PROVE  /\ Placed(new, Requeue(ready, cur), exit, NoEnv, status, failed)
         /\ Levelled(Requeue(ready, cur), NoEnv, indexToEnqueue)
         /\ cur # NoEnv => NonEmpty(Requeue(ready, cur)) # {}
<1>1. CASE cur = NoEnv
  BY <1>1 DEF Requeue, Levelled
<1>2. CASE cur # NoEnv
  <2> DEFINE l == EnqueueLevel
             ready2 == AddTo(ready, l, cur)
  <2>1. Requeue(ready, cur) = ready2
    BY <1>2 DEF Requeue, AddTo
  <2>2. l \in Levels /\ l \in InUseLevels
    BY <1>2 DEF EnqueueLevel, Levelled, Config, Levels, InUseLevels
  <2> HIDE DEF l
  <2>3. cur \in Env /\ Place(new, ready, exit, cur, status, failed, cur)
    BY <1>2 DEF Placed
  <2>4. status[cur] = "RUNNABLE" /\ ~InSome(ready, cur) /\ ~Contains(new, cur)
    BY <2>3 DEF Place
  <2>5. new \in Queue /\ \A x : Contains(new, x) <=> Contains(new, x) /\ x # cur
    BY <2>4 DEF Placed, Queues
  <2>6. SetTo(status, cur, "RUNNABLE") = status
    BY <2>3, <2>4 DEF Placed, SetTo
  <2>7. Placed(new, ready2, exit, NoEnv, SetTo(status, cur, "RUNNABLE"), failed)
    <3>1. Leave(cur, cur) = NoEnv
      BY DEF Leave
    <3> QED BY <2>2, <2>3, <2>4, <2>5, <3>1, MadeReady
  <2>8. \A k \in Levels : k # l => ready2[k] = ready[k]
    BY DEF AddTo, Placed, Queues
  <2>9. ready2[l] # <<>>
    <3>1. ready2[l] = enqueue(ready[l], cur) /\ ready[l] \in Seq(Env)
      BY <2>2 DEF Placed, Queues, Queue, AddTo
    <3> QED BY <2>3, <3>1 DEF enqueue
  <2> HIDE DEF ready2
  <2>10. Levelled(ready2, NoEnv, indexToEnqueue)
    BY <1>2, <2>2, <2>8 DEF Levelled, InUseLevels, Config, Levels
  <2>11. NonEmpty(ready2) # {}
    BY <2>2, <2>9 DEF NonEmpty
  <2> QED BY <2>1, <2>6, <2>7, <2>10, <2>11
<1> QED BY <1>1, <1>2

(* The level the scheduler takes its next environment from.                *)
LEMMA LevelIs ==
  ASSUME Config, NEW ready, NonEmpty(ready) # {}
  PROVE  /\ Min(NonEmpty(ready)) \in InUseLevels
         /\ Min(NonEmpty(ready)) \in Levels
         /\ ready[Min(NonEmpty(ready))] # <<>>
<1>1. NonEmpty(ready) \in SUBSET Nat
  BY DEF NonEmpty, InUseLevels, Config
<1>2. PICK m \in NonEmpty(ready) : \A k \in NonEmpty(ready) : m <= k
  BY <1>1, LeastElement
<1>3. Min(NonEmpty(ready)) \in NonEmpty(ready)
  BY <1>2 DEF Min
<1> QED BY <1>3 DEF NonEmpty, InUseLevels, Levels, Config

(* The scheduler, entered with any queues, current environment and         *)
(* statuses that are in order.                                             *)
LEMMA SchedulerStep ==
  ASSUME Config, UNCHANGED config,
         NEW new, NEW ready, NEW exit, NEW cur, NEW status, NEW failed,
         Placed(new, ready, exit, cur, status, failed),
         Levelled(ready, cur, indexToEnqueue),
         fos_scheduler(ready, cur, status)
  PROVE  /\ Placed(new, env_ready_queues', exit, curenv', env_status', failed)
         /\ Config' /\ Running'
         /\ Levelled(env_ready_queues, curenv, indexToEnqueue)'
<1> DEFINE queued == Requeue(ready, cur)
<1>1. /\ Placed(new, queued, exit, NoEnv, status, failed)
      /\ Levelled(queued, NoEnv, indexToEnqueue)
      /\ cur # NoEnv => NonEmpty(queued) # {}
  BY Requeued
<1>2. Config' /\ num_of_ready_queues' = num_of_ready_queues /\ scheduler_method' = scheduler_method
  BY DEF config, Config
<1>3. CASE NonEmpty(queued) # {}
  <2> DEFINE level == Min(NonEmpty(queued))
             next == Last(queued[level])
             ready2 == [queued EXCEPT ![level] = Front(@)]
  <2>1. /\ env_ready_queues' = ready2
        /\ curenv' = next
        /\ env_status' = [status EXCEPT ![next] = "RUNNABLE"]
        /\ scheduler_status' = "STARTED"
        /\ indexToEnqueue' =
              IF scheduler_method = "MLFQ" /\ level + 1 # num_of_ready_queues
                THEN level + 1 ELSE indexToEnqueue
        /\ mode' = "user"
    BY <1>3 DEF fos_scheduler
  <2>2. level \in InUseLevels /\ level \in Levels /\ queued[level] # <<>>
    BY <1>3, LevelIs
  <2> HIDE DEF level
  <2>3. next \in Env /\ Placed(new, ready2, exit, next, [status EXCEPT ![next] = "RUNNABLE"], failed)
    BY <1>1, <2>2, Selected
  <2>4. \A k \in Levels : k # level => ready2[k] = queued[k]
    BY <1>1 DEF Placed, Queues
  <2> HIDE DEF ready2, next, queued
  <2>5. Running'
    BY <2>1, <2>3 DEF Running, StoppedMeansIdle
  <2>6. indexToEnqueue' \in Levels
    BY <1>1, <2>1, <2>2 DEF Levelled, InUseLevels, Levels, Config
  <2>7. \A l \in Levels : l >= num_of_ready_queues => ready2[l] = <<>>
    BY <1>1, <2>2, <2>4 DEF Levelled, InUseLevels, Config
  <2>8. scheduler_method = "MLFQ" => indexToEnqueue' < num_of_ready_queues
    BY <1>1, <2>1, <2>2 DEF Levelled, InUseLevels, Levels, Config
  <2>9. Levelled(env_ready_queues, curenv, indexToEnqueue)'
    BY <1>2, <2>1, <2>6, <2>7, <2>8 DEF Levelled, Config, Levels
  <2> QED BY <1>2, <2>1, <2>3, <2>5, <2>9
<1>4. CASE NonEmpty(queued) = {}
  <2>1. /\ env_ready_queues' = queued /\ curenv' = NoEnv /\ env_status' = status
        /\ scheduler_status' = "STOPPED" /\ mode' = "prompt"
        /\ indexToEnqueue' = indexToEnqueue
    BY <1>4 DEF fos_scheduler
  <2> HIDE DEF queued
  <2>2. \A l \in Levels : queued[l] = <<>>
    BY <1>1, <1>4 DEF Levelled, NonEmpty, InUseLevels, Levels, Config
  <2>3. Running'
    BY <2>1, <2>2 DEF Running, StoppedMeansIdle
  <2>4. Levelled(env_ready_queues, curenv, indexToEnqueue)'
    BY <1>1, <1>2, <2>1 DEF Levelled
  <2> QED BY <1>1, <1>2, <2>1, <2>3, <2>4
<1> QED BY <1>3, <1>4

-----------------------------------------------------------------------------
(* The functions of sched.c, one by one.                                   *)

LEMMA InReadyIs ==
  ASSUME Inv
  PROVE  \A e : InReady(e) <=> InSome(env_ready_queues, e)
BY EmptyQueue DEF Inv, Levelled, InReady, InSome, InUseLevels, Levels, Config

LEMMA InvokeStep ==
  ASSUME Inv, UNCHANGED config,
         NEW new, NEW ready, NEW status,
         Placed(new, ready, env_exit_queue, curenv, status, assertFailed),
         Levelled(ready, curenv, indexToEnqueue),
         InvokeIfStopped(ready, status),
         UNCHANGED <<env_exit_queue, assertFailed>>, env_new_queue' = new
  PROVE  Inv'
<1>1. CASE scheduler_status = "STOPPED"
  <2>1. fos_scheduler(ready, curenv, status)
    BY <1>1 DEF InvokeIfStopped
  <2> QED BY <2>1, SchedulerStep DEF Inv, PlaceInv
<1>2. CASE scheduler_status # "STOPPED"
  <2>1. env_ready_queues' = ready /\ env_status' = status /\ UNCHANGED cpu
    BY <1>2 DEF InvokeIfStopped
  <2>2. Running'
    BY <1>2, <2>1 DEF Inv, Running, StoppedMeansIdle, cpu
  <2>3. Levelled(env_ready_queues, curenv, indexToEnqueue)'
    BY <2>1 DEF Levelled, cpu, config
  <2>4. PlaceInv'
    BY <2>1 DEF PlaceInv, cpu
  <2> QED BY <2>2, <2>3, <2>4 DEF Inv, Config, config
<1> QED BY <1>1, <1>2

(* Steps that leave the CPU alone and fill no empty ready queue.           *)
LEMMA SameCpu ==
  ASSUME Inv, UNCHANGED <<cpu, config, assertFailed>>,
         \A l \in Levels : env_ready_queues[l] = <<>> => env_ready_queues'[l] = <<>>
  PROVE  Config' /\ Running' /\ Levelled(env_ready_queues, curenv, indexToEnqueue)'
<1>1. Config' /\ num_of_ready_queues' = num_of_ready_queues /\ scheduler_method' = scheduler_method
  BY DEF Inv, Config, config
<1>2. Running'
  BY DEF Inv, Running, StoppedMeansIdle, cpu
<1> QED BY <1>1, <1>2 DEF Inv, Levelled, cpu

Without(e) ==
  [i \in Levels |-> IF i \in InUseLevels THEN RemoveFirst(env_ready_queues[i], e)
                                         ELSE env_ready_queues[i]]

LEMMA WithoutIs ==
  ASSUME Inv, NEW e
  PROVE  /\ Without(e) \in [Levels -> Queue]
         /\ \A k \in Levels : \A x : Contains(Without(e)[k], x)
                                   <=> Contains(env_ready_queues[k], x) /\ x # e
         /\ \A k \in Levels : env_ready_queues[k] = <<>> => Without(e)[k] = <<>>
<1>1. env_ready_queues \in [Levels -> Queue]
  BY DEF Inv, PlaceInv, Placed, Queues
<1>2. Without(e) \in [Levels -> Queue]
  BY <1>1, RemoveFirstIs DEF Without
<1>3. ASSUME NEW k \in Levels, NEW x
      PROVE  Contains(Without(e)[k], x) <=> Contains(env_ready_queues[k], x) /\ x # e
  <2>1. CASE k \in InUseLevels
    BY <1>1, <2>1, RemoveFirstIs DEF Without
  <2>2. CASE k \notin InUseLevels
    <3>1. env_ready_queues[k] = <<>>
      BY <2>2 DEF Inv, Levelled, InUseLevels, Levels, Config
    <3> QED BY <2>2, <3>1, EmptyQueue DEF Without
  <2> QED BY <2>1, <2>2
<1>4. ASSUME NEW k \in Levels, env_ready_queues[k] = <<>> PROVE Without(e)[k] = <<>>
  BY <1>2, <1>3, <1>4, EmptyQueue
<1> QED BY <1>2, <1>3, <1>4

(* The queue without an element that is not in it.                         *)
LEMMA NotInIt ==
  ASSUME Inv, NEW e \in Env
  PROVE  /\ env_new_queue \in Queue /\ env_exit_queue \in Queue
         /\ env_ready_queues \in [Levels -> Queue]
         /\ env_status[e] # "NEW" => \A x : Contains(env_new_queue, x)
                                          <=> Contains(env_new_queue, x) /\ x # e
         /\ ~InSome(env_ready_queues, e)
              => \A k \in Levels : \A x : Contains(env_ready_queues[k], x)
                                    <=> Contains(env_ready_queues[k], x) /\ x # e
         /\ env_status[e] # "EXIT" => \A x : Contains(env_exit_queue, x)
              <=> IF x = e THEN FALSE ELSE Contains(env_exit_queue, x)
BY DEF Inv, PlaceInv, Placed, Queues, Place, InSome

LEMMA NewStep ==
  ASSUME Inv, NEW e \in Env, sched_new_env(e)
  PROVE  Inv'
<1>1. /\ env_status[e] = "FREE"
      /\ env_status' = [env_status EXCEPT ![e] = "NEW"]
      /\ env_new_queue' = enqueue(env_new_queue, e)
      /\ UNCHANGED <<env_ready_queues, env_exit_queue, cpu, config, assertFailed>>
  BY DEF sched_new_env
<1>2. Placed(env_new_queue, env_ready_queues, env_exit_queue, curenv, env_status, assertFailed)
  BY DEF Inv, PlaceInv
<1>3. ~Contains(env_new_queue, e)
  BY <1>1, <1>2 DEF Placed, Place
<1>4. /\ env_new_queue' \in Queue
      /\ \A x : Contains(env_new_queue', x) <=> x = e \/ Contains(env_new_queue, x)
  BY <1>1, <1>2, <1>3, EnqueueIs DEF Placed, Queues
<1>5. /\ env_status' \in [Env -> Statuses] /\ env_status'[e] = "NEW"
      /\ \A x \in Env : x # e => env_status'[x] = env_status[x]
  BY <1>1, <1>2 DEF Placed, Statuses
<1>6. ASSUME NEW x \in Env
      PROVE  Place(env_new_queue', env_ready_queues, env_exit_queue, curenv, env_status', assertFailed, x)
  BY <1>1, <1>2, <1>4, <1>5 DEF Placed, Place
<1>7. PlaceInv'
  BY <1>1, <1>2, <1>4, <1>5, <1>6 DEF PlaceInv, Placed, Queues, cpu
<1> QED BY <1>1, <1>7, SameCpu DEF Inv

(* The queues and statuses with which sched_run_env calls the scheduler.   *)
LEMMA RunPrepares ==
  ASSUME Inv, NEW e \in Env, Contains(env_new_queue, e)
  PROVE  /\ Placed(RemoveFirst(env_new_queue, e), AddTo(env_ready_queues, 0, e), env_exit_queue,
                   curenv, SetTo(env_status, e, "READY"), assertFailed)
         /\ Levelled(AddTo(env_ready_queues, 0, e), curenv, indexToEnqueue)
<1> DEFINE ready == AddTo(env_ready_queues, 0, e)
           status == SetTo(env_status, e, "READY")
<1>1. env_status[e] = "NEW" /\ ~InSome(env_ready_queues, e) /\ e # curenv
  BY DEF Inv, PlaceInv, Placed, Place
<1>2. 0 \in Levels
  BY DEF Levels
<1>3. /\ RemoveFirst(env_new_queue, e) \in Queue
      /\ \A x : Contains(RemoveFirst(env_new_queue, e), x) <=> Contains(env_new_queue, x) /\ x # e
  BY RemoveFirstIs, NotInIt
<1>4. Placed(RemoveFirst(env_new_queue, e), ready, env_exit_queue, curenv, status, assertFailed)
  <2>1. /\ Placed(env_new_queue, env_ready_queues, env_exit_queue, curenv, env_status, assertFailed)
        /\ Leave(curenv, e) = curenv /\ env_status[e] # "EXIT"
    BY <1>1 DEF Inv, PlaceInv, Leave
  <2> QED BY <1>1, <1>2, <1>3, <2>1, MadeReady
<1>5. Levelled(ready, curenv, indexToEnqueue)
  BY NotInIt DEF Inv, Levelled, Levels, Config, AddTo
<1> QED BY <1>4, <1>5

LEMMA RunStep ==
  ASSUME Inv, NEW e \in Env, sched_run_env(e)
  PROVE  Inv'
<1>1. /\ Contains(env_new_queue, e)
      /\ env_new_queue' = RemoveFirst(env_new_queue, e)
      /\ InvokeIfStopped(AddTo(env_ready_queues, 0, e), SetTo(env_status, e, "READY"))
      /\ UNCHANGED <<env_exit_queue, config, assertFailed>>
  BY DEF sched_run_env, AddTo, SetTo
<1> QED BY <1>1, RunPrepares, InvokeStep

LEMMA InsertStep ==
  ASSUME Inv, NEW e \in Env, sched_insert_ready(e)
  PROVE  Inv'
<1>1. /\ mode = "user" /\ env_status[e] = "UNKNOWN" /\ e # curenv
      /\ env_status' = SetTo(env_status, e, "READY")
      /\ env_ready_queues' = AddTo(env_ready_queues, 0, e)
      /\ UNCHANGED <<env_new_queue, env_exit_queue, cpu, config, assertFailed>>
  BY DEF sched_insert_ready, AddTo, SetTo
<1>2. ~InSome(env_ready_queues, e) /\ curenv \in Env \union {NoEnv}
  BY <1>1 DEF Inv, PlaceInv, Placed, Place
<1>3. 0 \in Levels
  BY DEF Levels
<1>4. Placed(env_new_queue, env_ready_queues', env_exit_queue, curenv, env_status', assertFailed)
  <2>1. /\ Placed(env_new_queue, env_ready_queues, env_exit_queue, curenv, env_status, assertFailed)
        /\ env_status[e] # "EXIT" /\ env_new_queue \in Queue /\ Leave(curenv, e) = curenv
    BY <1>1, NotInIt DEF Inv, PlaceInv, Leave
  <2>2. \A x : Contains(env_new_queue, x) <=> Contains(env_new_queue, x) /\ x # e
    BY <1>1, NotInIt
  <2> QED BY <1>1, <1>2, <1>3, <2>1, <2>2, MadeReady
<1>5. PlaceInv'
  BY <1>1, <1>4 DEF PlaceInv, cpu
<1>6. Levelled(env_ready_queues, curenv, indexToEnqueue)'
  BY <1>1, NotInIt DEF Inv, Levelled, Levels, Config, cpu, config, AddTo
<1>7. Running'
  BY <1>1 DEF Inv, Running, StoppedMeansIdle, cpu
<1> QED BY <1>1, <1>5, <1>6, <1>7 DEF Inv, Config, config

(* An environment leaves the queues while the CPU goes on.                 *)
LEMMA OutStep ==
  ASSUME Inv, NEW e \in Env, e # curenv,
         UNCHANGED <<cpu, config, assertFailed>>,
         env_new_queue' \in Queue,
         \A x : Contains(env_new_queue', x) <=> Contains(env_new_queue, x) /\ x # e,
         env_ready_queues' \in {env_ready_queues, Without(e)},
         ~InSome(env_ready_queues, e) \/ env_ready_queues' = Without(e),
         env_exit_queue' \in Queue, NEW s \in {"EXIT", "FREE", "UNKNOWN"},
         \A x : Contains(env_exit_queue', x) <=> IF x = e THEN s = "EXIT" ELSE Contains(env_exit_queue, x),
         env_status' = SetTo(env_status, e, s)
  PROVE  Inv'
<1>1. /\ Placed(env_new_queue, env_ready_queues, env_exit_queue, curenv, env_status, assertFailed)
      /\ Leave(curenv, e) = curenv
  BY DEF Inv, PlaceInv, Leave
<1>2. /\ env_ready_queues' \in [Levels -> Queue]
      /\ \A k \in Levels : \A x : Contains(env_ready_queues'[k], x)
                                <=> Contains(env_ready_queues[k], x) /\ x # e
      /\ \A k \in Levels : env_ready_queues[k] = <<>> => env_ready_queues'[k] = <<>>
  <2>1. CASE env_ready_queues' = Without(e)
    BY <2>1, WithoutIs
  <2>2. CASE env_ready_queues' # Without(e)
    <3>1. env_ready_queues' = env_ready_queues /\ ~InSome(env_ready_queues, e)
      BY <2>2
    <3> QED BY <3>1, NotInIt
  <2> QED BY <2>1, <2>2
<1>3. Placed(env_new_queue', env_ready_queues', env_exit_queue', curenv, env_status', assertFailed)
  BY <1>1, <1>2, TakenOut
<1>4. PlaceInv'
  BY <1>3 DEF PlaceInv, cpu
<1> QED BY <1>2, <1>4, SameCpu DEF Inv

LEMMA ExitNewStep ==
  ASSUME Inv, NEW e \in Env, ExitNewEnv(e)
  PROVE  Inv'
<1>1. /\ Contains(env_new_queue, e)
      /\ env_new_queue' = RemoveFirst(env_new_queue, e)
      /\ env_status' = SetTo(env_status, e, "UNKNOWN")
      /\ UNCHANGED <<env_ready_queues, env_exit_queue, cpu, config, assertFailed>>
  BY DEF ExitNewEnv, SetTo
<1>2. env_status[e] = "NEW" /\ e # curenv /\ ~InSome(env_ready_queues, e)
  BY <1>1 DEF Inv, PlaceInv, Placed, Place
<1> QED BY <1>1, <1>2, NotInIt, RemoveFirstIs, OutStep

LEMMA ExitReadyStep ==
  ASSUME Inv, NEW e \in Env, ExitReadyEnv(e)
  PROVE  Inv'
<1>1. /\ InReady(e)
      /\ env_ready_queues' = Without(e)
      /\ env_status' = SetTo(env_status, e, "EXIT")
      /\ env_exit_queue' = enqueue(env_exit_queue, e)
      /\ UNCHANGED <<env_new_queue, cpu, config, assertFailed>>
  BY DEF ExitReadyEnv, SetTo, Without
<1>2. env_status[e] \in {"READY", "RUNNABLE"} /\ e # curenv
  BY <1>1, InReadyIs DEF Inv, PlaceInv, Placed, Place
<1>3. ~Contains(env_exit_queue, e)
  BY <1>2 DEF Inv, PlaceInv, Placed, Place
<1>4. /\ env_exit_queue' \in Queue
      /\ \A x : Contains(env_exit_queue', x) <=> IF x = e THEN TRUE ELSE Contains(env_exit_queue, x)
  BY <1>1, <1>3, NotInIt, EnqueueIs
<1> QED BY <1>1, <1>2, <1>4, NotInIt, OutStep

LEMMA KillQueuedStep ==
  ASSUME Inv, NEW e \in Env, KillQueuedEnv(e)
  PROVE  Inv'
<1>1. /\ Contains(env_new_queue, e) \/ InReady(e) \/ Contains(env_exit_queue, e)
      /\ env_new_queue' = RemoveFirst(env_new_queue, e)
      /\ env_ready_queues' = Without(e)
      /\ env_exit_queue' = RemoveFirst(env_exit_queue, e)
      /\ env_status' = SetTo(env_status, e, "FREE")
      /\ UNCHANGED <<cpu, config, assertFailed>>
  BY DEF KillQueuedEnv, SetTo, Without
<1>2. e # curenv
  BY <1>1, InReadyIs DEF Inv, PlaceInv, Placed, Place
<1> QED BY <1>1, <1>2, NotInIt, RemoveFirstIs, OutStep

LEMMA RemoveReadyStep ==
  ASSUME Inv, NEW e \in Env, sched_remove_ready(e)
  PROVE  Inv'
<1>1. /\ InReady(e)
      /\ env_ready_queues' = Without(e)
      /\ env_status' = SetTo(env_status, e, "UNKNOWN")
      /\ UNCHANGED <<env_new_queue, env_exit_queue, cpu, config, assertFailed>>
  BY DEF sched_remove_ready, SetTo, Without
<1>2. env_status[e] \in {"READY", "RUNNABLE"} /\ e # curenv
  BY <1>1, InReadyIs DEF Inv, PlaceInv, Placed, Place
<1> QED BY <1>1, <1>2, NotInIt, OutStep

(* Those with which sched_exit_env calls it for the current environment.   *)
LEMMA ExitPrepares ==
  ASSUME Inv, NEW e \in Env, e = curenv
  PROVE  /\ Placed(env_new_queue, env_ready_queues, enqueue(env_exit_queue, e), NoEnv,
                   SetTo(env_status, e, "EXIT"), assertFailed)
         /\ Levelled(env_ready_queues, NoEnv, indexToEnqueue)
<1> DEFINE exit == enqueue(env_exit_queue, e)
<1>1. /\ Placed(env_new_queue, env_ready_queues, env_exit_queue, curenv, env_status, assertFailed)
      /\ env_status[e] = "RUNNABLE" /\ ~InSome(env_ready_queues, e)
      /\ ~Contains(env_exit_queue, e)
  BY DEF Inv, PlaceInv, Placed, Place
<1>2. /\ exit \in Queue
      /\ \A x : Contains(exit, x) <=> IF x = e THEN TRUE ELSE Contains(env_exit_queue, x)
  BY <1>1, NotInIt, EnqueueIs
<1> HIDE DEF exit
<1>3. Leave(curenv, e) = NoEnv
  BY DEF Leave
<1>4. /\ env_new_queue \in Queue /\ env_ready_queues \in [Levels -> Queue]
      /\ \A x : Contains(env_new_queue, x) <=> Contains(env_new_queue, x) /\ x # e
      /\ \A k \in Levels : \A x : Contains(env_ready_queues[k], x)
                                <=> Contains(env_ready_queues[k], x) /\ x # e
  BY <1>1, NotInIt
<1>5. Placed(env_new_queue, env_ready_queues, exit, NoEnv, SetTo(env_status, e, "EXIT"), assertFailed)
  BY <1>1, <1>2, <1>3, <1>4, TakenOut
<1>6. Levelled(env_ready_queues, NoEnv, indexToEnqueue)
  BY DEF Inv, Levelled
<1> QED BY <1>5, <1>6 DEF exit

LEMMA ExitCurenvStep ==
  ASSUME Inv, NEW e \in Env, ExitCurenv(e)
  PROVE  Inv'
<1>1. /\ e = curenv
      /\ env_exit_queue' = enqueue(env_exit_queue, e)
      /\ fos_scheduler(env_ready_queues, NoEnv, SetTo(env_status, e, "EXIT"))
      /\ UNCHANGED <<env_new_queue, config, assertFailed>>
  BY DEF ExitCurenv, SetTo
<1>2. Config
  BY DEF Inv
<1> QED BY <1>1, <1>2, ExitPrepares, SchedulerStep DEF Inv, PlaceInv

LEMMA ClockStep ==
  ASSUME Inv, clock_interrupt_handler
  PROVE  Inv'
<1>1. /\ fos_scheduler(env_ready_queues, curenv, env_status)
      /\ UNCHANGED <<env_new_queue, env_exit_queue, config, assertFailed>>
  BY DEF clock_interrupt_handler
<1> QED BY <1>1, SchedulerStep DEF Inv, PlaceInv

LEMMA KillCurenvStep ==
  ASSUME Inv, NEW e \in Env, KillCurenv(e)
  PROVE  Inv'
<1>1. /\ e = curenv /\ mode' = "prompt" /\ assertFailed' = TRUE
      /\ UNCHANGED <<queues, curenv, scheduler_status, indexToEnqueue, quantumLevel,
                     config, env_status>>
  BY DEF KillCurenv
<1>2. PlaceInv'
  BY <1>1 DEF Inv, PlaceInv, Placed, Place, queues
<1>3. Running'
  BY <1>1 DEF Inv, Running, StoppedMeansIdle, queues
<1> QED BY <1>1, <1>2, <1>3 DEF Inv, Levelled, Config, config, queues

(* The NEW queue goes to the first ready queue as a whole.                 *)
RunAllReady == [env_ready_queues EXCEPT ![0] = enqueueAll(@, env_new_queue)]
RunAllStatus ==
  [e \in Env |-> IF Contains(env_new_queue, e) THEN "READY" ELSE env_status[e]]

LEMMA RunAllPrepares ==
  ASSUME Inv
  PROVE  /\ Placed(<<>>, RunAllReady, env_exit_queue, curenv, RunAllStatus, assertFailed)
         /\ Levelled(RunAllReady, curenv, indexToEnqueue)
<1> DEFINE ready == RunAllReady
           status == RunAllStatus
<1> USE DEF RunAllReady, RunAllStatus
<1>2. /\ Placed(env_new_queue, env_ready_queues, env_exit_queue, curenv, env_status, assertFailed)
      /\ 0 \in Levels
  BY DEF Inv, PlaceInv, Levels
<1>3. /\ Reverse(env_new_queue) \in Queue
      /\ \A x : Contains(Reverse(env_new_queue), x) <=> Contains(env_new_queue, x)
  BY NotInIt, ReverseIs, <1>2 DEF Placed, Queues
<1>4. \A e : Contains(env_new_queue, e) => ~InSome(env_ready_queues, e)
  BY <1>2, EmptyQueue DEF Placed, Queues, Place
<1>5. /\ ready[0] \in Queue
      /\ \A x : Contains(ready[0], x) <=> Contains(env_new_queue, x) \/ Contains(env_ready_queues[0], x)
  <2>1. env_ready_queues[0] \in Queue /\ ready[0] = Reverse(env_new_queue) \o env_ready_queues[0]
    BY <1>2 DEF Placed, Queues, enqueueAll
  <2>2. \A e : ~(Contains(Reverse(env_new_queue), e) /\ Contains(env_ready_queues[0], e))
    BY <1>2, <1>3, <1>4 DEF InSome
  <2> HIDE DEF ready
  <2> QED BY <1>3, <2>1, <2>2, ConcatIs
<1>6. /\ ready \in [Levels -> Queue]
      /\ \A k \in Levels : k # 0 => ready[k] = env_ready_queues[k]
  BY <1>2, <1>5 DEF Placed, Queues
<1> HIDE DEF ready
<1>7. Queues(<<>>, ready, env_exit_queue)
  BY <1>2, <1>4, <1>5, <1>6, EmptyQueue DEF Placed, Queues, InSome
<1>8. \A x : InSome(ready, x) <=> InSome(env_ready_queues, x) \/ Contains(env_new_queue, x)
  BY <1>2, <1>5, <1>6 DEF InSome
<1>9. status \in [Env -> Statuses]
  BY <1>2 DEF Placed, Statuses
<1>10. ASSUME NEW e \in Env
       PROVE  Place(<<>>, ready, env_exit_queue, curenv, status, assertFailed, e)
  <2>1. Place(env_new_queue, env_ready_queues, env_exit_queue, curenv, env_status, assertFailed, e)
    BY <1>2 DEF Placed
  <2>2. ~Contains(<<>>, e)
    BY EmptyQueue
  <2>3. status[e] = IF Contains(env_new_queue, e) THEN "READY" ELSE env_status[e]
    OBVIOUS
  <2> HIDE DEF status
  <2> QED BY <1>8, <2>1, <2>2, <2>3 DEF Place
<1> HIDE DEF status
<1>11. Placed(<<>>, ready, env_exit_queue, curenv, status, assertFailed)
  BY <1>2, <1>7, <1>9, <1>10 DEF Placed
<1>12. Levelled(ready, curenv, indexToEnqueue)
  BY <1>6 DEF Inv, Levelled, Levels, Config
<1> HIDE DEF RunAllReady, RunAllStatus
<1> QED BY <1>11, <1>12 DEF ready, status

LEMMA RunAllStep ==
  ASSUME Inv, sched_run_all
  PROVE  Inv'
<1>1. /\ env_new_queue' = <<>>
      /\ InvokeIfStopped(RunAllReady, RunAllStatus)
      /\ UNCHANGED <<env_exit_queue, config, assertFailed>>
  BY DEF sched_run_all, RunAllReady, RunAllStatus
<1> QED BY <1>1, RunAllPrepares, InvokeStep

(* The ready queues go to the EXIT queue as a whole.                       *)
LEMMA ExitAllStep ==
  ASSUME Inv, sched_exit_all_ready_envs
  PROVE  Inv'
<1> DEFINE ss == [i \in 1 .. num_of_ready_queues |-> env_ready_queues[i-1]]
           exited == FlattenSeq(ss)
<1>1. /\ env_exit_queue' = enqueueAll(env_exit_queue, exited)
      /\ env_ready_queues' = [i \in Levels |-> IF i \in InUseLevels THEN <<>> ELSE env_ready_queues[i]]
      /\ env_status' = [e \in Env |-> IF InReady(e) THEN "EXIT" ELSE env_status[e]]
      /\ UNCHANGED <<env_new_queue, cpu, config, assertFailed>>
  BY DEF sched_exit_all_ready_envs
<1>2. /\ Placed(env_new_queue, env_ready_queues, env_exit_queue, curenv, env_status, assertFailed)
      /\ num_of_ready_queues \in 1 .. MaxLevels
  BY DEF Inv, PlaceInv, Config
<1>3. /\ exited \in Queue
      /\ \A x : Contains(exited, x) <=> InReady(x)
  <2>1. /\ ss \in Seq(Queue) /\ Len(ss) = num_of_ready_queues
        /\ \A i \in 1 .. num_of_ready_queues : ss[i] = env_ready_queues[i-1] /\ i-1 \in Levels
    BY <1>2 DEF Placed, Queues, Levels
  <2>2. \A i, j \in 1 .. Len(ss) : \A e : Contains(ss[i], e) /\ Contains(ss[j], e) => i = j
    <3> SUFFICES ASSUME NEW i \in 1 .. Len(ss), NEW j \in 1 .. Len(ss), NEW e,
                        Contains(ss[i], e), Contains(ss[j], e)
                 PROVE  i = j
      OBVIOUS
    <3>1. i - 1 = j - 1
      BY <1>2, <2>1 DEF Placed, Queues
    <3> QED BY <1>2, <2>1, <3>1
  <2> HIDE DEF ss
  <2>3. /\ exited \in Queue
        /\ \A x : Contains(exited, x) <=> \E i \in 1 .. Len(ss) : Contains(ss[i], x)
    <3>1. Len(ss) # 0
      BY <1>2, <2>1
    <3> QED BY <2>1, <2>2, <3>1, FlattenIs
  <2>4. ASSUME NEW x
        PROVE  (\E i \in 1 .. Len(ss) : Contains(ss[i], x)) <=> InReady(x)
    <3>1. ASSUME NEW i \in 1 .. Len(ss), Contains(ss[i], x) PROVE InReady(x)
      <4>1. i - 1 \in InUseLevels /\ Contains(env_ready_queues[i-1], x)
        BY <1>2, <2>1, <3>1 DEF InUseLevels
      <4> QED BY <4>1 DEF InReady
    <3>2. ASSUME NEW l \in InUseLevels, Contains(env_ready_queues[l], x)
          PROVE  \E i \in 1 .. Len(ss) : Contains(ss[i], x)
      <4>1. l + 1 \in 1 .. Len(ss) /\ (l + 1) - 1 = l
        BY <1>2, <2>1 DEF InUseLevels
      <4> QED BY <2>1, <3>2, <4>1
    <3> QED BY <3>1, <3>2 DEF InReady
  <2> QED BY <2>3, <2>4
<1> HIDE DEF exited, ss
<1>4. /\ env_exit_queue' \in Queue
      /\ \A x : Contains(env_exit_queue', x) <=> InReady(x) \/ Contains(env_exit_queue, x)
  <2>1. /\ Reverse(exited) \in Queue /\ env_exit_queue \in Queue
        /\ \A x : Contains(Reverse(exited), x) <=> InReady(x)
    BY <1>2, <1>3, ReverseIs DEF Placed, Queues
  <2>2. \A e : ~(Contains(Reverse(exited), e) /\ Contains(env_exit_queue, e))
    BY <1>2, <2>1, EmptyQueue, InReadyIs DEF Placed, Place
  <2> QED BY <1>1, <2>1, <2>2, ConcatIs DEF enqueueAll
<1>5. \A k \in Levels : env_ready_queues'[k] = <<>>
  BY <1>1 DEF Inv, Levelled, InUseLevels, Levels, Config
<1>6. env_ready_queues' \in [Levels -> Queue] /\ \A x : ~InSome(env_ready_queues', x)
  BY <1>1, <1>2, <1>5, EmptyQueue DEF Placed, Queues, InSome
<1>7. Queues(env_new_queue', env_ready_queues', env_exit_queue')
  BY <1>1, <1>2, <1>4, <1>5, <1>6, EmptyQueue DEF Placed, Queues
<1>8. env_status' \in [Env -> Statuses]
  BY <1>1, <1>2 DEF Placed, Statuses
<1>9. ASSUME NEW e \in Env
      PROVE  Place(env_new_queue, env_ready_queues', env_exit_queue', curenv, env_status', assertFailed, e)
  <2>1. Place(env_new_queue, env_ready_queues, env_exit_queue, curenv, env_status, assertFailed, e)
    BY <1>2 DEF Placed
  <2>2. env_status'[e] = IF InReady(e) THEN "EXIT" ELSE env_status[e]
    BY <1>1
  <2>3. InReady(e) <=> InSome(env_ready_queues, e)
    BY InReadyIs
  <2> QED BY <1>4, <1>6, <2>1, <2>2, <2>3 DEF Place
<1>10. PlaceInv'
  BY <1>1, <1>2, <1>7, <1>8, <1>9 DEF PlaceInv, Placed, cpu
<1> QED BY <1>1, <1>5, <1>10, SameCpu DEF Inv

(* Every queue is emptied, its environments are freed.                     *)
KillAllReady == [i \in Levels |-> IF i \in InUseLevels THEN <<>> ELSE env_ready_queues[i]]
KillAllStatus ==
  [e \in Env |->
     IF Contains(env_new_queue, e) \/ InReady(e) \/ Contains(env_exit_queue, e)
       THEN "FREE" ELSE env_status[e]]

LEMMA KillAllPrepares ==
  ASSUME Inv, mode = "prompt"
  PROVE  /\ Placed(<<>>, KillAllReady, <<>>, NoEnv, KillAllStatus, assertFailed)
         /\ Levelled(KillAllReady, NoEnv, indexToEnqueue)
<1> DEFINE ready == KillAllReady
           status == KillAllStatus
<1> USE DEF KillAllReady, KillAllStatus
<1>2. Placed(env_new_queue, env_ready_queues, env_exit_queue, curenv, env_status, assertFailed)
  BY DEF Inv, PlaceInv
<1>3. /\ ready \in [Levels -> Queue] /\ \A k \in Levels : ready[k] = <<>>
      /\ \A x : ~InSome(ready, x)
  <2>1. \A k \in Levels : ready[k] = <<>>
    BY DEF Inv, Levelled, InUseLevels, Levels, Config
  <2> QED BY <2>1, EmptyQueue DEF InSome
<1> HIDE DEF ready
<1>4. Queues(<<>>, ready, <<>>)
  BY <1>3, EmptyQueue DEF Queues
<1>5. status \in [Env -> Statuses]
  BY <1>2 DEF Placed, Statuses
<1>6. ASSUME NEW e \in Env
      PROVE  Place(<<>>, ready, <<>>, NoEnv, status, assertFailed, e)
  <2>1. Place(env_new_queue, env_ready_queues, env_exit_queue, curenv, env_status, assertFailed, e)
    BY <1>2 DEF Placed
  <2>2. status[e] = IF Contains(env_new_queue, e) \/ InReady(e) \/ Contains(env_exit_queue, e)
                      THEN "FREE" ELSE env_status[e]
    OBVIOUS
  <2>3. /\ InReady(e) <=> InSome(env_ready_queues, e)
        /\ ~InSome(ready, e) /\ ~Contains(<<>>, e)
        /\ curenv = NoEnv \/ assertFailed
    BY <1>3, InReadyIs, EmptyQueue DEF Inv, Running
  <2> HIDE DEF status
  <2> QED BY <2>1, <2>2, <2>3 DEF Place
<1> HIDE DEF status
<1>7. Placed(<<>>, ready, <<>>, NoEnv, status, assertFailed)
  BY <1>4, <1>5, <1>6 DEF Placed
<1>8. Levelled(ready, NoEnv, indexToEnqueue)
  BY <1>3 DEF Inv, Levelled
<1> HIDE DEF KillAllReady, KillAllStatus
<1> QED BY <1>7, <1>8 DEF ready, status

LEMMA KillAllStep ==
  ASSUME Inv, sched_kill_all
  PROVE  Inv'
<1>1. /\ mode = "prompt"
      /\ env_new_queue' = <<>> /\ env_exit_queue' = <<>>
      /\ fos_scheduler(KillAllReady, NoEnv, KillAllStatus)
      /\ UNCHANGED <<config, assertFailed>>
  BY DEF sched_kill_all, KillAllReady, KillAllStatus
<1> QED BY <1>1, KillAllPrepares, SchedulerStep DEF Inv, PlaceInv

LEMMA ReconfigureStep ==
  ASSUME Inv, NEW method \in {"RR", "MLFQ"}, NEW n \in 1 .. MaxLevels,
         method = "MLFQ" => n >= 2, Reconfigure(method, n)
  PROVE  Inv'
<1>1. /\ mode = "prompt" /\ scheduler_status = "STOPPED"
      /\ num_of_ready_queues' = n /\ scheduler_method' = method
      /\ env_ready_queues' = [i \in Levels |-> <<>>]
      /\ UNCHANGED <<env_new_queue, env_exit_queue, curenv, scheduler_status,
                     indexToEnqueue, mode, env_status, assertFailed>>
  BY DEF Reconfigure
<1>2. /\ curenv = NoEnv /\ env_ready_queues \in [Levels -> Queue]
      /\ \A l \in Levels : env_ready_queues[l] = <<>>
  BY <1>1, NotInIt DEF Inv, Running, StoppedMeansIdle, PlaceInv, Placed, Queues
<1>3. env_ready_queues' = env_ready_queues
  BY <1>1, <1>2
<1>4. PlaceInv'
  BY <1>1, <1>3 DEF Inv, PlaceInv
<1>5. Config'
  BY <1>1 DEF Config
<1>6. Running'
  BY <1>1, <1>3 DEF Inv, Running, StoppedMeansIdle
<1>7. Levelled(env_ready_queues, curenv, indexToEnqueue)'
  BY <1>1, <1>2, <1>3 DEF Inv, Levelled
<1> QED BY <1>4, <1>5, <1>6, <1>7 DEF Inv

LEMMA InitInv == Init => Inv
<1> SUFFICES ASSUME Init PROVE Inv
  OBVIOUS
<1>1. Queues(env_new_queue, env_ready_queues, env_exit_queue)
  BY EmptyQueue DEF Init, Queues
<1>2. \A e : ~InSome(env_ready_queues, e)
  BY EmptyQueue DEF Init, InSome
<1>3. PlaceInv
  BY <1>1, <1>2, EmptyQueue DEF Init, PlaceInv, Placed, Place, Statuses
<1> QED BY <1>3 DEF Init, Inv, Config, Levelled, Running, StoppedMeansIdle, Levels

(* With one level only the scheduler would put curenv back in a level that *)
(* is not there, if it had more before: two are needed (sched.c:137-141).  *)
TwoLevels == LevelCounts \subseteq 2 .. MaxLevels

LEMMA NextStep ==
  ASSUME TwoLevels, Inv, [Next]_vars
  PROVE  Inv'
<1>1. CASE UNCHANGED vars
  <2>1. PlaceInv'
    BY <1>1 DEF Inv, PlaceInv, vars, queues, cpu
  <2> QED BY <1>1, <2>1
          DEF Inv, vars, queues, cpu, config, Config, Levelled, Running, StoppedMeansIdle
<1>2. CASE sched_init_RR
  <2>1. 1 \in 1 .. MaxLevels
    OBVIOUS
  <2> QED BY <1>2, <2>1, ReconfigureStep DEF sched_init_RR
<1>3. ASSUME NEW n \in LevelCounts, sched_init_MLFQ(n) PROVE Inv'
  <2>1. n \in 1 .. MaxLevels /\ n >= 2
    BY DEF TwoLevels
  <2> QED BY <1>3, <2>1, ReconfigureStep DEF sched_init_MLFQ
<1>4. ASSUME NEW e \in Env,
             \/ sched_new_env(e) \/ sched_run_env(e) \/ sched_exit_env(e)
             \/ sched_kill_env(e) \/ sched_remove_ready(e) \/ sched_insert_ready(e)
      PROVE  Inv'
  BY <1>4, NewStep, RunStep, ExitNewStep, ExitReadyStep, ExitCurenvStep, KillQueuedStep,
     KillCurenvStep, RemoveReadyStep, InsertStep
     DEF sched_exit_env, sched_kill_env
<1> QED BY <1>1, <1>2, <1>3, <1>4, ClockStep, RunAllStep, ExitAllStep, KillAllStep DEF Next

-----------------------------------------------------------------------------
(* The inductive invariant: the queues and statuses agree, the levels not  *)
(* in use are empty, and who runs agrees with the scheduler's status.      *)
THEOREM QueuesInvariant == TwoLevels => (Spec => []Inv)
<1> SUFFICES ASSUME TwoLevels PROVE Spec => []Inv
  OBVIOUS
<1>1. Inv /\ [Next]_vars => Inv'
  BY NextStep
<1> QED BY <1>1, InitInv, PTL DEF Spec

(* Every environment is in the one place its status says, after any        *)
(* sequence of calls, for any number of environments and of levels, two at *)
(* least (sched.c:46-62, 181-244, 280-340, 388-650).                       *)
THEOREM EveryPlaceIsRight == TwoLevels => (Spec => []StatusSaysWhere)
<1> SUFFICES ASSUME TwoLevels PROVE Spec => []StatusSaysWhere
  OBVIOUS
<1>1. Inv => StatusSaysWhere
  <2> SUFFICES ASSUME Inv PROVE StatusSaysWhere
    OBVIOUS
  <2>1. \A e : InReady(e) <=> InSome(env_ready_queues, e)
    BY InReadyIs
  <2> QED BY <2>1 DEF Inv, PlaceInv, Placed, Queues, Place, Queue, StatusSaysWhere
<1> QED BY <1>1, QueuesInvariant, PTL

(* What trap asserts before it returns to user mode holds (trap.c:302).    *)
THEOREM TrapMayReturn == TwoLevels => (Spec => []TrapAssertionHolds)
<1> SUFFICES ASSUME TwoLevels PROVE Spec => []TrapAssertionHolds
  OBVIOUS
<1>1. Inv => TrapAssertionHolds
  BY DEF Inv, PlaceInv, Placed, Place, Running, TrapAssertionHolds
<1> QED BY <1>1, QueuesInvariant, PTL

(* A stopped scheduler leaves no environment waiting in a ready queue      *)
(* (sched.c:226-242, 396-398, 482-485).                                    *)
THEOREM StoppedLeavesNone == TwoLevels => (Spec => []StoppedMeansIdle)
<1> SUFFICES ASSUME TwoLevels PROVE Spec => []StoppedMeansIdle
  OBVIOUS
<1>1. Inv => StoppedMeansIdle
  BY DEF Inv, Running
<1> QED BY <1>1, QueuesInvariant, PTL
-----------------------------------------------------------------------------
(* Action properties.  As long as the assertion has not failed, the stage  *)
(* of an environment follows from its status and from who runs.            *)
StageOf(cur, status, e) ==
  IF e = cur THEN "running"
  ELSE IF status \in {"READY", "RUNNABLE"} THEN "ready" ELSE status

LEMMA StageIs ==
  ASSUME Inv, ~assertFailed, NEW e \in Env
  PROVE  Stage(e) = StageOf(curenv, env_status[e], e)
<1>1. InReady(e) <=> InSome(env_ready_queues, e)
  BY InReadyIs
<1>2. Place(env_new_queue, env_ready_queues, env_exit_queue, curenv, env_status, assertFailed, e)
  BY DEF Inv, PlaceInv, Placed
<1>3. InReady(e) /\ e # curenv <=> env_status[e] \in {"READY", "RUNNABLE"} /\ e # curenv
  BY <1>1, <1>2 DEF Place
<1> HIDE DEF InReady
<1>4. CASE e = curenv
  BY <1>4 DEF Stage, StageOf
<1>5. CASE e # curenv /\ InReady(e)
  BY <1>3, <1>5 DEF Stage, StageOf
<1>6. CASE e # curenv /\ ~InReady(e)
  BY <1>3, <1>6 DEF Stage, StageOf
<1> QED BY <1>4, <1>5, <1>6

LEMMA StageIsNext ==
  ASSUME Inv', ~assertFailed', NEW e \in Env
  PROVE  Stage(e)' = StageOf(curenv', env_status'[e], e)
<1>1. (Inv /\ ~assertFailed => Stage(e) = StageOf(curenv, env_status[e], e))'
  BY StageIs, PTL
<1> QED BY <1>1 DEF StageOf

(* An environment that becomes the current one was ready, in the statuses  *)
(* the scheduler is entered with; no other status changes.                 *)
LEMMA SchedulerMoves ==
  ASSUME Config,
         NEW new, NEW ready, NEW exit, NEW cur, NEW status, NEW failed,
         Placed(new, ready, exit, cur, status, failed),
         Levelled(ready, cur, indexToEnqueue),
         fos_scheduler(ready, cur, status)
  PROVE  \A e \in Env : /\ e = curenv' => status[e] \in {"READY", "RUNNABLE"}
                        /\ e # curenv' => env_status'[e] = status[e]
<1> DEFINE queued == Requeue(ready, cur)
<1>1. Placed(new, queued, exit, NoEnv, status, failed)
  BY Requeued
<1>2. CASE NonEmpty(queued) # {}
  <2> DEFINE level == Min(NonEmpty(queued))
             next == Last(queued[level])
  <2>1. /\ curenv' = next
        /\ env_status' = [status EXCEPT ![next] = "RUNNABLE"]
    BY <1>2 DEF fos_scheduler
  <2>2. level \in Levels /\ queued[level] # <<>>
    BY <1>2, LevelIs
  <2> HIDE DEF level
  <2>3. next \in Env /\ Contains(queued[level], next)
    BY <1>1, <2>2, FrontIs DEF Placed, Queues
  <2> HIDE DEF next, queued
  <2>4. status[next] \in {"READY", "RUNNABLE"}
    BY <1>1, <2>2, <2>3 DEF Placed, Place, InSome
  <2>5. status \in [Env -> Statuses]
    BY <1>1 DEF Placed
  <2> QED BY <2>1, <2>4, <2>5
<1>3. CASE NonEmpty(queued) = {}
  BY <1>3 DEF fos_scheduler
<1> QED BY <1>2, <1>3

(* What the statuses, as the caller of the scheduler leaves them, mean for *)
(* an environment with one of the old statuses.                            *)
LEMMA Scheduled ==
  ASSUME Inv, Inv', ~assertFailed, ~assertFailed',
         NEW new, NEW ready, NEW exit, NEW cur, NEW status, NEW failed,
         Placed(new, ready, exit, cur, status, failed),
         Levelled(ready, cur, indexToEnqueue),
         fos_scheduler(ready, cur, status),
         \A e \in Env : \/ status[e] = env_status[e] /\ (e = curenv => e = cur)
                        \/ <<Stage(e), StageOf(NoEnv, status[e], e)>> \in Moves
                           /\ (status[e] \in {"READY", "RUNNABLE"} => env_status[e] = "NEW")
  PROVE  \A e \in Env : Stage(e)' = Stage(e) \/ <<Stage(e), Stage(e)'>> \in Moves
<1> SUFFICES ASSUME NEW e \in Env
             PROVE  Stage(e)' = Stage(e) \/ <<Stage(e), Stage(e)'>> \in Moves
  OBVIOUS
<1>1. /\ Stage(e) = StageOf(curenv, env_status[e], e)
      /\ Stage(e)' = StageOf(curenv', env_status'[e], e)
  BY StageIs, StageIsNext
<1>2. /\ e = curenv' => status[e] \in {"READY", "RUNNABLE"}
      /\ e # curenv' => env_status'[e] = status[e]
  BY SchedulerMoves DEF Inv
<1>3. e = curenv => env_status[e] = "RUNNABLE"
  BY DEF Inv, PlaceInv, Placed, Place
<1>4. e # NoEnv
  OBVIOUS
<1> HIDE DEF Stage
<1> QED BY <1>1, <1>2, <1>3, <1>4 DEF StageOf, Moves

InOrder(e) == Stage(e)' = Stage(e) \/ <<Stage(e), Stage(e)'>> \in Moves

(* A step that runs no other environment moves those whose status changes. *)
LEMMA SameEnvironmentRuns ==
  ASSUME Inv, Inv', ~assertFailed, ~assertFailed', curenv' = curenv,
         \A e \in Env : \/ env_status'[e] = env_status[e]
                        \/ e = curenv
                        \/ <<Stage(e), StageOf(NoEnv, env_status'[e], e)>> \in Moves
  PROVE  \A e \in Env : InOrder(e)
<1> SUFFICES ASSUME NEW e \in Env PROVE InOrder(e)
  OBVIOUS
<1>1. /\ Stage(e) = StageOf(curenv, env_status[e], e)
      /\ Stage(e)' = StageOf(curenv', env_status'[e], e)
  BY StageIs, StageIsNext
<1>2. e # NoEnv
  OBVIOUS
<1> HIDE DEF Stage
<1> QED BY <1>1, <1>2 DEF StageOf, InOrder

(* One environment's status is set.                                        *)
LEMMA StatusSet ==
  ASSUME Inv, Inv', ~assertFailed, ~assertFailed', curenv' = curenv,
         NEW e \in Env, NEW s, env_status' = SetTo(env_status, e, s),
         <<StageOf(NoEnv, env_status[e], e), StageOf(NoEnv, s, e)>> \in Moves, e # curenv
  PROVE  \A x \in Env : InOrder(x)
<1>1. /\ env_status'[e] = s
      /\ \A x \in Env : x # e => env_status'[x] = env_status[x]
  BY DEF Inv, PlaceInv, Placed, SetTo
<1>2. Stage(e) = StageOf(NoEnv, env_status[e], e)
  <2>1. e # NoEnv
    OBVIOUS
  <2> QED BY <2>1, StageIs DEF StageOf
<1> QED BY <1>1, <1>2, SameEnvironmentRuns

(* What sched_run_env and sched_run_all make of the NEW environments.      *)
LEMMA InvokeMoves ==
  ASSUME Inv, Inv', ~assertFailed, ~assertFailed',
         NEW new, NEW ready, NEW exit, NEW status,
         Placed(new, ready, exit, curenv, status, assertFailed),
         Levelled(ready, curenv, indexToEnqueue),
         InvokeIfStopped(ready, status),
         \A e \in Env : \/ status[e] = env_status[e]
                        \/ status[e] = "READY" /\ env_status[e] = "NEW"
  PROVE  \A e \in Env : InOrder(e)
<1>1. ASSUME NEW e \in Env
      PROVE  \/ status[e] = env_status[e]
             \/ /\ <<Stage(e), StageOf(NoEnv, status[e], e)>> \in Moves
                /\ env_status[e] = "NEW"
  <2>1. e # NoEnv /\ Stage(e) = StageOf(curenv, env_status[e], e)
    BY StageIs
  <2>2. e = curenv => env_status[e] = "RUNNABLE"
    BY DEF Inv, PlaceInv, Placed, Place
  <2>3. CASE status[e] = "READY" /\ env_status[e] = "NEW"
    BY <2>1, <2>2, <2>3 DEF StageOf, Moves
  <2> QED BY <2>3
<1>2. CASE scheduler_status = "STOPPED"
  <2>1. fos_scheduler(ready, curenv, status)
    BY <1>2 DEF InvokeIfStopped
  <2> QED BY <1>1, <2>1, Scheduled DEF InOrder
<1>3. CASE scheduler_status # "STOPPED"
  <2>1. env_status' = status /\ curenv' = curenv
    BY <1>3 DEF InvokeIfStopped, cpu
  <2> QED BY <1>1, <2>1, SameEnvironmentRuns
<1> QED BY <1>2, <1>3

LEMMA LifeStep ==
  ASSUME Inv, Inv', ~assertFailed, Next
  PROVE  \A e \in Env : InOrder(e)
<1> DEFINE Goal == \A e \in Env : InOrder(e)
<1>1. ASSUME NEW e \in Env
      PROVE  /\ env_status[e] = "NEW" <=> Contains(env_new_queue, e)
             /\ env_status[e] = "EXIT" <=> Contains(env_exit_queue, e)
             /\ InReady(e) => env_status[e] \in {"READY", "RUNNABLE"} /\ e # curenv
             /\ e = curenv => env_status[e] = "RUNNABLE"
             /\ e # NoEnv /\ Stage(e) = StageOf(curenv, env_status[e], e)
  BY InReadyIs, StageIs DEF Inv, PlaceInv, Placed, Place
<1>2. Config
  BY DEF Inv
<1>3. ASSUME clock_interrupt_handler PROVE Goal
  <2>1. fos_scheduler(env_ready_queues, curenv, env_status) /\ ~assertFailed'
    BY <1>3 DEF clock_interrupt_handler
  <2>2. /\ Placed(env_new_queue, env_ready_queues, env_exit_queue, curenv, env_status, assertFailed)
        /\ Levelled(env_ready_queues, curenv, indexToEnqueue)
    BY DEF Inv, PlaceInv
  <2> QED BY <2>1, <2>2, Scheduled DEF InOrder
<1>4. ASSUME NEW e \in Env, sched_new_env(e) PROVE Goal
  <2>1. /\ env_status' = SetTo(env_status, e, "NEW") /\ env_status[e] = "FREE"
        /\ curenv' = curenv /\ ~assertFailed'
    BY <1>4 DEF sched_new_env, SetTo, cpu
  <2> QED BY <1>1, <2>1, StatusSet DEF StageOf, Moves
<1>5. ASSUME NEW e \in Env, sched_run_env(e) PROVE Goal
  <2>1. /\ InvokeIfStopped(AddTo(env_ready_queues, 0, e), SetTo(env_status, e, "READY"))
        /\ Contains(env_new_queue, e) /\ ~assertFailed'
    BY <1>5 DEF sched_run_env, AddTo, SetTo
  <2>2. \A x \in Env : \/ SetTo(env_status, e, "READY")[x] = env_status[x]
                       \/ SetTo(env_status, e, "READY")[x] = "READY" /\ env_status[x] = "NEW"
    BY <1>1, <2>1 DEF SetTo, Inv, PlaceInv, Placed
  <2> QED BY <2>1, <2>2, RunPrepares, InvokeMoves
<1>6. ASSUME NEW e \in Env, ExitNewEnv(e) PROVE Goal
  <2>1. /\ env_status' = SetTo(env_status, e, "UNKNOWN") /\ env_status[e] = "NEW"
        /\ curenv' = curenv /\ ~assertFailed'
    BY <1>1, <1>6 DEF ExitNewEnv, SetTo, cpu
  <2> QED BY <1>1, <2>1, StatusSet DEF StageOf, Moves
<1>7. ASSUME NEW e \in Env, ExitReadyEnv(e) PROVE Goal
  <2>1. /\ env_status' = SetTo(env_status, e, "EXIT") /\ InReady(e)
        /\ curenv' = curenv /\ ~assertFailed'
    BY <1>7 DEF ExitReadyEnv, SetTo, cpu
  <2> QED BY <1>1, <2>1, StatusSet DEF StageOf, Moves
<1>8. ASSUME NEW e \in Env, ExitCurenv(e) PROVE Goal
  <2>1. /\ e = curenv /\ ~assertFailed'
        /\ fos_scheduler(env_ready_queues, NoEnv, SetTo(env_status, e, "EXIT"))
    BY <1>8 DEF ExitCurenv, SetTo
  <2>2. \A x \in Env : SetTo(env_status, e, "EXIT")[x] = IF x = e THEN "EXIT" ELSE env_status[x]
    BY DEF SetTo, Inv, PlaceInv, Placed
  <2>3. \A x \in Env :
          \/ SetTo(env_status, e, "EXIT")[x] = env_status[x] /\ (x = curenv => x = NoEnv)
          \/ /\ <<Stage(x), StageOf(NoEnv, SetTo(env_status, e, "EXIT")[x], x)>> \in Moves
             /\ SetTo(env_status, e, "EXIT")[x] \in {"READY", "RUNNABLE"} => env_status[x] = "NEW"
    BY <1>1, <2>1, <2>2 DEF StageOf, Moves
  <2> QED BY <2>1, <2>3, ExitPrepares, Scheduled DEF InOrder
<1>9. ASSUME NEW e \in Env, KillQueuedEnv(e) PROVE Goal
  <2>1. /\ env_status' = SetTo(env_status, e, "FREE")
        /\ env_status[e] \in {"NEW", "READY", "RUNNABLE", "EXIT"} /\ e # curenv
        /\ curenv' = curenv /\ ~assertFailed'
    BY <1>1, <1>9 DEF KillQueuedEnv, SetTo, cpu
  <2> QED BY <1>1, <2>1, StatusSet DEF StageOf, Moves
<1>10. ASSUME NEW e \in Env, KillCurenv(e) PROVE Goal
  <2>1. UNCHANGED <<env_ready_queues, num_of_ready_queues, curenv, env_status>>
    BY <1>10 DEF KillCurenv, queues, config
  <2> QED BY <2>1 DEF InOrder, Stage, InReady, InUseLevels
<1>11. ASSUME NEW e \in Env, sched_remove_ready(e) PROVE Goal
  <2>1. /\ env_status' = SetTo(env_status, e, "UNKNOWN") /\ InReady(e)
        /\ curenv' = curenv /\ ~assertFailed'
    BY <1>11 DEF sched_remove_ready, SetTo, cpu
  <2> QED BY <1>1, <2>1, StatusSet DEF StageOf, Moves
<1>12. ASSUME NEW e \in Env, sched_insert_ready(e) PROVE Goal
  <2>1. /\ env_status' = SetTo(env_status, e, "READY") /\ env_status[e] = "UNKNOWN"
        /\ curenv' = curenv /\ ~assertFailed'
    BY <1>12 DEF sched_insert_ready, SetTo, cpu
  <2> QED BY <1>1, <2>1, StatusSet DEF StageOf, Moves
<1>13. ASSUME sched_run_all PROVE Goal
  <2>1. InvokeIfStopped(RunAllReady, RunAllStatus) /\ ~assertFailed'
    BY <1>13 DEF sched_run_all, RunAllReady, RunAllStatus
  <2>2. \A x \in Env : \/ RunAllStatus[x] = env_status[x]
                       \/ RunAllStatus[x] = "READY" /\ env_status[x] = "NEW"
    BY <1>1 DEF RunAllStatus
  <2> QED BY <2>1, <2>2, RunAllPrepares, InvokeMoves
<1>14. ASSUME sched_exit_all_ready_envs PROVE Goal
  <2>1. /\ curenv' = curenv /\ ~assertFailed'
        /\ \A x \in Env : env_status'[x] = IF InReady(x) THEN "EXIT" ELSE env_status[x]
    BY <1>14 DEF sched_exit_all_ready_envs, cpu
  <2>2. \A x \in Env : \/ env_status'[x] = env_status[x]
                       \/ x = curenv
                       \/ <<Stage(x), StageOf(NoEnv, env_status'[x], x)>> \in Moves
    BY <1>1, <2>1 DEF StageOf, Moves
  <2> QED BY <2>1, <2>2, SameEnvironmentRuns
<1>15. ASSUME sched_kill_all PROVE Goal
  <2>1. /\ mode = "prompt" /\ ~assertFailed'
        /\ fos_scheduler(KillAllReady, NoEnv, KillAllStatus)
    BY <1>15 DEF sched_kill_all, KillAllReady, KillAllStatus
  <2>2. curenv = NoEnv
    BY <2>1 DEF Inv, Running
  <2>3. \A x \in Env : KillAllStatus[x] = IF \/ Contains(env_new_queue, x) \/ InReady(x)
                                             \/ Contains(env_exit_queue, x)
                                          THEN "FREE" ELSE env_status[x]
    BY DEF KillAllStatus
  <2>4. \A x \in Env :
          \/ KillAllStatus[x] = env_status[x] /\ (x = curenv => x = NoEnv)
          \/ /\ <<Stage(x), StageOf(NoEnv, KillAllStatus[x], x)>> \in Moves
             /\ KillAllStatus[x] \in {"READY", "RUNNABLE"} => env_status[x] = "NEW"
    BY <1>1, <2>2, <2>3 DEF StageOf, Moves
  <2> QED BY <2>1, <2>4, KillAllPrepares, Scheduled DEF InOrder
<1>16. ASSUME NEW m, NEW n, Reconfigure(m, n) PROVE Goal
  <2>1. env_status' = env_status /\ curenv' = curenv /\ ~assertFailed'
    BY <1>16 DEF Reconfigure
  <2> QED BY <2>1, SameEnvironmentRuns
<1> HIDE DEF Goal
<1>17. Goal
  BY <1>3, <1>4, <1>5, <1>6, <1>7, <1>8, <1>9, <1>10, <1>11, <1>12, <1>13, <1>14, <1>15, <1>16
     DEF Next, sched_exit_env, sched_kill_env, sched_init_RR, sched_init_MLFQ
<1> QED BY <1>17 DEF Goal

-----------------------------------------------------------------------------
(* The level a clock interrupt puts the current environment back to is the *)
(* one after the level whose quantum it had, unless that is the last.      *)
Quantum ==
  /\ quantumLevel \in Nat
  /\ scheduler_method = "MLFQ" /\ curenv # NoEnv /\ quantumLevel + 1 < num_of_ready_queues =>
       indexToEnqueue = quantumLevel + 1

LEMMA SchedulerQuantum ==
  ASSUME Config, Quantum, UNCHANGED config, NEW ready, NEW cur, NEW status,
         fos_scheduler(ready, cur, status)
  PROVE  Quantum'
<1> DEFINE queued == Requeue(ready, cur)
           level == Min(NonEmpty(queued))
<1>1. num_of_ready_queues' = num_of_ready_queues /\ scheduler_method' = scheduler_method
  BY DEF config
<1>2. CASE NonEmpty(queued) # {}
  <2>1. level \in InUseLevels
    BY <1>2, LevelIs
  <2>2. /\ quantumLevel' = level
        /\ indexToEnqueue' =
             IF scheduler_method = "MLFQ" /\ level + 1 # num_of_ready_queues
               THEN level + 1 ELSE indexToEnqueue
    BY <1>2 DEF fos_scheduler
  <2> HIDE DEF level
  <2>3. level \in Nat /\ num_of_ready_queues \in Nat
    BY <2>1 DEF InUseLevels, Config
  <2>4. ASSUME scheduler_method = "MLFQ", level + 1 < num_of_ready_queues
        PROVE  indexToEnqueue' = level + 1
    <3>1. level + 1 # num_of_ready_queues
      BY <2>3, <2>4
    <3> QED BY <2>2, <2>4, <3>1
  <2> QED BY <1>1, <2>2, <2>3, <2>4 DEF Quantum
<1>3. CASE NonEmpty(queued) = {}
  BY <1>1, <1>3 DEF fos_scheduler, Quantum
<1> QED BY <1>2, <1>3

LEMMA QuantumStep ==
  ASSUME Inv, Quantum, [Next]_vars
  PROVE  Quantum'
<1>1. ASSUME UNCHANGED <<cpu, config>> PROVE Quantum'
  BY <1>1 DEF cpu, config, Quantum
<1>2. ASSUME NEW ready, NEW status, InvokeIfStopped(ready, status), UNCHANGED config
      PROVE  Quantum'
  <2>1. CASE scheduler_status = "STOPPED"
    <3>1. fos_scheduler(ready, curenv, status)
      BY <1>2, <2>1 DEF InvokeIfStopped
    <3> QED BY <1>2, <3>1, SchedulerQuantum DEF Inv
  <2>2. CASE scheduler_status # "STOPPED"
    BY <1>1, <1>2, <2>2 DEF InvokeIfStopped
  <2> QED BY <2>1, <2>2
<1>3. ASSUME NEW m, NEW n, Reconfigure(m, n) PROVE Quantum'
  BY <1>3 DEF Reconfigure, Quantum, Inv, Running, StoppedMeansIdle
<1>4. ASSUME NEW ready, NEW cur, NEW status, fos_scheduler(ready, cur, status), UNCHANGED config
      PROVE  Quantum'
  BY <1>4, SchedulerQuantum DEF Inv
<1>5. CASE UNCHANGED vars
  BY <1>1, <1>5 DEF vars
<1>6. CASE clock_interrupt_handler \/ sched_kill_all \/ sched_run_all \/ sched_exit_all_ready_envs
  BY <1>1, <1>2, <1>4, <1>6
     DEF clock_interrupt_handler, sched_kill_all, sched_run_all, sched_exit_all_ready_envs
<1>7. ASSUME NEW e \in Env,
             \/ sched_new_env(e) \/ ExitNewEnv(e) \/ ExitReadyEnv(e) \/ KillQueuedEnv(e)
             \/ sched_remove_ready(e) \/ sched_insert_ready(e)
      PROVE  Quantum'
  BY <1>1, <1>7 DEF sched_new_env, ExitNewEnv, ExitReadyEnv, KillQueuedEnv, sched_remove_ready,
                    sched_insert_ready
<1>8. ASSUME NEW e \in Env, sched_run_env(e) \/ ExitCurenv(e) PROVE Quantum'
  BY <1>2, <1>4, <1>8 DEF sched_run_env, ExitCurenv
<1>9. ASSUME NEW e \in Env, KillCurenv(e) PROVE Quantum'
  BY <1>9 DEF KillCurenv, config, Quantum
<1> QED BY <1>3, <1>5, <1>6, <1>7, <1>8, <1>9
        DEF Next, sched_exit_env, sched_kill_env, sched_init_RR, sched_init_MLFQ

LEMMA DemotionStep ==
  ASSUME Inv, Quantum, clock_interrupt_handler, scheduler_method = "MLFQ",
         NEW e \in Env, e = curenv,
         NEW l \in Levels, l = quantumLevel + 1, l < num_of_ready_queues
  PROVE  Contains(env_ready_queues'[l], e) \/ (e = curenv' /\ quantumLevel' = l)
<1> DEFINE queued == Requeue(env_ready_queues, curenv)
           level == Min(NonEmpty(queued))
<1>1. /\ fos_scheduler(env_ready_queues, curenv, env_status)
      /\ Config /\ e # NoEnv /\ Levelled(env_ready_queues, curenv, indexToEnqueue)
      /\ Placed(env_new_queue, env_ready_queues, env_exit_queue, curenv, env_status, assertFailed)
  BY DEF clock_interrupt_handler, Inv, PlaceInv
<1>2. /\ Placed(env_new_queue, queued, env_exit_queue, NoEnv, env_status, assertFailed)
      /\ NonEmpty(queued) # {}
  BY <1>1, Requeued
<1>3. Contains(queued[l], e)
  <2>1. indexToEnqueue = l
    BY <1>1 DEF Quantum
  <2>2. queued = [env_ready_queues EXCEPT ![l] = enqueue(@, e)]
    BY <1>1, <2>1 DEF Requeue, EnqueueLevel
  <2>3. env_ready_queues[l] \in Queue /\ ~Contains(env_ready_queues[l], e)
    BY <1>1 DEF Placed, Queues, Place, InSome
  <2>4. queued[l] = enqueue(env_ready_queues[l], e)
    BY <1>1, <2>2 DEF Placed, Queues
  <2> QED BY <2>3, <2>4, EnqueueIs
<1>4. level \in Levels /\ queued[level] # <<>>
  BY <1>1, <1>2, LevelIs
<1>5. /\ env_ready_queues' = [queued EXCEPT ![level] = Front(@)]
      /\ curenv' = Last(queued[level]) /\ quantumLevel' = level
  BY <1>1, <1>2 DEF fos_scheduler
<1> HIDE DEF level, queued
<1>6. queued \in [Levels -> Queue]
  BY <1>2 DEF Placed, Queues
<1>7. CASE level # l
  BY <1>3, <1>5, <1>6, <1>7
<1>8. CASE level = l
  <2>1. env_ready_queues'[l] = Front(queued[l]) /\ queued[l] \in Queue
    BY <1>5, <1>6, <1>8
  <2>2. Contains(env_ready_queues'[l], e) <=> e # Last(queued[l])
    BY <1>3, <1>4, <1>8, <2>1, FrontIs
  <2> QED BY <1>5, <1>8, <2>2
<1> QED BY <1>7, <1>8

-----------------------------------------------------------------------------
(* An environment goes through its life in order, until the assertion of   *)
(* sched_kill_env fails (sched.c:46-62, 181-244, 280-340, 388-650).        *)
THEOREM LivesAreInOrder == TwoLevels => (Spec => LifeInOrder)
<1> SUFFICES ASSUME TwoLevels PROVE Spec => LifeInOrder
  OBVIOUS
<1> DEFINE Step == ~assertFailed => \A e \in Env : InOrder(e)
<1>1. ASSUME Inv, Inv', [Next]_vars PROVE [Step]_vars
  BY <1>1, LifeStep
<1>2. [][Step]_vars => LifeInOrder
  BY DEF LifeInOrder, InOrder
<1> HIDE DEF Step
<1> QED BY <1>1, <1>2, QueuesInvariant, PTL DEF Spec

(* Under MLFQ an environment that uses up the quantum of a level other     *)
(* than the last goes one level down: where it goes is set when it is      *)
(* selected, and no call in between changes it (sched.c:128-172).          *)
THEOREM DemotionsAreByOne == TwoLevels => (Spec => DemotedByOneLevel)
<1> SUFFICES ASSUME TwoLevels PROVE Spec => DemotedByOneLevel
  OBVIOUS
<1> DEFINE Step == \A e \in Env, l \in Levels :
                     /\ clock_interrupt_handler /\ scheduler_method = "MLFQ"
                     /\ e = curenv /\ l = quantumLevel + 1 /\ l < num_of_ready_queues
                     => At(e, l)'
<1>1. Init => Quantum
  BY DEF Init, Quantum
<1>2. Inv /\ Quantum /\ [Next]_vars => Quantum'
  BY QuantumStep
<1>3. ASSUME Inv, Quantum, [Next]_vars PROVE [Step]_vars
  BY <1>3, DemotionStep DEF At
<1>4. [][Step]_vars => DemotedByOneLevel
  BY DEF DemotedByOneLevel
<1> HIDE DEF Step
<1> QED BY <1>1, <1>2, <1>3, <1>4, QueuesInvariant, PTL DEF Spec

=============================================================================
