---------------------------- MODULE MdriverProofs ---------------------------
(***************************************************************************)
(* Theorems about the driver with the allocators it is linked with, for    *)
(* every heap, every set of ids and request sizes, every trace file and    *)
(* every setting of the measurement scheme.                                *)
(*                                                                         *)
(* The inductive invariant has three parts.  TraceInv: the package keeps   *)
(* its own inductive invariant (the proofs of DongukMm, SungjooMm and      *)
(* SanglimMm, instantiated with the driver's rover), and what the driver   *)
(* remembers of the blocks is what the requests interpreted so far leave.  *)
(* SamplesInv: values holds the smallest samples, the counter shows what   *)
(* passed since it was read.  MainInv: what main knows of the files.       *)
(***************************************************************************)
EXTENDS Mdriver, FiniteSetTheorems, WellFoundedInduction, TLAPS

(***************************************************************************)
(* clock.c: the two words of the counter                                   *)
(***************************************************************************)
LEMMA DivMod ==
    ASSUME NEW w \in Nat \ {0}, NEW c \in Nat
    PROVE  /\ c = w * (c \div w) + (c % w)
           /\ c % w \in 0..(w - 1)
           /\ c \div w \in Nat
  OBVIOUS

LEMMA ModOf ==
    ASSUME NEW w \in Nat \ {0}, NEW x \in Int, NEW y \in 0..(w - 1), NEW k \in Int,
           x = y + k * w
    PROVE  x % w = y
  OBVIOUS

LEMMA Square == WORD \in Nat \ {0} /\ WORD * WORD \in Nat \ {0}
  BY FcycAssumption

\* The two words of a reading.
LEMMA Words ==
    ASSUME NEW c \in Nat, c < WORD * WORD
    PROVE  \E h \in 0..(WORD - 1), l \in 0..(WORD - 1) :
              access_counter(c) = [hi |-> h, lo |-> l] /\ c = h * WORD + l
<1> DEFINE q == c \div WORD
           r == c % WORD
<1>1. WORD \in Nat \ {0}
  BY Square
<1>2. c = WORD * q + r /\ r \in 0..(WORD - 1) /\ q \in Nat
  BY <1>1, DivMod
<1>3. access_counter(c) = [hi |-> q, lo |-> r]
  BY DEF access_counter
<1> HIDE DEF q, r
<1>4. ~(q >= WORD)
  BY <1>1, <1>2
<1>5. q \in 0..(WORD - 1) /\ c = q * WORD + r
  BY <1>1, <1>2, <1>4
<1> QED
  BY <1>2, <1>3, <1>5

\* get_counter shows the cycles since start_counter, wherever the words wrap.
LEMMA CounterDifference ==
    ASSUME NEW c \in Nat, c < WORD * WORD, NEW d \in Nat, d < WORD * WORD,
           cyc = access_counter(c)
    PROVE  get_counter((c + d) % (WORD * WORD)) = d
<1> DEFINE S == WORD * WORD
           now == (c + d) % S
<1>1. WORD \in Nat \ {0} /\ S \in Nat \ {0}
  BY Square
<1>2. now \in Nat /\ now < S /\ \E k \in Int : c + d = now + k * S
  <2>1. c + d \in Nat /\ S \in Nat \ {0}
    BY <1>1
  <2> HIDE DEF S
  <2>2. /\ c + d = S * ((c + d) \div S) + ((c + d) % S)
        /\ (c + d) % S \in 0..(S - 1)
        /\ (c + d) \div S \in Nat
    BY <2>1, DivMod
  <2> DEFINE q == (c + d) \div S
  <2> HIDE DEF q
  <2>3. c + d = now + q * S /\ q \in Int
    BY <2>1, <2>2 DEF q
  <2>4. now \in Nat /\ now < S
    BY <2>1, <2>2
  <2> QED
    BY <2>3, <2>4
<1> HIDE DEF now
<1>3. PICK k \in Int : c + d = now + k * S
  BY <1>2
<1>4. PICK h \in 0..(WORD - 1), l \in 0..(WORD - 1) :
         access_counter(c) = [hi |-> h, lo |-> l] /\ c = h * WORD + l
  BY Words
<1>5. PICK nh \in 0..(WORD - 1), nl \in 0..(WORD - 1) :
         access_counter(now) = [hi |-> nh, lo |-> nl] /\ now = nh * WORD + nl
  BY <1>2, Words DEF S
<1> DEFINE lo == (nl - l) % WORD
           b == IF lo > nl THEN 1 ELSE 0
           hi == (nh - h - b) % WORD
<1>6. get_counter(now) = hi * WORD + lo
  BY <1>4, <1>5 DEF get_counter, Borrow
<1>7. /\ lo \in 0..(WORD - 1)
      /\ b \in {0, 1}
      /\ lo = (nl - l) + b * WORD
  <2>1. CASE nl >= l
    <3>1. lo = nl - l
      BY <1>1, <2>1, ModOf
    <3> QED
      BY <1>1, <2>1, <3>1
  <2>2. CASE nl < l
    <3>1. nl - l + WORD \in 0..(WORD - 1) /\ nl - l = (nl - l + WORD) + (-1) * WORD
      BY <1>1, <2>2
    <3>2. lo = nl - l + WORD
      BY <1>1, <3>1, ModOf
    <3> QED
      BY <1>1, <2>2, <3>2
  <2> QED
    BY <1>1, <2>1, <2>2
<1> HIDE DEF lo, b
<1>8. hi \in 0..(WORD - 1) /\ \E g \in Int : hi = (nh - h - b) + g * WORD
  <2>1. CASE nh - h - b >= 0
    <3>1. nh - h - b \in 0..(WORD - 1) /\ nh - h - b = (nh - h - b) + 0 * WORD
      BY <1>1, <1>7, <2>1
    <3>2. hi = nh - h - b
      BY <1>1, <1>7, <3>1, ModOf
    <3>3. hi = (nh - h - b) + 0 * WORD
      BY <3>1, <3>2
    <3> QED
      BY <3>1, <3>2, <3>3
  <2>2. CASE nh - h - b < 0
    <3>1. /\ nh - h - b + WORD \in 0..(WORD - 1)
          /\ nh - h - b = (nh - h - b + WORD) + (-1) * WORD
      BY <1>1, <1>7, <2>2
    <3>2. hi = nh - h - b + WORD
      BY <1>1, <1>7, <3>1, ModOf
    <3>3. hi = (nh - h - b) + 1 * WORD
      BY <1>1, <1>7, <3>2
    <3> QED
      BY <3>1, <3>2, <3>3
  <2> QED
    BY <1>1, <1>7, <2>1, <2>2
<1>9. PICK g \in Int : hi = (nh - h - b) + g * WORD
  BY <1>8
<1> HIDE DEF hi
<1> DEFINE v == hi * WORD + lo
<1>10. v = d + (g - k) * S
  BY <1>1, <1>3, <1>4, <1>5, <1>7, <1>9
<1>11. v \in Nat /\ v < S
  BY <1>1, <1>7, <1>8
<1>12. g - k = 0
  <2>1. ~(g - k >= 1)
    BY <1>1, <1>10, <1>11
  <2>2. ~(g - k <= -1)
    BY <1>1, <1>10, <1>11
  <2> QED
    BY <2>1, <2>2
<1> QED
  BY <1>1, <1>6, <1>10, <1>12 DEF now

LEMMA UpTo ==
    ASSUME NEW m \in Nat
    PROVE  IsFiniteSet(1..m) /\ Cardinality(1..m) = m
  BY FS_Interval

\* A set of naturals has a least element.
LEMMA LeastOf ==
    ASSUME NEW T \in SUBSET Nat, T # {}
    PROVE  \E x \in T : \A y \in T : x <= y
<1>1. PICK x \in T : \A y \in T : <<y, x>> \notin OpToRel(<, Nat)
  BY NatLessThanWellFounded, WFMin
<1>2. ASSUME NEW y \in T, y < x
      PROVE  FALSE
  <2>1. <<y, x>> \in Nat \X Nat /\ <<y, x>>[1] < <<y, x>>[2]
    BY <1>2
  <2>2. <<y, x>> \in OpToRel(<, Nat)
    BY <2>1 DEF OpToRel
  <2> QED
    BY <1>1, <1>2, <2>2
<1>3. \A y \in T : x <= y
  BY <1>2
<1> QED
  BY <1>3

(***************************************************************************)
(* Samples and their order                                                 *)
(***************************************************************************)
Smaller(ss, v) == {j \in DOMAIN ss : ss[j] < v}
AtMost(ss, v) == {j \in DOMAIN ss : ss[j] <= v}

\* v is the k-th smallest of ss.
Kth(ss, k, v) == Cardinality(Smaller(ss, v)) < k /\ Cardinality(AtMost(ss, v)) >= k

LEMMA CountsType ==
    ASSUME NEW ss \in Seq(Nat), NEW v
    PROVE  /\ IsFiniteSet(Smaller(ss, v)) /\ Cardinality(Smaller(ss, v)) \in 0..Len(ss)
           /\ IsFiniteSet(AtMost(ss, v)) /\ Cardinality(AtMost(ss, v)) \in 0..Len(ss)
<1>1. DOMAIN ss = 1..Len(ss) /\ Len(ss) \in Nat
  OBVIOUS
<1>2. IsFiniteSet(1..Len(ss)) /\ Cardinality(1..Len(ss)) = Len(ss)
  BY <1>1, UpTo
<1>3. Smaller(ss, v) \in SUBSET (1..Len(ss)) /\ AtMost(ss, v) \in SUBSET (1..Len(ss))
  BY <1>1 DEF Smaller, AtMost
<1>4. /\ IsFiniteSet(Smaller(ss, v)) /\ Cardinality(Smaller(ss, v)) <= Len(ss)
      /\ IsFiniteSet(AtMost(ss, v)) /\ Cardinality(AtMost(ss, v)) <= Len(ss)
  BY <1>2, <1>3, FS_Subset
<1>5. Cardinality(Smaller(ss, v)) \in Nat /\ Cardinality(AtMost(ss, v)) \in Nat
  BY <1>4, FS_CardinalityType
<1> QED
  BY <1>1, <1>4, <1>5

\* A larger bound counts more samples.
LEMMA CountsGrow ==
    ASSUME NEW ss \in Seq(Nat), NEW v \in Nat, NEW w \in Nat, v <= w
    PROVE  /\ Cardinality(Smaller(ss, v)) <= Cardinality(Smaller(ss, w))
           /\ Cardinality(AtMost(ss, v)) <= Cardinality(AtMost(ss, w))
<1>1. \A j \in DOMAIN ss : ss[j] \in Nat
  OBVIOUS
<1>2. Smaller(ss, v) \in SUBSET Smaller(ss, w) /\ AtMost(ss, v) \in SUBSET AtMost(ss, w)
  BY <1>1 DEF Smaller, AtMost
<1> QED
  BY <1>2, CountsType, FS_Subset

LEMMA AppendCounts ==
    ASSUME NEW ss \in Seq(Nat), NEW x \in Nat, NEW v \in Nat
    PROVE  /\ Cardinality(Smaller(Append(ss, x), v)) =
                 Cardinality(Smaller(ss, v)) + (IF x < v THEN 1 ELSE 0)
           /\ Cardinality(AtMost(Append(ss, x), v)) =
                 Cardinality(AtMost(ss, v)) + (IF x <= v THEN 1 ELSE 0)
<1> DEFINE l == Len(ss) + 1
           tt == Append(ss, x)
<1>1. /\ DOMAIN ss = 1..Len(ss) /\ Len(ss) \in Nat
      /\ DOMAIN tt = DOMAIN ss \cup {l} /\ l \notin DOMAIN ss
      /\ tt[l] = x /\ \A j \in DOMAIN ss : tt[j] = ss[j]
  OBVIOUS
<1> HIDE DEF tt, l
<1>2. /\ Smaller(tt, v) = IF x < v THEN Smaller(ss, v) \cup {l} ELSE Smaller(ss, v)
      /\ l \notin Smaller(ss, v)
  BY <1>1 DEF Smaller
<1>3. /\ AtMost(tt, v) = IF x <= v THEN AtMost(ss, v) \cup {l} ELSE AtMost(ss, v)
      /\ l \notin AtMost(ss, v)
  BY <1>1 DEF AtMost
<1>4. /\ Cardinality(Smaller(ss, v) \cup {l}) = Cardinality(Smaller(ss, v)) + 1
      /\ Cardinality(AtMost(ss, v) \cup {l}) = Cardinality(AtMost(ss, v)) + 1
  BY <1>2, <1>3, CountsType, FS_AddElement
<1>5. Cardinality(Smaller(ss, v)) \in Nat /\ Cardinality(AtMost(ss, v)) \in Nat
  BY CountsType, FS_CardinalityType
<1> QED
  BY <1>2, <1>3, <1>4, <1>5 DEF tt

(***************************************************************************)
(* add_sample                                                              *)
(***************************************************************************)
Sorted(vs, m) == \A p, q \in 1..m : p <= q => vs[p] <= vs[q]

\* x has been inserted at the place `to` of the first pos values.
Inserted(vs, x, pos, to, w) ==
    /\ w \in [1..kbest -> Nat]
    /\ \A p \in to..(pos - 1) : vs[p] > x
    /\ \A p \in 1..(to - 1) : vs[p] <= x
    /\ \A k \in 1..(to - 1) : w[k] = vs[k]
    /\ w[to] = x
    /\ \A k \in (to + 1)..pos : w[k] = vs[k - 1]

LEMMA SinkInserts ==
    ASSUME NEW us \in [1..kbest -> Nat], NEW x \in Nat, NEW pos \in 1..kbest,
           Sorted(us, pos - 1)
    PROVE  \E to \in 1..pos : Inserted(us, x, pos, to, Sink([us EXCEPT ![pos] = x], pos))
<1> DEFINE vs == [us EXCEPT ![pos] = x]
           Here(q) == /\ \A p \in q..(pos - 1) : vs[p] > vs[pos]
                      /\ q > 1 => vs[q - 1] <= vs[pos]
           T == {q \in 1..pos : \A p \in q..(pos - 1) : vs[p] > vs[pos]}
           to == CHOOSE q \in 1..pos : Here(q)
<1>1. /\ kbest \in Nat /\ pos \in Nat /\ vs \in [1..kbest -> Nat] /\ vs[pos] = x
      /\ \A p \in 1..kbest : us[p] \in Nat /\ vs[p] \in Nat
      /\ \A p \in 1..kbest : p # pos => vs[p] = us[p]
  BY FcycAssumption
<1>2. pos \in T /\ T \in SUBSET Nat
  BY <1>1
<1>3. PICK q \in T : \A y \in T : q <= y
  <2> HIDE DEF T
  <2> QED
    BY <1>2, LeastOf
<1> HIDE DEF vs
<1>4. q \in 1..pos /\ Here(q)
  <2>1. q \in 1..pos /\ \A p \in q..(pos - 1) : vs[p] > vs[pos]
    BY <1>3
  <2>2. ASSUME q > 1, ~(vs[q - 1] <= vs[pos])
        PROVE  FALSE
    <3>1. q - 1 \in 1..pos /\ vs[q - 1] > vs[pos]
      BY <1>1, <2>1, <2>2
    <3>2. \A p \in (q - 1)..(pos - 1) : p = q - 1 \/ p \in q..(pos - 1)
      BY <1>1, <2>1
    <3>3. q - 1 \in T
      BY <2>1, <3>1, <3>2
    <3>4. q <= q - 1
      BY <1>3, <3>3
    <3>5. q \in Nat
      BY <1>1, <2>1
    <3> QED
      BY <3>4, <3>5
  <2> QED
    BY <2>1, <2>2
<1> HIDE DEF T
<1>5. to \in 1..pos /\ Here(to)
  BY <1>4
<1>6. Sink(vs, pos) =
        [k \in DOMAIN vs |->
            IF k < to \/ k > pos THEN vs[k] ELSE IF k = to THEN vs[pos] ELSE vs[k - 1]]
  BY DEF Sink
<1> HIDE DEF to
<1> DEFINE w == Sink(vs, pos)
<1>7. ASSUME NEW k \in 1..kbest
      PROVE  /\ k < to \/ k > pos => w[k] = vs[k]
             /\ k = to => w[k] = x
             /\ k > to /\ k <= pos => w[k] = vs[k - 1] /\ k - 1 \in 1..kbest
             /\ w[k] \in Nat
  <2>1. w[k] = IF k < to \/ k > pos THEN vs[k] ELSE IF k = to THEN vs[pos] ELSE vs[k - 1]
    BY <1>1, <1>6
  <2>2. k > to => k - 1 \in 1..kbest
    BY <1>1, <1>5
  <2> HIDE DEF w
  <2> QED
    BY <1>1, <1>5, <2>1, <2>2
<1>8. w \in [1..kbest -> Nat]
  <2>1. DOMAIN vs = 1..kbest
    BY <1>1
  <2> QED
    BY <1>6, <1>7, <2>1
<1> HIDE DEF w
<1>9. ASSUME NEW p \in 1..(to - 1)
      PROVE  us[p] <= x /\ w[p] = us[p]
  <2>1. to > 1 /\ p \in 1..kbest /\ p < to /\ p # pos /\ to - 1 \in 1..kbest /\ to - 1 # pos
    BY <1>1, <1>5
  <2>2. vs[to - 1] <= vs[pos]
    BY <1>5, <2>1
  <2>3. us[to - 1] <= x
    BY <1>1, <2>1, <2>2
  <2>4. us[p] <= us[to - 1]
    <3>1. p \in 1..(pos - 1) /\ to - 1 \in 1..(pos - 1) /\ p <= to - 1
      BY <1>1, <1>5
    <3> QED
      BY <3>1 DEF Sorted
  <2>5. w[p] = us[p]
    BY <1>1, <1>7, <2>1
  <2> QED
    BY <1>1, <2>1, <2>3, <2>4, <2>5
<1>10. ASSUME NEW p \in to..(pos - 1)
       PROVE  us[p] > x
  <2>1. p \in 1..kbest /\ p # pos /\ vs[p] > vs[pos]
    BY <1>1, <1>5
  <2> QED
    BY <1>1, <2>1
<1>11. to \in 1..kbest /\ w[to] = x
  BY <1>1, <1>5, <1>7
<1>12. ASSUME NEW k \in (to + 1)..pos
       PROVE  w[k] = us[k - 1]
  <2>1. k \in 1..kbest /\ k > to /\ k <= pos /\ k - 1 # pos
    BY <1>1, <1>5
  <2>2. w[k] = vs[k - 1] /\ k - 1 \in 1..kbest
    BY <1>7, <2>1
  <2> QED
    BY <1>1, <2>1, <2>2
<1>13. Inserted(us, x, pos, to, w)
  BY <1>8, <1>9, <1>10, <1>11, <1>12 DEF Inserted
<1> QED
  BY <1>5, <1>13 DEF vs, w

LEMMA InsertedSorted ==
    ASSUME NEW vs \in [1..kbest -> Nat], NEW x \in Nat, NEW pos \in 1..kbest,
           Sorted(vs, pos - 1), NEW to \in 1..pos, NEW w, Inserted(vs, x, pos, to, w)
    PROVE  Sorted(w, pos)
<1> SUFFICES ASSUME NEW p \in 1..pos, NEW q \in 1..pos, p <= q
             PROVE  w[p] <= w[q]
  BY DEF Sorted
<1>1. kbest \in Nat /\ pos \in Nat /\ \A r \in 1..kbest : vs[r] \in Nat /\ w[r] \in Nat
  BY FcycAssumption DEF Inserted
<1>2. CASE q < to
  <2>1. /\ w[p] = vs[p] /\ w[q] = vs[q]
        /\ p \in 1..(pos - 1) /\ q \in 1..(pos - 1)
    BY <1>1, <1>2 DEF Inserted
  <2> QED
    BY <2>1 DEF Sorted
<1>3. CASE p < to /\ q = to
  <2>1. w[p] = vs[p] /\ w[q] = x /\ vs[p] <= x
    BY <1>1, <1>3 DEF Inserted
  <2> QED
    BY <2>1
<1>4. CASE p < to /\ q > to
  <2>1. /\ w[p] = vs[p] /\ w[q] = vs[q - 1]
        /\ p \in 1..(pos - 1) /\ q - 1 \in 1..(pos - 1) /\ p <= q - 1
    BY <1>1, <1>4 DEF Inserted
  <2> QED
    BY <2>1 DEF Sorted
<1>5. CASE p = to /\ q = to
  BY <1>1, <1>5 DEF Inserted
<1>6. CASE p = to /\ q > to
  <2>1. w[p] = x /\ w[q] = vs[q - 1] /\ vs[q - 1] > x /\ q - 1 \in 1..kbest
    BY <1>1, <1>6 DEF Inserted
  <2> QED
    BY <1>1, <2>1
<1>7. CASE p > to
  <2>1. /\ w[p] = vs[p - 1] /\ w[q] = vs[q - 1]
        /\ p - 1 \in 1..(pos - 1) /\ q - 1 \in 1..(pos - 1) /\ p - 1 <= q - 1
    BY <1>1, <1>7 DEF Inserted
  <2> QED
    BY <2>1 DEF Sorted
<1> QED
  BY <1>1, <1>2, <1>3, <1>4, <1>5, <1>6, <1>7

\* What the counts of samples are (CountsType, CountsGrow, AppendCounts).
Counted(ss, len) ==
    /\ \A v \in Nat : /\ Cardinality(Smaller(ss, v)) \in Nat
                      /\ Cardinality(Smaller(ss, v)) <= len
                      /\ Cardinality(AtMost(ss, v)) \in Nat
    /\ \A u, v \in Nat : u <= v =>
          /\ Cardinality(Smaller(ss, u)) <= Cardinality(Smaller(ss, v))
          /\ Cardinality(AtMost(ss, u)) <= Cardinality(AtMost(ss, v))

OneMore(ss, tt, x) ==
    \A v \in Nat :
        /\ Cardinality(Smaller(tt, v)) =
              Cardinality(Smaller(ss, v)) + (IF x < v THEN 1 ELSE 0)
        /\ Cardinality(AtMost(tt, v)) =
              Cardinality(AtMost(ss, v)) + (IF x <= v THEN 1 ELSE 0)

\* The sample x has been inserted among the first values, which were the smallest
\* samples: they are again.
LEMMA InsertedBest ==
    ASSUME NEW ss, NEW tt, NEW len \in Nat, NEW x \in Nat,
           Counted(ss, len), OneMore(ss, tt, x),
           NEW vs \in [1..kbest -> Nat], NEW pos \in 1..kbest,
           \A k \in 1..(pos - 1) : Kth(ss, k, vs[k]),
           pos = len + 1 \/ (Kth(ss, pos, vs[pos]) /\ x < vs[pos]),
           NEW to \in 1..pos, NEW w, Inserted(vs, x, pos, to, w)
    PROVE  \A k \in 1..pos : Kth(tt, k, w[k])
<1> DEFINE C(v) == Cardinality(Smaller(ss, v))
           A(v) == Cardinality(AtMost(ss, v))
<1>1. kbest \in Nat /\ pos \in Nat /\ \A r \in 1..kbest : vs[r] \in Nat /\ w[r] \in Nat
  BY FcycAssumption DEF Inserted
<1>2. /\ \A v \in Nat : C(v) \in Nat /\ C(v) <= len /\ A(v) \in Nat
      /\ \A u, v \in Nat : u <= v => C(u) <= C(v) /\ A(u) <= A(v)
  BY DEF Counted
<1>3. \A v \in Nat, k \in Nat :
         /\ C(v) + (IF x < v THEN 1 ELSE 0) < k
         /\ A(v) + (IF x <= v THEN 1 ELSE 0) >= k
         => Kth(tt, k, v)
  BY DEF OneMore, Kth
<1>4. \A k \in 1..(pos - 1) : C(vs[k]) < k /\ A(vs[k]) >= k
  BY DEF Kth
<1>5. pos = len + 1 \/ (C(vs[pos]) < pos /\ x < vs[pos])
  BY DEF Kth
<1> HIDE DEF C, A
<1> SUFFICES ASSUME NEW k \in 1..pos
             PROVE  Kth(tt, k, w[k])
  OBVIOUS
<1>6. w[k] \in Nat /\ k \in Nat
  BY <1>1
<1>7. C(w[k]) \in Nat /\ A(w[k]) \in Nat
  BY <1>2, <1>6
<1>8. CASE k < to
  <2>1. k \in 1..(pos - 1) /\ w[k] = vs[k] /\ vs[k] <= x
    BY <1>1, <1>8 DEF Inserted
  <2>2. C(w[k]) < k /\ A(w[k]) >= k /\ ~(x < w[k])
    BY <1>4, <1>6, <2>1
  <2> QED
    BY <1>3, <1>6, <1>7, <2>2
<1>9. CASE k = to
  <2>1. w[k] = x
    BY <1>9 DEF Inserted
  <2>2. C(x) < k
    <3>1. CASE to < pos
      <4>1. to \in 1..(pos - 1) /\ vs[to] > x /\ vs[to] \in Nat
        BY <1>1, <3>1 DEF Inserted
      <4>2. C(vs[to]) < to
        BY <1>4, <4>1
      <4>3. x <= vs[to]
        BY <4>1
      <4>4. C(x) <= C(vs[to]) /\ C(x) \in Nat /\ C(vs[to]) \in Nat
        BY <1>2, <4>1, <4>3
      <4>5. to \in Nat
        BY <1>1
      <4> QED
        BY <1>9, <4>2, <4>4, <4>5
    <3>2. CASE to = pos /\ pos = len + 1
      <4>1. C(x) \in Nat /\ C(x) <= len
        BY <1>2
      <4> QED
        BY <1>9, <3>2, <4>1
    <3>3. CASE to = pos /\ C(vs[pos]) < pos /\ x < vs[pos]
      <4>1. vs[pos] \in Nat
        BY <1>1
      <4>2. C(x) <= C(vs[pos]) /\ C(x) \in Nat /\ C(vs[pos]) \in Nat
        BY <1>2, <3>3, <4>1
      <4> QED
        BY <1>9, <3>3, <4>2
    <3> QED
      BY <1>1, <1>5, <3>1, <3>2, <3>3
  <2>3. A(x) + 1 >= k
    <3>0. A(x) \in Nat
      BY <1>2
    <3>1. CASE to = 1
      BY <1>9, <3>0, <3>1
    <3>2. CASE to > 1
      <4>1. /\ to - 1 \in 1..(pos - 1) /\ vs[to - 1] <= x /\ vs[to - 1] \in Nat
        BY <1>1, <3>2 DEF Inserted
      <4>2. A(vs[to - 1]) <= A(x) /\ A(vs[to - 1]) >= to - 1 /\ A(vs[to - 1]) \in Nat
        BY <1>2, <1>4, <4>1
      <4> QED
        BY <1>9, <3>0, <4>2
    <3> QED
      BY <3>1, <3>2
  <2> QED
    BY <1>3, <1>6, <1>7, <2>1, <2>2, <2>3
<1>10. CASE k > to
  <2>1. k - 1 \in 1..(pos - 1) /\ w[k] = vs[k - 1] /\ vs[k - 1] > x
    BY <1>1, <1>10 DEF Inserted
  <2>2. C(w[k]) < k - 1 /\ A(w[k]) >= k - 1 /\ x < w[k]
    BY <1>4, <1>6, <2>1
  <2> QED
    BY <1>3, <1>6, <1>7, <2>2
<1> QED
  BY <1>8, <1>9, <1>10

MinOf(a, b) == IF a < b THEN a ELSE b

\* values holds the smallest of ss.
Best(vs, ss) ==
    /\ vs \in [1..kbest -> Nat]
    /\ Sorted(vs, MinOf(Len(ss), kbest))
    /\ \A k \in 1..MinOf(Len(ss), kbest) : Kth(ss, k, vs[k])

LEMMA AddedBest ==
    ASSUME NEW vs, NEW ss, NEW tt, NEW x \in Nat, Best(vs, ss), Len(ss) \in Nat,
           Len(tt) = Len(ss) + 1, Counted(ss, Len(ss)), OneMore(ss, tt, x)
    PROVE  Best(AddSample(vs, Len(ss), x), tt)
<1> DEFINE w == AddSample(vs, Len(ss), x)
<1>0. PICK len \in Nat : len = Len(ss)
  OBVIOUS
<1>1. /\ kbest \in Nat \ {0} /\ vs \in [1..kbest -> Nat]
      /\ Sorted(vs, MinOf(len, kbest))
      /\ \A k \in 1..MinOf(len, kbest) : Kth(ss, k, vs[k])
  BY <1>0, FcycAssumption DEF Best
<1>2. /\ w \in [1..kbest -> Nat]
      /\ Sorted(w, MinOf(len + 1, kbest))
      /\ \A k \in 1..MinOf(len + 1, kbest) : Kth(tt, k, w[k])
      => Best(w, tt)
  BY <1>0 DEF Best
<1>3. CASE len < kbest
  <2> DEFINE pos == len + 1
  <2>1. pos \in 1..kbest /\ pos - 1 = len
    BY <1>1, <1>3
  <2>2. MinOf(len, kbest) = len /\ MinOf(len + 1, kbest) = pos
    BY <1>1, <1>3 DEF MinOf
  <2>3. w = Sink([vs EXCEPT ![pos] = x], pos)
    BY <1>0, <1>3 DEF AddSample
  <2>4. Sorted(vs, pos - 1) /\ \A k \in 1..(pos - 1) : Kth(ss, k, vs[k])
    BY <1>1, <2>1, <2>2
  <2> HIDE DEF pos, w
  <2>5. PICK to \in 1..pos : Inserted(vs, x, pos, to, w)
    BY <1>1, <2>1, <2>3, <2>4, SinkInserts
  <2>6. Sorted(w, pos)
    BY <1>1, <2>1, <2>4, <2>5, InsertedSorted
  <2>7. \A k \in 1..pos : Kth(tt, k, w[k])
    BY <1>0, <1>1, <2>1, <2>4, <2>5, InsertedBest DEF pos
  <2> QED
    BY <1>2, <2>2, <2>5, <2>6, <2>7 DEF Inserted, w
<1>4. CASE len >= kbest
  <2>1. MinOf(len, kbest) = kbest /\ MinOf(len + 1, kbest) = kbest
    BY <1>1, <1>4 DEF MinOf
  <2>2. Sorted(vs, kbest) /\ \A k \in 1..kbest : Kth(ss, k, vs[k])
    BY <1>1, <2>1
  <2>3. CASE x < vs[kbest]
    <3>1. kbest \in 1..kbest /\ kbest - 1 \in Nat
      BY <1>1
    <3>2. w = Sink([vs EXCEPT ![kbest] = x], kbest)
      BY <1>0, <1>1, <1>4, <2>3 DEF AddSample
    <3>3. \A k \in 1..(kbest - 1) : k \in 1..kbest
      BY <1>1
    <3>4. Sorted(vs, kbest - 1) /\ \A k \in 1..(kbest - 1) : Kth(ss, k, vs[k])
      BY <2>2, <3>3 DEF Sorted
    <3> HIDE DEF w
    <3>5. PICK to \in 1..kbest : Inserted(vs, x, kbest, to, w)
      BY <1>1, <3>1, <3>2, <3>4, SinkInserts
    <3>6. Sorted(w, kbest)
      BY <1>1, <3>1, <3>4, <3>5, InsertedSorted
    <3>7. \A k \in 1..kbest : Kth(tt, k, w[k])
      BY <1>0, <1>1, <2>2, <2>3, <3>1, <3>4, <3>5, InsertedBest
    <3> QED
      BY <1>2, <2>1, <3>5, <3>6, <3>7 DEF Inserted, w
  <2>4. CASE ~(x < vs[kbest])
    <3>1. w = vs
      BY <1>0, <1>1, <1>4, <2>4 DEF AddSample
    <3> HIDE DEF w
    <3>2. ASSUME NEW k \in 1..kbest
          PROVE  Kth(tt, k, vs[k])
      <4>1. vs[k] \in Nat /\ vs[kbest] \in Nat /\ vs[k] <= vs[kbest] /\ k \in Nat
        BY <1>1, <2>2 DEF Sorted
      <4>2. ~(x < vs[k])
        BY <2>4, <4>1
      <4>3. /\ Cardinality(Smaller(ss, vs[k])) < k
            /\ Cardinality(AtMost(ss, vs[k])) >= k
            /\ Cardinality(Smaller(ss, vs[k])) \in Nat
            /\ Cardinality(AtMost(ss, vs[k])) \in Nat
        BY <1>0, <2>2, <4>1 DEF Kth, Counted
      <4>4. /\ Cardinality(Smaller(tt, vs[k])) = Cardinality(Smaller(ss, vs[k]))
            /\ \/ Cardinality(AtMost(tt, vs[k])) = Cardinality(AtMost(ss, vs[k]))
               \/ Cardinality(AtMost(tt, vs[k])) = Cardinality(AtMost(ss, vs[k])) + 1
        BY <4>1, <4>2, <4>3 DEF OneMore
      <4> QED
        BY <4>1, <4>3, <4>4 DEF Kth
    <3> QED
      BY <1>1, <1>2, <2>1, <2>2, <3>1, <3>2 DEF w
  <2> QED
    BY <2>3, <2>4
<1> QED
  BY <1>1, <1>3, <1>4

LEMMA AddSampleBest ==
    ASSUME NEW vs, NEW ss \in Seq(Nat), NEW x \in Nat, Best(vs, ss)
    PROVE  Best(AddSample(vs, Len(ss), x), Append(ss, x))
<1>1. Len(Append(ss, x)) = Len(ss) + 1 /\ Len(ss) \in Nat
  OBVIOUS
<1>2. \A v \in Nat : /\ Cardinality(Smaller(ss, v)) \in Nat
                     /\ Cardinality(Smaller(ss, v)) <= Len(ss)
                     /\ Cardinality(AtMost(ss, v)) \in Nat
  BY <1>1, CountsType
<1>3. Counted(ss, Len(ss))
  BY <1>2, CountsGrow, Zenon DEF Counted
<1>4. OneMore(ss, Append(ss, x), x)
  <2> SUFFICES ASSUME NEW v \in Nat
               PROVE  /\ Cardinality(Smaller(Append(ss, x), v)) =
                            Cardinality(Smaller(ss, v)) + (IF x < v THEN 1 ELSE 0)
                      /\ Cardinality(AtMost(Append(ss, x), v)) =
                            Cardinality(AtMost(ss, v)) + (IF x <= v THEN 1 ELSE 0)
    BY DEF OneMore
  <2> QED
    BY AppendCounts
<1> QED
  BY <1>1, <1>3, <1>4, AddedBest

(***************************************************************************)
(* The bytes in use                                                        *)
(***************************************************************************)
\* Those of one id.
BytesOf(id, s) == {id} \X (1..s)

LEMMA DisjointUnion ==
    ASSUME NEW S, NEW T, IsFiniteSet(S), IsFiniteSet(T), S \cap T = {}
    PROVE  IsFiniteSet(S \cup T) /\ Cardinality(S \cup T) = Cardinality(S) + Cardinality(T)
<1>1. Cardinality(S) \in Nat /\ Cardinality(T) \in Nat
  BY FS_CardinalityType
<1>2. Cardinality(S \cap T) = 0
  BY FS_EmptySet
<1>3. /\ IsFiniteSet(S \cup T)
      /\ Cardinality(S \cup T) = Cardinality(S) + Cardinality(T) - Cardinality(S \cap T)
  BY FS_Union
<1> QED
  BY <1>1, <1>2, <1>3

LEMMA BytesOfCount ==
    ASSUME NEW id, NEW s \in Nat
    PROVE  IsFiniteSet(BytesOf(id, s)) /\ Cardinality(BytesOf(id, s)) = s
<1>1. IsFiniteSet({id}) /\ Cardinality({id}) = 1
  BY FS_Singleton
<1>2. IsFiniteSet(1..s) /\ Cardinality(1..s) = s
  BY FS_Interval
<1>3. /\ IsFiniteSet({id} \X (1..s))
      /\ Cardinality({id} \X (1..s)) = Cardinality({id}) * Cardinality(1..s)
  BY <1>1, <1>2, FS_Product
<1> QED
  BY <1>1, <1>2, <1>3 DEF BytesOf

LEMMA BytesMembers ==
    ASSUME NEW f \in [Ids -> Nat]
    PROVE  \A x : x \in Bytes(f) <=>
              \E id \in Ids : x \in BytesOf(id, f[id])
  BY DEF Bytes, BytesOf

LEMMA BytesFinite ==
    ASSUME NEW f \in [Ids -> Nat]
    PROVE  IsFiniteSet(Bytes(f)) /\ Cardinality(Bytes(f)) \in Nat
<1> DEFINE T == {BytesOf(id, f[id]) : id \in Ids}
           g == [id \in Ids |-> BytesOf(id, f[id])]
<1>1. g \in Surjection(Ids, T)
  BY DEF Surjection
<1>2. IsFiniteSet(Ids)
  BY PassesAssumption
<1>3. IsFiniteSet(T)
  BY <1>1, <1>2, FS_Surjection
<1>4. \A t \in T : IsFiniteSet(t)
  BY BytesOfCount
<1>5. IsFiniteSet(UNION T)
  BY <1>3, <1>4, FS_UNION
<1>6. Bytes(f) = UNION T
  BY DEF Bytes, BytesOf
<1> QED
  BY <1>5, <1>6, FS_CardinalityType

\* A block is given another size.
LEMMA BytesChange ==
    ASSUME NEW f \in [Ids -> Nat], NEW id \in Ids, NEW s \in Nat
    PROVE  Cardinality(Bytes([f EXCEPT ![id] = s])) = Cardinality(Bytes(f)) - f[id] + s
<1> DEFINE g == [f EXCEPT ![id] = s]
           Rest == {x \in Bytes(f) : x \notin BytesOf(id, f[id])}
<1>1. g \in [Ids -> Nat] /\ g[id] = s /\ \A k \in Ids \ {id} : g[k] = f[k]
  OBVIOUS
<1>2. \A k \in Ids, l \in Ids : k # l => \A u, v : BytesOf(k, u) \cap BytesOf(l, v) = {}
  BY DEF BytesOf
<1> HIDE DEF g
<1>3. Bytes(f) = Rest \cup BytesOf(id, f[id]) /\ Rest \cap BytesOf(id, f[id]) = {}
  BY BytesMembers
<1>4. Bytes(g) = Rest \cup BytesOf(id, s) /\ Rest \cap BytesOf(id, s) = {}
  <2>1. ASSUME NEW x
        PROVE  x \in Rest <=> \E k \in Ids \ {id} : x \in BytesOf(k, f[k])
    BY <1>2, BytesMembers
  <2>2. ASSUME NEW x
        PROVE  x \in Bytes(g) <=> x \in Rest \/ x \in BytesOf(id, s)
    BY <1>1, <2>1, BytesMembers
  <2>3. Rest \cap BytesOf(id, s) = {}
    BY <1>2, <2>1
  <2> HIDE DEF Rest
  <2> QED
    BY <2>2, <2>3
<1>5. IsFiniteSet(Rest) /\ Cardinality(Rest) \in Nat
  <2>1. Rest \in SUBSET Bytes(f)
    OBVIOUS
  <2> HIDE DEF Rest
  <2> QED
    BY <2>1, BytesFinite, FS_Subset, FS_CardinalityType
<1> HIDE DEF Rest
<1>6. f[id] \in Nat
  OBVIOUS
<1>7. /\ IsFiniteSet(BytesOf(id, f[id])) /\ Cardinality(BytesOf(id, f[id])) = f[id]
      /\ IsFiniteSet(BytesOf(id, s)) /\ Cardinality(BytesOf(id, s)) = s
  BY <1>6, BytesOfCount
<1>8. Cardinality(Rest \cup BytesOf(id, f[id])) = Cardinality(Rest) + f[id]
  BY <1>3, <1>5, <1>7, DisjointUnion
<1>9. Cardinality(Rest \cup BytesOf(id, s)) = Cardinality(Rest) + s
  BY <1>4, <1>5, <1>7, DisjointUnion
<1>10. /\ Cardinality(Bytes(f)) = Cardinality(Rest) + f[id]
       /\ Cardinality(Bytes(g)) = Cardinality(Rest) + s
  BY <1>3, <1>4, <1>8, <1>9
<1>11. Cardinality(Bytes(g)) = Cardinality(Bytes(f)) - f[id] + s
  BY <1>5, <1>6, <1>10
<1> QED
  BY <1>11 DEF g

LEMMA NoBytes ==
    ASSUME NEW f \in [Ids -> Nat], \A id \in Ids : f[id] = 0
    PROVE  Cardinality(Bytes(f)) = 0
<1>1. Bytes(f) = {}
  BY DEF Bytes
<1> QED
  BY <1>1, FS_EmptySet

\* Blocks that are disjoint and inside the heap have no more bytes than it.
LEMMA BytesInside ==
    ASSUME NEW a \in [Ids -> Nat], NEW f \in [Ids -> Nat], NEW brk \in Nat,
           \A id \in Ids : f[id] # 0 => a[id] + f[id] <= brk,
           \A id, k \in Ids : id # k /\ f[id] # 0 /\ f[k] # 0 =>
              a[id] + f[id] <= a[k] \/ a[k] + f[k] <= a[id]
    PROVE  Cardinality(Bytes(f)) <= brk
<1> DEFINE at == [x \in Bytes(f) |-> a[x[1]] + x[2] - 1]
<1>1. ASSUME NEW x \in Bytes(f)
      PROVE  /\ x = <<x[1], x[2]>> /\ x[1] \in Ids /\ x[2] \in Nat
             /\ x[2] >= 1 /\ x[2] <= f[x[1]] /\ f[x[1]] # 0
             /\ a[x[1]] \in Nat /\ f[x[1]] \in Nat
  BY DEF Bytes
<1>2. ASSUME NEW x \in Bytes(f)
      PROVE  at[x] \in 0..(brk - 1)
  <2>1. a[x[1]] + f[x[1]] <= brk
    BY <1>1
  <2> QED
    BY <1>1, <2>1
<1>3. ASSUME NEW x \in Bytes(f), NEW y \in Bytes(f), at[x] = at[y]
      PROVE  x = y
  <2>1. a[x[1]] + x[2] = a[y[1]] + y[2]
    BY <1>1, <1>3
  <2>2. x[1] = y[1]
    <3>1. SUFFICES ASSUME x[1] # y[1] PROVE FALSE
      OBVIOUS
    <3>2. a[x[1]] + f[x[1]] <= a[y[1]] \/ a[y[1]] + f[y[1]] <= a[x[1]]
      BY <1>1, <3>1
    <3> QED
      BY <1>1, <2>1, <3>2
  <2>3. x[2] = y[2]
    BY <1>1, <2>1, <2>2
  <2> QED
    BY <1>1, <2>2, <2>3
<1>4. at \in Injection(Bytes(f), 0..(brk - 1))
  BY <1>2, <1>3 DEF Injection, IsInjective
<1>5. IsFiniteSet(0..(brk - 1)) /\ Cardinality(0..(brk - 1)) = brk
  BY FS_Interval
<1> HIDE DEF at
<1>6. Cardinality(Bytes(f)) <= Cardinality(0..(brk - 1))
  BY <1>4, <1>5, FS_Injection
<1> QED
  BY <1>5, <1>6

(***************************************************************************)
(* What a trace has in use                                                 *)
(***************************************************************************)
\* SizeAfter and InUse of the trace t.
SizeIn(t, k, id) ==
    LET last == Max({0} \cup {j \in 1..k : t[j].index = id})
    IN  IF last = 0 THEN 0 ELSE t[last].size

InUseIn(t, k) == Cardinality(Bytes([id \in Ids |-> SizeIn(t, k, id)]))

LEMMA MaxIs ==
    ASSUME NEW S \in SUBSET Int, NEW x \in S, \A y \in S : x >= y
    PROVE  Max(S) = x
<1>1. \A y \in S : Max(S) >= y
  BY DEF Max
<1>2. Max(S) \in S
  BY DEF Max
<1>3. Max(S) \in Int /\ x \in Int /\ x >= Max(S) /\ Max(S) >= x
  BY <1>1, <1>2
<1> QED
  BY <1>3

LEMMA NothingInUse ==
    ASSUME NEW t, NEW id
    PROVE  SizeIn(t, 0, id) = 0
<1>1. {0} \cup {j \in 1..0 : t[j].index = id} = {0}
  OBVIOUS
<1>2. Max({0}) = 0
  BY MaxIs
<1> QED
  BY <1>1, <1>2 DEF SizeIn

\* The next request gives its index another size and leaves the others alone.
LEMMA NextRequest ==
    ASSUME NEW t, NEW k \in Nat, NEW id
    PROVE  SizeIn(t, k + 1, id) =
              IF t[k + 1].index = id THEN t[k + 1].size ELSE SizeIn(t, k, id)
<1> DEFINE S(l) == {0} \cup {j \in 1..l : t[j].index = id}
<1>1. CASE t[k + 1].index = id
  <2>1. S(k + 1) \in SUBSET Int /\ k + 1 \in S(k + 1) /\ \A y \in S(k + 1) : k + 1 >= y
    BY <1>1
  <2> HIDE DEF S
  <2>2. Max(S(k + 1)) = k + 1
    BY <2>1, MaxIs
  <2> QED
    BY <1>1, <2>2 DEF S, SizeIn
<1>2. CASE t[k + 1].index # id
  <2>1. S(k + 1) = S(k)
    BY <1>2
  <2> QED
    BY <1>2, <2>1 DEF SizeIn
<1> QED
  BY <1>1, <1>2

\* m is the high water mark of the first k requests.
IsHigh(m, t, k) ==
    /\ m \in Nat
    /\ \E j \in 0..k : InUseIn(t, j) = m
    /\ \A j \in 0..k : InUseIn(t, j) \in Nat /\ InUseIn(t, j) <= m

LEMMA HighIsMax ==
    ASSUME NEW t, NEW k \in Nat, NEW m, IsHigh(m, t, k)
    PROVE  m = Max({InUseIn(t, j) : j \in 0..k})
<1> DEFINE S == {InUseIn(t, j) : j \in 0..k}
<1>1. S \in SUBSET Int /\ m \in S /\ \A y \in S : m >= y
  BY DEF IsHigh
<1> HIDE DEF S
<1>2. Max(S) = m
  BY <1>1, MaxIs
<1> QED
  BY <1>2 DEF S

LEMMA HighAtStart ==
    ASSUME NEW t
    PROVE  IsHigh(0, t, 0)
<1> DEFINE f == [id \in Ids |-> SizeIn(t, 0, id)]
<1>1. f \in [Ids -> Nat] /\ \A id \in Ids : f[id] = 0
  BY NothingInUse
<1>2. InUseIn(t, 0) = 0
  BY <1>1, NoBytes DEF InUseIn
<1>3. \A j \in 0..0 : j = 0
  OBVIOUS
<1> QED
  BY <1>2, <1>3 DEF IsHigh

LEMMA HighGoesOn ==
    ASSUME NEW t, NEW k \in Nat, NEW m, IsHigh(m, t, k), InUseIn(t, k + 1) \in Nat
    PROVE  IsHigh(MAX(m, InUseIn(t, k + 1)), t, k + 1)
<1> DEFINE u == InUseIn(t, k + 1)
           h == MAX(m, u)
<1>1. m \in Nat /\ u \in Nat /\ h \in Nat /\ h >= m /\ h >= u /\ (h = m \/ h = u)
  BY DEF IsHigh, MAX
<1>2. \A j \in 0..(k + 1) : j \in 0..k \/ j = k + 1
  OBVIOUS
<1>3. \A j \in 0..k : j \in 0..(k + 1)
  OBVIOUS
<1>4. k + 1 \in 0..(k + 1)
  OBVIOUS
<1> HIDE DEF h
<1>5. \E j \in 0..(k + 1) : InUseIn(t, j) = h
  <2>1. CASE h = u
    BY <1>4, <2>1
  <2>2. CASE h = m
    <3>1. PICK j \in 0..k : InUseIn(t, j) = m
      BY DEF IsHigh
    <3> QED
      BY <1>3, <2>2, <3>1
  <2> QED
    BY <1>1, <2>1, <2>2
<1>6. \A j \in 0..(k + 1) : InUseIn(t, j) \in Nat /\ InUseIn(t, j) <= h
  <2> SUFFICES ASSUME NEW j \in 0..(k + 1)
               PROVE  InUseIn(t, j) \in Nat /\ InUseIn(t, j) <= h
    OBVIOUS
  <2>1. CASE j = k + 1
    BY <1>1, <2>1
  <2>2. CASE j \in 0..k
    <3>1. InUseIn(t, j) \in Nat /\ InUseIn(t, j) <= m
      BY <2>2 DEF IsHigh
    <3> QED
      BY <1>1, <3>1
  <2> QED
    BY <1>2, <2>1, <2>2
<1> QED
  BY <1>1, <1>5, <1>6 DEF IsHigh, h

\* The sizes the driver remembers are those the trace leaves.
Remembered(f, t, k) ==
    /\ f \in [Ids -> Nat]
    /\ \A id \in Ids : f[id] = SizeIn(t, k, id)

LEMMA RememberedCount ==
    ASSUME NEW f, NEW t, NEW k, Remembered(f, t, k)
    PROVE  InUseIn(t, k) = Cardinality(Bytes(f)) /\ Cardinality(Bytes(f)) \in Nat
<1>1. f = [id \in Ids |-> SizeIn(t, k, id)]
  BY DEF Remembered
<1> QED
  BY <1>1, BytesFinite DEF Remembered, InUseIn

\* After one more request.
LEMMA RememberedNext ==
    ASSUME NEW f, NEW t, NEW k \in Nat, Remembered(f, t, k),
           t[k + 1].index \in Ids, t[k + 1].size \in Nat
    PROVE  Remembered([f EXCEPT ![t[k + 1].index] = t[k + 1].size], t, k + 1)
  BY NextRequest DEF Remembered

LEMMA RememberedStart ==
    ASSUME NEW f \in [Ids -> Nat], NEW t, \A id \in Ids : f[id] = 0
    PROVE  Remembered(f, t, 0)
  BY NothingInUse DEF Remembered

(***************************************************************************)
(* The measurements of one trace                                           *)
(***************************************************************************)
Measures == {"speed", "timed", "measured"}

\* When the counter was read for the first of the calls.
Since(c) == /\ c \in Nat
            /\ cyc = access_counter(c)
            /\ c <= counter
            /\ samples # <<>> => c < counter

SamplesInv ==
    /\ USE_FCYC \in BOOLEAN
    /\ counter \in Nat
    /\ samples \in Seq(Nat \ {0})
    /\ samples # <<>> => pass \in Measures \cup {"app_error"}
    /\ pass \in Measures \/ samples # <<>> =>
          /\ samplecount = Len(samples)
          /\ USE_FCYC => Best(values, samples)
    /\ pass \in {"timed", "measured"} => samples # <<>>
    /\ USE_FCYC => counter < WORD * WORD
    /\ USE_FCYC /\ pass = "speed" => cyc = access_counter(counter)
    /\ ~USE_FCYC /\ pass \in Measures => \E c : Since(c)

LEMMA CountingFrom ==
    ASSUME NEW c \in Nat, counter \in Nat, cyc = access_counter(c)
    PROVE  Elapsed = counter - c
<1>1. WORD \in Nat \ {0}
  BY Square
<1> DEFINE h == c \div WORD
           l == c % WORD
           nh == counter \div WORD
           nl == counter % WORD
<1>2. c = WORD * h + l /\ l \in 0..(WORD - 1) /\ h \in Nat
  BY <1>1, DivMod
<1>3. counter = WORD * nh + nl /\ nl \in 0..(WORD - 1) /\ nh \in Nat
  BY <1>1, DivMod
<1>4. Elapsed = (nh - h) * WORD + nl - l
  BY DEF Elapsed, access_counter
<1> HIDE DEF h, l, nh, nl
<1>5. (nh - h) * WORD = WORD * nh - WORD * h
  BY <1>1, <1>2, <1>3
<1> QED
  BY <1>1, <1>2, <1>3, <1>4, <1>5

\* A measured trace took time.
LEMMA TimeTaken ==
    ASSUME SamplesInv, pass = "measured"
    PROVE  fsecs \in Nat /\ fsecs > 0
<1>1. /\ samples \in Seq(Nat \ {0}) /\ samples # <<>> /\ samplecount = Len(samples)
      /\ USE_FCYC => Best(values, samples)
      /\ ~USE_FCYC => \E c : Since(c)
      /\ counter \in Nat /\ USE_FCYC \in BOOLEAN
  BY DEF SamplesInv, Measures
<1>2. CASE USE_FCYC
  <2>1. Len(samples) \in Nat /\ Len(samples) >= 1 /\ kbest \in Nat \ {0}
    BY <1>1, FcycAssumption
  <2>2. 1 \in 1..MinOf(Len(samples), kbest)
    BY <2>1 DEF MinOf
  <2>3. Cardinality(AtMost(samples, values[1])) >= 1 /\ values[1] \in Nat
    BY <1>1, <1>2, <2>1, <2>2 DEF Best, Kth
  <2>4. AtMost(samples, values[1]) # {}
    <3>1. Cardinality({}) = 0
      BY FS_EmptySet
    <3> QED
      BY <2>3, <3>1
  <2>5. PICK j \in DOMAIN samples : samples[j] <= values[1]
    BY <2>4 DEF AtMost
  <2>6. samples[j] \in Nat \ {0}
    BY <1>1
  <2> QED
    BY <1>2, <2>3, <2>5, <2>6 DEF fsecs
<1>3. CASE ~USE_FCYC
  <2>1. PICK c : Since(c)
    BY <1>1, <1>3
  <2>2. c \in Nat /\ cyc = access_counter(c) /\ c < counter
    BY <1>1, <2>1 DEF Since
  <2>3. Elapsed = counter - c
    BY <1>1, <2>2, CountingFrom
  <2> QED
    BY <1>1, <1>3, <2>2, <2>3 DEF fsecs
<1> QED
  BY <1>1, <1>2, <1>3

LEMMA SamplesBest ==
    ASSUME SamplesInv
    PROVE  BestOfSamples
<1> SUFFICES ASSUME samples # <<>>
             PROVE  /\ samplecount = Len(samples)
                    /\ USE_FCYC => \A k \in 1..kbest :
                          k <= Len(samples) => KthSmallest(k, values[k])
  BY DEF BestOfSamples
<1>1. samplecount = Len(samples) /\ (USE_FCYC => Best(values, samples))
  BY DEF SamplesInv
<1>2. ASSUME USE_FCYC, NEW k \in 1..kbest, k <= Len(samples)
      PROVE  KthSmallest(k, values[k])
  <2>1. k \in 1..MinOf(Len(samples), kbest)
    BY <1>2, FcycAssumption DEF MinOf
  <2> QED
    BY <1>1, <1>2, <2>1 DEF Best, Kth, KthSmallest, Smaller, AtMost
<1> QED
  BY <1>1, <1>2

(***************************************************************************)
(* Steps that measure                                                      *)
(***************************************************************************)
LEMMA NothingMeasured ==
    ASSUME NEW vs \in [1..kbest -> Nat]
    PROVE  Best(vs, <<>>)
<1>1. MinOf(Len(<<>>), kbest) = 0
  BY FcycAssumption DEF MinOf
<1> QED
  BY <1>1 DEF Best, Sorted

LEMMA FirstCallMeasures ==
    ASSUME SamplesInv, UtilOver
    PROVE  SamplesInv'
<1>1. /\ values' = [k \in 1..kbest |-> 0] /\ samplecount' = 0
      /\ counter' \in Readings /\ cyc' = access_counter(counter') /\ samples' = <<>>
      /\ USE_FCYC' = USE_FCYC /\ pass' = "speed"
  BY DEF UtilOver, FirstCall, init_sampler, Restart
<1>2. counter' \in Nat /\ counter' < WORD * WORD
  BY <1>1, Square, FcycAssumption
<1>3. Best(values', samples')
  <2>1. values' \in [1..kbest -> Nat]
    BY <1>1
  <2> QED
    BY <1>1, <2>1, NothingMeasured
<1>4. Since(counter)'
  BY <1>1, <1>2 DEF Since, access_counter
<1>5. samplecount' = Len(samples')
  BY <1>1
<1>6. (\E c : Since(c))'
  BY <1>4
<1>7. Best(values, samples)' /\ (cyc = access_counter(counter))'
  BY <1>1, <1>3 DEF Best, Sorted, Kth, Smaller, AtMost, access_counter
<1> QED
  BY <1>1, <1>2, <1>5, <1>6, <1>7 DEF SamplesInv, Measures

LEMMA CallEndsMeasures ==
    ASSUME SamplesInv, SpeedOver
    PROVE  SamplesInv'
<1>1. PICK t \in Timings : CallEnds(t)
  BY DEF SpeedOver
<1>2. pass = "speed" /\ pass' = "timed"
  BY DEF SpeedOver, PassOver
<1> DEFINE d == t.cycles + t.ticks * cyc_per_tick
           now == counter + t.cycles + t.ticks * cyc_per_tick
<1>3. /\ t.cycles \in Nat \ {0} /\ t.ticks \in Nat
      /\ t.cycles + t.ticks * cyc_per_tick < WORD * WORD
      /\ cyc_per_tick \in Nat
  BY PassesAssumption, FcycAssumption
<1>4. t.ticks * cyc_per_tick \in Nat
  BY <1>3
<1>5. /\ counter \in Nat /\ USE_FCYC \in BOOLEAN /\ samples \in Seq(Nat \ {0})
      /\ samplecount = Len(samples)
      /\ USE_FCYC => Best(values, samples) /\ counter < WORD * WORD
                      /\ cyc = access_counter(counter)
      /\ ~USE_FCYC => \E c : Since(c)
  BY <1>2 DEF SamplesInv, Measures
<1>6. d \in Nat /\ d < WORD * WORD /\ now = counter + d /\ now \in Nat /\ now > counter
  <2> DEFINE m == t.ticks * cyc_per_tick
  <2>1. m \in Nat
    BY <1>4
  <2>2. t.cycles + m < WORD * WORD
    BY <1>3
  <2> HIDE DEF m
  <2>3. /\ t.cycles + m \in Nat /\ counter + t.cycles + m = counter + (t.cycles + m)
        /\ counter + t.cycles + m \in Nat /\ counter + t.cycles + m > counter
    BY <1>3, <1>5, <2>1
  <2> QED
    BY <2>2, <2>3 DEF m
<1>7. /\ samples' = Append(samples, t.cycles) /\ samplecount' = samplecount + 1
      /\ counter' = IF USE_FCYC THEN now % (WORD * WORD) ELSE now
      /\ values' = IF USE_FCYC
                   THEN AddSample(values, samplecount,
                                  get_counter(counter') - t.ticks * cyc_per_tick)
                   ELSE values
      /\ USE_FCYC' = USE_FCYC /\ cyc' = cyc
  BY <1>1 DEF CallEnds, get_comp_counter
<1>8. /\ samples' \in Seq(Nat \ {0}) /\ samples' # <<>> /\ samplecount' = Len(samples')
  BY <1>3, <1>5, <1>7
<1>9. CASE USE_FCYC
  <2>1. counter' = (counter + d) % (WORD * WORD)
    BY <1>6, <1>7, <1>9
  <2>2. get_counter(counter') = d
    <3> HIDE DEF d
    <3> QED
      BY <1>5, <1>6, <1>9, <2>1, CounterDifference
  <2>3. get_counter(counter') - t.ticks * cyc_per_tick = t.cycles
    BY <1>3, <1>4, <2>2
  <2>4. values' = AddSample(values, Len(samples), t.cycles)
    BY <1>5, <1>7, <1>9, <2>3
  <2>5. Best(values', samples')
    <3>1. samples \in Seq(Nat) /\ t.cycles \in Nat
      BY <1>3, <1>5
    <3> QED
      BY <1>5, <1>7, <1>9, <2>4, <3>1, AddSampleBest
  <2>6. counter' \in Nat /\ counter' < WORD * WORD
    <3> DEFINE S == WORD * WORD
               x == counter + d
    <3>1. S \in Nat \ {0} /\ x \in Nat
      BY <1>5, <1>6, Square
    <3>2. counter' = x % S
      BY <2>1
    <3> HIDE DEF S, x
    <3>3. counter' \in Nat /\ counter' < S
      BY <3>1, <3>2
    <3> QED
      BY <3>3 DEF S
  <2>7. Best(values, samples)'
    BY <2>5 DEF Best, Sorted, Kth, Smaller, AtMost
  <2> QED
    BY <1>2, <1>5, <1>7, <1>8, <1>9, <2>6, <2>7 DEF SamplesInv, Measures
<1>10. CASE ~USE_FCYC
  <2>1. counter' = now
    BY <1>7, <1>10
  <2> HIDE DEF now
  <2>2. PICK c : Since(c)
    BY <1>5, <1>10
  <2>3. c \in Nat /\ cyc' = access_counter(c) /\ c < counter' /\ counter' \in Nat
    BY <1>5, <1>6, <1>7, <2>1, <2>2 DEF Since
  <2>4. Since(c)'
    BY <2>3 DEF Since, access_counter
  <2>5. (\E x : Since(x))'
    BY <2>4
  <2> QED
    BY <1>2, <1>5, <1>7, <1>8, <1>10, <2>3, <2>5 DEF SamplesInv, Measures
<1> QED
  BY <1>5, <1>9, <1>10

LEMMA NextCallMeasures ==
    ASSUME SamplesInv, CalledAgain
    PROVE  SamplesInv'
<1>1. /\ pass = "timed" /\ pass' = "speed"
      /\ IF USE_FCYC THEN cyc' = access_counter(counter) ELSE cyc' = cyc
      /\ UNCHANGED <<USE_FCYC, counter, values, samplecount, samples>>
  BY DEF CalledAgain, NextCall, start_comp_counter, Restart
<1>2. Best(values, samples)' = Best(values, samples)
  BY <1>1 DEF Best, Sorted, Kth, Smaller, AtMost
<1>3. USE_FCYC => (cyc = access_counter(counter))'
  BY <1>1 DEF access_counter
<1>4. ~USE_FCYC /\ (\E c : Since(c)) => (\E c : Since(c))'
  BY <1>1 DEF Since, access_counter
<1> QED
  BY <1>1, <1>2, <1>3, <1>4 DEF SamplesInv, Measures

\* The driver does something else.
LEMMA SamplesKept ==
    ASSUME SamplesInv, UNCHANGED fcycVars,
           samples # <<>> => pass' \in Measures \cup {"app_error"},
           pass' \in Measures => pass \in Measures,
           pass' = "speed" => pass = "speed",
           pass' \in {"timed", "measured"} => pass \in {"timed", "measured"}
    PROVE  SamplesInv'
<1>1. UNCHANGED <<USE_FCYC, counter, cyc, values, samplecount, samples>>
  BY DEF fcycVars
<1>2. Best(values, samples)' = Best(values, samples)
  BY <1>1 DEF Best, Sorted, Kth, Smaller, AtMost
<1>3. (cyc = access_counter(counter))' = (cyc = access_counter(counter))
  BY <1>1 DEF access_counter
<1>4. (\E c : Since(c)) => (\E c : Since(c))'
  BY <1>1 DEF Since, access_counter
<1> QED
  BY <1>1, <1>2, <1>3, <1>4 DEF SamplesInv

LEMMA EvaluateMeasures ==
    ASSUME SamplesInv, Evaluate
    PROVE  SamplesInv'
<1>1. CASE PackageRuns \/ Interpret \/ Answered
  <2>1. UNCHANGED fcycVars /\ pass' = pass
    BY <1>1 DEF PackageRuns, passVars, traceVars, Interpret, Answered
  <2> QED
    BY <2>1, SamplesKept DEF SamplesInv
<1>2. CASE CallFailed \/ InitFailed \/ Accepted \/ Measured
  <2>1. /\ UNCHANGED fcycVars
        /\ \/ pass \in Passes /\ pass' = IF pass = "valid" THEN "rejected" ELSE "app_error"
           \/ pass = "valid" /\ pass' = "util"
           \/ pass = "timed" /\ pass' = "measured"
    BY <1>2 DEF CallFailed, InitFailed, Outcome, Accepted, PassOver, Restart, Measured
  <2>2. pass \in {"valid", "util"} => samples = <<>>
    BY DEF SamplesInv, Measures
  <2> QED
    BY <2>1, <2>2, SamplesKept DEF SamplesInv, Measures, Passes
<1> QED
  BY <1>1, <1>2, FirstCallMeasures, CallEndsMeasures, NextCallMeasures DEF Evaluate

(***************************************************************************)
(* main                                                                    *)
(***************************************************************************)
\* What is known of a trace file: it was accepted and measured, or neither.
FileStats ==
    [ops : Nat, valid : BOOLEAN, util : Nat \X Nat, secs : Nat]

True(stats) ==
    IF stats.valid
    THEN stats.util[1] <= stats.util[2] /\ stats.secs > 0
    ELSE stats.util = <<0, 0>> /\ stats.secs = 0

ValidAmong(st) == {k \in 1..Len(st) : st[k].valid}

\* errs counts the files that were rejected.
Counts(st, errs) ==
    /\ st \in Seq(FileStats)
    /\ \A k \in 1..Len(st) : True(st[k])
    /\ errs \in Nat
    /\ Cardinality(ValidAmong(st)) + errs = Len(st)

MainInv ==
    /\ setup \in Setups
    /\ file \in Nat
    /\ pass # "none" => phase = "mm" /\ file < num_tracefiles
    /\ phase \in {"start", "libc"} => mm_stats = <<>> /\ errors = 0
    /\ phase = "start" => file = 0
    /\ phase \in {"mm", "done"} => Counts(mm_stats, errors) /\ Len(mm_stats) = file
    /\ phase = "done" =>
          /\ file = num_tracefiles
          /\ printed.perfindex = (errors = 0)
          /\ printed.numcorrect = Cardinality(ValidAmong(mm_stats))

LEMMA ValidCount ==
    ASSUME NEW st \in Seq(FileStats)
    PROVE  IsFiniteSet(ValidAmong(st)) /\ Cardinality(ValidAmong(st)) \in Nat
<1>1. Len(st) \in Nat /\ IsFiniteSet(1..Len(st))
  BY UpTo
<1>2. ValidAmong(st) \in SUBSET (1..Len(st))
  BY DEF ValidAmong
<1>3. IsFiniteSet(ValidAmong(st))
  BY <1>1, <1>2, FS_Subset
<1> QED
  BY <1>3, FS_CardinalityType

LEMMA NoFiles == Counts(<<>>, 0)
<1>1. ValidAmong(<<>>) = {}
  BY DEF ValidAmong
<1> QED
  BY <1>1, FS_EmptySet DEF Counts

LEMMA OneMoreFile ==
    ASSUME NEW st, NEW errs, Counts(st, errs), NEW s \in FileStats, True(s)
    PROVE  Counts(Append(st, s), errs + (IF s.valid THEN 0 ELSE 1))
<1> DEFINE tt == Append(st, s)
           l == Len(st) + 1
<1>1. /\ st \in Seq(FileStats) /\ Len(st) \in Nat /\ errs \in Nat /\ s.valid \in BOOLEAN
      /\ tt \in Seq(FileStats) /\ Len(tt) = l /\ tt[l] = s
      /\ \A k \in 1..Len(st) : tt[k] = st[k]
      /\ 1..l = (1..Len(st)) \cup {l} /\ l \notin 1..Len(st)
  <2>1. st \in Seq(FileStats) /\ Len(st) \in Nat /\ errs \in Nat
    BY DEF Counts
  <2>2. s.valid \in BOOLEAN
    BY DEF FileStats
  <2>3. 1..l = (1..Len(st)) \cup {l} /\ l \notin 1..Len(st)
    BY <2>1
  <2>4. /\ tt \in Seq(FileStats) /\ Len(tt) = l /\ tt[l] = s
        /\ \A k \in 1..Len(st) : tt[k] = st[k]
    BY <2>1
  <2> QED
    BY <2>1, <2>2, <2>3, <2>4
<1>2. \A k \in 1..Len(tt) : True(tt[k])
  BY <1>1 DEF Counts
<1> HIDE DEF tt, l
<1>3. /\ ValidAmong(tt) = IF s.valid THEN ValidAmong(st) \cup {l} ELSE ValidAmong(st)
      /\ l \notin ValidAmong(st)
  BY <1>1 DEF ValidAmong
<1>4. /\ IsFiniteSet(ValidAmong(st)) /\ Cardinality(ValidAmong(st)) \in Nat
      /\ Cardinality(ValidAmong(st)) + errs = Len(st)
  BY <1>1, ValidCount DEF Counts
<1>5. Cardinality(ValidAmong(st) \cup {l}) = Cardinality(ValidAmong(st)) + 1
  BY <1>3, <1>4, FS_AddElement
<1>6. CASE s.valid
  <2>1. Cardinality(ValidAmong(tt)) + errs = Len(tt)
    BY <1>1, <1>3, <1>4, <1>5, <1>6 DEF l
  <2> QED
    BY <1>1, <1>2, <1>6, <2>1 DEF Counts, tt
<1>7. CASE ~s.valid
  <2>1. Cardinality(ValidAmong(tt)) + (errs + 1) = Len(tt) /\ errs + 1 \in Nat
    BY <1>1, <1>3, <1>4, <1>7 DEF l
  <2> QED
    BY <1>1, <1>2, <1>7, <2>1 DEF Counts, tt
<1> QED
  BY <1>6, <1>7

\* No errors: all the files are valid.
LEMMA AllValid ==
    ASSUME NEW st, NEW errs, Counts(st, errs)
    PROVE  errs = 0 <=> \A k \in 1..Len(st) : st[k].valid
<1> DEFINE V == ValidAmong(st)
           All == 1..Len(st)
<1>1. /\ st \in Seq(FileStats) /\ Len(st) \in Nat /\ errs \in Nat
      /\ Cardinality(V) + errs = Len(st)
  BY DEF Counts
<1>2. IsFiniteSet(V) /\ Cardinality(V) \in Nat
  BY <1>1, ValidCount
<1>3. IsFiniteSet(All) /\ Cardinality(All) = Len(st)
  BY <1>1, UpTo
<1>4. V \in SUBSET All /\ (V = All <=> \A k \in All : st[k].valid)
  BY DEF ValidAmong
<1> HIDE DEF V, All
<1>5. Cardinality(V) = Cardinality(All) => V = All
  BY <1>3, <1>4, FS_Subset
<1>6. errs = 0 <=> V = All
  BY <1>1, <1>2, <1>3, <1>5
<1> QED
  BY <1>4, <1>6 DEF All

LEMMA ReportIsTrue ==
    ASSUME MainInv
    PROVE  ReportTrue
<1> SUFFICES ASSUME phase = "done"
             PROVE  /\ printed.perfindex <=> \A k \in 1..num_tracefiles : mm_stats[k].valid
                    /\ printed.numcorrect + errors = num_tracefiles
                    /\ \A k \in 1..num_tracefiles : True(mm_stats[k])
  BY DEF ReportTrue, True
<1>1. /\ Counts(mm_stats, errors) /\ Len(mm_stats) = num_tracefiles
      /\ printed.perfindex = (errors = 0)
      /\ printed.numcorrect = Cardinality(ValidAmong(mm_stats))
  BY DEF MainInv
<1>2. errors = 0 <=> \A k \in 1..num_tracefiles : mm_stats[k].valid
  BY <1>1, AllValid
<1> QED
  BY <1>1, <1>2 DEF Counts

(***************************************************************************)
(* The package: the proofs of the three allocators                         *)
(***************************************************************************)
DongukProofs == INSTANCE DongukMmProofs WITH recently_visited <- rover
SungjooProofs == INSTANCE SungjooMmProofs WITH last_bp <- rover
SanglimProofs == INSTANCE SanglimMmProofs WITH NF_pointer <- rover

\* The actions of the driver's instances are those the proofs speak of.
LEMMA DongukTagsSame ==
    /\ \A m, p, size, alloc : Donguk!Mark(m, p, size, alloc) = DongukProofs!Mark(m, p, size, alloc)
    /\ \A m, p, size : /\ Donguk!NewBlock(m, p, size) = DongukProofs!NewBlock(m, p, size)
                       /\ Donguk!Place(m, p, size) = DongukProofs!Place(m, p, size)
    /\ \A m, p : /\ Donguk!EmptyHeap(m, p) = DongukProofs!EmptyHeap(m, p)
                 /\ Donguk!MarkFree(m, p) = DongukProofs!MarkFree(m, p)
                 /\ Donguk!CoalescedBp(m, p) = DongukProofs!CoalescedBp(m, p)
                 /\ Donguk!Coalesce(m, p) = DongukProofs!Coalesce(m, p)
<1> USE DEF Donguk!PUT, DongukProofs!PUT, Donguk!PACK, DongukProofs!PACK,
            Donguk!WSIZE, DongukProofs!WSIZE, Donguk!DSIZE, DongukProofs!DSIZE,
            Donguk!HDRP, DongukProofs!HDRP, Donguk!FTRP, DongukProofs!FTRP,
            Donguk!GET_SIZE, DongukProofs!GET_SIZE,
            Donguk!NEXT_BLKP, DongukProofs!NEXT_BLKP
<1>1. ASSUME NEW m, NEW p, NEW size, NEW alloc
      PROVE  Donguk!Mark(m, p, size, alloc) = DongukProofs!Mark(m, p, size, alloc)
  BY Zenon DEF Donguk!Mark, DongukProofs!Mark
<1>2. ASSUME NEW m, NEW lo
      PROVE  Donguk!EmptyHeap(m, lo) = DongukProofs!EmptyHeap(m, lo)
  BY Zenon DEF Donguk!EmptyHeap, DongukProofs!EmptyHeap
<1>3. ASSUME NEW m, NEW p, NEW size
      PROVE  /\ Donguk!NewBlock(m, p, size) = DongukProofs!NewBlock(m, p, size)
             /\ Donguk!Place(m, p, size) = DongukProofs!Place(m, p, size)
  <2>1. Donguk!NewBlock(m, p, size) = DongukProofs!NewBlock(m, p, size)
    BY <1>1, Zenon DEF Donguk!NewBlock, DongukProofs!NewBlock
  <2>2. Donguk!Place(m, p, size) = DongukProofs!Place(m, p, size)
    BY <1>1, Zenon DEF Donguk!Place, DongukProofs!Place, Donguk!Splits, DongukProofs!Splits
  <2> QED
    BY <2>1, <2>2
<1>4. ASSUME NEW m, NEW p
      PROVE  Donguk!MarkFree(m, p) = DongukProofs!MarkFree(m, p)
  BY <1>1, Zenon DEF Donguk!MarkFree, DongukProofs!MarkFree
<1>5. ASSUME NEW m, NEW p
      PROVE  /\ Donguk!Coalesce(m, p) = DongukProofs!Coalesce(m, p)
             /\ Donguk!CoalescedBp(m, p) = DongukProofs!CoalescedBp(m, p)
  <2> USE DEF Donguk!PREV_BLKP, DongukProofs!PREV_BLKP
  <2>1. /\ Donguk!PrevAlloc(m, p) = DongukProofs!PrevAlloc(m, p)
        /\ Donguk!NextAlloc(m, p) = DongukProofs!NextAlloc(m, p)
    BY Zenon DEF Donguk!PrevAlloc, DongukProofs!PrevAlloc,
                 Donguk!NextAlloc, DongukProofs!NextAlloc,
                 Donguk!GET_ALLOC, DongukProofs!GET_ALLOC
  <2>2. Donguk!CoalescedBp(m, p) = DongukProofs!CoalescedBp(m, p)
    BY <2>1, Zenon DEF Donguk!CoalescedBp, DongukProofs!CoalescedBp
  <2>3. Donguk!Coalesce(m, p) = DongukProofs!Coalesce(m, p)
    BY <1>1, <2>1, Zenon DEF Donguk!Coalesce, DongukProofs!Coalesce
  <2> QED
    BY <2>2, <2>3
<1> QED
  BY <1>1, <1>2, <1>3, <1>4, <1>5

LEMMA DongukSame ==
    /\ Donguk!Run => DongukProofs!Run
    /\ \A id, size : /\ Donguk!mm_malloc(id, size) => DongukProofs!mm_malloc(id, size)
                     /\ Donguk!mm_realloc(id, size) => DongukProofs!mm_realloc(id, size)
    /\ \A id : Donguk!mm_free(id) => DongukProofs!mm_free(id)
<1> USE DongukTagsSame
    DEF Donguk!WSIZE, DongukProofs!WSIZE, Donguk!DSIZE, DongukProofs!DSIZE,
        Donguk!NULL, DongukProofs!NULL, Donguk!MAX, DongukProofs!MAX,
        Donguk!HDRP, DongukProofs!HDRP, Donguk!GET_SIZE, DongukProofs!GET_SIZE,
        Donguk!GET_ALLOC, DongukProofs!GET_ALLOC,
        Donguk!NEXT_BLKP, DongukProofs!NEXT_BLKP,
        Donguk!ExtendBytes, DongukProofs!ExtendBytes,
        Donguk!AdjustedSize, DongukProofs!AdjustedSize,
        Donguk!Fits, DongukProofs!Fits,
        Donguk!SbrkFails, DongukProofs!SbrkFails,
        Donguk!mem_start_brk, DongukProofs!mem_start_brk,
        Donguk!asize, DongukProofs!asize,
        Donguk!heap_listp, DongukProofs!heap_listp
<1>1. Donguk!Run => DongukProofs!Run
  <2>1. Donguk!mm_init => DongukProofs!mm_init
    BY Zenon DEF Donguk!mm_init, DongukProofs!mm_init, Donguk!InitFails,
                 DongukProofs!InitFails
  <2>2. Donguk!Scan => DongukProofs!Scan
    BY Zenon DEF Donguk!Scan, DongukProofs!Scan, Donguk!Found, DongukProofs!Found,
             Donguk!Allocated, DongukProofs!Allocated,
             Donguk!Searching, DongukProofs!Searching
  <2>3. Donguk!Wrap => DongukProofs!Wrap
    BY Zenon DEF Donguk!Wrap, DongukProofs!Wrap, Donguk!WrapGoesOn,
                 DongukProofs!WrapGoesOn, Donguk!Found, DongukProofs!Found,
                 Donguk!Allocated, DongukProofs!Allocated, Donguk!Searching,
                 DongukProofs!Searching
  <2>4. Donguk!Extend => DongukProofs!Extend
    BY ZenonT(40) DEF Donguk!Extend, DongukProofs!Extend, Donguk!Allocated,
                 DongukProofs!Allocated
  <2>5. Donguk!Copy => DongukProofs!Copy
    BY Zenon DEF Donguk!Copy, DongukProofs!Copy, Donguk!CopySize, DongukProofs!CopySize,
             Donguk!memcpy, DongukProofs!memcpy,
             Donguk!FreeIn, DongukProofs!FreeIn
  <2> QED
    BY <2>1, <2>2, <2>3, <2>4, <2>5, Zenon DEF Donguk!Run, DongukProofs!Run
<1>2. ASSUME NEW id, NEW size
      PROVE  /\ Donguk!mm_malloc(id, size) => DongukProofs!mm_malloc(id, size)
             /\ Donguk!mm_realloc(id, size) => DongukProofs!mm_realloc(id, size)
             /\ Donguk!mm_free(id) => DongukProofs!mm_free(id)
  BY Zenon DEF Donguk!mm_malloc, DongukProofs!mm_malloc,
           Donguk!mm_realloc, DongukProofs!mm_realloc,
           Donguk!mm_free, DongukProofs!mm_free,
           Donguk!FreeIn, DongukProofs!FreeIn,
           Donguk!CallStarts, DongukProofs!CallStarts,
           Donguk!memVars, DongukProofs!memVars
<1> QED
  BY <1>1, <1>2

LEMMA SungjooTagsSame ==
    /\ \A m, p, size, alloc : Sungjoo!Mark(m, p, size, alloc) = SungjooProofs!Mark(m, p, size, alloc)
    /\ \A m, p, size : /\ Sungjoo!NewBlock(m, p, size) = SungjooProofs!NewBlock(m, p, size)
                       /\ Sungjoo!Place(m, p, size) = SungjooProofs!Place(m, p, size)
    /\ \A m, p : /\ Sungjoo!EmptyHeap(m, p) = SungjooProofs!EmptyHeap(m, p)
                 /\ Sungjoo!MarkFree(m, p) = SungjooProofs!MarkFree(m, p)
                 /\ Sungjoo!CoalescedBp(m, p) = SungjooProofs!CoalescedBp(m, p)
                 /\ Sungjoo!Coalesce(m, p) = SungjooProofs!Coalesce(m, p)
<1> USE DEF Sungjoo!PUT, SungjooProofs!PUT, Sungjoo!PACK, SungjooProofs!PACK,
            Sungjoo!WSIZE, SungjooProofs!WSIZE, Sungjoo!DSIZE, SungjooProofs!DSIZE,
            Sungjoo!HDRP, SungjooProofs!HDRP, Sungjoo!FTRP, SungjooProofs!FTRP,
            Sungjoo!GET_SIZE, SungjooProofs!GET_SIZE,
            Sungjoo!NEXT_BLKP, SungjooProofs!NEXT_BLKP
<1>1. ASSUME NEW m, NEW p, NEW size, NEW alloc
      PROVE  Sungjoo!Mark(m, p, size, alloc) = SungjooProofs!Mark(m, p, size, alloc)
  BY Zenon DEF Sungjoo!Mark, SungjooProofs!Mark
<1>2. ASSUME NEW m, NEW lo
      PROVE  Sungjoo!EmptyHeap(m, lo) = SungjooProofs!EmptyHeap(m, lo)
  BY Zenon DEF Sungjoo!EmptyHeap, SungjooProofs!EmptyHeap
<1>3. ASSUME NEW m, NEW p, NEW size
      PROVE  /\ Sungjoo!NewBlock(m, p, size) = SungjooProofs!NewBlock(m, p, size)
             /\ Sungjoo!Place(m, p, size) = SungjooProofs!Place(m, p, size)
  <2>1. Sungjoo!NewBlock(m, p, size) = SungjooProofs!NewBlock(m, p, size)
    BY <1>1, Zenon DEF Sungjoo!NewBlock, SungjooProofs!NewBlock
  <2>2. Sungjoo!Place(m, p, size) = SungjooProofs!Place(m, p, size)
    BY <1>1, Zenon DEF Sungjoo!Place, SungjooProofs!Place, Sungjoo!Splits, SungjooProofs!Splits
  <2> QED
    BY <2>1, <2>2
<1>4. ASSUME NEW m, NEW p
      PROVE  Sungjoo!MarkFree(m, p) = SungjooProofs!MarkFree(m, p)
  BY <1>1, Zenon DEF Sungjoo!MarkFree, SungjooProofs!MarkFree
<1>5. ASSUME NEW m, NEW p
      PROVE  /\ Sungjoo!Coalesce(m, p) = SungjooProofs!Coalesce(m, p)
             /\ Sungjoo!CoalescedBp(m, p) = SungjooProofs!CoalescedBp(m, p)
  <2> USE DEF Sungjoo!PREV_BLKP, SungjooProofs!PREV_BLKP
  <2>1. /\ Sungjoo!PrevAlloc(m, p) = SungjooProofs!PrevAlloc(m, p)
        /\ Sungjoo!NextAlloc(m, p) = SungjooProofs!NextAlloc(m, p)
    BY Zenon DEF Sungjoo!PrevAlloc, SungjooProofs!PrevAlloc,
                 Sungjoo!NextAlloc, SungjooProofs!NextAlloc,
                 Sungjoo!GET_ALLOC, SungjooProofs!GET_ALLOC
  <2>2. Sungjoo!CoalescedBp(m, p) = SungjooProofs!CoalescedBp(m, p)
    BY <2>1, Zenon DEF Sungjoo!CoalescedBp, SungjooProofs!CoalescedBp
  <2>3. Sungjoo!Coalesce(m, p) = SungjooProofs!Coalesce(m, p)
    BY <1>1, <2>1, Zenon DEF Sungjoo!Coalesce, SungjooProofs!Coalesce
  <2> QED
    BY <2>2, <2>3
<1> QED
  BY <1>1, <1>2, <1>3, <1>4, <1>5

LEMMA SungjooSame ==
    /\ Sungjoo!Run => SungjooProofs!Run
    /\ \A id, size : /\ Sungjoo!mm_malloc(id, size) => SungjooProofs!mm_malloc(id, size)
                     /\ Sungjoo!mm_realloc(id, size) => SungjooProofs!mm_realloc(id, size)
    /\ \A id : Sungjoo!mm_free(id) => SungjooProofs!mm_free(id)
<1> USE SungjooTagsSame
    DEF Sungjoo!WSIZE, SungjooProofs!WSIZE, Sungjoo!DSIZE, SungjooProofs!DSIZE,
        Sungjoo!NULL, SungjooProofs!NULL, Sungjoo!MAX, SungjooProofs!MAX,
        Sungjoo!HDRP, SungjooProofs!HDRP,
        Sungjoo!GET_SIZE, SungjooProofs!GET_SIZE,
        Sungjoo!GET_ALLOC, SungjooProofs!GET_ALLOC,
        Sungjoo!NEXT_BLKP, SungjooProofs!NEXT_BLKP,
        Sungjoo!ExtendBytes, SungjooProofs!ExtendBytes,
        Sungjoo!AdjustedSize, SungjooProofs!AdjustedSize,
        Sungjoo!Fits, SungjooProofs!Fits,
        Sungjoo!SbrkFails, SungjooProofs!SbrkFails,
        Sungjoo!mem_start_brk, SungjooProofs!mem_start_brk,
        Sungjoo!asize, SungjooProofs!asize,
        Sungjoo!heap_listp, SungjooProofs!heap_listp
<1>1. Sungjoo!Run => SungjooProofs!Run
  <2>1. Sungjoo!mm_init => SungjooProofs!mm_init
    BY Zenon DEF Sungjoo!mm_init, SungjooProofs!mm_init
  <2>2. Sungjoo!next_fit => SungjooProofs!next_fit
    BY Zenon DEF Sungjoo!next_fit, SungjooProofs!next_fit, Sungjoo!Step,
                 SungjooProofs!Step, Sungjoo!Allocated, SungjooProofs!Allocated,
                 Sungjoo!Searching, SungjooProofs!Searching
  <2>3. Sungjoo!find_fit => SungjooProofs!find_fit
    BY Zenon DEF Sungjoo!find_fit, SungjooProofs!find_fit, Sungjoo!Step,
                 SungjooProofs!Step, Sungjoo!Allocated, SungjooProofs!Allocated,
                 Sungjoo!Searching, SungjooProofs!Searching
  <2>4. Sungjoo!extend_heap => SungjooProofs!extend_heap
    BY ZenonT(40) DEF Sungjoo!extend_heap, SungjooProofs!extend_heap,
             Sungjoo!Allocated, SungjooProofs!Allocated
  <2>5. Sungjoo!Copy => SungjooProofs!Copy
    BY Zenon DEF Sungjoo!Copy, SungjooProofs!Copy, Sungjoo!CopySize,
                 SungjooProofs!CopySize, Sungjoo!memcpy, SungjooProofs!memcpy,
                 Sungjoo!FreeIn, SungjooProofs!FreeIn
  <2> QED
    BY <2>1, <2>2, <2>3, <2>4, <2>5, Zenon DEF Sungjoo!Run, SungjooProofs!Run
<1>2. ASSUME NEW id, NEW size
      PROVE  /\ Sungjoo!mm_malloc(id, size) => SungjooProofs!mm_malloc(id, size)
             /\ Sungjoo!mm_realloc(id, size) => SungjooProofs!mm_realloc(id, size)
             /\ Sungjoo!mm_free(id) => SungjooProofs!mm_free(id)
  BY Zenon DEF Sungjoo!mm_malloc, SungjooProofs!mm_malloc,
           Sungjoo!mm_realloc, SungjooProofs!mm_realloc,
           Sungjoo!mm_free, SungjooProofs!mm_free,
           Sungjoo!FreeIn, SungjooProofs!FreeIn,
           Sungjoo!CallStarts, SungjooProofs!CallStarts,
           Sungjoo!memVars, SungjooProofs!memVars
<1> QED
  BY <1>1, <1>2

LEMMA SanglimTagsSame ==
    /\ \A m, p, size, alloc : Sanglim!Mark(m, p, size, alloc) = SanglimProofs!Mark(m, p, size, alloc)
    /\ \A m, p, size : /\ Sanglim!NewBlock(m, p, size) = SanglimProofs!NewBlock(m, p, size)
                       /\ Sanglim!Place(m, p, size) = SanglimProofs!Place(m, p, size)
    /\ \A m, p : /\ Sanglim!EmptyHeap(m, p) = SanglimProofs!EmptyHeap(m, p)
                 /\ Sanglim!MarkFree(m, p) = SanglimProofs!MarkFree(m, p)
                 /\ Sanglim!CoalescedBp(m, p) = SanglimProofs!CoalescedBp(m, p)
                 /\ Sanglim!Coalesce(m, p) = SanglimProofs!Coalesce(m, p)
<1> USE DEF Sanglim!PUT, SanglimProofs!PUT, Sanglim!PACK, SanglimProofs!PACK,
            Sanglim!WSIZE, SanglimProofs!WSIZE, Sanglim!DSIZE, SanglimProofs!DSIZE,
            Sanglim!HDRP, SanglimProofs!HDRP, Sanglim!FTRP, SanglimProofs!FTRP,
            Sanglim!GET_SIZE, SanglimProofs!GET_SIZE,
            Sanglim!NEXT_BLKP, SanglimProofs!NEXT_BLKP
<1>1. ASSUME NEW m, NEW p, NEW size, NEW alloc
      PROVE  Sanglim!Mark(m, p, size, alloc) = SanglimProofs!Mark(m, p, size, alloc)
  BY Zenon DEF Sanglim!Mark, SanglimProofs!Mark
<1>2. ASSUME NEW m, NEW lo
      PROVE  Sanglim!EmptyHeap(m, lo) = SanglimProofs!EmptyHeap(m, lo)
  BY Zenon DEF Sanglim!EmptyHeap, SanglimProofs!EmptyHeap
<1>3. ASSUME NEW m, NEW p, NEW size
      PROVE  /\ Sanglim!NewBlock(m, p, size) = SanglimProofs!NewBlock(m, p, size)
             /\ Sanglim!Place(m, p, size) = SanglimProofs!Place(m, p, size)
  <2>1. Sanglim!NewBlock(m, p, size) = SanglimProofs!NewBlock(m, p, size)
    BY <1>1, Zenon DEF Sanglim!NewBlock, SanglimProofs!NewBlock
  <2>2. Sanglim!Place(m, p, size) = SanglimProofs!Place(m, p, size)
    BY <1>1, Zenon DEF Sanglim!Place, SanglimProofs!Place, Sanglim!Splits, SanglimProofs!Splits
  <2> QED
    BY <2>1, <2>2
<1>4. ASSUME NEW m, NEW p
      PROVE  Sanglim!MarkFree(m, p) = SanglimProofs!MarkFree(m, p)
  BY <1>1, Zenon DEF Sanglim!MarkFree, SanglimProofs!MarkFree
<1>5. ASSUME NEW m, NEW p
      PROVE  /\ Sanglim!Coalesce(m, p) = SanglimProofs!Coalesce(m, p)
             /\ Sanglim!CoalescedBp(m, p) = SanglimProofs!CoalescedBp(m, p)
  <2> USE DEF Sanglim!PREV_BLKP, SanglimProofs!PREV_BLKP
  <2>1. /\ Sanglim!PrevAlloc(m, p) = SanglimProofs!PrevAlloc(m, p)
        /\ Sanglim!NextAlloc(m, p) = SanglimProofs!NextAlloc(m, p)
    BY Zenon DEF Sanglim!PrevAlloc, SanglimProofs!PrevAlloc,
                 Sanglim!NextAlloc, SanglimProofs!NextAlloc,
                 Sanglim!GET_ALLOC, SanglimProofs!GET_ALLOC
  <2>2. Sanglim!CoalescedBp(m, p) = SanglimProofs!CoalescedBp(m, p)
    BY <2>1, Zenon DEF Sanglim!CoalescedBp, SanglimProofs!CoalescedBp
  <2>3. Sanglim!Coalesce(m, p) = SanglimProofs!Coalesce(m, p)
    BY <1>1, <2>1, Zenon DEF Sanglim!Coalesce, SanglimProofs!Coalesce
  <2> QED
    BY <2>2, <2>3
<1> QED
  BY <1>1, <1>2, <1>3, <1>4, <1>5

LEMMA SanglimSame ==
    /\ Sanglim!Run => SanglimProofs!Run
    /\ \A id, size : /\ Sanglim!mm_malloc(id, size) => SanglimProofs!mm_malloc(id, size)
                     /\ Sanglim!mm_realloc(id, size) => SanglimProofs!mm_realloc(id, size)
    /\ \A id : Sanglim!mm_free(id) => SanglimProofs!mm_free(id)
    /\ \A id, size : SanglimProofs!AbsorbsRover(id, size) => Sanglim!AbsorbsRover(id, size)
<1> USE SanglimTagsSame
    DEF Sanglim!WSIZE, SanglimProofs!WSIZE, Sanglim!DSIZE, SanglimProofs!DSIZE,
        Sanglim!NULL, SanglimProofs!NULL, Sanglim!MAX, SanglimProofs!MAX,
        Sanglim!HDRP, SanglimProofs!HDRP,
        Sanglim!GET_SIZE, SanglimProofs!GET_SIZE,
        Sanglim!GET_ALLOC, SanglimProofs!GET_ALLOC,
        Sanglim!NEXT_BLKP, SanglimProofs!NEXT_BLKP,
        Sanglim!ExtendBytes, SanglimProofs!ExtendBytes,
        Sanglim!AdjustedSize, SanglimProofs!AdjustedSize,
        Sanglim!Fits, SanglimProofs!Fits,
        Sanglim!SbrkFails, SanglimProofs!SbrkFails,
        Sanglim!mem_start_brk, SanglimProofs!mem_start_brk,
        Sanglim!asize, SanglimProofs!asize,
        Sanglim!heap_listp, SanglimProofs!heap_listp
<1>1. Sanglim!Run => SanglimProofs!Run
  <2>1. Sanglim!mm_init => SanglimProofs!mm_init
    BY Zenon DEF Sanglim!mm_init, SanglimProofs!mm_init
  <2>2. Sanglim!Scan => SanglimProofs!Scan
    BY Zenon DEF Sanglim!Scan, SanglimProofs!Scan, Sanglim!Examine, SanglimProofs!Examine,
             Sanglim!Allocated, SanglimProofs!Allocated,
             Sanglim!Searching, SanglimProofs!Searching,
             Sanglim!WordAddr, SanglimProofs!WordAddr,
             Sanglim!NewSize, SanglimProofs!NewSize,
             Sanglim!get_adjusted_size, SanglimProofs!get_adjusted_size
  <2>3. Sanglim!Wrap => SanglimProofs!Wrap
    BY Zenon DEF Sanglim!Wrap, SanglimProofs!Wrap, Sanglim!WrapGoesOn,
                 SanglimProofs!WrapGoesOn, Sanglim!Examine, SanglimProofs!Examine,
                 Sanglim!Allocated, SanglimProofs!Allocated, Sanglim!Searching,
                 SanglimProofs!Searching, Sanglim!WordAddr, SanglimProofs!WordAddr,
                 Sanglim!NewSize, SanglimProofs!NewSize, Sanglim!get_adjusted_size,
                 SanglimProofs!get_adjusted_size
  <2>4. Sanglim!Extend => SanglimProofs!Extend
    BY ZenonT(40) DEF Sanglim!Extend, SanglimProofs!Extend,
             Sanglim!Allocated, SanglimProofs!Allocated,
             Sanglim!NewSize, SanglimProofs!NewSize,
             Sanglim!get_adjusted_size, SanglimProofs!get_adjusted_size
  <2>5. Sanglim!Copy => SanglimProofs!Copy
    BY Zenon DEF Sanglim!Copy, SanglimProofs!Copy, Sanglim!Copied, SanglimProofs!Copied,
             Sanglim!FreeIn, SanglimProofs!FreeIn,
             Sanglim!NewSize, SanglimProofs!NewSize
  <2> QED
    BY <2>1, <2>2, <2>3, <2>4, <2>5, Zenon DEF Sanglim!Run, SanglimProofs!Run
<1>2. ASSUME NEW id, NEW size
      PROVE  /\ Sanglim!mm_malloc(id, size) => SanglimProofs!mm_malloc(id, size)
             /\ Sanglim!mm_realloc(id, size) => SanglimProofs!mm_realloc(id, size)
             /\ Sanglim!mm_free(id) => SanglimProofs!mm_free(id)
             /\ SanglimProofs!AbsorbsRover(id, size) => Sanglim!AbsorbsRover(id, size)
  BY Zenon DEF Sanglim!mm_malloc, SanglimProofs!mm_malloc,
           Sanglim!mm_realloc, SanglimProofs!mm_realloc,
           Sanglim!mm_free, SanglimProofs!mm_free,
           Sanglim!FreeIn, SanglimProofs!FreeIn,
           Sanglim!CallStarts, SanglimProofs!CallStarts,
           Sanglim!AbsorbsRover, SanglimProofs!AbsorbsRover,
           Sanglim!Absorbs, SanglimProofs!Absorbs,
           Sanglim!Keeps, SanglimProofs!Keeps,
           Sanglim!Merged, SanglimProofs!Merged,
           Sanglim!NewSize, SanglimProofs!NewSize,
           Sanglim!memVars, SanglimProofs!memVars
<1> QED
  BY <1>1, <1>2

(***************************************************************************)
(* What a step of the package does to the variables that the driver and    *)
(* the package share.                                                      *)
(***************************************************************************)
\* Between calls and within them.
PackageTrue ==
    /\ ClientTypeOK
    /\ PayloadsDisjoint
    /\ mem_brk \in Nat
    /\ pc = "init" => mem_brk = 0

CallMade(id, size) ==
    /\ pc = "idle" /\ pc' \notin {"init", "failed", "idle"}
    /\ call' = [id |-> id, size |-> size]
    /\ owned' = [owned EXCEPT ![id] = NULL]
    /\ UNCHANGED <<reqsize, mem_brk>>

CallGoesOn ==
    /\ pc \notin {"idle", "failed", "return"}
    /\ pc' # "init"
    /\ pc' \in {"idle", "failed"} <=> pc = "init"
    /\ mem_brk' >= mem_brk
    /\ UNCHANGED <<owned, reqsize, call>>

Freed(id) ==
    /\ pc = "idle"
    /\ owned' = [owned EXCEPT ![id] = NULL]
    /\ reqsize' = [reqsize EXCEPT ![id] = 0]
    /\ UNCHANGED <<pc, call, mem_brk>>

Idles == UNCHANGED <<memVars, clientVars>>

\* What the proofs of DongukMm say of the steps the driver takes.
LEMMA DongukKeeps ==
    /\ Donguk!Init => DongukProofs!IInv
    /\ DongukProofs!IInv => PackageTrue
    /\ DongukProofs!IInv /\ Donguk!Run => DongukProofs!IInv' /\ CallGoesOn
    /\ \A id \in Ids, size \in Sizes :
          DongukProofs!IInv /\ Donguk!mm_malloc(id, size) =>
             DongukProofs!IInv' /\ CallMade(id, size)
    /\ \A id \in Ids, size \in Sizes :
          DongukProofs!IInv /\ Donguk!mm_realloc(id, size) =>
             DongukProofs!IInv' /\ CallMade(id, size)
    /\ \A id \in Ids :
          DongukProofs!IInv /\ Donguk!mm_free(id) => DongukProofs!IInv' /\ Freed(id)
    /\ DongukProofs!IInv /\ UNCHANGED rover
        /\ (Return \/ Returns(mem) \/ NewTrace \/ Idles)
          => DongukProofs!IInv'
<1> USE MemlibAssumption, ClientAssumption DEF WSIZE, DSIZE, DongukProofs!WSIZE,
       DongukProofs!DSIZE
<1>1. Donguk!Init => DongukProofs!IInv
  <2>1. Donguk!Init => DongukProofs!Init
    BY DEF Donguk!Init, Donguk!mem_init, Donguk!ClientInit, Donguk!WordAddr,
           Donguk!mem_start_brk, Donguk!NULL, Donguk!NoCall, DongukProofs!Init,
           DongukProofs!mem_init, DongukProofs!ClientInit, DongukProofs!WordAddr,
           DongukProofs!mem_start_brk, DongukProofs!NULL, DongukProofs!NoCall
  <2> QED
    BY <2>1, DongukProofs!InitIInv
<1>2. DongukProofs!IInv => PackageTrue
  <2>1. DongukProofs!IInv => DongukProofs!PayloadsDisjoint /\ DongukProofs!ClientInv
    BY DongukProofs!BlocksHoldPayloads DEF DongukProofs!IInv
  <2>2. DongukProofs!PayloadsDisjoint => PayloadsDisjoint
    BY DEF DongukProofs!PayloadsDisjoint, PayloadsDisjoint, DongukProofs!HeapReady,
           HeapReady, DongukProofs!Payloads, Payloads, DongukProofs!NULL, NULL,
           DongukProofs!mem_heap_lo, mem_heap_lo, DongukProofs!mem_heap_hi, mem_heap_hi,
           DongukProofs!mem_start_brk, mem_start_brk
  <2>3. DongukProofs!ClientInv =>
           ClientTypeOK /\ mem_brk \in Nat /\ (pc = "init" => mem_brk = 0)
    BY DEF DongukProofs!ClientInv, DongukProofs!ClientTypeOK, ClientTypeOK,
           DongukProofs!MemTypeOK, DongukProofs!CallOK
  <2> QED
    BY <2>1, <2>2, <2>3 DEF PackageTrue
<1>3. DongukProofs!IInv /\ Donguk!Run => DongukProofs!IInv' /\ CallGoesOn
  BY DongukSame, DongukProofs!RunKeeps DEF DongukProofs!PackageStep, CallGoesOn
<1>4. ASSUME DongukProofs!IInv, NEW id \in Ids, NEW size \in Sizes,
             Donguk!mm_malloc(id, size)
      PROVE  DongukProofs!IInv' /\ CallMade(id, size)
  <2>1. CallMade(id, size)
    BY <1>4 DEF Donguk!mm_malloc, Donguk!CallStarts, Donguk!memVars, Donguk!NULL, NULL,
                CallMade
  <2>2. DongukProofs!mm_malloc(id, size)
    BY <1>4, DongukSame
  <2> QED
    BY <1>4, <2>1, <2>2, DongukProofs!mm_mallocKeeps
<1>5. ASSUME DongukProofs!IInv, NEW id \in Ids, NEW size \in Sizes,
             Donguk!mm_realloc(id, size)
      PROVE  DongukProofs!IInv' /\ CallMade(id, size)
  <2>1. CallMade(id, size)
    BY <1>5 DEF Donguk!mm_realloc, Donguk!CallStarts, Donguk!NULL, NULL, CallMade
  <2>2. DongukProofs!mm_realloc(id, size)
    BY <1>5, DongukSame
  <2> QED
    BY <1>5, <2>1, <2>2, DongukProofs!mm_reallocKeeps
<1>6. ASSUME DongukProofs!IInv, NEW id \in Ids, Donguk!mm_free(id)
      PROVE  DongukProofs!IInv' /\ Freed(id)
  <2>1. Freed(id)
    BY <1>6 DEF Donguk!mm_free, Donguk!NULL, NULL, Freed
  <2>2. DongukProofs!mm_free(id)
    BY <1>6, DongukSame
  <2> QED
    BY <1>6, <2>1, <2>2, DongukProofs!mm_freeKeeps
<1>7. ASSUME DongukProofs!IInv, UNCHANGED rover,
             Return \/ Returns(mem) \/ NewTrace \/ Idles
      PROVE  DongukProofs!IInv'
  <2>1. CASE Return \/ Returns(mem)
    <3>1. DongukProofs!Return \/ DongukProofs!Returns(mem)
      BY <2>1 DEF Return, DongukProofs!Return, Returns, DongukProofs!Returns, memset,
                  DongukProofs!memset, NULL, DongukProofs!NULL, NoCall,
                  DongukProofs!NoCall
    <3> QED
      BY <1>7, <3>1, DongukProofs!ReturnKeeps
  <2>2. CASE NewTrace
    <3>1. DongukProofs!NewTrace
      BY <2>2 DEF NewTrace, DongukProofs!NewTrace, mem_reset_brk,
                  DongukProofs!mem_reset_brk, mem_start_brk, DongukProofs!mem_start_brk,
                  NULL, DongukProofs!NULL
    <3> QED
      BY <1>7, <3>1, DongukProofs!NewTraceKeeps
  <2>3. CASE Idles
    <3>1. UNCHANGED DongukProofs!vars
      BY <1>7, <2>3 DEF Idles, memVars, clientVars, DongukProofs!vars,
                        DongukProofs!memVars, DongukProofs!clientVars
    <3> QED
      BY <1>7, <3>1, DongukProofs!StutterKeeps
  <2> QED
    BY <1>7, <2>1, <2>2, <2>3
<1> QED
  BY <1>1, <1>2, <1>3, <1>4, <1>5, <1>6, <1>7

\* What the proofs of SungjooMm say of the steps the driver takes.
LEMMA SungjooKeeps ==
    /\ Donguk!Init => SungjooProofs!IInv
    /\ SungjooProofs!IInv => PackageTrue
    /\ SungjooProofs!IInv /\ Sungjoo!Run => SungjooProofs!IInv' /\ CallGoesOn
    /\ \A id \in Ids, size \in Sizes :
          SungjooProofs!IInv /\ Sungjoo!mm_malloc(id, size) =>
             SungjooProofs!IInv' /\ CallMade(id, size)
    /\ \A id \in Ids, size \in Sizes :
          SungjooProofs!IInv /\ Sungjoo!mm_realloc(id, size) =>
             SungjooProofs!IInv' /\ CallMade(id, size)
    /\ \A id \in Ids :
          SungjooProofs!IInv /\ Sungjoo!mm_free(id) => SungjooProofs!IInv' /\ Freed(id)
    /\ SungjooProofs!IInv /\ UNCHANGED rover
        /\ (Return \/ Returns(mem) \/ NewTrace \/ Idles)
          => SungjooProofs!IInv'
<1> USE MemlibAssumption, ClientAssumption DEF WSIZE, DSIZE, SungjooProofs!WSIZE,
       SungjooProofs!DSIZE
<1>1. Donguk!Init => SungjooProofs!IInv
  <2>1. Donguk!Init => SungjooProofs!Init
    BY DEF Donguk!Init, Donguk!mem_init, Donguk!ClientInit, Donguk!WordAddr,
           Donguk!mem_start_brk, Donguk!NULL, Donguk!NoCall, SungjooProofs!Init,
           SungjooProofs!mem_init, SungjooProofs!ClientInit, SungjooProofs!WordAddr,
           SungjooProofs!mem_start_brk, SungjooProofs!NULL, SungjooProofs!NoCall
  <2> QED
    BY <2>1, SungjooProofs!InitIInv
<1>2. SungjooProofs!IInv => PackageTrue
  <2>1. SungjooProofs!IInv => SungjooProofs!PayloadsDisjoint /\ SungjooProofs!ClientInv
    BY SungjooProofs!BlocksHoldPayloads DEF SungjooProofs!IInv
  <2>2. SungjooProofs!PayloadsDisjoint => PayloadsDisjoint
    BY DEF SungjooProofs!PayloadsDisjoint, PayloadsDisjoint, SungjooProofs!HeapReady,
           HeapReady, SungjooProofs!Payloads, Payloads, SungjooProofs!NULL, NULL,
           SungjooProofs!mem_heap_lo, mem_heap_lo, SungjooProofs!mem_heap_hi,
           mem_heap_hi, SungjooProofs!mem_start_brk, mem_start_brk
  <2>3. SungjooProofs!ClientInv =>
           ClientTypeOK /\ mem_brk \in Nat /\ (pc = "init" => mem_brk = 0)
    BY DEF SungjooProofs!ClientInv, SungjooProofs!ClientTypeOK, ClientTypeOK,
           SungjooProofs!MemTypeOK, SungjooProofs!CallOK
  <2> QED
    BY <2>1, <2>2, <2>3 DEF PackageTrue
<1>3. SungjooProofs!IInv /\ Sungjoo!Run => SungjooProofs!IInv' /\ CallGoesOn
  BY SungjooSame, SungjooProofs!RunKeeps DEF SungjooProofs!PackageStep, CallGoesOn
<1>4. ASSUME SungjooProofs!IInv, NEW id \in Ids, NEW size \in Sizes,
             Sungjoo!mm_malloc(id, size)
      PROVE  SungjooProofs!IInv' /\ CallMade(id, size)
  <2>1. CallMade(id, size)
    BY <1>4 DEF Sungjoo!mm_malloc, Sungjoo!CallStarts, Sungjoo!memVars, Sungjoo!NULL,
                NULL, CallMade
  <2>2. SungjooProofs!mm_malloc(id, size)
    BY <1>4, SungjooSame
  <2> QED
    BY <1>4, <2>1, <2>2, SungjooProofs!mm_mallocKeeps
<1>5. ASSUME SungjooProofs!IInv, NEW id \in Ids, NEW size \in Sizes,
             Sungjoo!mm_realloc(id, size)
      PROVE  SungjooProofs!IInv' /\ CallMade(id, size)
  <2>1. CallMade(id, size)
    BY <1>5 DEF Sungjoo!mm_realloc, Sungjoo!CallStarts, Sungjoo!NULL, NULL, CallMade
  <2>2. SungjooProofs!mm_realloc(id, size)
    BY <1>5, SungjooSame
  <2> QED
    BY <1>5, <2>1, <2>2, SungjooProofs!mm_reallocKeeps
<1>6. ASSUME SungjooProofs!IInv, NEW id \in Ids, Sungjoo!mm_free(id)
      PROVE  SungjooProofs!IInv' /\ Freed(id)
  <2>1. Freed(id)
    BY <1>6 DEF Sungjoo!mm_free, Sungjoo!NULL, NULL, Freed
  <2>2. SungjooProofs!mm_free(id)
    BY <1>6, SungjooSame
  <2> QED
    BY <1>6, <2>1, <2>2, SungjooProofs!mm_freeKeeps
<1>7. ASSUME SungjooProofs!IInv, UNCHANGED rover,
             Return \/ Returns(mem) \/ NewTrace \/ Idles
      PROVE  SungjooProofs!IInv'
  <2>1. CASE Return \/ Returns(mem)
    <3>1. SungjooProofs!Return \/ SungjooProofs!Returns(mem)
      BY <2>1 DEF Return, SungjooProofs!Return, Returns, SungjooProofs!Returns, memset,
                  SungjooProofs!memset, NULL, SungjooProofs!NULL, NoCall,
                  SungjooProofs!NoCall
    <3> QED
      BY <1>7, <3>1, SungjooProofs!ReturnKeeps
  <2>2. CASE NewTrace
    <3>1. SungjooProofs!NewTrace
      BY <2>2 DEF NewTrace, SungjooProofs!NewTrace, mem_reset_brk,
                  SungjooProofs!mem_reset_brk, mem_start_brk,
                  SungjooProofs!mem_start_brk, NULL, SungjooProofs!NULL
    <3> QED
      BY <1>7, <3>1, SungjooProofs!NewTraceKeeps
  <2>3. CASE Idles
    <3>1. UNCHANGED SungjooProofs!vars
      BY <1>7, <2>3 DEF Idles, memVars, clientVars, SungjooProofs!vars,
                        SungjooProofs!memVars, SungjooProofs!clientVars
    <3> QED
      BY <1>7, <3>1, SungjooProofs!StutterKeeps
  <2> QED
    BY <1>7, <2>1, <2>2, <2>3
<1> QED
  BY <1>1, <1>2, <1>3, <1>4, <1>5, <1>6, <1>7

\* What the proofs of SanglimMm say of the steps the driver takes.
LEMMA SanglimKeeps ==
    /\ Donguk!Init => SanglimProofs!IInv
    /\ SanglimProofs!IInv => PackageTrue
    /\ SanglimProofs!IInv /\ Sanglim!Run => SanglimProofs!IInv' /\ CallGoesOn
    /\ \A id \in Ids, size \in Sizes :
          SanglimProofs!IInv /\ Sanglim!mm_malloc(id, size) =>
             SanglimProofs!IInv' /\ CallMade(id, size)
    /\ \A id \in Ids, size \in Sizes :
          SanglimProofs!IInv /\ ~Sanglim!AbsorbsRover(id, size) /\
          Sanglim!mm_realloc(id, size) =>
             SanglimProofs!IInv' /\ CallMade(id, size)
    /\ \A id \in Ids :
          SanglimProofs!IInv /\ Sanglim!mm_free(id) => SanglimProofs!IInv' /\ Freed(id)
    /\ SanglimProofs!IInv /\ UNCHANGED rover
        /\ (Return \/ Returns(mem) \/ NewTrace \/ Idles)
          => SanglimProofs!IInv'
<1> USE MemlibAssumption, ClientAssumption DEF WSIZE, DSIZE, SanglimProofs!WSIZE,
       SanglimProofs!DSIZE
<1>1. Donguk!Init => SanglimProofs!IInv
  <2>1. Donguk!Init => SanglimProofs!Init
    BY DEF Donguk!Init, Donguk!mem_init, Donguk!ClientInit, Donguk!WordAddr,
           Donguk!mem_start_brk, Donguk!NULL, Donguk!NoCall, SanglimProofs!Init,
           SanglimProofs!mem_init, SanglimProofs!ClientInit, SanglimProofs!WordAddr,
           SanglimProofs!mem_start_brk, SanglimProofs!NULL, SanglimProofs!NoCall
  <2> QED
    BY <2>1, SanglimProofs!InitIInv
<1>2. SanglimProofs!IInv => PackageTrue
  <2>1. SanglimProofs!IInv => SanglimProofs!PayloadsDisjoint /\ SanglimProofs!ClientInv
    BY SanglimProofs!BlocksHoldPayloads DEF SanglimProofs!IInv
  <2>2. SanglimProofs!PayloadsDisjoint => PayloadsDisjoint
    BY DEF SanglimProofs!PayloadsDisjoint, PayloadsDisjoint, SanglimProofs!HeapReady,
           HeapReady, SanglimProofs!Payloads, Payloads, SanglimProofs!NULL, NULL,
           SanglimProofs!mem_heap_lo, mem_heap_lo, SanglimProofs!mem_heap_hi,
           mem_heap_hi, SanglimProofs!mem_start_brk, mem_start_brk
  <2>3. SanglimProofs!ClientInv =>
           ClientTypeOK /\ mem_brk \in Nat /\ (pc = "init" => mem_brk = 0)
    BY DEF SanglimProofs!ClientInv, SanglimProofs!ClientTypeOK, ClientTypeOK,
           SanglimProofs!MemTypeOK, SanglimProofs!CallOK
  <2> QED
    BY <2>1, <2>2, <2>3 DEF PackageTrue
<1>3. SanglimProofs!IInv /\ Sanglim!Run => SanglimProofs!IInv' /\ CallGoesOn
  BY SanglimSame, SanglimProofs!RunKeeps DEF SanglimProofs!PackageStep, CallGoesOn
<1>4. ASSUME SanglimProofs!IInv, NEW id \in Ids, NEW size \in Sizes,
             Sanglim!mm_malloc(id, size)
      PROVE  SanglimProofs!IInv' /\ CallMade(id, size)
  <2>1. CallMade(id, size)
    BY <1>4 DEF Sanglim!mm_malloc, Sanglim!CallStarts, Sanglim!memVars, Sanglim!NULL,
                NULL, CallMade
  <2>2. SanglimProofs!mm_malloc(id, size)
    BY <1>4, SanglimSame
  <2> QED
    BY <1>4, <2>1, <2>2, SanglimProofs!mm_mallocKeeps
<1>5. ASSUME SanglimProofs!IInv, NEW id \in Ids, NEW size \in Sizes,
             ~Sanglim!AbsorbsRover(id, size), Sanglim!mm_realloc(id, size)
      PROVE  SanglimProofs!IInv' /\ CallMade(id, size)
  <2>1. CallMade(id, size)
    BY <1>5 DEF Sanglim!mm_realloc, Sanglim!CallStarts, Sanglim!NULL, NULL, CallMade
  <2>2. SanglimProofs!mm_realloc(id, size) /\ ~SanglimProofs!AbsorbsRover(id, size)
    BY <1>5, SanglimSame
  <2> QED
    BY <1>5, <2>1, <2>2, SanglimProofs!mm_reallocKeeps
<1>6. ASSUME SanglimProofs!IInv, NEW id \in Ids, Sanglim!mm_free(id)
      PROVE  SanglimProofs!IInv' /\ Freed(id)
  <2>1. Freed(id)
    BY <1>6 DEF Sanglim!mm_free, Sanglim!NULL, NULL, Freed
  <2>2. SanglimProofs!mm_free(id)
    BY <1>6, SanglimSame
  <2> QED
    BY <1>6, <2>1, <2>2, SanglimProofs!mm_freeKeeps
<1>7. ASSUME SanglimProofs!IInv, UNCHANGED rover,
             Return \/ Returns(mem) \/ NewTrace \/ Idles
      PROVE  SanglimProofs!IInv'
  <2>1. CASE Return \/ Returns(mem)
    <3>1. SanglimProofs!Return \/ SanglimProofs!Returns(mem)
      BY <2>1 DEF Return, SanglimProofs!Return, Returns, SanglimProofs!Returns, memset,
                  SanglimProofs!memset, NULL, SanglimProofs!NULL, NoCall,
                  SanglimProofs!NoCall
    <3> QED
      BY <1>7, <3>1, SanglimProofs!ReturnKeeps
  <2>2. CASE NewTrace
    <3>1. SanglimProofs!NewTrace
      BY <2>2 DEF NewTrace, SanglimProofs!NewTrace, mem_reset_brk,
                  SanglimProofs!mem_reset_brk, mem_start_brk,
                  SanglimProofs!mem_start_brk, NULL, SanglimProofs!NULL
    <3> QED
      BY <1>7, <3>1, SanglimProofs!NewTraceKeeps
  <2>3. CASE Idles
    <3>1. UNCHANGED SanglimProofs!vars
      BY <1>7, <2>3 DEF Idles, memVars, clientVars, SanglimProofs!vars,
                        SanglimProofs!memVars, SanglimProofs!clientVars
    <3> QED
      BY <1>7, <3>1, SanglimProofs!StutterKeeps
  <2> QED
    BY <1>7, <2>1, <2>2, <2>3
<1> QED
  BY <1>1, <1>2, <1>3, <1>4, <1>5, <1>6, <1>7

\* The inductive invariant of the package that the driver is linked with.
PackageInv ==
    /\ author \in {"donguk", "sungjoo", "sanglim"}
    /\ author = "donguk" => DongukProofs!IInv
    /\ author = "sungjoo" => SungjooProofs!IInv
    /\ author = "sanglim" => SanglimProofs!IInv

LEMMA PackageStarts ==
    ASSUME PassesInit
    PROVE  PackageInv
  BY DongukKeeps, SungjooKeeps, SanglimKeeps DEF PassesInit, PackageInv

LEMMA PackageHolds ==
    ASSUME PackageInv
    PROVE  PackageTrue
  BY DongukKeeps, SungjooKeeps, SanglimKeeps DEF PackageInv

LEMMA PackageNext == PackageInv' => PackageTrue'
  BY PackageHolds, PTL

LEMMA PackageRunsKeeps ==
    ASSUME PackageInv, PackageRuns
    PROVE  PackageInv' /\ CallGoesOn
<1>1. author' = author
  BY DEF PackageRuns, passVars
<1> QED
  BY <1>1, DongukKeeps, SungjooKeeps, SanglimKeeps DEF PackageInv, PackageRuns

\* The driver returns from a call, starts a trace or does something of its own.
LEMMA DriverKeeps ==
    ASSUME PackageInv, UNCHANGED <<author, rover>>,
           Return \/ Returns(mem) \/ NewTrace \/ Idles
    PROVE  PackageInv'
  BY DongukKeeps, SungjooKeeps, SanglimKeeps DEF PackageInv

LEMMA InterpretKeeps ==
    ASSUME PackageInv, Interpret, NEW op \in Requests, op = ops[i + 1]
    PROVE  /\ PackageInv'
           /\ IF op.type = "FREE" THEN Freed(op.index) ELSE CallMade(op.index, op.size)
<1>1. /\ op.index \in Ids
      /\ op.type \in {"ALLOC", "REALLOC"} => op.size \in Sizes
  BY DEF Requests
<1>2. author' = author
  BY DEF Interpret
<1>3. CASE author = "donguk" /\ DongukServes(op)
  BY <1>1, <1>2, <1>3, DongukKeeps DEF PackageInv, DongukServes
<1>4. CASE author = "sungjoo" /\ SungjooServes(op)
  BY <1>1, <1>2, <1>4, SungjooKeeps DEF PackageInv, SungjooServes
<1>5. CASE author = "sanglim" /\ SanglimServes(op)
  BY <1>1, <1>2, <1>5, SanglimKeeps DEF PackageInv, SanglimServes
<1> QED
  BY <1>3, <1>4, <1>5 DEF Interpret

(***************************************************************************)
(* The trace and the pass that interprets it                               *)
(***************************************************************************)
Running == pc \notin {"init", "failed", "idle"}

\* Before mm_init the driver has no block.
Cleared == pc \in {"init", "failed"} => \A id \in Ids : reqsize[id] = 0

\* Only the block of the call in progress can be in transit.
Kept == \A id \in Ids : owned[id] = NULL => reqsize[id] = 0 \/ (Running /\ id = call.id)

\* The package works on request i + 1, and what the driver remembers of the
\* blocks is what the requests before it left.
Interpreted ==
    /\ i \in Nat /\ i <= Len(ops)
    /\ pc \in {"init", "failed"} => i = 0
    /\ Running => /\ i < Len(ops)
                  /\ call.id = ops[i + 1].index
                  /\ call.size = ops[i + 1].size
    /\ Remembered(reqsize, ops, i)
    /\ Kept

\* The sums of eval_mm_util.
Accounted ==
    /\ pass = "valid" => total_size = 0 /\ max_total_size = 0
    /\ pass = "util" => /\ total_size = Cardinality(Bytes(reqsize))
                        /\ IsHigh(max_total_size, ops, i)
                        /\ max_total_size <= mem_brk

Utilised ==
    /\ util \in Nat \X Nat
    /\ pass \in {"none", "valid", "util", "rejected"} => util = <<0, 0>>
    /\ pass \in {"speed", "timed", "measured"} => util[1] <= util[2]

TraceInv ==
    /\ PackageInv
    /\ Cleared
    /\ ops \in Seq(Requests)
    /\ pass \in Passes => Interpreted /\ Accounted
    /\ Utilised

LEMMA SizesNat == Sizes \subseteq Nat
  BY ClientAssumption

LEMMA RequestType ==
    ASSUME NEW op \in Requests
    PROVE  /\ op.index \in Ids
           /\ op.size \in Nat
           /\ op.type = "FREE" => op.size = 0
<1>1. CASE op \in [type : {"ALLOC", "REALLOC"}, index : Ids, size : Sizes]
  BY <1>1, SizesNat
<1>2. CASE op \in [type : {"FREE"}, index : Ids, size : {0}]
  BY <1>2
<1> QED
  BY <1>1, <1>2 DEF Requests

LEMMA PackageType == PackageInv => PackageTrue
  BY PackageHolds

\* Between calls the payloads are disjoint and inside the heap.
LEMMA InsideHeap ==
    PackageTrue /\ pc = "idle" /\ Kept => Cardinality(Bytes(reqsize)) <= mem_brk
<1> SUFFICES ASSUME PackageTrue, pc = "idle", Kept
             PROVE  Cardinality(Bytes(reqsize)) <= mem_brk
  OBVIOUS
<1>1. /\ owned \in [Ids -> Nat] /\ reqsize \in [Ids -> Nat] /\ mem_brk \in Nat
      /\ HeapReady /\ PayloadsDisjoint
  BY DEF PackageTrue, ClientTypeOK, HeapReady
<1>2. ASSUME NEW id \in Ids, reqsize[id] # 0
      PROVE  owned[id] # NULL /\ <<owned[id], reqsize[id]>> \in Payloads
  BY <1>2 DEF Kept, Running, Payloads
<1>3. ASSUME NEW id \in Ids, reqsize[id] # 0
      PROVE  owned[id] + reqsize[id] <= mem_brk
  <2>1. <<owned[id], reqsize[id]>> \in Payloads
    BY <1>2, <1>3
  <2> DEFINE x == <<owned[id], reqsize[id]>>
  <2>2. x[1] + x[2] - 1 <= mem_brk - 1
    BY <1>1, <2>1 DEF PayloadsDisjoint, mem_heap_hi
  <2> QED
    BY <1>1, <2>2
<1>4. ASSUME NEW id \in Ids, NEW k \in Ids, id # k, reqsize[id] # 0, reqsize[k] # 0
      PROVE  owned[id] + reqsize[id] <= owned[k] \/ owned[k] + reqsize[k] <= owned[id]
  <2> DEFINE x == <<owned[id], reqsize[id]>>
             y == <<owned[k], reqsize[k]>>
  <2>1. x \in Payloads /\ y \in Payloads /\ owned[id] # NULL
    BY <1>2, <1>4
  <2>2. owned[id] # owned[k]
    BY <1>1, <1>4, <2>1 DEF PayloadsDisjoint
  <2>3. x # y
    BY <2>2
  <2>4. x[1] + x[2] <= y[1] \/ y[1] + y[2] <= x[1]
    BY <1>1, <2>1, <2>3, Zenon DEF PayloadsDisjoint
  <2> QED
    BY <2>4
<1> QED
  BY <1>1, <1>3, <1>4, BytesInside

LEMMA InsideHeapNext ==
    PackageInv' /\ pc' = "idle" /\ Kept' => Cardinality(Bytes(reqsize')) <= mem_brk'
<1>1. Bytes(reqsize') = Bytes(reqsize)'
  BY DEF Bytes
<1>2. PackageInv /\ pc = "idle" /\ Kept => Cardinality(Bytes(reqsize)) <= mem_brk
  BY PackageType, InsideHeap
<1>3. PackageInv' /\ (pc = "idle")' /\ Kept' => (Cardinality(Bytes(reqsize)) <= mem_brk)'
  BY <1>2, PTL
<1> QED
  BY <1>1, <1>3

(***************************************************************************)
(* The steps of a pass                                                     *)
(***************************************************************************)
LEMMA RunsKeeps ==
    ASSUME TraceInv, PackageRuns
    PROVE  TraceInv'
<1>1. PackageInv' /\ CallGoesOn
  BY PackageRunsKeeps DEF TraceInv
<1>2. UNCHANGED <<ops, i, pass, total_size, max_total_size, util>> /\ pass \in Passes
  BY DEF PackageRuns, passVars, traceVars
<1>3. /\ owned' = owned /\ reqsize' = reqsize /\ call' = call
      /\ pc' \in {"init", "failed"} => pc = "init"
      /\ Running' <=> Running
      /\ mem_brk' >= mem_brk /\ mem_brk \in Nat /\ mem_brk' \in Nat
  <2>1. mem_brk \in Nat
    BY PackageType DEF TraceInv, PackageTrue
  <2>2. mem_brk' \in Nat
    BY <1>1, PackageNext DEF PackageTrue
  <2> QED
    BY <1>1, <2>1, <2>2 DEF CallGoesOn, Running
<1>4. Cleared'
  BY <1>3 DEF TraceInv, Cleared
<1>5. Kept' /\ Interpreted'
  BY <1>2, <1>3 DEF TraceInv, Interpreted, Kept
<1>6. Accounted'
  <2>1. pass = "util" => max_total_size \in Nat
    BY <1>2 DEF TraceInv, Accounted, IsHigh
  <2>2. Bytes(reqsize)' = Bytes(reqsize)
    BY <1>3 DEF Bytes
  <2> QED
    BY <1>2, <1>3, <2>1, <2>2 DEF TraceInv, Accounted
<1>7. Utilised' /\ ops' \in Seq(Requests)
  BY <1>2 DEF TraceInv, Utilised
<1> QED
  BY <1>1, <1>4, <1>5, <1>6, <1>7 DEF TraceInv

LEMMA RequestAt ==
    ASSUME TraceInv, pass \in Passes, i < NumOps
    PROVE  /\ ops[i + 1] \in Requests /\ ops[i + 1].index \in Ids
           /\ ops[i + 1].size \in Nat
           /\ ops[i + 1].type = "FREE" => ops[i + 1].size = 0
           /\ i \in Nat /\ i + 1 \in Nat /\ i + 1 <= Len(ops)
<1>1. ops \in Seq(Requests) /\ i \in Nat /\ i < Len(ops)
  BY DEF TraceInv, Interpreted, NumOps
<1>2. ops[i + 1] \in Requests /\ Len(ops) \in Nat
  BY <1>1
<1> QED
  BY <1>1, <1>2, RequestType

LEMMA InterpretMakes ==
    ASSUME TraceInv, Interpret
    PROVE  TraceInv'
<1> DEFINE op == ops[i + 1]
<1>1. pass \in Passes /\ pc = "idle" /\ i < NumOps
  BY DEF Interpret
<1>2. /\ op \in Requests /\ op.index \in Ids /\ op.size \in Nat
      /\ op.type = "FREE" => op.size = 0
      /\ i \in Nat /\ i + 1 \in Nat /\ i + 1 <= Len(ops)
  BY <1>1, RequestAt
<1>3. /\ PackageInv'
      /\ IF op.type = "FREE" THEN Freed(op.index) ELSE CallMade(op.index, op.size)
  <2> HIDE DEF op
  <2>1. op \in Requests /\ op = ops[i + 1]
    BY <1>2 DEF op
  <2> QED
    BY <2>1, InterpretKeeps DEF TraceInv
<1>4. UNCHANGED <<ops, pass, util>>
  BY DEF Interpret
<1>5. IF op.type = "FREE"
      THEN i' = i + 1 /\ Account(-reqsize[op.index])
      ELSE UNCHANGED <<i, total_size, max_total_size>>
  BY DEF Interpret
<1> HIDE DEF op
<1>6. /\ owned \in [Ids -> Nat] /\ reqsize \in [Ids -> Nat] /\ mem_brk \in Nat
      /\ reqsize[op.index] \in Nat
      /\ Interpreted /\ Accounted /\ Remembered(reqsize, ops, i)
  BY <1>1, <1>2, PackageType DEF TraceInv, PackageTrue, ClientTypeOK, Interpreted
<1>7. CASE op.type # "FREE"
  <2>1. CallMade(op.index, op.size) /\ UNCHANGED <<i, total_size, max_total_size>>
    BY <1>3, <1>5, <1>7
  <2>2. Running' /\ ~Running /\ Cleared'
    BY <1>1, <2>1 DEF CallMade, Running, Cleared
  <2>3. /\ call' = [id |-> op.index, size |-> op.size]
        /\ reqsize' = reqsize /\ mem_brk' = mem_brk
    BY <2>1 DEF CallMade
  <2>4. Kept'
    <3> SUFFICES ASSUME NEW id \in Ids, owned'[id] = NULL
                 PROVE  reqsize'[id] = 0 \/ (Running' /\ id = call.id')
      BY DEF Kept
    <3>1. CASE id = op.index
      BY <2>2, <2>3, <3>1
    <3>2. CASE id # op.index
      <4>1. owned[id] = NULL
        BY <1>2, <1>6, <2>1, <3>2 DEF CallMade
      <4> QED
        BY <1>6, <2>2, <2>3, <4>1 DEF Interpreted, Kept
    <3> QED
      BY <3>1, <3>2
  <2>5. Interpreted'
    BY <1>1, <1>2, <1>4, <1>6, <2>1, <2>2, <2>3, <2>4 DEF Interpreted, op, NumOps, Running
  <2>6. Bytes(reqsize)' = Bytes(reqsize)
    BY <2>3 DEF Bytes
  <2>7. Accounted' /\ Utilised'
    BY <1>4, <1>6, <2>1, <2>3, <2>6 DEF Accounted, Utilised, TraceInv
  <2> QED
    BY <1>3, <1>4, <2>2, <2>5, <2>7 DEF TraceInv
<1>8. CASE op.type = "FREE"
  <2>1. /\ Freed(op.index) /\ i' = i + 1 /\ Account(-reqsize[op.index])
        /\ op.size = 0
    BY <1>2, <1>3, <1>5, <1>8
  <2>2. /\ pc' = "idle" /\ ~Running' /\ mem_brk' = mem_brk
        /\ reqsize' = [reqsize EXCEPT ![op.index] = op.size]
        /\ owned' = [owned EXCEPT ![op.index] = NULL]
    BY <1>1, <2>1 DEF Freed, Running
  <2>3. Cleared'
    BY <2>2 DEF Cleared
  <2>4. Kept'
    <3> SUFFICES ASSUME NEW id \in Ids, owned'[id] = NULL
                 PROVE  reqsize'[id] = 0
      BY DEF Kept
    <3>1. CASE id = op.index
      BY <1>6, <2>1, <2>2, <3>1
    <3>2. CASE id # op.index
      <4>1. owned[id] = NULL /\ reqsize'[id] = reqsize[id]
        BY <1>2, <1>6, <2>2, <3>2
      <4> QED
        BY <1>1, <1>6, <4>1 DEF Interpreted, Kept, Running
    <3> QED
      BY <3>1, <3>2
  <2>5. Remembered(reqsize', ops, i')
    BY <1>2, <1>6, <2>1, <2>2, RememberedNext DEF op
  <2>6. Interpreted'
    BY <1>2, <1>4, <2>1, <2>2, <2>4, <2>5 DEF Interpreted
  <2>7. Accounted'
    <3>1. CASE pass = "util"
      <4>1. /\ total_size = Cardinality(Bytes(reqsize)) /\ total_size \in Nat
            /\ IsHigh(max_total_size, ops, i) /\ max_total_size \in Nat
            /\ max_total_size <= mem_brk
        BY <1>6, <3>1, BytesFinite DEF Accounted, IsHigh
      <4>2. total_size = InUseIn(ops, i)
        BY <1>6, <4>1, RememberedCount
      <4>3. total_size <= max_total_size
        BY <1>2, <4>1, <4>2 DEF IsHigh
      <4>4. /\ total_size' = total_size - reqsize[op.index]
            /\ max_total_size' = MAX(max_total_size, total_size - reqsize[op.index])
        BY <1>6, <2>1, <3>1, <4>1 DEF Account
      <4>5. max_total_size' = max_total_size
        BY <1>6, <4>1, <4>3, <4>4 DEF MAX
      <4>6. Cardinality(Bytes(reqsize')) = total_size'
        <5>1. Cardinality(Bytes(reqsize')) =
                 Cardinality(Bytes(reqsize)) - reqsize[op.index] + 0
          BY <1>2, <1>6, <2>1, <2>2, BytesChange
        <5> QED
          BY <1>6, <4>1, <4>4, <5>1
      <4>7. total_size' = InUseIn(ops, i + 1) /\ InUseIn(ops, i + 1) \in Nat
        BY <2>1, <2>5, <4>6, RememberedCount
      <4>8. IsHigh(max_total_size', ops, i')
        BY <1>2, <2>1, <4>1, <4>4, <4>7, HighGoesOn
      <4>9. Bytes(reqsize)' = Bytes(reqsize')
        BY DEF Bytes
      <4> QED
        BY <1>4, <2>2, <3>1, <4>1, <4>5, <4>6, <4>8, <4>9 DEF Accounted
    <3>2. CASE pass # "util"
      BY <1>4, <1>6, <2>1, <3>2 DEF Accounted, Account
    <3> QED
      BY <3>1, <3>2
  <2>8. Utilised'
    BY <1>4 DEF Utilised, TraceInv
  <2> QED
    BY <1>3, <1>4, <2>3, <2>6, <2>7, <2>8 DEF TraceInv
<1> QED
  BY <1>7, <1>8

LEMMA AnsweredKeeps ==
    ASSUME TraceInv, Answered
    PROVE  TraceInv'
<1>1. /\ pass \in Passes /\ ret # NULL
      /\ UNCHANGED <<author, rover, ops, pass, util>>
      /\ i' = i + 1 /\ Account(Change)
  BY DEF Answered
<1>2. Return \/ Returns(mem)
  BY DEF Answered
<1>3. PackageInv'
  BY <1>1, <1>2, DriverKeeps DEF TraceInv
<1>4. /\ pc = "return" /\ pc' = "idle" /\ mem_brk' = mem_brk
      /\ owned' = [owned EXCEPT ![call.id] = ret]
      /\ reqsize' = [reqsize EXCEPT ![call.id] = call.size]
  BY <1>1, <1>2 DEF Return, Returns
<1>5. /\ owned \in [Ids -> Nat] /\ reqsize \in [Ids -> Nat] /\ mem_brk \in Nat
      /\ call.id \in Ids /\ call.size \in Nat
  <2>1. ClientTypeOK /\ mem_brk \in Nat
    BY PackageType DEF TraceInv, PackageTrue
  <2>2. call.id \in Ids /\ call.size \in Nat
    BY <2>1, ClientAssumption DEF ClientTypeOK
  <2> QED
    BY <2>1, <2>2 DEF ClientTypeOK
<1>6. /\ Interpreted /\ Accounted /\ Remembered(reqsize, ops, i) /\ Running /\ ~Running'
      /\ i \in Nat /\ i < Len(ops) /\ ops \in Seq(Requests)
      /\ call.id = ops[i + 1].index /\ call.size = ops[i + 1].size
  BY <1>1, <1>4 DEF TraceInv, Interpreted, Running
<1>7. Cleared' /\ Utilised'
  BY <1>1, <1>4 DEF Cleared, Utilised, TraceInv
<1>8. Kept'
  <2> SUFFICES ASSUME NEW id \in Ids, owned'[id] = NULL
               PROVE  reqsize'[id] = 0
    BY DEF Kept
  <2>1. id # call.id
    BY <1>1, <1>4, <1>5
  <2>2. owned[id] = NULL /\ reqsize'[id] = reqsize[id]
    BY <1>4, <1>5, <2>1
  <2> QED
    BY <1>6, <2>1, <2>2 DEF Interpreted, Kept
<1>9. Remembered(reqsize', ops, i')
  BY <1>1, <1>4, <1>5, <1>6, RememberedNext
<1>10. Interpreted'
  <2>1. i' \in Nat /\ i' <= Len(ops)
    BY <1>1, <1>6
  <2> QED
    BY <1>1, <1>4, <1>6, <1>8, <1>9, <2>1 DEF Interpreted
<1>11. Accounted'
  <2>1. CASE pass = "util"
    <3>1. /\ total_size = Cardinality(Bytes(reqsize)) /\ total_size \in Nat
          /\ IsHigh(max_total_size, ops, i) /\ max_total_size \in Nat
          /\ max_total_size <= mem_brk /\ reqsize[call.id] \in Nat
      BY <1>5, <1>6, <2>1, BytesFinite DEF Accounted, IsHigh
    <3> DEFINE u == total_size + (call.size - reqsize[call.id])
    <3>2. /\ total_size' = u
          /\ max_total_size' = MAX(max_total_size, u)
      BY <1>1, <2>1 DEF Account, Change
    <3>3. Cardinality(Bytes(reqsize')) =
             Cardinality(Bytes(reqsize)) - reqsize[call.id] + call.size
      BY <1>4, <1>5, BytesChange
    <3>4. Cardinality(Bytes(reqsize')) = u
      BY <1>5, <3>1, <3>3
    <3> HIDE DEF u
    <3>5. u = InUseIn(ops, i + 1) /\ InUseIn(ops, i + 1) \in Nat
      BY <1>1, <1>9, <3>4, RememberedCount
    <3>6. IsHigh(max_total_size', ops, i')
      BY <1>1, <1>6, <3>1, <3>2, <3>5, HighGoesOn
    <3>7. u <= mem_brk
      BY <1>3, <1>4, <1>8, <3>4, InsideHeapNext
    <3>8. max_total_size' <= mem_brk
      BY <1>5, <3>1, <3>2, <3>5, <3>7 DEF MAX
    <3>9. Bytes(reqsize)' = Bytes(reqsize')
      BY DEF Bytes
    <3> QED
      BY <1>1, <1>4, <2>1, <3>2, <3>4, <3>6, <3>8, <3>9 DEF Accounted
  <2>2. CASE pass # "util"
    BY <1>1, <1>6, <2>2 DEF Accounted, Account
  <2> QED
    BY <2>1, <2>2
<1> QED
  BY <1>1, <1>3, <1>6, <1>7, <1>10, <1>11 DEF TraceInv

LEMMA CallFailedKeeps ==
    ASSUME TraceInv, CallFailed
    PROVE  TraceInv'
<1>1. /\ pass \in Passes /\ ret = NULL /\ Returns(mem)
      /\ pass' = IF pass = "valid" THEN "rejected" ELSE "app_error"
      /\ UNCHANGED <<author, rover, ops, util>>
  BY DEF CallFailed, Outcome
<1>2. PackageInv'
  BY <1>1, DriverKeeps DEF TraceInv
<1>3. pc' = "idle"
  BY <1>1 DEF Returns
<1> QED
  BY <1>1, <1>2, <1>3 DEF TraceInv, Cleared, Passes, Utilised

LEMMA InitFailedKeeps ==
    ASSUME TraceInv, InitFailed
    PROVE  TraceInv'
<1>1. /\ pass \in Passes
      /\ pass' = IF pass = "valid" THEN "rejected" ELSE "app_error"
      /\ Idles /\ UNCHANGED <<author, rover, ops, util, reqsize, pc>>
  BY DEF InitFailed, Outcome, Idles, clientVars
<1>2. PackageInv'
  BY <1>1, DriverKeeps DEF TraceInv
<1> QED
  BY <1>1, <1>2 DEF TraceInv, Cleared, Passes, Utilised

\* A pass begins, on the storage as the last one left it or with mm_init to come
\* for the first time.
Begins ==
    /\ UNCHANGED <<author, rover>>
    /\ i' = 0
    /\ pass' \in Passes
    /\ NewTrace \/ (pc = "init" /\ Idles)

LEMMA BeginsKeeps ==
    ASSUME TraceInv, Begins, ops' \in Seq(Requests), Utilised',
           pass' \in {"valid", "util"} => total_size' = 0 /\ max_total_size' = 0
    PROVE  TraceInv'
<1>1. PackageInv'
  BY DriverKeeps DEF TraceInv, Begins
<1>2. /\ pc' = "init" /\ reqsize' \in [Ids -> Nat] /\ \A id \in Ids : reqsize'[id] = 0
      /\ mem_brk' \in Nat
  <2>1. mem_brk' \in Nat
    BY <1>1, PackageNext DEF PackageTrue
  <2>2. CASE NewTrace
    BY <2>1, <2>2 DEF NewTrace
  <2>3. CASE pc = "init" /\ Idles
    <3>1. pc' = pc /\ reqsize' = reqsize
      BY <2>3 DEF Idles, clientVars
    <3>2. reqsize \in [Ids -> Nat]
      BY PackageType DEF TraceInv, PackageTrue, ClientTypeOK
    <3> QED
      BY <2>1, <2>3, <3>1, <3>2 DEF TraceInv, Cleared
  <2> QED
    BY <2>2, <2>3 DEF Begins
<1>3. Cleared' /\ Kept' /\ ~Running'
  BY <1>2 DEF Cleared, Kept, Running
<1>4. Remembered(reqsize', ops', 0)
  BY <1>2, RememberedStart
<1>5. Interpreted'
  <2>1. Len(ops') \in Nat
    OBVIOUS
  <2> QED
    BY <1>2, <1>3, <1>4, <2>1 DEF Interpreted, Begins
<1>6. Accounted'
  <2>1. Bytes(reqsize)' = Bytes(reqsize')
    BY DEF Bytes
  <2>2. Cardinality(Bytes(reqsize')) = 0
    BY <1>2, NoBytes
  <2>3. IsHigh(0, ops', 0)
    BY HighAtStart
  <2> QED
    BY <1>2, <2>1, <2>2, <2>3 DEF Accounted, Begins
<1> QED
  BY <1>1, <1>3, <1>5, <1>6 DEF TraceInv, Begins

LEMMA AcceptedKeeps ==
    ASSUME TraceInv, Accepted
    PROVE  TraceInv'
<1>1. /\ pass = "valid" /\ pass' = "util"
      /\ UNCHANGED <<author, rover, ops, total_size, max_total_size, util>>
      /\ NewTrace /\ i' = 0
  BY DEF Accepted, PassOver, Restart
<1>2. /\ ops \in Seq(Requests) /\ total_size = 0 /\ max_total_size = 0
      /\ util = <<0, 0>>
  BY <1>1 DEF TraceInv, Passes, Accounted, Utilised
<1>3. Begins /\ Utilised'
  BY <1>1, <1>2 DEF Begins, Passes, Utilised
<1> QED
  BY <1>1, <1>2, <1>3, BeginsKeeps

\* The high water mark is at most the heap's size.
LEMMA UtilOverKeeps ==
    ASSUME TraceInv, UtilOver
    PROVE  TraceInv'
<1>1. /\ pass = "util" /\ pass' = "speed"
      /\ UNCHANGED <<author, rover, ops>>
      /\ NewTrace /\ i' = 0
      /\ util' = <<max_total_size, mem_brk>>
  BY DEF UtilOver, PassOver, Restart
<1>2. ops \in Seq(Requests) /\ max_total_size <= mem_brk /\ max_total_size \in Nat
  BY <1>1 DEF TraceInv, Passes, Accounted, IsHigh
<1>3. mem_brk \in Nat
  BY PackageType DEF TraceInv, PackageTrue
<1>4. Begins /\ Utilised'
  BY <1>3, <1>1, <1>2 DEF Begins, Passes, Utilised
<1> QED
  BY <1>1, <1>2, <1>4, BeginsKeeps

LEMMA CalledAgainKeeps ==
    ASSUME TraceInv, CalledAgain
    PROVE  TraceInv'
<1>1. /\ pass = "timed" /\ pass' = "speed"
      /\ UNCHANGED <<author, rover, ops, util>>
      /\ NewTrace /\ i' = 0
  BY DEF CalledAgain, Restart
<1>2. ops \in Seq(Requests) /\ util[1] <= util[2] /\ util \in Nat \X Nat
  BY <1>1 DEF TraceInv, Passes, Utilised
<1>3. Begins /\ Utilised'
  BY <1>1, <1>2 DEF Begins, Passes, Utilised
<1> QED
  BY <1>1, <1>2, <1>3, BeginsKeeps

\* Nothing is interpreted and the package does not run.
LEMMA IdleKeeps ==
    ASSUME TraceInv, Idles, UNCHANGED <<author, rover>>, pass' \notin Passes,
           ops' \in Seq(Requests), Utilised'
    PROVE  TraceInv'
<1>1. PackageInv'
  BY DriverKeeps DEF TraceInv
<1>2. Cleared'
  BY DEF TraceInv, Cleared, Idles, clientVars
<1> QED
  BY <1>1, <1>2 DEF TraceInv, Passes

LEMMA TimedKeeps ==
    ASSUME TraceInv, SpeedOver \/ Measured
    PROVE  TraceInv'
<1>1. Idles /\ UNCHANGED <<author, rover, ops, util>>
  BY DEF SpeedOver, Measured, Idles
<1>2. \/ pass = "speed" /\ pass' = "timed"
      \/ pass = "timed" /\ pass' = "measured"
  BY DEF SpeedOver, Measured, PassOver
<1>3. Utilised' /\ ops' \in Seq(Requests)
  BY <1>1, <1>2 DEF TraceInv, Utilised
<1> QED
  BY <1>1, <1>2, <1>3, IdleKeeps DEF Passes

LEMMA EvaluateKeeps ==
    ASSUME TraceInv, Evaluate
    PROVE  TraceInv'
  BY RunsKeeps, InterpretMakes, AnsweredKeeps, CallFailedKeeps, InitFailedKeeps,
     AcceptedKeeps, UtilOverKeeps, TimedKeeps, CalledAgainKeeps DEF Evaluate

\* Between the passes of two traces.
LEMMA TraceStarts ==
    ASSUME PassesInit
    PROVE  TraceInv
<1>1. pass = "none" /\ util = <<0, 0>> /\ reqsize = [id \in Ids |-> 0] /\ ops = <<>>
  BY DEF PassesInit, Donguk!Init, Donguk!ClientInit
<1> QED
  BY <1>1, PackageStarts DEF TraceInv, Cleared, Passes, Utilised

LEMMA TraceStutters ==
    ASSUME TraceInv, Idles, UNCHANGED <<rover, author, traceVars>>
    PROVE  TraceInv'
<1>1. PackageInv'
  BY DriverKeeps DEF TraceInv
<1>2. /\ UNCHANGED <<mem_brk, owned, reqsize, pc, call>>
      /\ UNCHANGED <<ops, i, pass, total_size, max_total_size, util>>
  BY DEF Idles, memVars, clientVars, traceVars
<1>3. Bytes(reqsize)' = Bytes(reqsize)
  BY <1>2 DEF Bytes
<1>4. Cleared' /\ Utilised' /\ (Running' <=> Running)
  BY <1>2 DEF TraceInv, Cleared, Utilised, Running
<1>5. Accounted => Accounted'
  BY <1>2, <1>3 DEF Accounted
<1>6. Interpreted => Interpreted'
  BY <1>2, <1>4 DEF Interpreted, Kept
<1> QED
  BY <1>1, <1>2, <1>4, <1>5, <1>6 DEF TraceInv

Inv == TraceInv /\ SamplesInv /\ MainInv

LEMMA UtilisationIsTrue ==
    ASSUME TraceInv
    PROVE  UtilisationTrue
<1> SUFFICES ASSUME pass = "util"
             PROVE  /\ total_size = InUse(i)
                    /\ max_total_size = Max({InUse(k) : k \in 0..i})
                    /\ max_total_size <= mem_brk
  BY DEF UtilisationTrue
<1>1. \A k : InUse(k) = InUseIn(ops, k)
  BY DEF InUse, InUseIn, SizeAfter, SizeIn
<1>2. /\ i \in Nat /\ Remembered(reqsize, ops, i)
      /\ total_size = Cardinality(Bytes(reqsize)) /\ IsHigh(max_total_size, ops, i)
      /\ max_total_size <= mem_brk
  BY DEF TraceInv, Passes, Interpreted, Accounted
<1>3. total_size = InUseIn(ops, i)
  BY <1>2, RememberedCount
<1>4. max_total_size = Max({InUseIn(ops, k) : k \in 0..i})
  BY <1>2, HighIsMax
<1> QED
  BY <1>1, <1>2, <1>3, <1>4

(***************************************************************************)
(* The steps of main                                                       *)
(***************************************************************************)
LEMMA Starts == Init => Inv
<1> SUFFICES ASSUME Init PROVE Inv
  OBVIOUS
<1>1. TraceInv /\ pass = "none"
  BY TraceStarts DEF Init, PassesInit
<1>2. /\ USE_FCYC \in BOOLEAN /\ counter = 0 /\ samples = <<>>
  BY MdriverAssumption DEF Init, FcycInit
<1>3. SamplesInv
  <2>1. 0 < WORD * WORD
    BY Square
  <2> QED
    BY <1>1, <1>2, <2>1 DEF SamplesInv, Measures
<1>4. MainInv
  BY <1>1 DEF Init, MainInv
<1> QED
  BY <1>1, <1>3, <1>4 DEF Inv

\* main does something that no pass is concerned with.
MainOnly == UNCHANGED <<memVars, clientVars, rover, passVars>>

LEMMA MainOnlyKeeps ==
    ASSUME Inv, MainOnly
    PROVE  TraceInv' /\ SamplesInv' /\ pass' = pass
<1>1. /\ Idles /\ UNCHANGED <<rover, author, traceVars>> /\ UNCHANGED fcycVars
      /\ pass' = pass
  BY DEF MainOnly, passVars, Idles, traceVars
<1>2. TraceInv'
  BY <1>1, TraceStutters DEF Inv
<1>3. SamplesInv'
  BY <1>1, SamplesKept DEF Inv, SamplesInv
<1> QED
  BY <1>1, <1>2, <1>3

LEMMA StartKeeps ==
    ASSUME Inv, Start
    PROVE  Inv'
<1>1. MainOnly /\ UNCHANGED <<setup, file, mm_stats, errors, printed>>
  BY DEF Start, MainOnly
<1>2. phase = "start" /\ phase' \in {"exit", "libc", "mm"}
  BY DEF Start
<1>3. TraceInv' /\ SamplesInv' /\ pass' = pass
  BY <1>1, MainOnlyKeeps
<1>4. pass = "none" /\ mm_stats = <<>> /\ errors = 0 /\ file = 0
  BY <1>2 DEF Inv, MainInv
<1>5. MainInv'
  BY <1>1, <1>2, <1>3, <1>4, NoFiles DEF Inv, MainInv
<1> QED
  BY <1>3, <1>5 DEF Inv

LEMMA LibcKeeps ==
    ASSUME Inv, eval_libc_valid \/ LibcOver
    PROVE  Inv'
<1>1. MainOnly /\ UNCHANGED <<setup, mm_stats, printed>>
  BY DEF eval_libc_valid, LibcOver, MainOnly
<1>2. /\ phase = "libc"
      /\ \/ phase' = "libc" /\ errors' = errors /\ file' = file + 1
         \/ phase' = "exit" /\ file' = file
         \/ phase' = "mm" /\ file' = 0 /\ errors' = errors
  BY DEF eval_libc_valid, LibcOver
<1>3. TraceInv' /\ SamplesInv' /\ pass' = pass
  BY <1>1, MainOnlyKeeps
<1>4. pass = "none" /\ mm_stats = <<>> /\ errors = 0 /\ file \in Nat
  BY <1>2 DEF Inv, MainInv
<1>5. MainInv'
  BY <1>1, <1>2, <1>3, <1>4, NoFiles DEF Inv, MainInv
<1> QED
  BY <1>3, <1>5 DEF Inv

LEMMA read_traceKeeps ==
    ASSUME Inv, read_trace
    PROVE  Inv'
<1>1. /\ phase = "mm" /\ pass = "none" /\ file < num_tracefiles
      /\ UNCHANGED <<author, rover, fcycVars, setup, file, mm_stats, errors, printed>>
  BY DEF read_trace
<1> DEFINE len == setup.num_ops[file + 1]
<1>2. PICK t \in Traces(len), header \in Headers(len) :
         IF HeaderAgrees(t, header)
         THEN /\ Begin(t)
              /\ \/ pc = "init" /\ UNCHANGED <<memVars, clientVars>>
                 \/ NewTrace
              /\ UNCHANGED phase
         ELSE /\ phase' = "exit"
              /\ UNCHANGED <<memVars, clientVars, traceVars>>
  BY Zenon DEF read_trace
<1>3. len \in Nat
  <2>1. setup.num_ops \in Seq(Nat) /\ file \in Nat /\ file < Len(setup.num_ops)
    BY <1>1, MdriverAssumption DEF Inv, MainInv, num_tracefiles
  <2> QED
    BY <2>1
<1> HIDE DEF len
<1>4. CASE HeaderAgrees(t, header)
  <2>1. /\ ops' = t /\ i' = 0 /\ pass' = "valid" /\ total_size' = 0 /\ max_total_size' = 0
        /\ util' = <<0, 0>> /\ phase' = phase
    BY <1>2, <1>4 DEF Begin
  <2>2. Begins
    BY <1>1, <1>2, <1>4, <2>1 DEF Begins, Idles, Passes
  <2>3. ops' \in Seq(Requests)
    <3>1. t \in [1..len -> Requests]
      BY DEF Traces
    <3> QED
      BY <1>3, <2>1, <3>1
  <2>4. TraceInv'
    BY <2>1, <2>2, <2>3, BeginsKeeps DEF Inv, Utilised
  <2>5. samples = <<>>
    BY <1>1 DEF Inv, SamplesInv, Measures
  <2>6. SamplesInv'
    BY <1>1, <2>1, <2>5, SamplesKept DEF Inv, Measures
  <2>7. MainInv'
    BY <1>1, <2>1 DEF Inv, MainInv, num_tracefiles
  <2> QED
    BY <2>4, <2>6, <2>7 DEF Inv
<1>5. CASE ~HeaderAgrees(t, header)
  <2>1. phase' = "exit" /\ MainOnly
    BY <1>1, <1>2, <1>5 DEF MainOnly, passVars
  <2>2. TraceInv' /\ SamplesInv' /\ pass' = pass
    BY <2>1, MainOnlyKeeps
  <2>3. MainInv'
    BY <1>1, <2>1, <2>2 DEF Inv, MainInv
  <2> QED
    BY <2>2, <2>3 DEF Inv
<1> QED
  BY <1>4, <1>5

LEMMA EvaluateFileKeeps ==
    ASSUME Inv, EvaluateFile
    PROVE  Inv'
<1>1. /\ Evaluate /\ phase = "mm"
      /\ UNCHANGED <<setup, phase, file, mm_stats, errors, printed>>
  BY DEF EvaluateFile, mainVars
<1>2. TraceInv' /\ SamplesInv'
  BY <1>1, EvaluateKeeps, EvaluateMeasures DEF Inv
<1>3. pass # "none"
  BY <1>1 DEF Evaluate, PackageRuns, Interpret, Answered, CallFailed, InitFailed,
              Accepted, UtilOver, SpeedOver, CalledAgain, Measured, Passes, PassOver
<1>4. MainInv'
  BY <1>1, <1>3 DEF Inv, MainInv, num_tracefiles
<1> QED
  BY <1>2, <1>4 DEF Inv

\* What free_trace adds is true of the file.
LEMMA StatsTrue ==
    ASSUME Inv, pass \in {"rejected", "measured"}
    PROVE  /\ Stats \in FileStats /\ True(Stats)
           /\ Stats.valid = (pass = "measured")
<1>1. util \in Nat \X Nat /\ Len(ops) \in Nat
  BY DEF Inv, TraceInv, Utilised
<1>2. CASE pass = "measured"
  <2>1. fsecs \in Nat /\ fsecs > 0 /\ util[1] <= util[2]
    BY <1>2, TimeTaken DEF Inv, TraceInv, Utilised
  <2>2. Stats = [ops |-> Len(ops), valid |-> TRUE, util |-> util, secs |-> fsecs]
    BY <1>2 DEF Stats, NumOps
  <2> QED
    BY <1>1, <1>2, <2>1, <2>2 DEF FileStats, True
<1>3. CASE pass = "rejected"
  <2>1. Stats = [ops |-> Len(ops), valid |-> FALSE, util |-> util, secs |-> 0]
    BY <1>3 DEF Stats, NumOps
  <2>2. util = <<0, 0>>
    BY <1>3 DEF Inv, TraceInv, Utilised
  <2> QED
    BY <1>1, <1>3, <2>1, <2>2 DEF FileStats, True
<1> QED
  BY <1>2, <1>3

LEMMA free_traceKeeps ==
    ASSUME Inv, free_trace
    PROVE  Inv'
<1>1. /\ phase = "mm" /\ pass \in {"rejected", "measured"} /\ pass' = "none"
      /\ mm_stats' = Append(mm_stats, Stats)
      /\ errors' = errors + (IF pass = "rejected" THEN 1 ELSE 0)
      /\ file' = file + 1
      /\ ops' = <<>> /\ util' = <<0, 0>>
      /\ UNCHANGED <<author, rover, setup, phase, printed>>
      /\ Idles
  BY DEF free_trace, malloc_error, Idles
<1>2. TraceInv'
  BY <1>1, IdleKeeps DEF Inv, Passes, Utilised
<1>3. SamplesInv'
  <2>1. counter' = 0 /\ samples' = <<>> /\ USE_FCYC' = USE_FCYC
    BY DEF free_trace, FcycReturns
  <2>2. 0 < WORD * WORD
    BY Square
  <2> QED
    BY <1>1, <2>1, <2>2 DEF Inv, SamplesInv, Measures
<1>4. /\ Counts(mm_stats, errors) /\ Len(mm_stats) = file
      /\ file \in Nat /\ file < num_tracefiles
  BY <1>1 DEF Inv, MainInv
<1>5. Counts(mm_stats', errors') /\ Len(mm_stats') = file'
  <2>1. Stats \in FileStats /\ True(Stats) /\ Stats.valid = (pass = "measured")
    BY <1>1, StatsTrue
  <2>2. (IF Stats.valid THEN 0 ELSE 1) = IF pass = "rejected" THEN 1 ELSE 0
    BY <1>1, <2>1
  <2>3. Counts(mm_stats', errors')
    BY <1>1, <1>4, <2>1, <2>2, OneMoreFile
  <2>4. mm_stats \in Seq(FileStats)
    BY <1>4 DEF Counts
  <2> QED
    BY <1>1, <1>4, <2>1, <2>3, <2>4
<1>6. MainInv'
  BY <1>1, <1>4, <1>5 DEF Inv, MainInv
<1> QED
  BY <1>2, <1>3, <1>6 DEF Inv

LEMMA ReportKeeps ==
    ASSUME Inv, Report
    PROVE  Inv'
<1>1. MainOnly /\ UNCHANGED <<setup, file, mm_stats, errors>>
  BY DEF Report, MainOnly
<1>2. /\ phase = "mm" /\ pass = "none" /\ file = num_tracefiles /\ phase' = "done"
      /\ printed'.numcorrect = Cardinality({k \in 1..num_tracefiles : mm_stats[k].valid})
      /\ printed'.perfindex = (errors = 0)
  BY DEF Report
<1>3. TraceInv' /\ SamplesInv' /\ pass' = pass
  BY <1>1, MainOnlyKeeps
<1>4. Counts(mm_stats, errors) /\ Len(mm_stats) = num_tracefiles
  BY <1>2 DEF Inv, MainInv
<1>5. printed'.numcorrect = Cardinality(ValidAmong(mm_stats))
  BY <1>2, <1>4 DEF ValidAmong
<1>6. num_tracefiles' = num_tracefiles
  BY <1>1 DEF num_tracefiles
<1>7. MainInv'
  BY <1>1, <1>2, <1>3, <1>4, <1>5, <1>6 DEF Inv, MainInv
<1> QED
  BY <1>3, <1>7 DEF Inv

LEMMA NextKeeps ==
    ASSUME Inv, [Next]_vars
    PROVE  Inv'
<1>1. CASE UNCHANGED vars
  <2>1. MainOnly /\ UNCHANGED <<setup, phase, file, mm_stats, errors, printed>>
    BY <1>1 DEF vars, mainVars, MainOnly
  <2>2. TraceInv' /\ SamplesInv' /\ pass' = pass
    BY <2>1, MainOnlyKeeps
  <2>3. MainInv'
    BY <2>1, <2>2 DEF Inv, MainInv, num_tracefiles
  <2> QED
    BY <2>2, <2>3 DEF Inv
<1> QED
  BY <1>1, StartKeeps, LibcKeeps, read_traceKeeps, EvaluateFileKeeps, free_traceKeeps,
     ReportKeeps DEF Next

\* The driver, its package, its measurements and its statistics stay consistent.
THEOREM DriverInvariant == Spec => []Inv
  BY Starts, NextKeeps, PTL DEF Spec

\* The K-best scheme of fcyc.c holds the smallest of the true durations, in
\* order, for every setting of the scheme and every width of the counter.
THEOREM DriverBestOfSamples == Spec => []BestOfSamples
<1>1. Inv => BestOfSamples
  BY SamplesBest DEF Inv
<1> QED
  BY <1>1, DriverInvariant, PTL

\* eval_mm_util's sums are what the trace has in use and its high water mark,
\* which is never above the heap's size, for every heap and every trace (of
\* sanglim's, those that do not lose its rover).
THEOREM DriverUtilisationTrue == Spec => []UtilisationTrue
<1>1. Inv => UtilisationTrue
  BY UtilisationIsTrue DEF Inv
<1> QED
  BY <1>1, DriverInvariant, PTL

\* main prints an index exactly when all its files were accepted and measured.
THEOREM DriverReportTrue == Spec => []ReportTrue
<1>1. Inv => ReportTrue
  BY ReportIsTrue DEF Inv
<1> QED
  BY <1>1, DriverInvariant, PTL
=============================================================================
