-------------------------- MODULE EvalMmValidProofs -------------------------
(***************************************************************************)
(* The range list of mdriver.c, and when its verdict can be trusted: the   *)
(* inductive invariant of EvalMmValid and the theorems, for every set of   *)
(* block indices, sizes and addresses and every heap.                      *)
(***************************************************************************)
EXTENDS EvalMmValid, SequenceTheorems, WellFoundedInduction, TLAPS

Ranges == [lo : Addrs, hi : Nat]

\* No range of the list is empty.
Spans(rs) == \A k \in DOMAIN rs : rs[k].lo <= rs[k].hi

\* A later range, nearer the front, overlaps an earlier one only around it.
Encloses(rs) ==
    \A j, k \in DOMAIN rs :
        j < k /\ Overlap(rs[j], rs[k]) => rs[j].lo < rs[k].lo /\ rs[k].hi < rs[j].hi

\* The list holds each range of B once, and no other.
Lists(rs, B) ==
    /\ {rs[k] : k \in DOMAIN rs} = B
    /\ \A j, k \in DOMAIN rs : j # k => rs[j] # rs[k]

\* What eval_mm_valid knows of the blocks the trace has live.
BlocksKnown ==
    /\ \A i \in live : blocks[i] \in Addrs /\ block_sizes[i] \in Sizes
    /\ phase # "invalid" =>
         /\ Lists(ranges, {Payload(i) : i \in live})
         /\ \A i, j \in live : i # j => blocks[i] # blocks[j]

\* What a package that has kept its promises owes the trace.
Owed(i) ==
    /\ Payload(i).lo \in Heap /\ Payload(i).hi \in Heap
    /\ \A a \in Heap : blocks[i] <= a /\ a <= Payload(i).hi => bytes[a] = FillByte(i)

Kept ==
    faultless /\ phase # "invalid" =>
        /\ \A i \in live : Owed(i)
        /\ \A i, j \in live : i # j => ~Overlap(Payload(i), Payload(j))

IInv ==
    /\ TypeOK
    /\ Spans(ranges)
    /\ Encloses(ranges)
    /\ BlocksKnown
    /\ Kept

(***************************************************************************)
(* The operations on the list                                              *)
(***************************************************************************)
\* add_range puts the new range in front.
Prepended(r, rs, s) ==
    /\ s \in Seq(Ranges)
    /\ DOMAIN s = 1..(Len(rs) + 1)
    /\ s[1] = r
    /\ \A k \in 1..Len(rs) : s[k + 1] = rs[k]

LEMMA PrependedOK ==
    ASSUME NEW rs \in Seq(Ranges), NEW r \in Ranges
    PROVE  Prepended(r, rs, <<r>> \o rs)
<1>1. <<r>> \in Seq(Ranges) /\ Len(<<r>>) = 1 /\ <<r>>[1] = r /\ Len(rs) \in Nat
  OBVIOUS
<1> DEFINE s == <<r>> \o rs
<1>2. /\ s \in Seq(Ranges) /\ Len(s) = 1 + Len(rs)
      /\ \A i \in 1..(1 + Len(rs)) : s[i] = IF i <= 1 THEN <<r>>[i] ELSE rs[i - 1]
  BY <1>1, ConcatProperties
<1> HIDE DEF s
<1>3. DOMAIN s = 1..(Len(rs) + 1)
  BY <1>1, <1>2
<1>4. s[1] = r
  BY <1>1, <1>2
<1>5. \A k \in 1..Len(rs) : s[k + 1] = rs[k]
  <2>1. TAKE k \in 1..Len(rs)
  <2>2. k + 1 \in 1..(1 + Len(rs)) /\ ~(k + 1 <= 1) /\ (k + 1) - 1 = k
    BY <1>1
  <2> QED
    BY <1>2, <2>2
<1> QED
  BY <1>2, <1>3, <1>4, <1>5 DEF s, Prepended

\* remove_range takes out one range that starts at lo, when there is one.
Without(rs, lo, s, k) ==
    /\ k \in DOMAIN rs /\ rs[k].lo = lo
    /\ s \in Seq(Ranges)
    /\ DOMAIN s = 1..(Len(rs) - 1)
    /\ \A j \in DOMAIN s : s[j] = IF j < k THEN rs[j] ELSE rs[j + 1]

LEMMA RemovedOK ==
    ASSUME NEW rs \in Seq(Ranges), NEW lo
    PROVE  \/ /\ Removed(rs, lo) = rs
              /\ \A k \in DOMAIN rs : rs[k].lo # lo
           \/ \E k \in DOMAIN rs : Without(rs, lo, Removed(rs, lo), k)
<1> DEFINE at == {k \in DOMAIN rs : rs[k].lo = lo}
<1>1. CASE at = {}
  BY <1>1 DEF Removed
<1>2. CASE at # {}
  <2> DEFINE k == CHOOSE k \in at : \A j \in at : k <= j
             s1 == SubSeq(rs, 1, k - 1)
             s2 == SubSeq(rs, k + 1, Len(rs))
             s == s1 \o s2
  <2>1. DOMAIN rs = 1..Len(rs) /\ Len(rs) \in Nat
    OBVIOUS
  <2>2. \E x \in at : \A j \in at : x <= j
    <3>1. at \in SUBSET Nat /\ at # {}
      BY <1>2, <2>1
    <3> HIDE DEF at
    <3>2. \E x \in at : \A y \in at : <<y, x>> \notin OpToRel(<, Nat)
      BY <3>1, NatLessThanWellFounded, WFMin
    <3>3. ASSUME NEW x \in Nat, NEW y \in Nat, y < x
          PROVE  <<y, x>> \in OpToRel(<, Nat)
      <4>1. <<y, x>> \in Nat \X Nat /\ <<y, x>>[1] < <<y, x>>[2]
        BY <3>3
      <4> QED
        BY <4>1 DEF OpToRel
    <3>4. PICK x \in at : \A y \in at : <<y, x>> \notin OpToRel(<, Nat)
      BY <3>2
    <3>5. ASSUME NEW y \in at PROVE x <= y
      <4>1. ~(y < x)
        BY <3>1, <3>3, <3>4
      <4> QED
        BY <3>1, <4>1
    <3> QED
      BY <3>5
  <2>3. k \in at
    BY <2>2
  <2>4. Removed(rs, lo) = s
    BY <1>2 DEF Removed, RemoveAt
  <2>5. k \in DOMAIN rs /\ rs[k].lo = lo /\ k \in 1..Len(rs)
    BY <2>1, <2>3
  <2> HIDE DEF k, at
  <2>6. /\ s1 \in Seq(Ranges) /\ Len(s1) = k - 1
        /\ \A i \in 1..(k - 1) : s1[i] = rs[i]
    <3>1. \A i \in 1..(k - 1) : rs[i] \in Ranges
      BY <2>1, <2>5
    <3> QED
      BY <2>5, <3>1, SubSeqProperties
  <2>7. /\ s2 \in Seq(Ranges) /\ Len(s2) = Len(rs) - k
        /\ \A i \in 1..(Len(rs) - k) : s2[i] = rs[k + i]
    <3>1. \A i \in (k + 1)..Len(rs) : rs[i] \in Ranges
      BY <2>1, <2>5
    <3> QED
      BY <2>1, <2>5, <3>1, SubSeqProperties
  <2> HIDE DEF s1, s2
  <2>8. /\ s \in Seq(Ranges) /\ Len(s) = Len(rs) - 1
        /\ \A i \in 1..(Len(rs) - 1) : s[i] = IF i <= k - 1 THEN s1[i] ELSE s2[i - (k - 1)]
    <3>1. Len(s1) + Len(s2) = Len(rs) - 1
      BY <2>1, <2>5, <2>6, <2>7
    <3> QED
      BY <2>6, <2>7, <3>1, ConcatProperties
  <2> HIDE DEF s
  <2>9. DOMAIN s = 1..(Len(rs) - 1)
    BY <2>8
  <2>10. ASSUME NEW j \in 1..(Len(rs) - 1)
         PROVE  s[j] = IF j < k THEN rs[j] ELSE rs[j + 1]
    <3>1. CASE j < k
      <4>1. j <= k - 1 /\ j \in 1..(k - 1)
        BY <2>1, <2>5, <3>1
      <4> QED
        BY <2>6, <2>8, <3>1, <4>1
    <3>2. CASE ~(j < k)
      <4>1. /\ ~(j <= k - 1) /\ j - (k - 1) \in 1..(Len(rs) - k)
            /\ k + (j - (k - 1)) = j + 1
        BY <2>1, <2>5, <3>2
      <4> QED
        BY <2>7, <2>8, <3>2, <4>1
    <3> QED
      BY <3>1, <3>2
  <2> QED
    BY <2>4, <2>5, <2>8, <2>9, <2>10 DEF Without
<1> QED
  BY <1>1, <1>2

\* Taking a range out keeps what holds of every pair of ranges.
LEMMA RemovedKeeps ==
    ASSUME NEW rs \in Seq(Ranges), Spans(rs), Encloses(rs), NEW lo
    PROVE  /\ Removed(rs, lo) \in Seq(Ranges)
           /\ Spans(Removed(rs, lo)) /\ Encloses(Removed(rs, lo))
<1> DEFINE s == Removed(rs, lo)
<1>1. CASE s = rs
  BY <1>1
<1>2. CASE \E k \in DOMAIN rs : Without(rs, lo, s, k)
  <2>1. PICK k \in DOMAIN rs : Without(rs, lo, s, k)
    BY <1>2
  <2>2. DOMAIN rs = 1..Len(rs) /\ Len(rs) \in Nat /\ k \in 1..Len(rs)
    OBVIOUS
  <2> HIDE DEF s
  <2> DEFINE f(j) == IF j < k THEN j ELSE j + 1
  <2>3. /\ s \in Seq(Ranges) /\ DOMAIN s = 1..(Len(rs) - 1)
        /\ \A j \in DOMAIN s : s[j] = rs[f(j)]
    BY <2>1 DEF Without
  <2>4. \A j \in DOMAIN s : j \in Nat /\ f(j) \in DOMAIN rs
    BY <2>2, <2>3
  <2>5. \A i, j \in DOMAIN s : i < j => f(i) < f(j)
    BY <2>2, <2>3
  <2> HIDE DEF f
  <2>6. Spans(s)
    BY <2>3, <2>4 DEF Spans
  <2>7. Encloses(s)
    BY <2>3, <2>4, <2>5 DEF Encloses
  <2> QED
    BY <2>3, <2>6, <2>7 DEF s
<1> QED
  BY <1>1, <1>2, RemovedOK

\* A range that add_range accepts may enclose an older one, nothing else.
LEMMA AcceptedKeeps ==
    ASSUME NEW rs \in Seq(Ranges), Spans(rs), Encloses(rs),
           NEW r \in Ranges, r.lo <= r.hi, Accepted(rs, r)
    PROVE  /\ <<r>> \o rs \in Seq(Ranges)
           /\ Spans(<<r>> \o rs) /\ Encloses(<<r>> \o rs)
<1> DEFINE s == <<r>> \o rs
<1>1. Prepended(r, rs, s)
  BY PrependedOK
<1>2. DOMAIN rs = 1..Len(rs) /\ Len(rs) \in Nat /\ \A k \in DOMAIN rs : rs[k] \in Ranges
  OBVIOUS
<1> HIDE DEF s
<1>3. /\ s \in Seq(Ranges) /\ DOMAIN s = 1..(Len(rs) + 1) /\ s[1] = r
      /\ \A k \in DOMAIN s : k # 1 => k - 1 \in DOMAIN rs /\ s[k] = rs[k - 1]
  <2>1. ASSUME NEW k \in 1..(Len(rs) + 1), k # 1
        PROVE  k - 1 \in 1..Len(rs) /\ s[k] = rs[k - 1]
    <3>1. k - 1 \in 1..Len(rs) /\ (k - 1) + 1 = k
      BY <1>2, <2>1
    <3> QED
      BY <1>1, <3>1 DEF Prepended
  <2> QED
    BY <1>1, <1>2, <2>1 DEF Prepended
<1>4. Spans(s)
  BY <1>3 DEF Spans
<1>5. ASSUME NEW j \in DOMAIN s, NEW k \in DOMAIN s, j < k, Overlap(s[j], s[k])
      PROVE  s[j].lo < s[k].lo /\ s[k].hi < s[j].hi
  <2>1. k # 1
    BY <1>2, <1>3, <1>5
  <2>2. k - 1 \in DOMAIN rs /\ s[k] = rs[k - 1]
    BY <1>3, <2>1
  <2>3. CASE j = 1
    <3>1. ~Conflict(r, rs[k - 1]) /\ s[j] = r
      BY <1>3, <2>2, <2>3 DEF Accepted
    <3>2. /\ r.lo \in Nat /\ r.hi \in Nat
          /\ rs[k - 1].lo \in Nat /\ rs[k - 1].hi \in Nat
      BY <1>2, <2>2, EvalAssumption DEF Ranges
    <3> QED
      BY <1>5, <2>2, <3>1, <3>2 DEF Conflict, Overlap
  <2>4. CASE j # 1
    <3>1. j - 1 \in DOMAIN rs /\ s[j] = rs[j - 1] /\ j - 1 < k - 1
      BY <1>2, <1>3, <1>5, <2>4
    <3> QED
      BY <1>5, <2>2, <3>1 DEF Encloses
  <2> QED
    BY <2>3, <2>4
<1> QED
  BY <1>3, <1>4, <1>5 DEF Encloses, s

\* add_range adds its range to those listed, once.
LEMMA AcceptedLists ==
    ASSUME NEW rs \in Seq(Ranges), NEW r \in Ranges, NEW B, Lists(rs, B), r \notin B
    PROVE  Lists(<<r>> \o rs, B \cup {r})
<1> DEFINE s == <<r>> \o rs
<1>1. Prepended(r, rs, s)
  BY PrependedOK
<1>2. DOMAIN rs = 1..Len(rs) /\ Len(rs) \in Nat
  OBVIOUS
<1> HIDE DEF s
<1>3. /\ DOMAIN s = 1..(Len(rs) + 1) /\ s[1] = r
      /\ \A k \in DOMAIN rs : k + 1 \in DOMAIN s /\ s[k + 1] = rs[k]
  BY <1>1, <1>2 DEF Prepended
<1>4. ASSUME NEW k \in DOMAIN s, k # 1
      PROVE  k - 1 \in DOMAIN rs /\ s[k] = rs[k - 1]
  <2>1. k - 1 \in DOMAIN rs /\ (k - 1) + 1 = k
    BY <1>2, <1>3, <1>4
  <2> QED
    BY <1>3, <2>1
<1>5. /\ {rs[k] : k \in DOMAIN rs} = B
      /\ \A j, k \in DOMAIN rs : j # k => rs[j] # rs[k]
      /\ \A k \in DOMAIN rs : rs[k] # r
  BY DEF Lists
<1>6. {s[k] : k \in DOMAIN s} = B \cup {r}
  <2>1. ASSUME NEW k \in DOMAIN s PROVE s[k] \in B \cup {r}
    BY <1>3, <1>4, <1>5
  <2>2. 1 \in DOMAIN s
    BY <1>2, <1>3
  <2>3. ASSUME NEW x \in B \cup {r} PROVE \E k \in DOMAIN s : x = s[k]
    <3>1. CASE x = r
      BY <1>3, <2>2, <3>1
    <3>2. CASE x \in B
      <4>1. PICK k \in DOMAIN rs : x = rs[k]
        BY <1>5, <3>2
      <4> QED
        BY <1>3, <4>1
    <3> QED
      BY <3>1, <3>2
  <2> QED
    BY <2>1, <2>3
<1>7. ASSUME NEW j \in DOMAIN s, NEW k \in DOMAIN s, j # k PROVE s[j] # s[k]
  <2>1. CASE j = 1
    BY <1>3, <1>4, <1>5, <1>7, <2>1
  <2>2. CASE k = 1
    BY <1>3, <1>4, <1>5, <1>7, <2>2
  <2>3. CASE j # 1 /\ k # 1
    <3>1. j - 1 # k - 1
      BY <1>2, <1>3, <1>7
    <3> QED
      BY <1>4, <1>5, <2>3, <3>1
  <2> QED
    BY <2>1, <2>2, <2>3
<1> QED
  BY <1>6, <1>7 DEF Lists, s

\* remove_range takes out the range that starts at lo, the only one.
LEMMA RemovedLists ==
    ASSUME NEW rs \in Seq(Ranges), NEW B, Lists(rs, B), NEW r \in B,
           \A x \in B : x # r => x.lo # r.lo
    PROVE  Lists(Removed(rs, r.lo), B \ {r})
<1> DEFINE s == Removed(rs, r.lo)
<1>1. /\ {rs[k] : k \in DOMAIN rs} = B
      /\ \A j, k \in DOMAIN rs : j # k => rs[j] # rs[k]
  BY DEF Lists
<1>2. PICK k \in DOMAIN rs : Without(rs, r.lo, s, k)
  <2>1. \E k \in DOMAIN rs : rs[k].lo = r.lo
    BY <1>1
  <2> QED
    BY <2>1, RemovedOK
<1>3. rs[k] = r
  <2>1. rs[k] \in B /\ rs[k].lo = r.lo
    BY <1>1, <1>2 DEF Without
  <2> QED
    BY <2>1
<1>4. DOMAIN rs = 1..Len(rs) /\ Len(rs) \in Nat /\ k \in 1..Len(rs)
  OBVIOUS
<1> HIDE DEF s
<1> DEFINE f(j) == IF j < k THEN j ELSE j + 1
<1>5. DOMAIN s = 1..(Len(rs) - 1) /\ \A j \in DOMAIN s : s[j] = rs[f(j)]
  BY <1>2 DEF Without
<1>6. \A j \in DOMAIN s : f(j) \in DOMAIN rs /\ f(j) # k
  BY <1>4, <1>5
<1>7. \A i, j \in DOMAIN s : i # j => f(i) # f(j)
  BY <1>4, <1>5
<1>8. \A i \in DOMAIN rs : i # k => \E j \in DOMAIN s : f(j) = i
  <2>1. ASSUME NEW i \in DOMAIN rs, i < k PROVE i \in DOMAIN s /\ f(i) = i
    BY <1>4, <1>5, <2>1
  <2>2. ASSUME NEW i \in DOMAIN rs, i > k PROVE i - 1 \in DOMAIN s /\ f(i - 1) = i
    BY <1>4, <1>5, <2>2
  <2>3. \A i \in DOMAIN rs : i # k => i < k \/ i > k
    BY <1>4
  <2> QED
    BY <2>1, <2>2, <2>3
<1> HIDE DEF f
<1>9. {s[j] : j \in DOMAIN s} = B \ {r}
  <2>1. ASSUME NEW j \in DOMAIN s PROVE s[j] \in B \ {r}
    BY <1>1, <1>3, <1>5, <1>6
  <2>2. ASSUME NEW x \in B \ {r} PROVE \E j \in DOMAIN s : x = s[j]
    <3>1. PICK i \in DOMAIN rs : x = rs[i]
      BY <1>1
    <3>2. i # k
      BY <1>3, <3>1
    <3> QED
      BY <1>5, <1>8, <3>1, <3>2
  <2> QED
    BY <2>1, <2>2
<1>10. \A i, j \in DOMAIN s : i # j => s[i] # s[j]
  BY <1>1, <1>5, <1>6, <1>7
<1> QED
  BY <1>9, <1>10 DEF Lists, s

(***************************************************************************)
(* What the list and the payloads say of each other                        *)
(***************************************************************************)
\* The extent of a request is a range of the list, and not empty.
LEMMA ExtentOK ==
    ASSUME NEW p \in Addrs, NEW size \in Sizes
    PROVE  /\ Extent(p, size) \in Ranges
           /\ Extent(p, size).lo = p
           /\ Extent(p, size).hi = p + size - 1
           /\ p \in Nat /\ size \in Nat \ {0}
           /\ Extent(p, size).lo <= Extent(p, size).hi
<1>1. p \in Nat /\ size \in Nat /\ size # 0
  BY EvalAssumption
<1>2. p + size - 1 \in Nat /\ p <= p + size - 1
  BY <1>1
<1> QED
  BY <1>1, <1>2 DEF Extent, Ranges

\* The payloads of the live blocks are ranges, and not empty.
LEMMA PayloadsOK ==
    ASSUME TypeOK, BlocksKnown, NEW j \in live
    PROVE  /\ blocks[j] \in Nat /\ block_sizes[j] \in Nat \ {0}
           /\ blocks[j] \in Addrs /\ block_sizes[j] \in Sizes
           /\ Payload(j) \in Ranges
           /\ Payload(j).lo = blocks[j]
           /\ Payload(j).hi = blocks[j] + block_sizes[j] - 1
           /\ Payload(j).lo <= Payload(j).hi
<1>1. blocks[j] \in Addrs /\ block_sizes[j] \in Sizes
  BY DEF BlocksKnown
<1> QED
  BY <1>1, ExtentOK DEF Payload

\* Without a block's own range the list holds those of the other blocks.
LEMMA RestOfList ==
    ASSUME IInv, phase # "invalid", NEW i \in live
    PROVE  LET rest == Removed(ranges, blocks[i])
           IN  /\ rest \in Seq(Ranges) /\ Spans(rest) /\ Encloses(rest)
               /\ Lists(rest, {Payload(j) : j \in live \ {i}})
<1> DEFINE rest == Removed(ranges, blocks[i])
           B == {Payload(j) : j \in live}
<1>1. ranges \in Seq(Ranges) /\ Spans(ranges) /\ Encloses(ranges)
  BY DEF IInv, TypeOK, Ranges
<1>2. rest \in Seq(Ranges) /\ Spans(rest) /\ Encloses(rest)
  BY <1>1, RemovedKeeps
<1>3. \A j \in live : Payload(j).lo = blocks[j]
  BY PayloadsOK DEF IInv
<1>4. Lists(ranges, B) /\ \A j \in live : j # i => blocks[j] # blocks[i]
  BY DEF IInv, BlocksKnown
<1>5. \A x \in B : x # Payload(i) => x.lo # Payload(i).lo
  BY <1>3, <1>4
<1>6. Payload(i) \in B
  OBVIOUS
<1>7. Lists(rest, B \ {Payload(i)})
  <2> HIDE DEF rest, B
  <2>1. Lists(Removed(ranges, Payload(i).lo), B \ {Payload(i)})
    BY <1>1, <1>4, <1>5, <1>6, RemovedLists
  <2> QED
    BY <1>3, <2>1 DEF rest
<1>8. B \ {Payload(i)} = {Payload(j) : j \in live \ {i}}
  <2>1. \A j \in live : j # i => Payload(j) # Payload(i)
    BY <1>3, <1>4
  <2> QED
    BY <2>1
<1> HIDE DEF rest
<1> QED
  BY <1>2, <1>7, <1>8 DEF rest

\* A range that add_range accepts starts at no listed block's address.
LEMMA AcceptedElsewhere ==
    ASSUME TypeOK, BlocksKnown, NEW S \in SUBSET live,
           NEW rest, Lists(rest, {Payload(j) : j \in S}),
           NEW p \in Addrs, NEW size \in Sizes, Accepted(rest, Extent(p, size)),
           NEW j \in S
    PROVE  blocks[j] # p
<1>1. PICK k \in DOMAIN rest : rest[k] = Payload(j)
  BY DEF Lists
<1>2. ~Conflict(Extent(p, size), Payload(j))
  BY <1>1 DEF Accepted
<1>3. /\ Payload(j).lo = blocks[j] /\ Payload(j).lo <= Payload(j).hi
      /\ blocks[j] \in Nat
  BY PayloadsOK
<1> QED
  BY <1>2, <1>3, ExtentOK DEF Conflict

\* What add_range refuses of a range in the heap overlaps a listed block.
LEMMA RefusedOverlaps ==
    ASSUME TypeOK, BlocksKnown, NEW S \in SUBSET live,
           NEW rest, Lists(rest, {Payload(j) : j \in S}),
           NEW p \in Addrs, NEW size \in Sizes,
           Extent(p, size).lo % ALIGNMENT = 0,
           Extent(p, size).lo \in Heap, Extent(p, size).hi \in Heap,
           ~Accepted(rest, Extent(p, size))
    PROVE  \E j \in S : Overlap(Extent(p, size), Payload(j))
<1>1. PICK k \in DOMAIN rest : Conflict(Extent(p, size), rest[k])
  BY DEF Accepted
<1>2. PICK j \in S : rest[k] = Payload(j)
  BY DEF Lists
<1>3. /\ Payload(j).lo <= Payload(j).hi
      /\ Payload(j).lo \in Nat /\ Payload(j).hi \in Nat
  BY PayloadsOK
<1>4. /\ Extent(p, size).lo <= Extent(p, size).hi
      /\ Extent(p, size).lo \in Nat /\ Extent(p, size).hi \in Nat
  BY ExtentOK
<1> QED
  BY <1>1, <1>2, <1>3, <1>4 DEF Conflict, Overlap

(***************************************************************************)
(* The steps                                                               *)
(***************************************************************************)
\* The state after an accepted range, for mm_malloc and mm_realloc alike:
\* rest is the list it was put in front of, after the bytes the package left.
Placed(i, p, size, rest, after) ==
    /\ phase = "running"
    /\ Accepted(rest, Extent(p, size))
    /\ ranges' = <<Extent(p, size)>> \o rest
    /\ bytes' = memset(after, Extent(p, size), FillByte(i))
    /\ Remember(i, p, size)
    /\ live' = live \cup {i}
    /\ unused' \in SUBSET (unused \ {i})
    /\ phase' = "running"
    /\ faultless' \in BOOLEAN
    /\ faultless' =>
         /\ faultless
         /\ Promised(i, Extent(p, size))
         /\ \A j \in live \ {i} : \A a \in Heap :
               blocks[j] <= a /\ a <= Payload(j).hi => after[a] = bytes[a]

LEMMA FillIsByte == \A i \in Ids : FillByte(i) \in 0..255
<1>1. \A n \in Nat : n % 256 \in 0..255
  OBVIOUS
<1> QED
  BY <1>1, EvalAssumption DEF FillByte

LEMMA PlacedKeeps ==
    ASSUME IInv, NEW i \in Ids, NEW p \in Addrs, NEW size \in Sizes,
           NEW rest \in Seq(Ranges), Spans(rest), Encloses(rest),
           Lists(rest, {Payload(j) : j \in live \ {i}}),
           NEW after \in [Heap -> 0..255],
           Placed(i, p, size, rest, after)
    PROVE  IInv'
<1> DEFINE r == Extent(p, size)
           S == live \ {i}
<1>1. TypeOK /\ BlocksKnown /\ Kept /\ S \subseteq live /\ phase # "invalid"
  BY DEF IInv, Placed
<1>2. /\ r \in Ranges /\ r.lo = p /\ r.hi = p + size - 1 /\ r.lo <= r.hi
      /\ p \in Nat /\ size \in Nat \ {0}
  BY ExtentOK
<1>3. <<r>> \o rest \in Seq(Ranges) /\ Spans(<<r>> \o rest) /\ Encloses(<<r>> \o rest)
  <2> HIDE DEF r
  <2> QED
    BY <1>2, AcceptedKeeps DEF Placed, r
<1>4. ranges' = <<r>> \o rest
  BY DEF Placed
<1>5. /\ \A j \in Ids : blocks'[j] = IF j = i THEN p ELSE blocks[j]
      /\ \A j \in Ids : block_sizes'[j] = IF j = i THEN size ELSE block_sizes[j]
      /\ blocks' \in [Ids -> Addrs \cup {NULL}]
      /\ block_sizes' \in [Ids -> Sizes \cup {0}]
  BY <1>1 DEF Placed, Remember, TypeOK
<1>6. live' = S \cup {i} /\ S \subseteq Ids /\ live' \subseteq Ids
  BY <1>1 DEF Placed, TypeOK
<1>7. \A j \in S : Payload(j)' = Payload(j)
  BY <1>5, <1>6 DEF Payload, Extent
<1>8. Payload(i)' = r
  BY <1>5 DEF Payload, Extent
<1>9. \A j \in S : blocks[j] # p
  BY <1>1, AcceptedElsewhere DEF Placed
<1>10. /\ bytes' = [a \in Heap |-> IF r.lo <= a /\ a <= r.hi THEN FillByte(i) ELSE after[a]]
       /\ bytes' \in [Heap -> 0..255]
  BY FillIsByte DEF Placed, memset
<1>11. TypeOK'
  <2>1. unused' \subseteq Ids \ live'
    BY <1>1, <1>6 DEF Placed, TypeOK
  <2>2. ranges' \in Seq([lo : Addrs, hi : Nat])
    BY <1>3, <1>4 DEF Ranges
  <2> QED
    BY <1>5, <1>6, <1>10, <2>1, <2>2 DEF Placed, TypeOK
<1>12. Spans(ranges)' /\ Encloses(ranges)'
  BY <1>3, <1>4 DEF Spans, Encloses
<1>13. BlocksKnown'
  <2>1. \A j \in live' : blocks'[j] \in Addrs /\ block_sizes'[j] \in Sizes
    BY <1>1, <1>5, <1>6 DEF BlocksKnown
  <2>2. \A j, k \in live' : j # k => blocks'[j] # blocks'[k]
    <3>1. \A j, k \in S : j # k => blocks[j] # blocks[k]
      BY <1>1 DEF BlocksKnown
    <3> QED
      BY <1>5, <1>6, <1>9, <3>1
  <2>3. {Payload(j)' : j \in live'} = {Payload(j) : j \in S} \cup {r}
    BY <1>6, <1>7, <1>8
  <2>4. r \notin {Payload(j) : j \in S}
    <3>1. \A j \in S : Payload(j).lo = blocks[j]
      BY <1>1, PayloadsOK
    <3> QED
      BY <1>2, <1>9, <3>1
  <2>5. Lists(<<r>> \o rest, {Payload(j) : j \in S} \cup {r})
    <3> HIDE DEF r
    <3> DEFINE B == {Payload(j) : j \in S}
    <3>1. Lists(rest, B) /\ r \notin B
      BY <2>4
    <3> HIDE DEF B, S
    <3>2. Lists(<<r>> \o rest, B \cup {r})
      BY <1>2, <3>1, AcceptedLists
    <3> QED
      BY <3>2 DEF B
  <2>6. Lists(ranges, {Payload(j) : j \in live})'
    BY <1>4, <2>3, <2>5 DEF Lists
  <2> QED
    BY <2>1, <2>2, <2>6 DEF BlocksKnown
<1>14. Kept'
  <2> SUFFICES ASSUME faultless'
               PROVE  /\ \A j \in live' : Owed(j)'
                      /\ \A j, k \in live' : j # k => ~Overlap(Payload(j)', Payload(k)')
    BY DEF Kept, Overlap
  <2>1. /\ faultless /\ Promised(i, r)
        /\ \A j \in S : \A a \in Heap :
              blocks[j] <= a /\ a <= Payload(j).hi => after[a] = bytes[a]
    BY DEF Placed
  <2>2. /\ \A j \in S : Owed(j)
        /\ \A j, k \in S : j # k => ~Overlap(Payload(j), Payload(k))
    BY <1>1, <2>1 DEF Kept
  <2>3. \A j \in S : ~Overlap(r, Payload(j))
    BY <2>1 DEF Promised
  <2>4. Owed(i)'
    <3>1. r.lo \in Heap /\ r.hi \in Heap
      BY <2>1 DEF Promised
    <3>2. \A a \in Heap : p <= a /\ a <= r.hi => bytes'[a] = FillByte(i)
      BY <1>2, <1>10
    <3> QED
      BY <1>5, <1>8, <3>1, <3>2 DEF Owed
  <2>5. ASSUME NEW j \in S PROVE Owed(j)'
    <3>1. /\ Payload(j).lo = blocks[j] /\ blocks'[j] = blocks[j]
          /\ Payload(j).lo \in Nat /\ Payload(j).hi \in Nat
      BY <1>1, <1>5, <1>6, PayloadsOK
    <3>2. Payload(j).lo \in Heap /\ Payload(j).hi \in Heap
      BY <2>2 DEF Owed
    <3>3. ASSUME NEW a \in Heap, blocks[j] <= a, a <= Payload(j).hi
          PROVE  bytes'[a] = FillByte(j)
      <4>1. a \in Int
        BY EvalAssumption DEF Heap
      <4>2. ~(r.lo <= a /\ a <= r.hi)
        BY <1>2, <2>3, <3>1, <3>3, <4>1 DEF Overlap
      <4>3. bytes'[a] = after[a]
        BY <1>10, <4>2
      <4>4. after[a] = bytes[a] /\ bytes[a] = FillByte(j)
        BY <2>1, <2>2, <3>3 DEF Owed
      <4> QED
        BY <4>3, <4>4
    <3> QED
      BY <1>7, <3>1, <3>2, <3>3 DEF Owed
  <2>6. \A j, k \in live' : j # k => ~Overlap(Payload(j)', Payload(k)')
    <3>1. \A j \in S : ~Overlap(Payload(j), r)
      BY <2>3 DEF Overlap
    <3> QED
      BY <1>6, <1>7, <1>8, <2>2, <2>3, <3>1
  <2> QED
    BY <1>6, <2>4, <2>5, <2>6
<1> QED
  BY <1>11, <1>12, <1>13, <1>14 DEF IInv

\* A reported mistake ends the trace: only the list and the bytes may differ.
LEMMA ReportKeeps ==
    ASSUME IInv, Report, faultless' \in BOOLEAN,
           ranges' \in Seq(Ranges), Spans(ranges'), Encloses(ranges'),
           bytes' \in [Heap -> 0..255]
    PROVE  IInv'
<1>1. TypeOK'
  BY DEF IInv, TypeOK, Report, Ranges
<1>2. Spans(ranges)' /\ Encloses(ranges)'
  BY DEF Spans, Encloses
<1>3. BlocksKnown' /\ Kept'
  BY DEF IInv, BlocksKnown, Kept, Report
<1> QED
  BY <1>1, <1>2, <1>3 DEF IInv

LEMMA AllocKeeps ==
    ASSUME IInv, NEW i \in Ids, NEW size \in Sizes, NEW p \in Results, Alloc(i, size, p)
    PROVE  IInv'
<1> DEFINE r == Extent(p, size)
<1>1. TypeOK /\ ranges \in Seq(Ranges) /\ Spans(ranges) /\ Encloses(ranges)
  BY DEF IInv, TypeOK, Ranges
<1>2. /\ phase = "running" /\ i \in unused /\ faultless' \in BOOLEAN
      /\ i \notin live /\ bytes \in [Heap -> 0..255]
  BY <1>1 DEF Alloc, TypeOK
<1>3. CASE Report /\ UNCHANGED <<ranges, bytes>>
  BY <1>1, <1>2, <1>3, ReportKeeps
<1>4. CASE /\ p # NULL /\ Accepted(ranges, r)
           /\ ranges' = <<r>> \o ranges
           /\ bytes' = memset(bytes, r, FillByte(i))
           /\ Remember(i, p, size)
           /\ live' = live \cup {i}
           /\ unused' = unused \ {i}
           /\ UNCHANGED phase
  <2>1. p \in Addrs
    BY <1>4 DEF Results
  <2>2. Placed(i, p, size, ranges, bytes)
    BY <1>2, <1>4 DEF Placed, Alloc
  <2>3. Lists(ranges, {Payload(j) : j \in live \ {i}})
    <3>1. live \ {i} = live
      BY <1>2
    <3> QED
      BY <1>2, <3>1 DEF IInv, BlocksKnown
  <2> QED
    BY <1>1, <1>2, <2>1, <2>2, <2>3, PlacedKeeps
<1> QED
  BY <1>3, <1>4 DEF Alloc

\* What mm_realloc copies: bytes, and none outside the first n of the new block.
LEMMA MovedOK ==
    ASSUME bytes \in [Heap -> 0..255], NEW to, NEW from, NEW n
    PROVE  /\ Moved(to, from, n) \in [Heap -> 0..255]
           /\ \A a \in Heap : ~(to <= a /\ a < to + n) => Moved(to, from, n)[a] = bytes[a]
  BY DEF Moved

\* The bytes both sizes have, and what the package left of them.
Common(i, size) == IF size < block_sizes[i] THEN size ELSE block_sizes[i]
After(i, p, size, keeps) ==
    IF p # NULL /\ keeps THEN Moved(p, blocks[i], Common(i, size)) ELSE bytes

LEMMA AfterOK ==
    ASSUME IInv, NEW i \in live, NEW size \in Sizes, NEW p \in Addrs,
           NEW keeps \in BOOLEAN
    PROVE  /\ After(i, p, size, keeps) \in [Heap -> 0..255]
           /\ \A a \in Heap : ~(p <= a /\ a <= p + size - 1) =>
                After(i, p, size, keeps)[a] = bytes[a]
           /\ Common(i, size) \in Nat
           /\ Common(i, size) <= size /\ Common(i, size) <= block_sizes[i]
<1>1. bytes \in [Heap -> 0..255]
  BY DEF IInv, TypeOK
<1>2. /\ block_sizes[i] \in Nat /\ size \in Nat /\ p \in Nat /\ p # NULL
  BY PayloadsOK, ExtentOK, EvalAssumption DEF IInv, NULL
<1>3. /\ Common(i, size) \in Nat
      /\ Common(i, size) <= size /\ Common(i, size) <= block_sizes[i]
  BY <1>2 DEF Common
<1>4. CASE ~keeps
  BY <1>1, <1>3, <1>4 DEF After
<1>5. CASE keeps
  <2> DEFINE n == Common(i, size)
             m == Moved(p, blocks[i], n)
  <2>1. After(i, p, size, keeps) = m
    BY <1>2, <1>5 DEF After
  <2>2. /\ m \in [Heap -> 0..255]
        /\ \A a \in Heap : ~(p <= a /\ a < p + n) => m[a] = bytes[a]
    BY <1>1, MovedOK
  <2>3. \A a \in Heap : a < p + n => a <= p + size - 1
    <3>1. Heap \subseteq Int
      BY EvalAssumption DEF Heap
    <3> QED
      BY <1>2, <1>3, <3>1
  <2> HIDE DEF m, n
  <2>4. \A a \in Heap : ~(p <= a /\ a <= p + size - 1) => m[a] = bytes[a]
    BY <2>2, <2>3
  <2> QED
    BY <1>3, <2>1, <2>2, <2>4 DEF n
<1> QED
  BY <1>4, <1>5

LEMMA AfterKept ==
    ASSUME IInv, NEW i \in live, NEW size \in Sizes, NEW p \in Addrs, NEW a \in Heap,
           p <= a, a < p + Common(i, size), blocks[i] + (a - p) \in Heap
    PROVE  After(i, p, size, TRUE)[a] = bytes[blocks[i] + (a - p)]
<1>1. p # NULL /\ bytes \in [Heap -> 0..255]
  BY EvalAssumption DEF NULL, IInv, TypeOK
<1>2. After(i, p, size, TRUE) = Moved(p, blocks[i], Common(i, size))
  BY <1>1 DEF After
<1> QED
  BY <1>1, <1>2 DEF Moved

LEMMA ReallocKeeps ==
    ASSUME IInv, NEW i \in Ids, NEW size \in Sizes, NEW p \in Results,
           NEW keeps \in BOOLEAN, Realloc(i, size, p, keeps)
    PROVE  IInv'
<1> DEFINE r == Extent(p, size)
           rest == Removed(ranges, blocks[i])
           after == After(i, p, size, keeps)
<1>1. TypeOK /\ ranges \in Seq(Ranges) /\ Spans(ranges) /\ Encloses(ranges)
  BY DEF IInv, TypeOK, Ranges
<1>2. /\ phase = "running" /\ i \in live /\ faultless' \in BOOLEAN
      /\ faultless' => faultless /\ p # NULL /\ keeps /\ Promised(i, r)
      /\ bytes \in [Heap -> 0..255]
  BY <1>1 DEF Realloc, TypeOK
<1>3. /\ rest \in Seq(Ranges) /\ Spans(rest) /\ Encloses(rest)
      /\ Lists(rest, {Payload(j) : j \in live \ {i}})
  BY <1>2, RestOfList
<1>4. CASE p = NULL /\ Report /\ UNCHANGED <<ranges, bytes>>
  BY <1>1, <1>2, <1>4, ReportKeeps
<1>5. ASSUME p # NULL
      PROVE  p \in Addrs /\ after \in [Heap -> 0..255]
  <2>1. p \in Addrs
    BY <1>5 DEF Results
  <2> QED
    BY <1>2, <2>1, AfterOK
<1>6. CASE p # NULL /\ Report /\ ranges' = rest /\ bytes' = after
  BY <1>2, <1>3, <1>5, <1>6, ReportKeeps
<1>7. CASE p # NULL /\ Accepted(rest, r) /\ Report
           /\ ranges' = <<r>> \o rest /\ bytes' = after
  <2>1. r \in Ranges /\ r.lo <= r.hi
    BY <1>5, <1>7, ExtentOK
  <2> HIDE DEF r, rest, after
  <2>2. <<r>> \o rest \in Seq(Ranges) /\ Spans(<<r>> \o rest) /\ Encloses(<<r>> \o rest)
    BY <1>3, <1>7, <2>1, AcceptedKeeps
  <2> QED
    BY <1>2, <1>5, <1>7, <2>2, ReportKeeps
<1>8. CASE /\ p # NULL /\ Accepted(rest, r)
           /\ ranges' = <<r>> \o rest
           /\ bytes' = memset(after, r, FillByte(i))
           /\ Remember(i, p, size)
           /\ UNCHANGED <<phase, live, unused>>
  <2>1. p \in Addrs /\ after \in [Heap -> 0..255]
    BY <1>5, <1>8
  <2>2. i \notin unused /\ unused' = unused /\ live' = live \cup {i}
    BY <1>1, <1>2, <1>8 DEF TypeOK
  <2>3. ASSUME faultless'
        PROVE  \A j \in live \ {i} : \A a \in Heap :
                 blocks[j] <= a /\ a <= Payload(j).hi => after[a] = bytes[a]
    <3>1. TAKE j \in live \ {i}
    <3>2. TAKE a \in Heap
    <3>3. HAVE blocks[j] <= a /\ a <= Payload(j).hi
    <3>4. ~Overlap(r, Payload(j))
      BY <1>2, <2>3 DEF Promised
    <3>5. /\ Payload(j).lo = blocks[j] /\ blocks[j] \in Nat /\ Payload(j).hi \in Nat
      BY <1>1, PayloadsOK DEF IInv, Ranges
    <3>6. r.lo = p /\ r.hi = p + size - 1 /\ p \in Nat /\ size \in Nat
      BY <2>1, ExtentOK
    <3>7. a \in Int
      BY EvalAssumption DEF Heap
    <3>8. ~(p <= a /\ a <= p + size - 1)
      BY <3>3, <3>4, <3>5, <3>6, <3>7 DEF Overlap
    <3>9. \A b \in Heap : ~(p <= b /\ b <= p + size - 1) => after[b] = bytes[b]
      BY <1>2, <2>1, AfterOK
    <3> HIDE DEF after
    <3> QED
      BY <3>8, <3>9
  <2>4. Placed(i, p, size, rest, after)
    BY <1>2, <1>8, <2>2, <2>3 DEF Placed
  <2> HIDE DEF rest, after
  <2> QED
    BY <1>3, <2>1, <2>4, PlacedKeeps
<1> QED
  BY <1>4, <1>6, <1>7, <1>8 DEF Realloc, Common, After

LEMMA FreeKeeps ==
    ASSUME IInv, NEW i \in Ids, Free(i)
    PROVE  IInv'
<1> DEFINE rest == Removed(ranges, blocks[i])
<1>1. /\ phase = "running" /\ i \in live /\ ranges' = rest /\ live' = live \ {i}
      /\ UNCHANGED <<blocks, block_sizes, unused, bytes, phase, faultless>>
  BY DEF Free
<1>2. /\ rest \in Seq(Ranges) /\ Spans(rest) /\ Encloses(rest)
      /\ Lists(rest, {Payload(j) : j \in live \ {i}})
  BY <1>1, RestOfList
<1>3. \A j : Payload(j)' = Payload(j)
  BY <1>1 DEF Payload, Extent
<1>4. TypeOK /\ BlocksKnown /\ Kept
  BY DEF IInv
<1> HIDE DEF rest
<1>5. TypeOK'
  BY <1>1, <1>2, <1>4 DEF TypeOK, Ranges
<1>6. Spans(ranges)' /\ Encloses(ranges)'
  BY <1>1, <1>2 DEF Spans, Encloses
<1>7. BlocksKnown'
  <2>1. {Payload(j)' : j \in live'} = {Payload(j) : j \in live \ {i}}
    BY <1>1, <1>3
  <2>2. Lists(ranges, {Payload(j) : j \in live})'
    BY <1>1, <1>2, <2>1 DEF Lists
  <2> QED
    BY <1>1, <1>4, <2>2 DEF BlocksKnown
<1>8. Kept'
  BY <1>1, <1>3, <1>4 DEF Kept, Owed, Overlap
<1> QED
  BY <1>5, <1>6, <1>7, <1>8 DEF IInv

LEMMA FinishKeeps ==
    ASSUME IInv, Finish
    PROVE  IInv'
<1>1. /\ phase = "running" /\ phase' = "valid"
      /\ UNCHANGED <<ranges, blocks, block_sizes, live, unused, bytes, faultless>>
  BY DEF Finish
<1>2. \A j : Payload(j)' = Payload(j)
  BY <1>1 DEF Payload, Extent
<1>3. TypeOK'
  BY <1>1 DEF IInv, TypeOK
<1>4. Spans(ranges)' /\ Encloses(ranges)'
  BY <1>1 DEF IInv, Spans, Encloses
<1>5. BlocksKnown'
  BY <1>1, <1>2 DEF IInv, BlocksKnown, Lists
<1>6. Kept'
  BY <1>1, <1>2 DEF IInv, Kept, Owed, Overlap
<1> QED
  BY <1>3, <1>4, <1>5, <1>6 DEF IInv

\* A heap with no blocks and an empty list.
Fresh ==
    /\ ranges = <<>> /\ live = {} /\ unused = Ids
    /\ blocks = [i \in Ids |-> NULL] /\ block_sizes = [i \in Ids |-> 0]
    /\ bytes \in [Heap -> 0..255]
    /\ phase \in {"running", "invalid"} /\ faultless \in BOOLEAN

LEMMA FreshOK == Fresh => IInv
<1> SUFFICES ASSUME Fresh PROVE IInv
  OBVIOUS
<1>1. ranges \in Seq([lo : Addrs, hi : Nat]) /\ DOMAIN ranges = {}
  BY DEF Fresh
<1>2. TypeOK
  BY <1>1 DEF Fresh, TypeOK
<1>3. Spans(ranges) /\ Encloses(ranges)
  BY <1>1 DEF Spans, Encloses
<1>4. BlocksKnown
  <2>1. Lists(ranges, {Payload(i) : i \in live})
    BY <1>1 DEF Fresh, Lists
  <2> QED
    BY <2>1 DEF Fresh, BlocksKnown
<1>5. Kept
  BY DEF Fresh, Kept
<1> QED
  BY <1>2, <1>3, <1>4, <1>5 DEF IInv

LEMMA FreshAgain == Fresh' => IInv'
<1> QED
  BY FreshOK, PTL

LEMMA NextTraceKeeps ==
    ASSUME IInv, NextTrace
    PROVE  IInv'
<1>1. Fresh'
  BY DEF IInv, TypeOK, NextTrace, Fresh
<1> QED
  BY <1>1, FreshAgain

\* The inductive invariant of eval_mm_valid.
THEOREM EvalInvariant == Spec => []IInv
<1>1. Init => IInv
  <2>1. Init => Fresh
    <3>1. [a \in Heap |-> 0] \in [Heap -> 0..255]
      OBVIOUS
    <3> QED
      BY <3>1 DEF Init, Fresh
  <2> QED
    BY <2>1, FreshOK
<1>2. IInv /\ [Next]_vars => IInv'
  <2> SUFFICES ASSUME IInv, [Next]_vars PROVE IInv'
    OBVIOUS
  <2>1. ASSUME NEW i \in Ids, NEW s \in Sizes, NEW p \in Results, Alloc(i, s, p) PROVE IInv'
    BY <2>1, AllocKeeps
  <2>2. ASSUME NEW i \in Ids, NEW s \in Sizes, NEW p \in Results,
               NEW keeps \in BOOLEAN, Realloc(i, s, p, keeps)
        PROVE  IInv'
    BY <2>2, ReallocKeeps
  <2>3. ASSUME NEW i \in Ids, Free(i) PROVE IInv'
    BY <2>3, FreeKeeps
  <2>4. CASE Finish
    BY <2>4, FinishKeeps
  <2>5. CASE NextTrace
    BY <2>5, NextTraceKeeps
  <2>6. CASE UNCHANGED vars
    <3>1. UNCHANGED <<ranges, blocks, block_sizes, live, unused, bytes, phase, faultless>>
      BY <2>6 DEF vars
    <3>2. \A j : Payload(j)' = Payload(j)
      BY <3>1 DEF Payload, Extent
    <3>3. TypeOK'
      BY <3>1 DEF IInv, TypeOK
    <3>4. Spans(ranges)' /\ Encloses(ranges)'
      BY <3>1 DEF IInv, Spans, Encloses
    <3>5. BlocksKnown'
      BY <3>1, <3>2 DEF IInv, BlocksKnown, Lists
    <3>6. Kept'
      BY <3>1, <3>2 DEF IInv, Kept, Owed, Overlap
    <3> QED
      BY <3>3, <3>4, <3>5, <3>6 DEF IInv
  <2> QED
    BY <2>1, <2>2, <2>3, <2>4, <2>5, <2>6 DEF Next
<1> QED
  BY <1>1, <1>2, PTL DEF Spec

(***************************************************************************)
(* The theorems                                                            *)
(***************************************************************************)
\* The range list is, through every add_range and remove_range, exactly the
\* extents of the blocks that the trace has live, whatever the package does.
THEOREM RangesTrue == Spec => []RangesMirrorBlocks
<1>1. IInv => RangesMirrorBlocks
  BY DEF IInv, BlocksKnown, Lists, RangesMirrorBlocks
<1> QED
  BY <1>1, EvalInvariant, PTL

\* add_range tests only the two ends of the new payload: what it misses, for
\* any list of ranges, is a new payload around an older one, and only that.
THEOREM EnclosingIsAllThatIsMissed == Spec => []OnlyEnclosingMissed
<1>1. IInv => OnlyEnclosingMissed
  BY DEF IInv, Encloses, OnlyEnclosingMissed
<1> QED
  BY <1>1, EvalInvariant, PTL

\* With block indices whose low byte is a positive char, eval_mm_valid never
\* reports a package that has kept its promises.
THEOREM VerdictTrusted ==
    ASSUME \A i \in Ids : i % 256 < 128
    PROVE  Spec => []NoFalseAlarm
<1>1. Init => NoFalseAlarm
  BY DEF Init, NoFalseAlarm
<1>2. IInv /\ NoFalseAlarm /\ [Next]_vars => NoFalseAlarm'
  <2> SUFFICES ASSUME IInv, NoFalseAlarm, [Next]_vars, phase' = "invalid", faultless'
               PROVE  FALSE
    BY DEF NoFalseAlarm
  <2>1. TypeOK /\ BlocksKnown /\ Kept
    BY DEF IInv
  <2>2. ASSUME NEW i \in Ids, NEW s \in Sizes, NEW p \in Results, Alloc(i, s, p)
        PROVE  FALSE
    <3> DEFINE r == Extent(p, s)
    <3>1. /\ phase = "running" /\ i \notin live /\ p \in Addrs /\ Promised(i, r)
          /\ ~Accepted(ranges, r)
      BY <2>1, <2>2 DEF Alloc, TypeOK, Results
    <3>2. Lists(ranges, {Payload(j) : j \in live}) /\ live \in SUBSET live
      BY <2>1, <3>1 DEF BlocksKnown
    <3>3. PICK j \in live : Overlap(r, Payload(j))
      BY <2>1, <3>1, <3>2, RefusedOverlaps DEF Promised
    <3> QED
      BY <3>1, <3>3 DEF Promised
  <2>3. ASSUME NEW i \in Ids, NEW s \in Sizes, NEW p \in Results,
               NEW keeps \in BOOLEAN, Realloc(i, s, p, keeps)
        PROVE  FALSE
    <3> DEFINE r == Extent(p, s)
               rest == Removed(ranges, blocks[i])
               after == After(i, p, s, keeps)
    <3>1. /\ phase = "running" /\ i \in live /\ p \in Addrs /\ Promised(i, r)
          /\ keeps /\ p # NULL /\ faultless
      BY <2>3 DEF Realloc, Results
    <3>2. Lists(rest, {Payload(j) : j \in live \ {i}})
      BY <3>1, RestOfList
    <3>3. Accepted(rest, r)
      <4> SUFFICES ASSUME ~Accepted(rest, r) PROVE FALSE
        OBVIOUS
      <4>1. live \ {i} \in SUBSET live
        OBVIOUS
      <4>2. PICK j \in live \ {i} : Overlap(r, Payload(j))
        <5> HIDE DEF rest
        <5> QED
          BY <2>1, <3>1, <3>2, <4>1, RefusedOverlaps DEF Promised
      <4> QED
        BY <3>1, <4>2 DEF Promised
    <3>4. PICK a \in p..(p + Common(i, s) - 1) : AsChar(after[a]) # FillByte(i)
      BY <2>3, <3>1, <3>3 DEF Realloc, Common, After
    <3>5. /\ blocks[i] \in Nat /\ block_sizes[i] \in Nat
          /\ Payload(i).lo = blocks[i] /\ Payload(i).hi = blocks[i] + block_sizes[i] - 1
          /\ p \in Nat /\ s \in Nat /\ r.lo = p /\ r.hi = p + s - 1
      BY <2>1, <3>1, PayloadsOK, ExtentOK
    <3>6. /\ Common(i, s) \in Nat /\ Common(i, s) <= s /\ Common(i, s) <= block_sizes[i]
      BY <3>1, AfterOK
    <3>7. Owed(i)
      BY <2>1, <3>1 DEF Kept
    <3>8. /\ a \in Int /\ p <= a /\ a < p + Common(i, s)
          /\ a \in Heap /\ blocks[i] + (a - p) \in Heap
          /\ blocks[i] <= blocks[i] + (a - p) /\ blocks[i] + (a - p) <= Payload(i).hi
      <4>1. HeapLo \in Int /\ HeapHi \in Int
        BY EvalAssumption
      <4>2. HeapLo <= r.lo /\ r.hi <= HeapHi
        BY <3>1, <4>1 DEF Promised, Heap
      <4>3. HeapLo <= Payload(i).lo /\ Payload(i).hi <= HeapHi
        BY <3>7, <4>1 DEF Owed, Heap
      <4> QED
        BY <3>4, <3>5, <3>6, <4>1, <4>2, <4>3 DEF Heap
    <3>9. after[a] = FillByte(i)
      <4>1. after[a] = bytes[blocks[i] + (a - p)]
        <5>1. keeps = TRUE
          BY <3>1
        <5>2. After(i, p, s, TRUE)[a] = bytes[blocks[i] + (a - p)]
          BY <3>1, <3>8, AfterKept
        <5> QED
          BY <5>1, <5>2
      <4>2. bytes[blocks[i] + (a - p)] = FillByte(i)
        BY <3>7, <3>8 DEF Owed
      <4> QED
        BY <4>1, <4>2
    <3>10. AsChar(FillByte(i)) = FillByte(i)
      <4>1. FillByte(i) \in 0..255
        BY FillIsByte
      <4>2. FillByte(i) < 128
        BY DEF FillByte
      <4> QED
        BY <4>1, <4>2 DEF AsChar
    <3> QED
      BY <3>4, <3>9, <3>10
  <2>4. CASE \E i \in Ids : Free(i)
    BY <2>4 DEF Free, NoFalseAlarm
  <2>5. CASE Finish
    BY <2>5 DEF Finish
  <2>6. CASE NextTrace
    BY <2>6 DEF NextTrace
  <2>7. CASE UNCHANGED vars
    BY <2>7 DEF vars, NoFalseAlarm
  <2> QED
    BY <2>2, <2>3, <2>4, <2>5, <2>6, <2>7 DEF Next
<1> QED
  BY <1>1, <1>2, EvalInvariant, PTL DEF Spec
=============================================================================
