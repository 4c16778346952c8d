--------------------------- MODULE MmClientProofs ---------------------------
(***************************************************************************)
(* What the allocators have in common, proved once, for every size of the  *)
(* heap, every request size, every set of ids and every CHUNKSIZE that the *)
(* assumptions of memlib and MmClient admit.  Three parts:                 *)
(*                                                                         *)
(* The heap: what each tag write of BoundaryTags does to a well formed     *)
(* heap, for any memory, break and set of blocks.                          *)
(*                                                                         *)
(* The client: ClientInv, the part of the allocators' inductive invariants *)
(* that does not mention the rover, and what each kind of step does to it. *)
(* A lemma about a step assumes what the allocators' actions say of the    *)
(* variables of memlib and MmClient.                                       *)
(*                                                                         *)
(* The view: the state with the sizes of the allocated blocks in the place *)
(* of the words of the storage.  What a step makes of it is a function of  *)
(* the view and the request.                                               *)
(***************************************************************************)
EXTENDS MmClient, HeapLayout, TLAPS

(***************************************************************************)
(* The heap.  W is the set of word addresses; it covers the heap.          *)
(***************************************************************************)
Covers(W, brk) == \A a \in Nat : a % 4 = 0 /\ a < brk => a \in W

\* Two memories with the same words outside the blocks from lo to hi, which
\* occupy lo - 4 to hi - 5: a block starts with its header.
SameOutside(W, m, m2, lo, hi) ==
    \A a \in W : a < lo - 4 \/ a >= hi - 4 => m2[a] = m[a]

LEMMA SizeType ==
    ASSUME NEW W, NEW m \in [W -> Nat], NEW a \in W
    PROVE  GET_SIZE(m, a) \in Nat /\ GET_SIZE(m, a) % 8 = 0 /\ GET_ALLOC(m, a) \in {0, 1}
  BY DEF GET_SIZE, GET_ALLOC

LEMMA BlockWords ==
    ASSUME NEW W, NEW m \in [W -> Nat], NEW brk \in Nat,
           Covers(W, brk), brk % 8 = 0, NEW b, b \in Nat, BlockOK(m, brk, b)
    PROVE  /\ b % 8 = 0 /\ b >= 16 /\ b + 16 <= brk
           /\ b - 4 \in W /\ b - 8 \in W
           /\ GET_SIZE(m, b - 4) \in Nat /\ GET_SIZE(m, b - 4) % 8 = 0
           /\ GET_SIZE(m, b - 4) >= 16
           /\ b + GET_SIZE(m, b - 4) <= brk
           /\ b + GET_SIZE(m, b - 4) - 8 \in W
           /\ m[b - 4] % 8 \in {0, 1}
           /\ m[b + GET_SIZE(m, b - 4) - 8] = m[b - 4]
<1>1. b % 8 = 0 /\ b >= 16 /\ b + 16 <= brk
  BY DEF BlockOK, FirstBlock, DSIZE
<1>2. b - 4 \in W /\ b - 8 \in W
  BY <1>1 DEF Covers
<1>3. GET_SIZE(m, b - 4) \in Nat /\ GET_SIZE(m, b - 4) % 8 = 0
  BY <1>2, SizeType
<1>4. /\ GET_SIZE(m, b - 4) >= 16 /\ b + GET_SIZE(m, b - 4) <= brk
      /\ m[b - 4] % 8 \in {0, 1}
      /\ m[b + GET_SIZE(m, b - 4) - 8] = m[b - 4]
  BY DEF BlockOK, HDRP, FTRP, NEXT_BLKP, DSIZE, WSIZE
<1>5. b + GET_SIZE(m, b - 4) - 8 \in W
  BY <1>1, <1>3, <1>4 DEF Covers
<1> QED
  BY <1>1, <1>2, <1>3, <1>4, <1>5

LEMMA LayoutWords ==
    ASSUME NEW W, NEW m \in [W -> Nat], NEW brk \in Nat, NEW B \in SUBSET Nat,
           Covers(W, brk), brk % 8 = 0, Layout(m, brk, B)
    PROVE  /\ 16 \in B
           /\ \A b \in B :
                /\ b \in Nat /\ b % 8 = 0 /\ b >= 16 /\ b + 16 <= brk
                /\ b - 4 \in W /\ b - 8 \in W
                /\ GET_SIZE(m, b - 4) \in Nat /\ GET_SIZE(m, b - 4) % 8 = 0
                /\ GET_SIZE(m, b - 4) >= 16
                /\ b + GET_SIZE(m, b - 4) <= brk
                /\ b + GET_SIZE(m, b - 4) - 8 \in W
                /\ m[b - 4] % 8 \in {0, 1}
                /\ m[b + GET_SIZE(m, b - 4) - 8] = m[b - 4]
                /\ b + GET_SIZE(m, b - 4) \in B \cup {brk}
           /\ \A b, c \in B : b < c => b + GET_SIZE(m, b - 4) <= c
<1>1. \A b \in B : BlockOK(m, brk, b)
  BY DEF Layout
<1> QED
  BY <1>1, BlockWords DEF Layout, ChainOK, FirstBlock, NEXT_BLKP, WSIZE

LEMMA Retile ==
    ASSUME NEW W, NEW m \in [W -> Nat], NEW m2 \in [W -> Nat], NEW brk \in Nat,
           NEW B \in SUBSET Nat, Covers(W, brk), brk % 8 = 0, Layout(m, brk, B),
           NEW lo \in B, NEW hi \in B \cup {brk}, lo < hi, NEW N \in SUBSET Nat,
           SameOutside(W, m, m2, lo, hi),
           lo \in N,
           \A n \in N : /\ lo <= n /\ n < hi
                        /\ BlockOK(m2, brk, n)
                        /\ NEXT_BLKP(m2, n) \in N \cup {hi},
           \A n, c \in N : n < c => NEXT_BLKP(m2, n) <= c,
           \A e \in N \cup {hi} : e # lo =>
               PREV_BLKP(m2, e) \in N /\ NEXT_BLKP(m2, PREV_BLKP(m2, e)) = e
    PROVE  Layout(m2, brk, {b \in B : b < lo \/ b >= hi} \cup N)
<1> DEFINE R == {b \in B : b < lo \/ b >= hi}
<1>0. /\ \A b \in B : BlockOK(m, brk, b)
      /\ FirstBlock \in B
      /\ \A b \in B : b + GET_SIZE(m, b - 4) \in B \cup {brk}
      /\ \A b, c \in B : b < c => b + GET_SIZE(m, b - 4) <= c
  BY DEF Layout, ChainOK, NEXT_BLKP, WSIZE
<1>h. hi \in Nat /\ hi % 8 = 0 /\ hi <= brk /\ lo >= 16 /\ lo % 8 = 0 /\ hi >= 24
  BY <1>0, BlockWords
<1>1. ASSUME NEW b \in R
      PROVE  /\ b - 4 \in W /\ m2[b - 4] = m[b - 4]
             /\ GET_SIZE(m2, b - 4) = GET_SIZE(m, b - 4)
             /\ m2[b + GET_SIZE(m, b - 4) - 8] = m[b + GET_SIZE(m, b - 4) - 8]
             /\ b < lo => b + GET_SIZE(m, b - 4) <= lo
             /\ b >= hi \/ b < lo
             /\ b \in Nat /\ GET_SIZE(m, b - 4) \in Nat
             /\ GET_SIZE(m, b - 4) >= 16
  <2>1. /\ b - 4 \in W /\ b + GET_SIZE(m, b - 4) - 8 \in W /\ b \in Nat
        /\ GET_SIZE(m, b - 4) \in Nat /\ GET_SIZE(m, b - 4) >= 16
    BY <1>0, BlockWords
  <2>2. b < lo => b + GET_SIZE(m, b - 4) <= lo
    BY <1>0
  <2>3. b >= hi \/ b < lo
    OBVIOUS
  <2>4. m2[b - 4] = m[b - 4]
    BY <2>1, <2>3, <1>h DEF SameOutside
  <2>5. m2[b + GET_SIZE(m, b - 4) - 8] = m[b + GET_SIZE(m, b - 4) - 8]
    BY <2>1, <2>2, <2>3, <1>h DEF SameOutside
  <2> QED
    BY <2>1, <2>2, <2>3, <2>4, <2>5 DEF GET_SIZE
<1>2. SentinelsOK(m2, brk)
  <2>1. m[4] = 9 /\ m[8] = 9 /\ m[brk - 4] = 1
    BY DEF Layout, SentinelsOK, PACK, DSIZE, WSIZE
  <2>2. 4 \in W /\ 8 \in W /\ brk - 4 \in W
    BY <1>h DEF Covers
  <2>3. m2[4] = m[4] /\ m2[8] = m[8] /\ m2[brk - 4] = m[brk - 4]
    BY <2>2, <1>h DEF SameOutside
  <2> QED
    BY <2>1, <2>3 DEF SentinelsOK, PACK, DSIZE, WSIZE
<1>3. \A b \in R : BlockOK(m2, brk, b)
  BY <1>0, <1>1 DEF BlockOK, HDRP, FTRP, NEXT_BLKP, WSIZE, DSIZE
<1>4. FirstBlock \in R \cup N
  BY <1>0, <1>h DEF FirstBlock
<1>5. \A b \in R : NEXT_BLKP(m2, b) \in R \cup N \cup {brk}
  <2>1. TAKE b \in R
  <2> DEFINE x == b + GET_SIZE(m, b - 4)
  <2>2. NEXT_BLKP(m2, b) = x
    BY <1>1 DEF NEXT_BLKP, WSIZE
  <2>3. x \in B \cup {brk} /\ x \in Nat
    BY <1>0, <1>1
  <2>4. x < lo \/ x = lo \/ x >= hi
    BY <1>1, <1>h
  <2> HIDE DEF x
  <2>5. x \in R \cup N \cup {brk}
    BY <2>3, <2>4, <1>h
  <2> QED
    BY <2>2, <2>5
<1>6. \A b, c \in R \cup N : b < c => NEXT_BLKP(m2, b) <= c
  <2>1. SUFFICES ASSUME NEW b \in R \cup N, NEW c \in R \cup N, b < c
                 PROVE  NEXT_BLKP(m2, b) <= c
    OBVIOUS
  <2>2. CASE b \in R
    <3>1. NEXT_BLKP(m2, b) = b + GET_SIZE(m, b - 4)
      BY <1>1, <2>2 DEF NEXT_BLKP, WSIZE
    <3>2. CASE c \in R
      BY <1>0, <2>1, <2>2, <3>1, <3>2
    <3>3. CASE c \in N
      BY <1>1, <1>h, <2>1, <2>2, <3>1, <3>3
    <3> QED
      BY <3>2, <3>3
  <2>3. CASE b \in N
    <3>1. CASE c \in N
      BY <2>1, <2>3, <3>1
    <3>2. CASE c \in R
      <4>1. NEXT_BLKP(m2, b) \in N \cup {hi} /\ lo <= b /\ b < hi
        BY <2>3
      <4>2. c >= hi
        BY <4>1, <3>2, <2>1, <1>h
      <4>3. NEXT_BLKP(m2, b) \in Nat /\ NEXT_BLKP(m2, b) <= hi
        <5> DEFINE x == NEXT_BLKP(m2, b)
        <5>1. x \in N \/ x = hi
          BY <4>1
        <5>2. ASSUME NEW y \in N PROVE y \in Nat /\ y < hi
          OBVIOUS
        <5>3. x \in N => x \in Nat /\ x < hi
          BY <5>2
        <5> HIDE DEF x
        <5>4. x \in Nat /\ x <= hi
          BY <5>1, <5>3, <1>h
        <5> QED
          BY <5>4 DEF x
      <4>4. c \in Nat
        BY <3>2
      <4> QED
        BY <4>2, <4>3, <4>4, <1>h
    <3> QED
      BY <2>1, <3>1, <3>2
  <2> QED
    BY <2>1, <2>2, <2>3
<1>7. \A e \in R \cup N \cup {brk} : e # FirstBlock =>
          PREV_BLKP(m2, e) \in R \cup N /\ NEXT_BLKP(m2, PREV_BLKP(m2, e)) = e
  <2>1. SUFFICES ASSUME NEW e \in R \cup N \cup {brk}, e # FirstBlock
                 PROVE  /\ PREV_BLKP(m2, e) \in R \cup N
                        /\ NEXT_BLKP(m2, PREV_BLKP(m2, e)) = e
    OBVIOUS
  <2>2. CASE e \in N \cup {hi} /\ e # lo
    BY <2>2
  <2>3. CASE e \in R \cup {brk, lo} /\ e # hi
    <3> DEFINE p == PREV_BLKP(m, e)
    <3>1. p \in B /\ p + GET_SIZE(m, p - 4) = e /\ e \in B \cup {brk}
      BY <2>1, <2>3 DEF Layout, ChainOK, NEXT_BLKP, WSIZE
    <3>2. /\ p \in Nat /\ GET_SIZE(m, p - 4) \in Nat /\ GET_SIZE(m, p - 4) >= 16
          /\ p + GET_SIZE(m, p - 4) - 8 \in W
      BY <1>0, <3>1, BlockWords
    <3>3. e \in Nat /\ e - 8 \in W
      BY <3>1, <3>2
    <3>4. e <= lo \/ e > hi
      BY <2>3, <1>h, <3>3
    <3>5. e > hi => hi \in B /\ e >= hi + 16
      <4>1. SUFFICES ASSUME e > hi PROVE hi \in B /\ e >= hi + 16
        OBVIOUS
      <4>2. hi \in B
        BY <4>1, <3>1, <1>h, <1>0, BlockWords
      <4>3. hi + GET_SIZE(m, hi - 4) <= e /\ GET_SIZE(m, hi - 4) >= 16
            /\ GET_SIZE(m, hi - 4) \in Nat
        BY <4>1, <4>2, <3>1, <1>0, BlockWords
      <4> QED
        BY <4>2, <4>3, <1>h, <3>3
    <3>6. m2[e - 8] = m[e - 8]
      BY <3>3, <3>4, <3>5, <1>h DEF SameOutside
    <3>7. PREV_BLKP(m2, e) = p
      BY <3>6 DEF PREV_BLKP, GET_SIZE, DSIZE
    <3>8. p \in R
      <4>1. CASE e <= lo
        BY <4>1, <3>1, <3>2, <3>3, <1>h
      <4>2. CASE e > hi
        <5>1. hi \in B
          BY <4>2, <3>5
        <5>2. p < hi => p + GET_SIZE(m, p - 4) <= hi
          BY <5>1, <1>0, <3>1
        <5> QED
          BY <5>2, <3>1, <3>2, <4>2, <1>h
      <4> QED
        BY <4>1, <4>2, <3>4
    <3>9. NEXT_BLKP(m2, p) = e
      BY <3>8, <1>1, <3>1 DEF NEXT_BLKP, WSIZE
    <3> QED
      BY <3>7, <3>8, <3>9
  <2>4. \/ e \in N \cup {hi} /\ e # lo
        \/ e \in R \cup {brk, lo} /\ e # hi
    BY <2>1, <1>h
  <2> QED
    BY <2>2, <2>3, <2>4
<1> QED
  BY <1>2, <1>3, <1>4, <1>5, <1>6, <1>7 DEF Layout, ChainOK

\* A header or footer word that holds a size and an allocation bit.
LEMMA TagWord ==
    ASSUME NEW m, NEW p, NEW size \in Nat, NEW alloc \in {0, 1}, size % 8 = 0,
           m[p] = size + alloc
    PROVE  GET_SIZE(m, p) = size /\ GET_ALLOC(m, p) = alloc /\ m[p] % 8 = alloc
  BY DEF GET_SIZE, GET_ALLOC

\* The blocks of B that do not start between lo and hi.
Outside(B, lo, hi) == {b \in B : b < lo \/ b >= hi}

\* The blocks from lo to hi become one.
LEMMA OneBlock ==
    ASSUME NEW W, NEW m \in [W -> Nat], NEW m2 \in [W -> Nat],
           NEW brk \in Nat, NEW B \in SUBSET Nat,
           Covers(W, brk), brk % 8 = 0, Layout(m, brk, B),
           NEW lo \in B, NEW hi \in B \cup {brk}, lo < hi, NEW alloc \in {0, 1},
           SameOutside(W, m, m2, lo, hi),
           m2[lo - 4] = (hi - lo) + alloc, m2[hi - 8] = (hi - lo) + alloc
    PROVE  /\ Layout(m2, brk, Outside(B, lo, hi) \cup {lo})
           /\ NEXT_BLKP(m2, lo) = hi
<1>1. /\ lo \in Nat /\ lo % 8 = 0 /\ lo >= 16
      /\ GET_SIZE(m, lo - 4) \in Nat /\ GET_SIZE(m, lo - 4) >= 16
      /\ lo + GET_SIZE(m, lo - 4) <= brk /\ lo + 16 <= brk
  BY LayoutWords
<1>2. lo + GET_SIZE(m, lo - 4) <= hi
  BY <1>1, LayoutWords
<1>3. hi \in Nat /\ hi % 8 = 0 /\ hi <= brk
  BY LayoutWords
<1>4. hi - lo \in Nat /\ (hi - lo) % 8 = 0 /\ hi - lo >= 16
  BY <1>1, <1>2, <1>3
<1>5. GET_SIZE(m2, lo - 4) = hi - lo /\ GET_SIZE(m2, hi - 8) = hi - lo
      /\ m2[lo - 4] % 8 = alloc
  <2> DEFINE s == hi - lo
  <2>1. s \in Nat /\ s % 8 = 0 /\ m2[lo - 4] = s + alloc /\ m2[hi - 8] = s + alloc
    BY <1>4
  <2> HIDE DEF s
  <2>2. GET_SIZE(m2, lo - 4) = s /\ GET_SIZE(m2, hi - 8) = s /\ m2[lo - 4] % 8 = alloc
    BY <2>1 DEF GET_SIZE
  <2> QED
    BY <2>2 DEF s
<1>6. NEXT_BLKP(m2, lo) = hi /\ PREV_BLKP(m2, hi) = lo
  BY <1>1, <1>3, <1>5 DEF NEXT_BLKP, PREV_BLKP, WSIZE, DSIZE
<1>7. FTRP(m2, lo) = hi - 8
  BY <1>1, <1>3, <1>5 DEF FTRP, HDRP, WSIZE, DSIZE
<1>8. BlockOK(m2, brk, lo)
  BY <1>1, <1>3, <1>4, <1>5, <1>6, <1>7 DEF BlockOK, HDRP, WSIZE, DSIZE, FirstBlock
<1> DEFINE N == {lo}
<1>9. /\ \A n \in N : /\ lo <= n /\ n < hi
                      /\ BlockOK(m2, brk, n)
                      /\ NEXT_BLKP(m2, n) \in N \cup {hi}
      /\ \A n, c \in N : n < c => NEXT_BLKP(m2, n) <= c
      /\ \A e \in N \cup {hi} : e # lo =>
             PREV_BLKP(m2, e) \in N /\ NEXT_BLKP(m2, PREV_BLKP(m2, e)) = e
  BY <1>1, <1>6, <1>8
<1>10. N \in SUBSET Nat /\ lo \in N
  BY <1>1
<1> HIDE DEF N
<1>11. Layout(m2, brk, Outside(B, lo, hi) \cup N)
  BY <1>9, <1>10, Retile DEF Outside
<1> QED
  BY <1>6, <1>11 DEF N

\* The tags of an allocated block from lo to mid and of a free one after it.
SplitAt(m2, lo, mid, hi) ==
    /\ mid \in Nat /\ mid % 8 = 0 /\ lo + 16 <= mid /\ mid + 16 <= hi
    /\ m2[lo - 4] = (mid - lo) + 1 /\ m2[mid - 8] = (mid - lo) + 1
    /\ m2[mid - 4] = hi - mid /\ m2[hi - 8] = hi - mid

\* The blocks from lo to hi become two that meet at mid.
LEMMA TwoBlocks ==
    ASSUME NEW W, NEW m \in [W -> Nat], NEW m2 \in [W -> Nat],
           NEW brk \in Nat, NEW B \in SUBSET Nat,
           Covers(W, brk), brk % 8 = 0, Layout(m, brk, B),
           NEW lo \in B, NEW hi \in B \cup {brk}, NEW mid,
           SameOutside(W, m, m2, lo, hi), SplitAt(m2, lo, mid, hi)
    PROVE  /\ Layout(m2, brk, Outside(B, lo, hi) \cup {lo, mid})
           /\ NEXT_BLKP(m2, mid) = hi
<1>0. /\ mid \in Nat /\ mid % 8 = 0 /\ lo + 16 <= mid /\ mid + 16 <= hi
      /\ m2[lo - 4] = (mid - lo) + 1 /\ m2[mid - 8] = (mid - lo) + 1
      /\ m2[mid - 4] = hi - mid /\ m2[hi - 8] = hi - mid
  BY DEF SplitAt
<1>1. lo \in Nat /\ lo % 8 = 0 /\ lo >= 16
  BY LayoutWords
<1>3. hi \in Nat /\ hi % 8 = 0 /\ hi <= brk
  BY LayoutWords
<1>4. /\ mid - lo \in Nat /\ (mid - lo) % 8 = 0 /\ mid - lo >= 16
      /\ hi - mid \in Nat /\ (hi - mid) % 8 = 0 /\ hi - mid >= 16
  BY <1>0, <1>1, <1>3
<1>5. /\ GET_SIZE(m2, lo - 4) = mid - lo /\ GET_SIZE(m2, mid - 8) = mid - lo
      /\ m2[lo - 4] % 8 = 1
      /\ GET_SIZE(m2, mid - 4) = hi - mid /\ GET_SIZE(m2, hi - 8) = hi - mid
      /\ m2[mid - 4] % 8 = 0
  <2> DEFINE s == mid - lo
             r == hi - mid
  <2>1. /\ s \in Nat /\ s % 8 = 0 /\ m2[lo - 4] = s + 1 /\ m2[mid - 8] = s + 1
        /\ r \in Nat /\ r % 8 = 0 /\ m2[mid - 4] = r /\ m2[hi - 8] = r
    BY <1>0, <1>4
  <2> HIDE DEF s, r
  <2>2. /\ GET_SIZE(m2, lo - 4) = s /\ GET_SIZE(m2, mid - 8) = s /\ m2[lo - 4] % 8 = 1
        /\ GET_SIZE(m2, mid - 4) = r /\ GET_SIZE(m2, hi - 8) = r /\ m2[mid - 4] % 8 = 0
    BY <2>1 DEF GET_SIZE
  <2> QED
    BY <2>2 DEF s, r
<1>6. /\ NEXT_BLKP(m2, lo) = mid /\ PREV_BLKP(m2, mid) = lo
      /\ NEXT_BLKP(m2, mid) = hi /\ PREV_BLKP(m2, hi) = mid
  BY <1>0, <1>1, <1>3, <1>5 DEF NEXT_BLKP, PREV_BLKP, WSIZE, DSIZE
<1>7. FTRP(m2, lo) = mid - 8 /\ FTRP(m2, mid) = hi - 8
  BY <1>0, <1>1, <1>3, <1>5 DEF FTRP, HDRP, WSIZE, DSIZE
<1>8. BlockOK(m2, brk, lo) /\ BlockOK(m2, brk, mid)
  BY <1>0, <1>1, <1>3, <1>4, <1>5, <1>6, <1>7 DEF BlockOK, HDRP, WSIZE, DSIZE, FirstBlock
<1> DEFINE N == {lo, mid}
<1>9. /\ \A n \in N : /\ lo <= n /\ n < hi
                      /\ BlockOK(m2, brk, n)
                      /\ NEXT_BLKP(m2, n) \in N \cup {hi}
      /\ \A n, c \in N : n < c => NEXT_BLKP(m2, n) <= c
      /\ \A e \in N \cup {hi} : e # lo =>
             PREV_BLKP(m2, e) \in N /\ NEXT_BLKP(m2, PREV_BLKP(m2, e)) = e
  BY <1>0, <1>1, <1>3, <1>6, <1>8
<1>10. N \in SUBSET Nat /\ lo \in N /\ lo < hi
  BY <1>0, <1>1, <1>3
<1> HIDE DEF N
<1>11. Layout(m2, brk, Outside(B, lo, hi) \cup N)
  BY <1>9, <1>10, Retile DEF Outside
<1> QED
  BY <1>6, <1>11 DEF N

\* m2 has the tags and the payloads that m gives to the blocks of L.
Preserves(W, m, m2, L) ==
    \A p \in L, a \in Nat :
        a \in W /\ p - 4 <= a /\ a < p + GET_SIZE(m, p - 4) - 4 => m2[a] = m[a]

LEMMA PreservesOutside ==
    ASSUME NEW W, NEW m \in [W -> Nat], NEW m2 \in [W -> Nat],
           NEW brk \in Nat, NEW B \in SUBSET Nat,
           Covers(W, brk), brk % 8 = 0, Layout(m, brk, B),
           NEW lo \in B, NEW hi \in B \cup {brk}, lo < hi, NEW L \in SUBSET B,
           SameOutside(W, m, m2, lo, hi),
           \A c \in L : c < lo \/ c >= hi
    PROVE  Preserves(W, m, m2, L)
<1>1. SUFFICES ASSUME NEW p \in L, NEW a \in Nat, a \in W,
                      p - 4 <= a, a < p + GET_SIZE(m, p - 4) - 4
               PROVE  m2[a] = m[a]
  BY DEF Preserves
<1>2. p \in B /\ p \in Nat /\ GET_SIZE(m, p - 4) \in Nat
  BY LayoutWords
<1>3. p < lo => p + GET_SIZE(m, p - 4) <= lo
  BY <1>2, LayoutWords
<1>4. lo \in Nat /\ hi \in Nat
  BY LayoutWords
<1>5. a < lo - 4 \/ a >= hi - 4
  BY <1>1, <1>2, <1>3, <1>4
<1> QED
  BY <1>1, <1>5 DEF SameOutside

\* A tiling has no other blocks than those its allocated blocks determine.
LEMMA BlocksUnique ==
    ASSUME NEW W, NEW m \in [W -> Nat], NEW brk \in Nat, NEW B \in SUBSET Nat,
           NEW L, Covers(W, brk), brk % 8 = 0, Tiling(m, brk, B, L)
    PROVE  B = BlocksOf(m, brk, L)
<1>1. Layout(m, brk, B) /\ AllocOK(m, B, L) /\ Coalesced(m, brk, B, L)
  BY DEF Tiling
<1>2. 16 \in B /\ brk \notin B /\ L \subseteq B
  BY <1>1, LayoutWords DEF AllocOK
<1>3. \A p \in L : NEXT_BLKP(m, p) \in B \cup {brk}
  BY <1>1, <1>2 DEF Layout, ChainOK
<1>4. ASSUME NEW b \in B, b # 16, b \notin L
      PROVE  \E p \in L : NEXT_BLKP(m, p) = b
  <2>1. PREV_BLKP(m, b) \in B /\ NEXT_BLKP(m, PREV_BLKP(m, b)) = b
    BY <1>1, <1>4 DEF Layout, ChainOK, FirstBlock
  <2>2. PREV_BLKP(m, b) \in L
    BY <1>1, <1>2, <1>4, <2>1 DEF Coalesced
  <2> QED
    BY <2>1, <2>2
<1> QED
  BY <1>2, <1>3, <1>4 DEF BlocksOf, FirstBlock

\* Free blocks from lo to hi become one free block.
LEMMA Merge ==
    ASSUME NEW W, NEW m \in [W -> Nat], NEW m2 \in [W -> Nat],
           NEW brk \in Nat, NEW B \in SUBSET Nat, NEW L,
           Covers(W, brk), brk % 8 = 0,
           Layout(m, brk, B), AllocOK(m, B, L),
           NEW lo \in B, NEW hi \in B \cup {brk}, lo < hi,
           SameOutside(W, m, m2, lo, hi),
           m2[lo - 4] = hi - lo, m2[hi - 8] = hi - lo,
           \A c \in L : c < lo \/ c >= hi,
           hi = brk \/ hi \in L,
           \A c \in B : NEXT_BLKP(m, c) = lo => c \in L,
           \A c \in B : (c < lo \/ c >= hi) /\ c \notin L
                        /\ NEXT_BLKP(m, c) # brk /\ NEXT_BLKP(m, c) # lo
                            => NEXT_BLKP(m, c) \in L
    PROVE  /\ WellFormed(m2, brk, L)
           /\ lo \in BlocksOf(m2, brk, L) \ L
           /\ GET_SIZE(m2, lo - 4) = hi - lo
           /\ Preserves(W, m, m2, L)
<1> DEFINE B2 == Outside(B, lo, hi) \cup {lo}
<1>1. lo \in Nat /\ hi \in Nat /\ lo - 4 \in W /\ m2[lo - 4] = (hi - lo) + 0
      /\ m2[hi - 8] = (hi - lo) + 0 /\ L \subseteq B
  BY LayoutWords DEF AllocOK
<1>2. Layout(m2, brk, B2) /\ NEXT_BLKP(m2, lo) = hi
  BY <1>1, OneBlock
<1>3. GET_SIZE(m2, lo - 4) = hi - lo /\ GET_ALLOC(m2, lo - 4) = 0
  <2>0. lo % 8 = 0 /\ hi % 8 = 0
    BY LayoutWords
  <2>1. (hi - lo) % 8 = 0
    BY <1>1, <2>0
  <2> QED
    BY <2>1, <1>1 DEF GET_SIZE, GET_ALLOC
<1>4. lo \notin L
  BY <1>1
<1>5. ASSUME NEW c \in B2, c # lo
      PROVE  /\ c \in B /\ (c < lo \/ c >= hi) /\ m2[c - 4] = m[c - 4]
             /\ NEXT_BLKP(m2, c) = NEXT_BLKP(m, c)
             /\ GET_ALLOC(m2, c - 4) = GET_ALLOC(m, c - 4)
  <2>1. c \in B /\ (c < lo \/ c >= hi) /\ c \in Nat /\ c - 4 \in W
    BY <1>5, LayoutWords DEF Outside
  <2>2. m2[c - 4] = m[c - 4]
    BY <1>1, <2>1 DEF SameOutside
  <2> QED
    BY <2>1, <2>2 DEF NEXT_BLKP, GET_SIZE, GET_ALLOC, WSIZE
<1>6. AllocOK(m2, B2, L)
  <2>1. L \subseteq B2
    BY <1>1 DEF Outside
  <2>2. \A c \in B2 : GET_ALLOC(m2, HDRP(c)) = 1 <=> c \in L
    <3>1. TAKE c \in B2
    <3>2. CASE c = lo
      BY <3>2, <1>3, <1>4 DEF HDRP, WSIZE
    <3>3. CASE c # lo
      BY <3>3, <1>5 DEF HDRP, WSIZE, AllocOK
    <3> QED
      BY <3>2, <3>3
  <2> QED
    BY <2>1, <2>2 DEF AllocOK
<1>7. Coalesced(m2, brk, B2, L)
  <2>1. SUFFICES ASSUME NEW c \in B2, c \notin L, NEXT_BLKP(m2, c) # brk
                 PROVE  NEXT_BLKP(m2, c) \in L
    BY DEF Coalesced
  <2>2. CASE c = lo
    BY <2>1, <2>2, <1>2
  <2>3. CASE c # lo
    BY <2>1, <2>3, <1>5
  <2> QED
    BY <2>2, <2>3
<1>8. Tiling(m2, brk, B2, L) /\ B2 \in SUBSET Nat
  BY <1>1, <1>2, <1>6, <1>7 DEF Tiling, Outside
<1>9. B2 = BlocksOf(m2, brk, L)
  BY <1>8, BlocksUnique
<1>10. lo \in B2
  OBVIOUS
<1> HIDE DEF B2
<1>11. Preserves(W, m, m2, L)
  BY <1>1, PreservesOutside
<1> QED
  BY <1>3, <1>4, <1>8, <1>9, <1>10, <1>11 DEF WellFormed

\* The word before a block tells whether the block before it is free.
LEMMA Neighbours ==
    ASSUME NEW W, NEW m \in [W -> Nat], NEW brk \in Nat, NEW B \in SUBSET Nat, NEW L,
           Covers(W, brk), brk % 8 = 0, Layout(m, brk, B), AllocOK(m, B, L), NEW b \in B
    PROVE  /\ PrevAlloc(m, b) <=> b = 16 \/ PREV_BLKP(m, b) \in L
           /\ NextAlloc(m, b) <=> NEXT_BLKP(m, b) = brk \/ NEXT_BLKP(m, b) \in L
           /\ NEXT_BLKP(m, b) \in B \cup {brk}
           /\ b # 16 => /\ PREV_BLKP(m, b) \in B
                        /\ NEXT_BLKP(m, PREV_BLKP(m, b)) = b
<1>1. /\ m[4] = 9 /\ m[8] = 9 /\ m[brk - 4] = 1
  BY DEF Layout, SentinelsOK, PACK, DSIZE, WSIZE
<1>2. /\ NEXT_BLKP(m, b) \in B \cup {brk}
      /\ b # 16 => /\ PREV_BLKP(m, b) \in B
                   /\ NEXT_BLKP(m, PREV_BLKP(m, b)) = b
  BY DEF Layout, ChainOK, FirstBlock
<1>3. \A c \in B : m[FTRP(m, c)] = m[c - 4] /\ (GET_ALLOC(m, c - 4) = 1 <=> c \in L)
  BY DEF Layout, BlockOK, AllocOK, HDRP, WSIZE
<1>4. brk \notin B
  BY LayoutWords
<1>5. NextAlloc(m, b) <=> NEXT_BLKP(m, b) = brk \/ NEXT_BLKP(m, b) \in L
  <2>1. CASE NEXT_BLKP(m, b) = brk
    BY <2>1, <1>1 DEF NextAlloc, HDRP, GET_ALLOC, WSIZE
  <2>2. CASE NEXT_BLKP(m, b) \in B
    BY <2>2, <1>3, <1>4 DEF NextAlloc, HDRP, WSIZE
  <2> QED
    BY <1>2, <2>1, <2>2
<1>6. PrevAlloc(m, b) <=> b = 16 \/ PREV_BLKP(m, b) \in L
  <2>1. CASE b = 16
    <3>1. GET_SIZE(m, 8) = 8 /\ GET_SIZE(m, 4) = 8 /\ GET_ALLOC(m, 8) = 1
      BY <1>1 DEF GET_SIZE, GET_ALLOC
    <3>2. PREV_BLKP(m, b) = 8 /\ FTRP(m, 8) = 8
      BY <2>1, <3>1 DEF PREV_BLKP, FTRP, HDRP, DSIZE, WSIZE
    <3> QED
      BY <2>1, <3>1, <3>2 DEF PrevAlloc
  <2>2. CASE b # 16
    <3> DEFINE p == PREV_BLKP(m, b)
    <3>1. p \in B
      BY <2>2, <1>2
    <3>2. m[FTRP(m, p)] = m[p - 4] /\ (GET_ALLOC(m, p - 4) = 1 <=> p \in L)
      BY <3>1, <1>3
    <3> QED
      BY <2>2, <3>2 DEF PrevAlloc, GET_ALLOC
  <2> QED
    BY <2>1, <2>2
<1> QED
  BY <1>2, <1>5, <1>6

\* Room for a block from lo to hi, and that block's two tags being written.
Slot(W, lo, hi) ==
    /\ lo \in Nat /\ hi \in Nat /\ lo + 16 <= hi /\ (hi - lo) % 8 = 0
    /\ lo - 4 \in W /\ hi - 8 \in W

Tagged(W, m, m2, lo, hi, word) ==
    /\ m2 \in [W -> Nat]
    /\ m2[lo - 4] = word /\ m2[hi - 8] = word
    /\ \A a \in W : a # lo - 4 /\ a # hi - 8 => m2[a] = m[a]

LEMMA TaggedOutside ==
    ASSUME NEW W, NEW m, NEW m2, NEW lo, NEW hi, NEW word,
           Slot(W, lo, hi), Tagged(W, m, m2, lo, hi, word)
    PROVE  SameOutside(W, m, m2, lo, hi)
  BY DEF Slot, Tagged, SameOutside

LEMMA PutWords ==
    ASSUME NEW W, NEW m \in [W -> Nat], NEW lo, NEW hi, Slot(W, lo, hi),
           NEW v \in Nat, NEW h, h = lo - 4, NEW f, f = hi - 8
    PROVE  Tagged(W, m, PUT(PUT(m, h, v), f, v), lo, hi, v)
  BY DEF Slot, Tagged, PUT

LEMMA MarkBlock ==
    ASSUME NEW W, NEW m \in [W -> Nat], NEW lo, NEW hi, Slot(W, lo, hi),
           NEW size, size = hi - lo, NEW alloc \in {0, 1}
    PROVE  Tagged(W, m, Mark(m, lo, size, alloc), lo, hi, size + alloc)
<1> DEFINE h == PUT(m, lo - 4, size + alloc)
<1>1. /\ size \in Nat /\ size % 8 = 0 /\ lo + size - 8 = hi - 8
      /\ lo \in Nat /\ hi \in Nat /\ lo - 4 \in W /\ hi - 8 \in W /\ lo - 4 # hi - 8
  BY DEF Slot
<1>2. h \in [W -> Nat] /\ h[lo - 4] = size + alloc
      /\ \A a \in W : a # lo - 4 => h[a] = m[a]
  BY <1>1 DEF PUT
<1>3. GET_SIZE(h, lo - 4) = size
  BY <1>1, <1>2, TagWord
<1>4. Mark(m, lo, size, alloc) = [h EXCEPT ![hi - 8] = size + alloc]
  BY <1>1, <1>3 DEF Mark, FTRP, HDRP, PACK, PUT, WSIZE, DSIZE
<1> HIDE DEF h
<1> DEFINE m2 == [h EXCEPT ![hi - 8] = size + alloc]
<1>5. /\ m2 \in [W -> Nat] /\ m2[lo - 4] = size + alloc /\ m2[hi - 8] = size + alloc
      /\ \A a \in W : a # lo - 4 /\ a # hi - 8 => m2[a] = m[a]
  BY <1>1, <1>2
<1> HIDE DEF m2
<1> QED
  BY <1>4, <1>5 DEF Tagged, m2

\* Coalesced except for the block b, which has just become free.
CoalescedBut(m, brk, B, L, b) ==
    \A c \in B : c \notin L /\ c # b /\ NEXT_BLKP(m, c) # b /\ NEXT_BLKP(m, c) # brk
                     => NEXT_BLKP(m, c) \in L

LEMMA CoalesceLemma ==
    ASSUME NEW W, NEW m \in [W -> Nat], NEW brk \in Nat, NEW B \in SUBSET Nat, NEW L,
           Covers(W, brk), brk % 8 = 0, Layout(m, brk, B), AllocOK(m, B, L),
           NEW b \in B, b \notin L, m[b - 4] % 8 = 0, CoalescedBut(m, brk, B, L, b)
    PROVE  /\ Coalesce(m, b) \in [W -> Nat]
           /\ WellFormed(Coalesce(m, b), brk, L)
           /\ CoalescedBp(m, b) \in BlocksOf(Coalesce(m, b), brk, L) \ L
           /\ GET_SIZE(Coalesce(m, b), CoalescedBp(m, b) - 4) >= GET_SIZE(m, b - 4)
           /\ Preserves(W, m, Coalesce(m, b), L)
<1> DEFINE next == NEXT_BLKP(m, b)
           prev == PREV_BLKP(m, b)
           lo == IF PrevAlloc(m, b) THEN b ELSE prev
           hi == IF NextAlloc(m, b) THEN next ELSE NEXT_BLKP(m, next)
           m2 == Coalesce(m, b)
<1>1. /\ PrevAlloc(m, b) <=> b = 16 \/ prev \in L
      /\ NextAlloc(m, b) <=> next = brk \/ next \in L
      /\ next \in B \cup {brk}
      /\ b # 16 => prev \in B /\ NEXT_BLKP(m, prev) = b
  BY Neighbours
<1>2. \A c \in B : /\ c \in Nat /\ c % 8 = 0 /\ c >= 16
                   /\ GET_SIZE(m, c - 4) \in Nat /\ GET_SIZE(m, c - 4) >= 16
                   /\ NEXT_BLKP(m, c) = c + GET_SIZE(m, c - 4)
                   /\ NEXT_BLKP(m, c) \in B \cup {brk}
                   /\ c < brk
  BY LayoutWords DEF NEXT_BLKP, WSIZE
<1>3. \A c, d \in B : c < d => NEXT_BLKP(m, c) <= d
  BY DEF Layout, ChainOK
<1>4. b # 16 => \A c \in B : NEXT_BLKP(m, c) = b => c = prev
  <2>1. SUFFICES ASSUME b # 16, NEW c \in B, NEXT_BLKP(m, c) = b, c # prev
                 PROVE  FALSE
    OBVIOUS
  <2>2. prev \in B /\ NEXT_BLKP(m, prev) = b
    BY <1>1, <2>1
  <2> HIDE DEF prev
  <2>3. c < prev \/ prev < c
    BY <1>2, <2>1, <2>2
  <2> QED
    BY <1>2, <1>3, <2>1, <2>2, <2>3
<1>5. /\ lo \in B /\ lo <= b /\ b \in Nat
      /\ b - lo = (IF PrevAlloc(m, b) THEN 0 ELSE GET_SIZE(m, prev - 4))
      /\ lo # b => b # 16 /\ lo = prev /\ prev \notin L /\ prev < b
  <2>1. CASE PrevAlloc(m, b)
    BY <2>1, <1>2
  <2>2. CASE ~PrevAlloc(m, b)
    <3>1. b # 16 /\ prev \in B /\ NEXT_BLKP(m, prev) = b /\ prev \notin L
      BY <2>2, <1>1
    <3> HIDE DEF prev
    <3>2. /\ b = prev + GET_SIZE(m, prev - 4) /\ GET_SIZE(m, prev - 4) \in Nat
          /\ prev \in Nat /\ GET_SIZE(m, prev - 4) >= 16 /\ b \in Nat
      BY <3>1, <1>2
    <3> QED
      BY <2>2, <3>1, <3>2
  <2> QED
    BY <2>1, <2>2
<1>6. /\ hi \in B \cup {brk} /\ next <= hi /\ next \in Nat /\ hi \in Nat /\ b < next
      /\ hi - b = GET_SIZE(m, b - 4)
                    + (IF NextAlloc(m, b) THEN 0 ELSE GET_SIZE(m, next - 4))
      /\ hi # next => next \in B /\ next \notin L /\ hi = NEXT_BLKP(m, next) /\ next < hi
  <2>1. CASE NextAlloc(m, b)
    BY <2>1, <1>1, <1>2
  <2>2. CASE ~NextAlloc(m, b)
    <3>1. next \in B /\ next \notin L
      BY <2>2, <1>1
    <3>2. /\ next = b + GET_SIZE(m, b - 4) /\ GET_SIZE(m, b - 4) \in Nat
          /\ b \in Nat /\ GET_SIZE(m, b - 4) >= 16
      BY <1>2
    <3>3. /\ NEXT_BLKP(m, next) = next + GET_SIZE(m, next - 4)
          /\ GET_SIZE(m, next - 4) \in Nat /\ next \in Nat
          /\ GET_SIZE(m, next - 4) >= 16 /\ NEXT_BLKP(m, next) \in B \cup {brk}
      BY <1>2, <3>1
    <3> HIDE DEF next
    <3> QED
      BY <2>2, <3>1, <3>2, <3>3
  <2> QED
    BY <2>1, <2>2
<1>f. (hi - lo) % 8 = 0
  <2> HIDE DEF lo, hi
  <2>1. lo \in Nat /\ lo % 8 = 0 /\ hi \in Nat /\ hi % 8 = 0
    BY <1>2, <1>5, <1>6
  <2> QED
    BY <2>1
<1>7. /\ m2 \in [W -> Nat]
      /\ SameOutside(W, m, m2, lo, hi)
      /\ m2[lo - 4] = hi - lo /\ m2[hi - 8] = hi - lo
  <2> DEFINE s == GET_SIZE(m, b - 4)
  <2>0. /\ s \in Nat /\ s >= 16 /\ s % 8 = 0 /\ b \in Nat /\ next = b + s /\ b >= 16
        /\ b - 4 \in W /\ b + s - 8 \in W /\ m[b + s - 8] = m[b - 4] /\ m[b - 4] = s
    <3>1. /\ b \in Nat /\ b - 4 \in W /\ b + s - 8 \in W /\ m[b + s - 8] = m[b - 4]
          /\ s % 8 = 0 /\ s \in Nat /\ s >= 16 /\ b >= 16
      BY LayoutWords
    <3>2. m[b - 4] = s
      BY <3>1 DEF GET_SIZE
    <3> QED
      BY <3>1, <3>2, <1>2
  <2>p. ASSUME ~PrevAlloc(m, b)
        PROVE  /\ lo = prev /\ prev \in Nat /\ prev - 4 \in W
               /\ GET_SIZE(m, prev - 4) \in Nat /\ prev + 16 <= b
               /\ b = prev + GET_SIZE(m, prev - 4)
    <3>1. b # 16 /\ prev \in B /\ NEXT_BLKP(m, prev) = b
      BY <2>p, <1>1
    <3>3. b = prev + GET_SIZE(m, prev - 4)
      BY <3>1, <1>2
    <3>4. lo = prev
      BY <2>p
    <3> HIDE DEF prev, lo
    <3>2. /\ prev \in Nat /\ prev - 4 \in W /\ GET_SIZE(m, prev - 4) \in Nat
          /\ GET_SIZE(m, prev - 4) >= 16
      BY <3>1, LayoutWords
    <3> QED
      BY <3>2, <3>3, <3>4, <2>0
  <2>n. ASSUME ~NextAlloc(m, b)
        PROVE  /\ hi = next + GET_SIZE(m, next - 4) /\ GET_SIZE(m, next - 4) \in Nat
               /\ GET_SIZE(m, next - 4) >= 16 /\ GET_SIZE(m, next - 4) % 8 = 0
               /\ next \in Nat /\ next + GET_SIZE(m, next - 4) - 8 \in W
               /\ m[next + GET_SIZE(m, next - 4) - 8] = m[next - 4]
    <3>1. next \in B
      BY <2>n, <1>1
    <3>2. hi = NEXT_BLKP(m, next)
      BY <2>n
    <3>3. NEXT_BLKP(m, next) = next + GET_SIZE(m, next - 4)
      BY <3>1, <1>2
    <3> HIDE DEF next, hi
    <3> QED
      BY <3>1, <3>2, <3>3, LayoutWords
  <2>1. CASE PrevAlloc(m, b) /\ NextAlloc(m, b)
    <3>1. m2 = m /\ lo = b /\ hi = b + s
      BY <2>1, <2>0 DEF Coalesce
    <3> HIDE DEF m2, lo, hi, s
    <3> QED
      BY <3>1, <2>0 DEF SameOutside
  <2>2. CASE PrevAlloc(m, b) /\ ~NextAlloc(m, b)
    <3> DEFINE v == s + GET_SIZE(m, next - 4)
    <3>1. m2 = Mark(m, b, v, 0) /\ lo = b
      BY <2>2 DEF Coalesce, HDRP, WSIZE
    <3>2. hi = b + v /\ v \in Nat /\ v % 8 = 0 /\ v >= 32 /\ b + v - 8 \in W
      <4>1. /\ hi = next + GET_SIZE(m, next - 4) /\ GET_SIZE(m, next - 4) \in Nat
            /\ GET_SIZE(m, next - 4) >= 16 /\ GET_SIZE(m, next - 4) % 8 = 0
            /\ next + GET_SIZE(m, next - 4) - 8 \in W
        BY <2>2, <2>n
      <4> HIDE DEF s, next, hi
      <4>2. next + GET_SIZE(m, next - 4) = b + v
        BY <4>1, <2>0
      <4> QED
        BY <4>1, <4>2, <2>0
    <3> HIDE DEF m2, lo, hi, s, v
    <3>3. /\ hi \in Nat /\ lo \in Nat /\ lo + 16 <= hi /\ v = hi - lo
          /\ hi - 8 \in W /\ lo - 4 \in W
      BY <3>1, <3>2, <2>0
    <3> HIDE DEF v
    <3>4. Slot(W, lo, hi) /\ m2 = Mark(m, lo, v, 0) /\ 0 \in {0, 1}
      BY <3>1, <3>2, <3>3, <1>f DEF Slot
    <3>5. Tagged(W, m, m2, lo, hi, v + 0)
      BY <3>3, <3>4, MarkBlock
    <3> QED
      BY <3>2, <3>3, <3>4, <3>5, TaggedOutside DEF Tagged
  <2>3. CASE ~PrevAlloc(m, b) /\ NextAlloc(m, b)
    <3> DEFINE v == s + GET_SIZE(m, prev - 4)
    <3>1. m2 = PUT(PUT(m, prev - 4, v), FTRP(m, b), v) /\ hi = b + s
      BY <2>3, <2>0 DEF Coalesce, HDRP, WSIZE
    <3>2. /\ lo = prev /\ prev \in Nat /\ prev - 4 \in W
          /\ GET_SIZE(m, prev - 4) \in Nat /\ prev + 16 <= b
          /\ b = prev + GET_SIZE(m, prev - 4)
      BY <2>3, <2>p
    <3>3. FTRP(m, b) = b + s - 8
      BY DEF FTRP, HDRP, WSIZE, DSIZE
    <3> HIDE DEF m2, lo, hi, s, prev
    <3>4. /\ v \in Nat /\ hi \in Nat /\ lo + 16 <= hi /\ hi - 8 \in W
          /\ FTRP(m, b) = hi - 8 /\ v = hi - lo
      BY <3>1, <3>2, <3>3, <2>0
    <3> HIDE DEF v
    <3>5. Slot(W, lo, hi) /\ prev - 4 = lo - 4
      BY <3>1, <3>2, <3>4, <2>0, <1>f DEF Slot
    <3>6. Tagged(W, m, m2, lo, hi, v)
      BY <3>1, <3>4, <3>5, PutWords
    <3> QED
      BY <3>4, <3>5, <3>6, TaggedOutside DEF Tagged
  <2>4. CASE ~PrevAlloc(m, b) /\ ~NextAlloc(m, b)
    <3> DEFINE t == GET_SIZE(m, next - 4)
               v == (s + GET_SIZE(m, prev - 4)) + t
    <3>0. /\ hi = next + t /\ t \in Nat /\ t >= 16 /\ next \in Nat
          /\ next + t - 8 \in W /\ m[next + t - 8] = m[next - 4]
      BY <2>4, <2>n
    <3>1. FTRP(m, next) = next + t - 8 /\ GET_SIZE(m, FTRP(m, next)) = t
      <4>1. FTRP(m, next) = next + t - 8
        BY DEF FTRP, HDRP, WSIZE, DSIZE
      <4> QED
        BY <4>1, <3>0 DEF GET_SIZE
    <3>2. m2 = PUT(PUT(m, prev - 4, v), FTRP(m, next), v)
      <4>1. m2 = PUT(PUT(m, HDRP(prev), (s + GET_SIZE(m, HDRP(prev))) + GET_SIZE(m, FTRP(m, next))),
                     FTRP(m, next), (s + GET_SIZE(m, HDRP(prev))) + GET_SIZE(m, FTRP(m, next)))
        BY <2>4 DEF Coalesce, HDRP, WSIZE
      <4>2. HDRP(prev) = prev - 4
        BY DEF HDRP, WSIZE
      <4> HIDE DEF m2, prev, next, s, t
      <4> QED
        BY <4>1, <4>2, <3>1
    <3>3. /\ lo = prev /\ prev \in Nat /\ prev - 4 \in W
          /\ GET_SIZE(m, prev - 4) \in Nat /\ prev + 16 <= b
          /\ b = prev + GET_SIZE(m, prev - 4)
      BY <2>4, <2>p
    <3> HIDE DEF m2, lo, hi, s, prev, next, t
    <3>4. /\ v \in Nat /\ hi \in Nat /\ lo + 16 <= hi /\ hi - 8 \in W
          /\ FTRP(m, next) = hi - 8 /\ v = hi - lo
      BY <3>0, <3>1, <3>3, <2>0
    <3> HIDE DEF v
    <3>5. Slot(W, lo, hi) /\ prev - 4 = lo - 4
      BY <3>0, <3>3, <3>4, <2>0, <1>f DEF Slot
    <3>6. Tagged(W, m, m2, lo, hi, v)
      BY <3>2, <3>4, <3>5, PutWords
    <3> QED
      BY <3>4, <3>5, <3>6, TaggedOutside DEF Tagged
  <2> QED
    BY <2>1, <2>2, <2>3, <2>4
<1>a. CoalescedBp(m, b) = lo
  BY DEF CoalescedBp
<1>b. L \subseteq B
  BY DEF AllocOK
<1>c. lo \in Nat /\ (lo = b => PrevAlloc(m, b)) /\ (hi = next => NextAlloc(m, b))
  <2>1. lo \in Nat
    BY <1>2, <1>5
  <2>2. lo = b => PrevAlloc(m, b)
    <3>1. CASE PrevAlloc(m, b)
      BY <3>1
    <3>2. CASE ~PrevAlloc(m, b)
      BY <3>2, <1>1, <1>2
    <3> QED
      BY <3>1, <3>2
  <2>3. hi = next => NextAlloc(m, b)
    <3>1. CASE NextAlloc(m, b)
      BY <3>1
    <3>2. CASE ~NextAlloc(m, b)
      BY <3>2, <1>1, <1>2
    <3> QED
      BY <3>1, <3>2
  <2> QED
    BY <2>1, <2>2, <2>3
<1>d. hi - b >= GET_SIZE(m, b - 4)
  <2>1. next = b + GET_SIZE(m, b - 4) /\ b \in Nat /\ GET_SIZE(m, b - 4) \in Nat
    BY <1>2
  <2> HIDE DEF next, hi
  <2> QED
    BY <2>1, <1>6
<1>e. \A c \in B : b < c => next <= c
  BY <1>3
<1> HIDE DEF lo, hi, m2, next, prev
<1>8. \A c \in L : c < lo \/ c >= hi
  <2>1. SUFFICES ASSUME NEW c \in L, lo <= c, c < hi PROVE FALSE
    BY <1>2, <1>6, <1>b, <1>c
  <2>2. c \in B /\ c # b /\ c \in Nat
    BY <1>2, <1>b
  <2>3. b < c => next <= c
    BY <2>2, <1>e
  <2>4. next < c => hi <= c
    BY <2>2, <1>3, <1>6, <2>1
  <2>5. c < b => FALSE
    <3>1. SUFFICES ASSUME c < b PROVE FALSE
      OBVIOUS
    <3>2. lo = prev /\ b # 16 /\ prev \notin L
      BY <3>1, <1>5, <2>1, <2>2, <1>c
    <3>3. prev < c /\ NEXT_BLKP(m, prev) = b /\ prev \in B
      BY <3>2, <1>1, <1>c, <2>1, <2>2
    <3> QED
      BY <3>1, <3>3, <1>3, <2>2, <1>5
  <2>6. c # next \/ hi = next
    BY <1>6
  <2> QED
    BY <2>1, <2>2, <2>3, <2>4, <2>5, <2>6, <1>5, <1>6
<1>9. hi = brk \/ hi \in L
  <2>1. CASE hi = next
    BY <2>1, <1>1, <1>c
  <2>2. CASE hi # next
    <3>1. next \in B /\ next \notin L /\ hi = NEXT_BLKP(m, next)
      BY <2>2, <1>6
    <3>2. next # b /\ hi # b
      BY <1>5, <1>6
    <3> QED
      BY <3>1, <3>2 DEF CoalescedBut
  <2> QED
    BY <2>1, <2>2
<1>10. \A c \in B : NEXT_BLKP(m, c) = lo => c \in L
  <2>1. SUFFICES ASSUME NEW c \in B, NEXT_BLKP(m, c) = lo PROVE c \in L
    OBVIOUS
  <2>2. CASE lo = b
    <3>1. b # 16
      BY <2>1, <2>2, <1>2
    <3>2. PrevAlloc(m, b)
      BY <2>2, <1>c
    <3> QED
      BY <3>1, <3>2, <2>1, <2>2, <1>1, <1>4
  <2>3. CASE lo # b
    <3>1. lo = prev /\ prev \notin L /\ prev < b
      BY <2>3, <1>5
    <3>2. c # b /\ lo # brk
      BY <1>2, <2>1, <3>1, <1>5
    <3> QED
      BY <2>1, <2>3, <3>1, <3>2 DEF CoalescedBut
  <2> QED
    BY <2>2, <2>3
<1>11. \A c \in B : (c < lo \/ c >= hi) /\ c \notin L
                    /\ NEXT_BLKP(m, c) # brk /\ NEXT_BLKP(m, c) # lo
                        => NEXT_BLKP(m, c) \in L
  <2>1. SUFFICES ASSUME NEW c \in B, c < lo \/ c >= hi, c \notin L,
                        NEXT_BLKP(m, c) # brk, NEXT_BLKP(m, c) # lo
                 PROVE  NEXT_BLKP(m, c) \in L
    OBVIOUS
  <2>2. c # b
    BY <2>1, <1>5, <1>6, <1>c
  <2>3. NEXT_BLKP(m, c) # b
    <3>1. SUFFICES ASSUME NEXT_BLKP(m, c) = b PROVE FALSE
      OBVIOUS
    <3>2. lo # b /\ b # 16
      BY <2>1, <3>1, <1>2
    <3>3. c = prev /\ lo = prev
      BY <3>1, <3>2, <1>4, <1>5
    <3> QED
      BY <3>3, <2>1, <1>5, <1>6, <1>2
  <2> QED
    BY <2>1, <2>2, <2>3 DEF CoalescedBut
<1>12. lo < hi /\ hi - lo >= GET_SIZE(m, b - 4)
  <2>1. lo \in Nat /\ hi \in Nat /\ b \in Nat /\ GET_SIZE(m, b - 4) \in Nat
    BY <1>2, <1>5, <1>6, <1>c
  <2> QED
    BY <2>1, <1>5, <1>6, <1>d
<1>14. /\ WellFormed(m2, brk, L)
       /\ lo \in BlocksOf(m2, brk, L) \ L
       /\ GET_SIZE(m2, lo - 4) = hi - lo
       /\ Preserves(W, m, m2, L)
  BY <1>5, <1>6, <1>7, <1>8, <1>9, <1>10, <1>11, <1>12, Merge
<1> QED
  BY <1>7, <1>12, <1>a, <1>14 DEF m2

(***************************************************************************)
(* The calls, on a well formed heap whose allocated blocks are L.          *)
(***************************************************************************)
LEMMA WellFormedBlocks ==
    ASSUME NEW W, NEW m \in [W -> Nat], NEW brk \in Nat, NEW L \in SUBSET Nat,
           Covers(W, brk), brk % 8 = 0, WellFormed(m, brk, L)
    PROVE  /\ BlocksOf(m, brk, L) \in SUBSET Nat
           /\ Layout(m, brk, BlocksOf(m, brk, L))
           /\ AllocOK(m, BlocksOf(m, brk, L), L)
           /\ Coalesced(m, brk, BlocksOf(m, brk, L), L)
           /\ L \in SUBSET BlocksOf(m, brk, L)
           /\ 16 \in BlocksOf(m, brk, L)
           /\ \A b \in BlocksOf(m, brk, L) :
                /\ b \in Nat /\ b % 8 = 0 /\ b >= 16 /\ b + 16 <= brk
                /\ b - 4 \in W /\ b - 8 \in W
                /\ GET_SIZE(m, b - 4) \in Nat /\ GET_SIZE(m, b - 4) % 8 = 0
                /\ GET_SIZE(m, b - 4) >= 16
                /\ b + GET_SIZE(m, b - 4) <= brk
                /\ b + GET_SIZE(m, b - 4) - 8 \in W
                /\ NEXT_BLKP(m, b) = b + GET_SIZE(m, b - 4)
                /\ NEXT_BLKP(m, b) \in BlocksOf(m, brk, L) \cup {brk}
           /\ \A b, c \in BlocksOf(m, brk, L) : b < c => NEXT_BLKP(m, b) <= c
<1> DEFINE B == BlocksOf(m, brk, L)
<1>1. Layout(m, brk, B) /\ AllocOK(m, B, L) /\ Coalesced(m, brk, B, L)
  BY DEF WellFormed, Tiling
<1>2. L \subseteq B /\ \A p \in L : BlockOK(m, brk, p)
  BY <1>1 DEF AllocOK, Layout
<1>3. \A p \in L : NEXT_BLKP(m, p) \in Nat
  BY <1>2, BlockWords DEF NEXT_BLKP, WSIZE
<1>4. B \in SUBSET Nat
  <2>1. SUFFICES ASSUME NEW b \in B PROVE b \in Nat
    OBVIOUS
  <2>2. b = 16 \/ b \in L \/ \E p \in L : b = NEXT_BLKP(m, p)
    BY DEF BlocksOf, FirstBlock
  <2> HIDE DEF B
  <2>3. CASE b = 16
    BY <2>3
  <2>4. CASE b \in L
    BY <2>4
  <2>5. CASE \E p \in L : b = NEXT_BLKP(m, p)
    BY <2>5, <1>3
  <2> QED
    BY <2>2, <2>3, <2>4, <2>5
<1> HIDE DEF B
<1>5. \A b \in B :
         /\ b \in Nat /\ b % 8 = 0 /\ b >= 16 /\ b + 16 <= brk
         /\ b - 4 \in W /\ b - 8 \in W
         /\ GET_SIZE(m, b - 4) \in Nat /\ GET_SIZE(m, b - 4) % 8 = 0
         /\ GET_SIZE(m, b - 4) >= 16
         /\ b + GET_SIZE(m, b - 4) <= brk
         /\ b + GET_SIZE(m, b - 4) - 8 \in W
  BY <1>1, <1>4, LayoutWords
<1>6. \A b \in B : /\ NEXT_BLKP(m, b) = b + GET_SIZE(m, b - 4)
                   /\ NEXT_BLKP(m, b) \in B \cup {brk}
  BY <1>1 DEF Layout, ChainOK, NEXT_BLKP, WSIZE
<1>7. 16 \in B /\ \A b, c \in B : b < c => NEXT_BLKP(m, b) <= c
  BY <1>1 DEF Layout, ChainOK, FirstBlock
<1> QED
  BY <1>1, <1>2, <1>4, <1>5, <1>6, <1>7 DEF B

\* The headers of the blocks outside lo..hi-1 are the same in both memories.
LEMMA HeadersOutside ==
    ASSUME NEW W, NEW m \in [W -> Nat], NEW m2 \in [W -> Nat],
           NEW brk \in Nat, NEW B \in SUBSET Nat,
           Covers(W, brk), brk % 8 = 0, Layout(m, brk, B),
           NEW lo \in Nat, NEW hi \in Nat, SameOutside(W, m, m2, lo, hi),
           NEW c \in B, c < lo \/ c >= hi
    PROVE  /\ m2[c - 4] = m[c - 4]
           /\ NEXT_BLKP(m2, c) = NEXT_BLKP(m, c)
           /\ GET_ALLOC(m2, c - 4) = GET_ALLOC(m, c - 4)
           /\ GET_SIZE(m2, c - 4) = GET_SIZE(m, c - 4)
<1>1. c \in Nat /\ c - 4 \in W
  BY LayoutWords
<1>2. m2[c - 4] = m[c - 4]
  BY <1>1 DEF SameOutside
<1> QED
  BY <1>2 DEF NEXT_BLKP, GET_SIZE, GET_ALLOC, WSIZE

LEMMA PreservesTrans ==
    ASSUME NEW W, NEW m, NEW f, NEW m2, NEW L,
           \A p \in L : /\ p \in Nat /\ p - 4 \in W /\ p >= 4
                        /\ GET_SIZE(m, p - 4) \in Nat /\ GET_SIZE(m, p - 4) >= 16,
           Preserves(W, m, f, L), Preserves(W, f, m2, L)
    PROVE  Preserves(W, m, m2, L)
<1>1. SUFFICES ASSUME NEW p \in L, NEW a \in Nat, a \in W,
                      p - 4 <= a, a < p + GET_SIZE(m, p - 4) - 4
               PROVE  m2[a] = m[a]
  BY DEF Preserves
<1>2. f[p - 4] = m[p - 4]
  BY DEF Preserves
<1>3. GET_SIZE(f, p - 4) = GET_SIZE(m, p - 4)
  BY <1>2 DEF GET_SIZE
<1> QED
  BY <1>1, <1>3 DEF Preserves

\* Preserved blocks keep their sizes.
LEMMA SizeKept ==
    ASSUME NEW W, NEW m \in [W -> Nat], NEW brk \in Nat, NEW L \in SUBSET Nat,
           Covers(W, brk), brk % 8 = 0, WellFormed(m, brk, L),
           NEW K \in SUBSET L, NEW m2, Preserves(W, m, m2, K), NEW p \in K
    PROVE  GET_SIZE(m2, HDRP(p)) = GET_SIZE(m, HDRP(p))
<1>1. p \in BlocksOf(m, brk, L)
  BY WellFormedBlocks
<1>2. p \in Nat /\ p >= 16 /\ p - 4 \in W /\ GET_SIZE(m, p - 4) \in Nat /\ GET_SIZE(m, p - 4) >= 16
  BY <1>1, WellFormedBlocks
<1>3. m2[p - 4] = m[p - 4]
  BY <1>2 DEF Preserves
<1> QED
  BY <1>3 DEF GET_SIZE, HDRP, WSIZE

\* mm_free(p): the tags are marked free, then the block is coalesced.
LEMMA FreeLemma ==
    ASSUME NEW W, NEW m \in [W -> Nat], NEW brk \in Nat, NEW L \in SUBSET Nat,
           Covers(W, brk), brk % 8 = 0, WellFormed(m, brk, L), NEW p \in L,
           NEW f, f = MarkFree(m, p)
    PROVE  /\ Coalesce(f, p) \in [W -> Nat]
           /\ WellFormed(Coalesce(f, p), brk, L \ {p})
           /\ CoalescedBp(f, p) \in BlocksOf(Coalesce(f, p), brk, L \ {p})
           /\ Preserves(W, m, Coalesce(f, p), L \ {p})
<1> DEFINE B == BlocksOf(m, brk, L)
           hi == NEXT_BLKP(m, p)
           K == L \ {p}
<1>1. /\ B \in SUBSET Nat /\ Layout(m, brk, B) /\ AllocOK(m, B, L)
      /\ Coalesced(m, brk, B, L) /\ L \in SUBSET B
      /\ \A b \in B : /\ b \in Nat /\ b % 8 = 0 /\ b >= 16
                      /\ b - 4 \in W /\ GET_SIZE(m, b - 4) \in Nat
                      /\ GET_SIZE(m, b - 4) % 8 = 0 /\ GET_SIZE(m, b - 4) >= 16
                      /\ b + GET_SIZE(m, b - 4) - 8 \in W
                      /\ NEXT_BLKP(m, b) = b + GET_SIZE(m, b - 4)
                      /\ NEXT_BLKP(m, b) \in B \cup {brk}
      /\ \A b, c \in B : b < c => NEXT_BLKP(m, b) <= c
  BY WellFormedBlocks
<1> HIDE DEF B
<1>2. /\ p \in B /\ p \in Nat /\ hi \in Nat /\ p + 16 <= hi /\ (hi - p) % 8 = 0
      /\ p - 4 \in W /\ hi - 8 \in W /\ hi \in B \cup {brk}
      /\ GET_SIZE(m, p - 4) = hi - p
  BY <1>1
<1>3. f = Mark(m, p, GET_SIZE(m, p - 4), 0)
  BY DEF MarkFree, HDRP, WSIZE
<1>4. \A b \in B : b < p \/ b >= hi \/ b = p
  BY <1>1
<1> HIDE DEF hi
<1>5. /\ f \in [W -> Nat] /\ SameOutside(W, m, f, p, hi)
      /\ f[p - 4] = (hi - p) + 0 /\ f[hi - 8] = (hi - p) + 0
  <2> DEFINE s == GET_SIZE(m, p - 4)
  <2>1. Slot(W, p, hi) /\ s = hi - p /\ 0 \in {0, 1} /\ s + 0 = hi - p
    BY <1>2 DEF Slot
  <2>2. f = Mark(m, p, s, 0)
    BY <1>3
  <2> HIDE DEF s
  <2>3. Tagged(W, m, f, p, hi, s + 0)
    BY <2>1, <2>2, MarkBlock
  <2> QED
    BY <1>2, <2>1, <2>3, TaggedOutside DEF Tagged
<1>6. Layout(f, brk, B)
  <2>1. p < hi /\ 0 \in {0, 1}
    BY <1>2
  <2>2. Layout(f, brk, Outside(B, p, hi) \cup {p})
    <3>1. /\ B \in SUBSET Nat /\ Layout(m, brk, B) /\ p \in B /\ hi \in B \cup {brk}
          /\ f \in [W -> Nat] /\ SameOutside(W, m, f, p, hi)
          /\ f[p - 4] = (hi - p) + 0 /\ f[hi - 8] = (hi - p) + 0
      BY <1>1, <1>2, <1>5
    <3> QED
      BY <2>1, <3>1, OneBlock
  <2>3. Outside(B, p, hi) \cup {p} = B
    BY <1>2, <1>4 DEF Outside
  <2> QED
    BY <2>2, <2>3
<1>7. \A c \in B : c # p =>
         NEXT_BLKP(f, c) = NEXT_BLKP(m, c) /\ GET_ALLOC(f, c - 4) = GET_ALLOC(m, c - 4)
  <2>1. TAKE c \in B
  <2>2. SUFFICES ASSUME c # p
                 PROVE  /\ NEXT_BLKP(f, c) = NEXT_BLKP(m, c)
                        /\ GET_ALLOC(f, c - 4) = GET_ALLOC(m, c - 4)
    OBVIOUS
  <2>3. /\ B \in SUBSET Nat /\ Layout(m, brk, B) /\ p \in Nat /\ hi \in Nat
        /\ f \in [W -> Nat] /\ SameOutside(W, m, f, p, hi)
        /\ c < p \/ c >= hi
    BY <1>1, <1>2, <1>4, <1>5, <2>2
  <2> QED
    BY <2>3, HeadersOutside
<1>8. f[p - 4] % 8 = 0 /\ GET_ALLOC(f, p - 4) = 0
  <2>1. f[p - 4] = hi - p
    BY <1>2, <1>5
  <2> QED
    BY <2>1, <1>2 DEF GET_ALLOC
<1>9. AllocOK(f, B, K)
  <2>1. \A c \in B : GET_ALLOC(f, c - 4) = 1 <=> c \in K
    BY <1>1, <1>7, <1>8 DEF AllocOK, HDRP, WSIZE
  <2> QED
    BY <2>1, <1>1 DEF AllocOK, HDRP, WSIZE
<1>10. CoalescedBut(f, brk, B, K, p)
  BY <1>1, <1>7 DEF Coalesced, CoalescedBut
<1>11. p \notin K
  OBVIOUS
<1>12. Preserves(W, m, f, K)
  <2>1. K \in SUBSET B /\ p < hi /\ \A c \in K : c < p \/ c >= hi
    BY <1>1, <1>2, <1>4
  <2> HIDE DEF K
  <2> QED
    BY <1>1, <1>2, <1>5, <2>1, PreservesOutside
<1>k. \A q \in K : /\ q \in Nat /\ q - 4 \in W /\ q >= 4
                   /\ GET_SIZE(m, q - 4) \in Nat /\ GET_SIZE(m, q - 4) >= 16
  BY <1>1
<1> HIDE DEF K
<1>13. /\ Coalesce(f, p) \in [W -> Nat]
       /\ WellFormed(Coalesce(f, p), brk, K)
       /\ CoalescedBp(f, p) \in BlocksOf(Coalesce(f, p), brk, K) \ K
       /\ Preserves(W, f, Coalesce(f, p), K)
  BY <1>1, <1>2, <1>5, <1>6, <1>8, <1>9, <1>10, <1>11, CoalesceLemma
<1>14. Preserves(W, m, Coalesce(f, p), K)
  BY <1>k, <1>12, <1>13, PreservesTrans
<1> QED
  BY <1>13, <1>14 DEF K

\* At most one free block n between lo and hi, the last one.
Remainder(m2, N, lo, hi) ==
    \A n \in N : /\ n \in Nat /\ lo < n /\ n < hi
                 /\ NEXT_BLKP(m2, n) = hi /\ GET_ALLOC(m2, n - 4) = 0

\* What the rest of the heap needs when the free block from lo to hi becomes
\* allocated, with or without a free remainder.
LEMMA Allocate ==
    ASSUME NEW W, NEW m \in [W -> Nat], NEW m2 \in [W -> Nat], NEW brk \in Nat,
           NEW B \in SUBSET Nat, NEW L \in SUBSET B,
           Covers(W, brk), brk % 8 = 0,
           Layout(m, brk, B), AllocOK(m, B, L), Coalesced(m, brk, B, L),
           NEW lo \in B, lo \notin L, NEW hi \in Nat, hi = NEXT_BLKP(m, lo),
           SameOutside(W, m, m2, lo, hi),
           GET_ALLOC(m2, lo - 4) = 1,
           NEW N, Remainder(m2, N, lo, hi),
           Layout(m2, brk, Outside(B, lo, hi) \cup {lo} \cup N)
    PROVE  /\ WellFormed(m2, brk, L \cup {lo})
           /\ Preserves(W, m, m2, L)
<1> DEFINE B2 == Outside(B, lo, hi) \cup {lo} \cup N
           K == L \cup {lo}
<1>1. /\ \A b, c \in B : b < c => NEXT_BLKP(m, b) <= c
      /\ \A b \in B : b \in Nat
      /\ hi \in B \cup {brk}
      /\ lo < hi
  <2>1. lo \in Nat /\ GET_SIZE(m, lo - 4) \in Nat /\ GET_SIZE(m, lo - 4) >= 16
    BY LayoutWords
  <2>2. hi = lo + GET_SIZE(m, lo - 4)
    BY DEF NEXT_BLKP, WSIZE
  <2>3. lo < hi
    BY <2>1, <2>2
  <2> QED
    BY <2>3 DEF Layout, ChainOK
<1>2. \A b \in B : b < lo \/ b >= hi \/ b = lo
  BY <1>1
<1>3. \A c \in B : c # lo => /\ NEXT_BLKP(m2, c) = NEXT_BLKP(m, c)
                             /\ GET_ALLOC(m2, c - 4) = GET_ALLOC(m, c - 4)
  <2>1. TAKE c \in B
  <2>2. SUFFICES ASSUME c # lo
                 PROVE  /\ NEXT_BLKP(m2, c) = NEXT_BLKP(m, c)
                        /\ GET_ALLOC(m2, c - 4) = GET_ALLOC(m, c - 4)
    OBVIOUS
  <2>3. (c < lo \/ c >= hi) /\ lo \in Nat
    BY <1>2, <2>2
  <2> QED
    BY <2>3, HeadersOutside
<1>4. AllocOK(m2, B2, K)
  <2>1. \A c \in B : GET_ALLOC(m, c - 4) = 1 <=> c \in L
    BY DEF AllocOK, HDRP, WSIZE
  <2>2. ASSUME NEW c \in N PROVE c \notin K /\ GET_ALLOC(m2, c - 4) # 1
    <3>1. c \in Nat /\ lo < c /\ c < hi /\ lo \in Nat /\ GET_ALLOC(m2, c - 4) = 0
      BY DEF Remainder
    <3> QED
      BY <3>1, <1>2
  <2>3. \A c \in B2 : GET_ALLOC(m2, c - 4) = 1 <=> c \in K
    BY <1>3, <2>1, <2>2 DEF Outside
  <2>4. K \subseteq B2
    BY <1>2 DEF Outside
  <2> QED
    BY <2>3, <2>4 DEF AllocOK, HDRP, WSIZE
<1>5. Coalesced(m2, brk, B2, K)
  <2>1. SUFFICES ASSUME NEW c \in B2, c \notin K, NEXT_BLKP(m2, c) # brk
                 PROVE  NEXT_BLKP(m2, c) \in K
    BY DEF Coalesced
  <2>2. CASE c \in N
    <3>1. NEXT_BLKP(m2, c) = hi
      BY <2>2 DEF Remainder
    <3>2. hi \in L
      BY <2>1, <3>1 DEF Coalesced
    <3> QED
      BY <3>1, <3>2
  <2>3. CASE c \in B
    <3>1. c # lo /\ NEXT_BLKP(m2, c) = NEXT_BLKP(m, c)
      BY <2>1, <2>3, <1>3
    <3> QED
      BY <2>1, <2>3, <3>1 DEF Coalesced
  <2> QED
    BY <2>1, <2>2, <2>3 DEF Outside
<1>6. B2 \in SUBSET Nat
  BY <1>1 DEF Outside, Remainder
<1>7. Tiling(m2, brk, B2, K)
  BY <1>4, <1>5 DEF Tiling
<1> HIDE DEF B2, K
<1>8. B2 = BlocksOf(m2, brk, K)
  BY <1>6, <1>7, BlocksUnique
<1>9. WellFormed(m2, brk, K)
  BY <1>7, <1>8 DEF WellFormed
<1>10. Preserves(W, m, m2, L)
  <2>1. \A c \in L : c < lo \/ c >= hi
    BY <1>2
  <2> QED
    BY <1>1, <2>1, PreservesOutside
<1> QED
  BY <1>9, <1>10 DEF K

\* Block b ends after a bytes, and a free block follows it.
SplitOff(m, brk, b, a) ==
    /\ NEXT_BLKP(m, b) = b + a
    /\ b + a + 16 <= brk
    /\ GET_ALLOC(m, (b + a) - 4) = 0

\* place: the free block b, big enough, becomes allocated with asize bytes or
\* a few more.
LEMMA PlaceLemma ==
    ASSUME NEW W, NEW m \in [W -> Nat], NEW brk \in Nat, NEW L \in SUBSET Nat,
           Covers(W, brk), brk % 8 = 0, WellFormed(m, brk, L),
           NEW b \in BlocksOf(m, brk, L),
           NEW asize \in Nat, asize % 8 = 0, asize >= 16, Fits(m, b, asize)
    PROVE  /\ Place(m, b, asize) \in [W -> Nat]
           /\ WellFormed(Place(m, b, asize), brk, L \cup {b})
           /\ b \notin L
           /\ GET_SIZE(Place(m, b, asize), b - 4) >= asize
           /\ Preserves(W, m, Place(m, b, asize), L)
           /\ Splits(GET_SIZE(m, HDRP(b)), asize) =>
                SplitOff(Place(m, b, asize), brk, b, asize)
<1> DEFINE B == BlocksOf(m, brk, L)
           csize == GET_SIZE(m, b - 4)
           hi == NEXT_BLKP(m, b)
           mid == b + asize
           m2 == Place(m, b, asize)
<1>1. /\ B \in SUBSET Nat /\ Layout(m, brk, B) /\ AllocOK(m, B, L)
      /\ Coalesced(m, brk, B, L) /\ L \in SUBSET B
      /\ \A c, d \in B : c < d => NEXT_BLKP(m, c) <= d
  BY WellFormedBlocks
<1>2. /\ b \in B /\ b \in Nat /\ b % 8 = 0 /\ b >= 16 /\ b - 4 \in W
      /\ csize \in Nat /\ csize % 8 = 0 /\ csize >= 16
      /\ hi = b + csize /\ hi - 8 \in W /\ hi \in B \cup {brk} /\ hi <= brk
  BY WellFormedBlocks
<1>3. csize >= asize /\ b \notin L
  BY <1>1, <1>2 DEF Fits, HDRP, WSIZE, AllocOK
<1> HIDE DEF B, csize, hi, m2
<1>4. \A c \in B : c < b \/ c >= hi \/ c = b
  BY <1>1, <1>2 DEF hi
<1>5. CASE csize - asize >= 16
  <2> DEFINE used == Mark(m, b, asize, 1)
  <2>1. /\ mid \in Nat /\ mid % 8 = 0 /\ b + 16 <= mid /\ mid + 16 <= hi
        /\ mid - 4 \in W /\ mid - 8 \in W /\ mid - b = asize /\ hi - mid = csize - asize
        /\ (mid - b) % 8 = 0 /\ (hi - mid) % 8 = 0 /\ hi \in Nat
    BY <1>2, <1>3, <1>5 DEF Covers
  <2>2. m2 = Mark(used, NEXT_BLKP(used, b), csize - asize, 0)
    BY <1>5 DEF Place, Splits, m2, csize, HDRP, WSIZE, DSIZE
  <2> HIDE DEF mid, used
  <2>3. Slot(W, b, mid) /\ Slot(W, mid, hi) /\ 1 \in {0, 1} /\ 0 \in {0, 1}
    BY <1>2, <2>1 DEF Slot
  <2>4. Tagged(W, m, used, b, mid, asize + 1)
    BY <2>1, <2>3, MarkBlock DEF used
  <2>5. NEXT_BLKP(used, b) = mid
    <3>1. used[b - 4] = asize + 1
      BY <2>4 DEF Tagged
    <3>2. GET_SIZE(used, b - 4) = asize
      BY <3>1 DEF GET_SIZE
    <3> QED
      BY <3>2 DEF NEXT_BLKP, WSIZE, mid
  <2>6. m2 = Mark(used, mid, csize - asize, 0)
    BY <2>2, <2>5
  <2>7. Tagged(W, used, m2, mid, hi, csize - asize)
    <3> DEFINE r == csize - asize
    <3>1. used \in [W -> Nat] /\ r = hi - mid /\ r + 0 = r /\ m2 = Mark(used, mid, r, 0)
      BY <1>2, <2>1, <2>4, <2>6 DEF Tagged
    <3> HIDE DEF r
    <3>2. Tagged(W, used, m2, mid, hi, r + 0)
      BY <2>3, <3>1, MarkBlock
    <3> QED
      BY <3>1, <3>2 DEF r
  <2>8. SplitAt(m2, b, mid, hi) /\ SameOutside(W, m, m2, b, hi) /\ m2 \in [W -> Nat]
    <3>1. b - 4 # mid - 4 /\ b - 4 # hi - 8 /\ mid - 8 # mid - 4 /\ mid - 8 # hi - 8
      BY <1>2, <2>1
    <3>2. m2[b - 4] = used[b - 4] /\ m2[mid - 8] = used[mid - 8]
      BY <1>2, <2>1, <2>7, <3>1 DEF Tagged
    <3>3. \A a \in W : a < b - 4 \/ a >= hi - 4 =>
             a # b - 4 /\ a # mid - 8 /\ a # mid - 4 /\ a # hi - 8
      BY <1>2, <2>1
    <3>4. SplitAt(m2, b, mid, hi)
      BY <3>2, <2>1, <2>4, <2>7 DEF Tagged, SplitAt
    <3>5. SameOutside(W, m, m2, b, hi)
      BY <3>3, <2>4, <2>7 DEF SameOutside, Tagged
    <3> QED
      BY <3>4, <3>5, <2>7 DEF Tagged
  <2>9. /\ Layout(m2, brk, Outside(B, b, hi) \cup {b, mid})
        /\ NEXT_BLKP(m2, mid) = hi
    <3>1. b \in B /\ hi \in B \cup {brk} /\ B \in SUBSET Nat /\ Layout(m, brk, B)
      BY <1>1, <1>2
    <3> QED
      BY <3>1, <2>8, TwoBlocks
  <2>10. /\ GET_ALLOC(m2, b - 4) = 1 /\ GET_SIZE(m2, b - 4) = asize
         /\ GET_ALLOC(m2, mid - 4) = 0
    <3>1. m2[b - 4] = asize + 1 /\ m2[mid - 4] = csize - asize
      BY <2>1, <2>8, <1>2 DEF SplitAt
    <3>2. csize - asize \in Nat /\ (csize - asize) % 8 = 0
      BY <1>2, <1>5
    <3> HIDE DEF csize
    <3> QED
      BY <3>1, <3>2 DEF GET_ALLOC, GET_SIZE
  <2> DEFINE N == {mid}
  <2>11. /\ Remainder(m2, N, b, hi)
         /\ Outside(B, b, hi) \cup {b} \cup N
              = Outside(B, b, hi) \cup {b, mid}
    BY <1>2, <2>1, <2>9, <2>10 DEF Remainder
  <2> HIDE DEF N
  <2>12. Layout(m2, brk, Outside(B, b, hi) \cup {b} \cup N)
    BY <2>9, <2>11
  <2>13. hi = NEXT_BLKP(m, b)
    BY DEF hi
  <2>14. WellFormed(m2, brk, L \cup {b}) /\ Preserves(W, m, m2, L)
    <3>1. /\ B \in SUBSET Nat /\ L \in SUBSET B /\ Layout(m, brk, B)
          /\ AllocOK(m, B, L) /\ Coalesced(m, brk, B, L)
          /\ b \in B /\ b \notin L /\ hi \in Nat /\ m2 \in [W -> Nat]
          /\ SameOutside(W, m, m2, b, hi) /\ GET_ALLOC(m2, b - 4) = 1
      BY <1>1, <1>2, <1>3, <2>1, <2>8, <2>10
    <3> QED
      BY <3>1, <2>11, <2>12, <2>13, Allocate
  <2>15. SplitOff(m2, brk, b, asize)
    <3>1. NEXT_BLKP(m2, b) = b + asize
      BY <2>10 DEF NEXT_BLKP, WSIZE
    <3>2. mid + 16 <= brk /\ mid = b + asize
      BY <1>2, <2>1 DEF mid
    <3>3. GET_ALLOC(m2, (b + asize) - 4) = 0
      BY <2>10 DEF mid
    <3> QED
      BY <3>1, <3>2, <3>3 DEF SplitOff
  <2> QED
    BY <1>2, <1>3, <2>8, <2>10, <2>14, <2>15 DEF m2
<1>6. CASE ~(csize - asize >= 16)
  <2>1. m2 = Mark(m, b, csize, 1)
    BY <1>6 DEF Place, Splits, m2, csize, HDRP, WSIZE, DSIZE
  <2>2. hi \in Nat /\ b + 16 <= hi /\ hi - b = csize /\ (hi - b) % 8 = 0 /\ 1 \in {0, 1}
    BY <1>2
  <2>3. Slot(W, b, hi)
    BY <1>2, <2>2 DEF Slot
  <2>t. Tagged(W, m, m2, b, hi, csize + 1)
    BY <2>1, <2>2, <2>3, MarkBlock
  <2>4. /\ m2 \in [W -> Nat] /\ SameOutside(W, m, m2, b, hi)
        /\ m2[b - 4] = (hi - b) + 1 /\ m2[hi - 8] = (hi - b) + 1
    BY <2>2, <2>3, <2>t, TaggedOutside DEF Tagged
  <2>5. Layout(m2, brk, Outside(B, b, hi) \cup {b})
    <3>1. b \in B /\ hi \in B \cup {brk} /\ B \in SUBSET Nat /\ Layout(m, brk, B) /\ b < hi
      BY <1>1, <1>2
    <3> QED
      BY <3>1, <2>2, <2>4, OneBlock
  <2>6. GET_ALLOC(m2, b - 4) = 1 /\ GET_SIZE(m2, b - 4) = csize
    <3>1. m2[b - 4] = csize + 1
      BY <2>2, <2>4
    <3> QED
      BY <3>1, <1>2 DEF GET_ALLOC, GET_SIZE
  <2> DEFINE N == {}
  <2>7. /\ Remainder(m2, N, b, hi)
        /\ Outside(B, b, hi) \cup {b} \cup N = Outside(B, b, hi) \cup {b}
    BY DEF Remainder
  <2> HIDE DEF N
  <2>8. Layout(m2, brk, Outside(B, b, hi) \cup {b} \cup N)
    BY <2>5, <2>7
  <2>9. hi = NEXT_BLKP(m, b)
    BY DEF hi
  <2>10. WellFormed(m2, brk, L \cup {b}) /\ Preserves(W, m, m2, L)
    <3>1. /\ B \in SUBSET Nat /\ L \in SUBSET B /\ Layout(m, brk, B)
          /\ AllocOK(m, B, L) /\ Coalesced(m, brk, B, L)
          /\ b \in B /\ b \notin L /\ hi \in Nat /\ m2 \in [W -> Nat]
          /\ SameOutside(W, m, m2, b, hi) /\ GET_ALLOC(m2, b - 4) = 1
      BY <1>1, <1>2, <1>3, <2>2, <2>4, <2>6
    <3> QED
      BY <3>1, <2>7, <2>8, <2>9, Allocate
  <2>11. ~Splits(GET_SIZE(m, HDRP(b)), asize)
    BY <1>6 DEF Splits, csize, HDRP, WSIZE, DSIZE
  <2> QED
    BY <2>4, <2>6, <2>10, <2>11, <1>2, <1>3 DEF m2
<1> QED
  BY <1>5, <1>6 DEF m2

\* The words of a new free block from brk to top and of its epilogue.
Grown(W, m, n, brk, top) ==
    /\ n \in [W -> Nat]
    /\ n[brk - 4] = top - brk /\ n[top - 8] = top - brk /\ n[top - 4] = 1
    /\ \A a \in W : a < brk - 4 => n[a] = m[a]

LEMMA NewBlockWords ==
    ASSUME NEW W, NEW m \in [W -> Nat], NEW brk \in Nat, NEW size \in Nat,
           brk >= 16, size % 8 = 0, size >= 16, NEW top, top = brk + size,
           brk - 4 \in W, top - 8 \in W, top - 4 \in W
    PROVE  Grown(W, m, NewBlock(m, brk, size), brk, top)
<1> DEFINE f == Mark(m, brk, size, 0)
           n == PUT(f, top - 4, 1)
<1>1. Slot(W, brk, top) /\ size = top - brk /\ 0 \in {0, 1} /\ size + 0 = size
  BY DEF Slot
<1>2. Tagged(W, m, f, brk, top, size + 0)
  BY <1>1, MarkBlock
<1> HIDE DEF f
<1>3. f \in [W -> Nat] /\ f[brk - 4] = size /\ f[top - 8] = size
      /\ \A a \in W : a # brk - 4 /\ a # top - 8 => f[a] = m[a]
  BY <1>1, <1>2 DEF Tagged
<1>4. NewBlock(m, brk, size) = n
  <2>1. GET_SIZE(f, brk - 4) = size
    BY <1>3 DEF GET_SIZE
  <2>2. NEXT_BLKP(f, brk) = top
    BY <2>1 DEF NEXT_BLKP, WSIZE
  <2>3. NewBlock(m, brk, size) = PUT(f, HDRP(NEXT_BLKP(f, brk)), PACK(0, 1))
    BY DEF NewBlock, f
  <2> QED
    BY <2>2, <2>3 DEF HDRP, WSIZE, PACK
<1>5. n \in [W -> Nat] /\ n[top - 4] = 1 /\ \A a \in W : a # top - 4 => n[a] = f[a]
  BY <1>3 DEF PUT
<1> HIDE DEF n
<1>6. n[brk - 4] = size /\ n[top - 8] = size
  <2>1. brk - 4 # top - 4 /\ top - 8 # top - 4
    BY <1>1
  <2> QED
    BY <2>1, <1>3, <1>5
<1>7. \A a \in W : a < brk - 4 => n[a] = m[a]
  <2>1. \A a \in W : a < brk - 4 => a # brk - 4 /\ a # top - 4 /\ a # top - 8
    BY <1>1
  <2> QED
    BY <2>1, <1>3, <1>5
<1> QED
  BY <1>1, <1>4, <1>5, <1>6, <1>7 DEF Grown

\* The new block itself.
LEMMA GrownBlock ==
    ASSUME NEW W, NEW m, NEW n, NEW brk \in Nat, NEW top \in Nat,
           brk % 8 = 0, top % 8 = 0, brk >= 16, top >= brk + 16,
           Grown(W, m, n, brk, top)
    PROVE  /\ BlockOK(n, top, brk) /\ NEXT_BLKP(n, brk) = top
           /\ PREV_BLKP(n, top) = brk /\ n[brk - 4] % 8 = 0
           /\ GET_ALLOC(n, brk - 4) = 0 /\ GET_SIZE(n, brk - 4) = top - brk
<1> DEFINE s == top - brk
<1>1. s \in Nat /\ s % 8 = 0 /\ s >= 16 /\ brk + s = top /\ top - s = brk
  OBVIOUS
<1>2. n[brk - 4] = s /\ n[top - 8] = s
  BY DEF Grown
<1> HIDE DEF s
<1>3. /\ GET_SIZE(n, brk - 4) = s /\ GET_SIZE(n, top - 8) = s
      /\ GET_ALLOC(n, brk - 4) = 0 /\ n[brk - 4] % 8 = 0
  BY <1>1, <1>2 DEF GET_SIZE, GET_ALLOC
<1>4. NEXT_BLKP(n, brk) = top /\ PREV_BLKP(n, top) = brk /\ FTRP(n, brk) = top - 8
  BY <1>1, <1>3 DEF NEXT_BLKP, PREV_BLKP, FTRP, HDRP, WSIZE, DSIZE
<1>5. BlockOK(n, top, brk)
  BY <1>1, <1>2, <1>3, <1>4 DEF BlockOK, HDRP, WSIZE, DSIZE, FirstBlock
<1> QED
  BY <1>3, <1>4, <1>5 DEF s

\* extend_heap: a free block is added at the old break, then coalesced.
LEMMA ExtendLemma ==
    ASSUME NEW W, NEW m \in [W -> Nat], NEW brk \in Nat, NEW L \in SUBSET Nat,
           brk % 8 = 0, WellFormed(m, brk, L),
           NEW size \in Nat, size % 8 = 0, size >= 16, NEW top \in Nat, top = brk + size,
           Covers(W, top), NEW n, n = NewBlock(m, brk, size)
    PROVE  /\ Coalesce(n, brk) \in [W -> Nat]
           /\ WellFormed(Coalesce(n, brk), top, L)
           /\ CoalescedBp(n, brk) \in BlocksOf(Coalesce(n, brk), top, L)
           /\ Fits(Coalesce(n, brk), CoalescedBp(n, brk), size)
           /\ Preserves(W, m, Coalesce(n, brk), L)
<1> DEFINE B == BlocksOf(m, brk, L)
           B2 == B \cup {brk}
<1>0. Covers(W, brk) /\ top % 8 = 0 /\ top >= brk + 16
  BY DEF Covers
<1>1. /\ B \in SUBSET Nat /\ Layout(m, brk, B) /\ AllocOK(m, B, L)
      /\ Coalesced(m, brk, B, L) /\ L \in SUBSET B /\ 16 \in B
      /\ \A b \in B : /\ b \in Nat /\ b % 8 = 0 /\ b >= 16 /\ b + 16 <= brk
                      /\ b - 4 \in W /\ GET_SIZE(m, b - 4) \in Nat
                      /\ GET_SIZE(m, b - 4) >= 16
                      /\ b + GET_SIZE(m, b - 4) <= brk
                      /\ b + GET_SIZE(m, b - 4) - 8 \in W
                      /\ NEXT_BLKP(m, b) = b + GET_SIZE(m, b - 4)
                      /\ NEXT_BLKP(m, b) \in B \cup {brk}
      /\ \A b, c \in B : b < c => NEXT_BLKP(m, b) <= c
  BY <1>0, WellFormedBlocks
<1> HIDE DEF B
<1>2. brk >= 32 /\ 4 \in W /\ 8 \in W /\ brk - 4 \in W /\ brk - 8 \in W
      /\ top - 8 \in W /\ top - 4 \in W
  <2>1. brk >= 32
    BY <1>1
  <2> QED
    BY <1>0, <2>1 DEF Covers
<1>3. Grown(W, m, n, brk, top)
  <2>1. brk >= 16
    BY <1>2
  <2> QED
    BY <1>2, <2>1, NewBlockWords
<1>4. /\ BlockOK(n, top, brk) /\ NEXT_BLKP(n, brk) = top
      /\ PREV_BLKP(n, top) = brk /\ n[brk - 4] % 8 = 0
      /\ GET_ALLOC(n, brk - 4) = 0 /\ GET_SIZE(n, brk - 4) = top - brk
  <2>1. brk >= 16
    BY <1>2
  <2> QED
    BY <1>0, <1>3, <2>1, GrownBlock
<1>5. n \in [W -> Nat] /\ n[top - 4] = 1 /\ \A a \in W : a < brk - 4 => n[a] = m[a]
  BY <1>3 DEF Grown
<1>6. ASSUME NEW b \in B
      PROVE  /\ n[b - 4] = m[b - 4]
             /\ n[b + GET_SIZE(m, b - 4) - 8] = m[b + GET_SIZE(m, b - 4) - 8]
             /\ NEXT_BLKP(n, b) = NEXT_BLKP(m, b)
             /\ GET_SIZE(n, b - 4) = GET_SIZE(m, b - 4)
             /\ GET_ALLOC(n, b - 4) = GET_ALLOC(m, b - 4)
  <2>1. b - 4 < brk - 4 /\ b + GET_SIZE(m, b - 4) - 8 < brk - 4
    BY <1>1
  <2>2. /\ n[b - 4] = m[b - 4]
        /\ n[b + GET_SIZE(m, b - 4) - 8] = m[b + GET_SIZE(m, b - 4) - 8]
    BY <1>1, <1>5, <2>1
  <2> QED
    BY <2>2 DEF NEXT_BLKP, GET_SIZE, GET_ALLOC, WSIZE
<1>7. Layout(n, top, B2)
  <2>1. SentinelsOK(n, top)
    <3>1. m[4] = 9 /\ m[8] = 9
      BY <1>1 DEF Layout, SentinelsOK, PACK, DSIZE, WSIZE
    <3>2. n[4] = m[4] /\ n[8] = m[8]
      BY <1>2, <1>5
    <3> QED
      BY <1>5, <3>1, <3>2 DEF SentinelsOK, PACK, DSIZE, WSIZE
  <2>2. \A b \in B2 : BlockOK(n, top, b)
    <3>1. ASSUME NEW b \in B PROVE BlockOK(n, top, b)
      <4>1. BlockOK(m, brk, b)
        BY <1>1 DEF Layout
      <4> QED
        BY <4>1, <1>0, <1>1, <1>6 DEF BlockOK, HDRP, FTRP, NEXT_BLKP, WSIZE, DSIZE
    <3> QED
      BY <3>1, <1>4
  <2>3. \A b \in B2 : NEXT_BLKP(n, b) \in B2 \cup {top}
    BY <1>1, <1>4, <1>6
  <2>4. \A b, c \in B2 : b < c => NEXT_BLKP(n, b) <= c
    <3>1. ASSUME NEW b \in B2, NEW c \in B2, b < c PROVE NEXT_BLKP(n, b) <= c
      <4>1. b \in B
        BY <1>1, <3>1
      <4>2. NEXT_BLKP(n, b) = NEXT_BLKP(m, b)
        BY <4>1, <1>6
      <4>3. NEXT_BLKP(m, b) <= brk
        BY <4>1, <1>1
      <4> QED
        BY <3>1, <4>1, <4>2, <4>3, <1>1
    <3> QED
      BY <3>1
  <2>5. \A e \in B2 \cup {top} : e # 16 =>
           PREV_BLKP(n, e) \in B2 /\ NEXT_BLKP(n, PREV_BLKP(n, e)) = e
    <3>1. SUFFICES ASSUME NEW e \in B \cup {brk}, e # 16
                   PROVE  PREV_BLKP(n, e) \in B /\ NEXT_BLKP(n, PREV_BLKP(n, e)) = e
      BY <1>4
    <3>2. PREV_BLKP(m, e) \in B /\ NEXT_BLKP(m, PREV_BLKP(m, e)) = e
      BY <1>1, <3>1 DEF Layout, ChainOK, FirstBlock
    <3>3. n[e - 8] = m[e - 8]
      <4>0. e \in Nat /\ e % 8 = 0 /\ e >= 24 /\ e <= brk
        BY <1>1, <1>2, <3>1
      <4>1. e - 8 \in W /\ e - 8 < brk - 4
        BY <4>0, <1>0 DEF Covers
      <4> QED
        BY <4>1, <1>5
    <3>4. PREV_BLKP(n, e) = PREV_BLKP(m, e)
      BY <3>3 DEF PREV_BLKP, GET_SIZE, DSIZE
    <3> QED
      BY <3>2, <3>4, <1>6
  <2> QED
    BY <1>1, <2>1, <2>2, <2>3, <2>4, <2>5 DEF Layout, ChainOK, FirstBlock
<1>8. brk \notin B /\ brk \notin L
  BY <1>1
<1>9. AllocOK(n, B2, L)
  <2>1. \A c \in B2 : GET_ALLOC(n, c - 4) = 1 <=> c \in L
    BY <1>1, <1>4, <1>6, <1>8 DEF AllocOK, HDRP, WSIZE
  <2> QED
    BY <2>1, <1>1 DEF AllocOK, HDRP, WSIZE
<1>10. CoalescedBut(n, top, B2, L, brk)
  <2>1. \A c \in B : NEXT_BLKP(n, c) = NEXT_BLKP(m, c)
    BY <1>6
  <2> QED
    BY <2>1, <1>1 DEF Coalesced, CoalescedBut
<1>11. brk \in B2 /\ B2 \in SUBSET Nat
  BY <1>1
<1> HIDE DEF B2
<1>12. /\ Coalesce(n, brk) \in [W -> Nat]
       /\ WellFormed(Coalesce(n, brk), top, L)
       /\ CoalescedBp(n, brk) \in BlocksOf(Coalesce(n, brk), top, L) \ L
       /\ GET_SIZE(Coalesce(n, brk), CoalescedBp(n, brk) - 4) >= GET_SIZE(n, brk - 4)
       /\ Preserves(W, n, Coalesce(n, brk), L)
  BY <1>0, <1>4, <1>5, <1>7, <1>8, <1>9, <1>10, <1>11, CoalesceLemma
<1>13. Preserves(W, m, n, L)
  <2>1. SUFFICES ASSUME NEW p \in L, NEW a \in Nat, a \in W,
                        p - 4 <= a, a < p + GET_SIZE(m, p - 4) - 4
                 PROVE  n[a] = m[a]
    BY DEF Preserves
  <2>2. p \in B
    BY <1>1
  <2>3. p + GET_SIZE(m, p - 4) <= brk /\ p \in Nat /\ GET_SIZE(m, p - 4) \in Nat
    BY <1>1, <2>2
  <2> QED
    BY <2>1, <2>3, <1>5
<1>14. Preserves(W, m, Coalesce(n, brk), L)
  <2>1. \A q \in L : /\ q \in Nat /\ q - 4 \in W /\ q >= 4
                     /\ GET_SIZE(m, q - 4) \in Nat /\ GET_SIZE(m, q - 4) >= 16
    BY <1>1
  <2> QED
    BY <2>1, <1>12, <1>13, PreservesTrans
<1>15. Fits(Coalesce(n, brk), CoalescedBp(n, brk), size)
  <2> DEFINE c == CoalescedBp(n, brk)
             m2 == Coalesce(n, brk)
  <2>1. AllocOK(m2, BlocksOf(m2, top, L), L) /\ \A b \in BlocksOf(m2, top, L) :
           b - 4 \in W /\ GET_SIZE(m2, b - 4) \in Nat
    BY <1>0, <1>12, WellFormedBlocks
  <2> HIDE DEF c, m2
  <2>2. c - 4 \in W /\ GET_ALLOC(m2, c - 4) # 1 /\ m2 \in [W -> Nat]
    BY <1>12, <2>1 DEF AllocOK, HDRP, WSIZE, c, m2
  <2>3. GET_ALLOC(m2, c - 4) = 0
    BY <2>2, SizeType
  <2>4. GET_SIZE(m2, c - 4) >= size
    BY <1>4, <1>12 DEF c, m2
  <2> QED
    BY <2>3, <2>4 DEF Fits, HDRP, WSIZE, c, m2
<1> QED
  BY <1>12, <1>14, <1>15

\* mm_init: the empty heap followed by the first free block.
LEMMA InitLemma ==
    ASSUME NEW W, NEW m \in [W -> Nat], NEW size \in Nat, size % 8 = 0, size >= 16,
           NEW top \in Nat, top = 16 + size, Covers(W, top),
           NEW n, n = NewBlock(EmptyHeap(m, 0), 16, size)
    PROVE  /\ Coalesce(n, 16) \in [W -> Nat]
           /\ WellFormed(Coalesce(n, 16), top, {})
           /\ CoalescedBp(n, 16) \in BlocksOf(Coalesce(n, 16), top, {})
<1> DEFINE e == EmptyHeap(m, 0)
           B == {16}
           L == {}
<1>0. top % 8 = 0 /\ top >= 32 /\ 16 \in Nat
  OBVIOUS
<1>1. 0 \in W /\ 4 \in W /\ 8 \in W /\ 12 \in W /\ top - 8 \in W /\ top - 4 \in W
  BY <1>0 DEF Covers
<1>2. e \in [W -> Nat] /\ e[4] = 9 /\ e[8] = 9
  BY <1>1 DEF EmptyHeap, PUT, PACK, WSIZE, DSIZE
<1> HIDE DEF e
<1>3. Grown(W, e, n, 16, top)
  <2>1. /\ 16 - 4 \in W /\ 16 \in Nat /\ 16 >= 16 /\ n = NewBlock(e, 16, size)
        /\ top - 8 \in W /\ top - 4 \in W
    BY <1>1 DEF e
  <2> QED
    BY <1>2, <2>1, NewBlockWords
<1>4. /\ BlockOK(n, top, 16) /\ NEXT_BLKP(n, 16) = top
      /\ PREV_BLKP(n, top) = 16 /\ n[16 - 4] % 8 = 0
      /\ GET_ALLOC(n, 16 - 4) = 0
  <2>1. 16 \in Nat /\ 16 % 8 = 0 /\ 16 >= 16 /\ top >= 16 + 16
    BY <1>0
  <2> QED
    BY <1>0, <1>3, <2>1, GrownBlock
<1>5. n \in [W -> Nat] /\ n[4] = 9 /\ n[8] = 9 /\ n[top - 4] = 1
  <2>1. 4 < 16 - 4 /\ 8 < 16 - 4
    OBVIOUS
  <2> QED
    BY <2>1, <1>1, <1>2, <1>3 DEF Grown
<1>6. Layout(n, top, B)
  <2>1. SentinelsOK(n, top)
    BY <1>5 DEF SentinelsOK, PACK, WSIZE, DSIZE
  <2>2. ChainOK(n, top, B)
    BY <1>0, <1>4 DEF ChainOK, FirstBlock
  <2> QED
    BY <1>4, <2>1, <2>2 DEF Layout
<1>7. AllocOK(n, B, L) /\ CoalescedBut(n, top, B, L, 16)
  <2>1. \A c \in B : GET_ALLOC(n, HDRP(c)) = 0
    BY <1>4 DEF HDRP, WSIZE
  <2> QED
    BY <1>4, <2>1 DEF AllocOK, CoalescedBut
<1>8. B \in SUBSET Nat /\ 16 \in B /\ 16 \notin L
  OBVIOUS
<1> HIDE DEF B, L
<1>9. /\ Coalesce(n, 16) \in [W -> Nat]
      /\ WellFormed(Coalesce(n, 16), top, L)
      /\ CoalescedBp(n, 16) \in BlocksOf(Coalesce(n, 16), top, L) \ L
  BY <1>0, <1>4, <1>5, <1>6, <1>7, <1>8, CoalesceLemma
<1> QED
  BY <1>9 DEF L

\* The client, or memcpy, writes to the payload of an allocated block.
LEMMA PayloadLemma ==
    ASSUME NEW W, NEW m \in [W -> Nat], NEW brk \in Nat, NEW L \in SUBSET Nat,
           Covers(W, brk), brk % 8 = 0, WellFormed(m, brk, L),
           NEW p \in L, NEW n \in Nat, n + 8 <= GET_SIZE(m, p - 4),
           NEW m2 \in [W -> Nat],
           \A a \in W : a < p \/ a >= p + n => m2[a] = m[a]
    PROVE  /\ WellFormed(m2, brk, L)
           /\ BlocksOf(m2, brk, L) = BlocksOf(m, brk, L)
           /\ \A b \in BlocksOf(m, brk, L) : m2[b - 4] = m[b - 4]
<1> DEFINE B == BlocksOf(m, brk, L)
<1>1. /\ B \in SUBSET Nat /\ Layout(m, brk, B) /\ AllocOK(m, B, L)
      /\ Coalesced(m, brk, B, L) /\ L \in SUBSET B /\ 16 \in B
      /\ \A b \in B : /\ b \in Nat /\ b % 8 = 0 /\ b >= 16 /\ b + 16 <= brk
                      /\ b - 4 \in W /\ GET_SIZE(m, b - 4) \in Nat
                      /\ GET_SIZE(m, b - 4) >= 16
                      /\ b + GET_SIZE(m, b - 4) <= brk
                      /\ b + GET_SIZE(m, b - 4) - 8 \in W
                      /\ NEXT_BLKP(m, b) = b + GET_SIZE(m, b - 4)
                      /\ NEXT_BLKP(m, b) \in B \cup {brk}
      /\ \A b, c \in B : b < c => NEXT_BLKP(m, b) <= c
  BY WellFormedBlocks
<1>d. B = BlocksOf(m, brk, L)
  OBVIOUS
<1> HIDE DEF B
<1>2. /\ p \in B /\ p \in Nat /\ p >= 16 /\ GET_SIZE(m, p - 4) \in Nat
      /\ p + GET_SIZE(m, p - 4) <= brk
  BY <1>1
<1>3. ASSUME NEW b \in B
      PROVE  /\ m2[b - 4] = m[b - 4]
             /\ m2[b + GET_SIZE(m, b - 4) - 8] = m[b + GET_SIZE(m, b - 4) - 8]
             /\ NEXT_BLKP(m2, b) = NEXT_BLKP(m, b)
             /\ GET_SIZE(m2, b - 4) = GET_SIZE(m, b - 4)
             /\ GET_ALLOC(m2, b - 4) = GET_ALLOC(m, b - 4)
  <2>1. /\ b \in Nat /\ GET_SIZE(m, b - 4) \in Nat
        /\ b - 4 \in W /\ b + GET_SIZE(m, b - 4) - 8 \in W
        /\ b < p => b + GET_SIZE(m, b - 4) <= p
        /\ p < b => p + GET_SIZE(m, p - 4) <= b
        /\ GET_SIZE(m, b - 4) >= 16
    BY <1>1, <1>2
  <2>2. /\ b - 4 < p \/ b - 4 >= p + n
        /\ b + GET_SIZE(m, b - 4) - 8 < p \/ b + GET_SIZE(m, b - 4) - 8 >= p + n
    <3>1. CASE b < p
      BY <3>1, <2>1, <1>2
    <3>2. CASE b = p
      BY <3>2, <2>1, <1>2
    <3>3. CASE p < b
      BY <3>3, <2>1, <1>2
    <3> QED
      BY <3>1, <3>2, <3>3, <2>1, <1>2
  <2>3. /\ m2[b - 4] = m[b - 4]
        /\ m2[b + GET_SIZE(m, b - 4) - 8] = m[b + GET_SIZE(m, b - 4) - 8]
    BY <2>1, <2>2
  <2> QED
    BY <2>3 DEF NEXT_BLKP, GET_SIZE, GET_ALLOC, WSIZE
<1>4. Layout(m2, brk, B)
  <2>1. SentinelsOK(m2, brk)
    <3>1. m[4] = 9 /\ m[8] = 9 /\ m[brk - 4] = 1
      BY <1>1 DEF Layout, SentinelsOK, PACK, DSIZE, WSIZE
    <3>2. 4 \in W /\ 8 \in W /\ brk - 4 \in W /\ brk - 4 >= p + n
      BY <1>2 DEF Covers
    <3> QED
      BY <1>2, <3>1, <3>2 DEF SentinelsOK, PACK, DSIZE, WSIZE
  <2>2. \A b \in B : BlockOK(m2, brk, b)
    <3>1. ASSUME NEW b \in B PROVE BlockOK(m2, brk, b)
      <4>1. BlockOK(m, brk, b)
        BY <1>1 DEF Layout
      <4> QED
        BY <4>1, <1>1, <1>3 DEF BlockOK, HDRP, FTRP, NEXT_BLKP, WSIZE, DSIZE
    <3> QED
      BY <3>1
  <2>3. \A e \in B \cup {brk} : e # 16 =>
           PREV_BLKP(m2, e) \in B /\ NEXT_BLKP(m2, PREV_BLKP(m2, e)) = e
    <3>1. SUFFICES ASSUME NEW e \in B \cup {brk}, e # 16
                   PROVE  PREV_BLKP(m2, e) \in B /\ NEXT_BLKP(m2, PREV_BLKP(m2, e)) = e
      OBVIOUS
    <3> DEFINE q == PREV_BLKP(m, e)
    <3>2. q \in B /\ NEXT_BLKP(m, q) = e
      BY <1>1, <3>1 DEF Layout, ChainOK, FirstBlock
    <3>3. q = PREV_BLKP(m, e)
      OBVIOUS
    <3> HIDE DEF q
    <3>4. m2[e - 8] = m[e - 8]
      BY <3>2, <1>1, <1>3
    <3>5. PREV_BLKP(m2, e) = q
      BY <3>3, <3>4 DEF PREV_BLKP, GET_SIZE, DSIZE
    <3> QED
      BY <3>2, <3>5, <1>3
  <2> QED
    BY <1>1, <1>3, <2>1, <2>2, <2>3 DEF Layout, ChainOK, FirstBlock
<1>5. AllocOK(m2, B, L) /\ Coalesced(m2, brk, B, L)
  BY <1>1, <1>3 DEF AllocOK, Coalesced, HDRP, WSIZE
<1>6. Tiling(m2, brk, B, L)
  BY <1>4, <1>5 DEF Tiling
<1>7. B = BlocksOf(m2, brk, L)
  BY <1>1, <1>6, BlocksUnique
<1> QED
  BY <1>3, <1>6, <1>7, <1>d DEF WellFormed

\* m2 is m with the free block `next` added to the allocated block p.
Absorbed(W, m, m2, brk, L, p, next) ==
    /\ m2 \in [W -> Nat]
    /\ WellFormed(m2, brk, L)
    /\ BlocksOf(m2, brk, L) = BlocksOf(m, brk, L) \ {next}
    /\ GET_SIZE(m2, HDRP(p)) = GET_SIZE(m, HDRP(p)) + GET_SIZE(m, HDRP(next))
    /\ Preserves(W, m, m2, L \ {p})
    /\ \A a \in Nat :
          a \in W /\ p <= a /\ a < p + GET_SIZE(m, HDRP(p)) - 8 => m2[a] = m[a]

\* An allocated block grows over the free block that follows it.
LEMMA AbsorbLemma ==
    ASSUME NEW W, NEW m \in [W -> Nat], NEW brk \in Nat, NEW L \in SUBSET Nat,
           Covers(W, brk), brk % 8 = 0, WellFormed(m, brk, L), NEW p \in L,
           NEW next, next = NEXT_BLKP(m, p), GET_ALLOC(m, HDRP(next)) = 0,
           NEW size, size = GET_SIZE(m, HDRP(p)) + GET_SIZE(m, HDRP(next)),
           NEW m2, m2 = Mark(m, p, size, 1)
    PROVE  Absorbed(W, m, m2, brk, L, p, next)
<1> DEFINE B == BlocksOf(m, brk, L)
           hi == NEXT_BLKP(m, next)
           B2 == Outside(B, p, hi) \cup {p}
<1>1. /\ B \in SUBSET Nat /\ Layout(m, brk, B) /\ AllocOK(m, B, L)
      /\ Coalesced(m, brk, B, L) /\ L \in SUBSET B
      /\ \A b \in B : /\ b \in Nat /\ b % 8 = 0 /\ b >= 16
                      /\ b - 4 \in W /\ GET_SIZE(m, b - 4) \in Nat
                      /\ GET_SIZE(m, b - 4) % 8 = 0 /\ GET_SIZE(m, b - 4) >= 16
                      /\ b + GET_SIZE(m, b - 4) - 8 \in W
                      /\ NEXT_BLKP(m, b) = b + GET_SIZE(m, b - 4)
                      /\ NEXT_BLKP(m, b) \in B \cup {brk}
      /\ \A b, c \in B : b < c => NEXT_BLKP(m, b) <= c
  BY WellFormedBlocks
<1>2. B = BlocksOf(m, brk, L)
  OBVIOUS
<1> HIDE DEF B
<1>layout. B \in SUBSET Nat /\ Layout(m, brk, B) /\ L \in SUBSET B
  BY <1>1
<1>3. next # brk
  <2>1. m[brk - 4] = 1
    BY <1>1 DEF Layout, SentinelsOK, PACK, WSIZE
  <2> QED
    BY <2>1 DEF GET_ALLOC, HDRP, WSIZE
<1>4. /\ p \in B /\ next \in B /\ p \in Nat /\ next \in Nat
      /\ next = p + GET_SIZE(m, p - 4) /\ hi = next + GET_SIZE(m, next - 4)
      /\ hi \in B \cup {brk} /\ hi \in Nat
      /\ p < next /\ next < hi /\ p + 32 <= hi /\ (hi - p) % 8 = 0
      /\ p - 4 \in W /\ hi - 8 \in W /\ size = hi - p
      /\ GET_SIZE(m, p - 4) \in Nat
  BY <1>1, <1>3 DEF HDRP, WSIZE
<1>5. \A b \in B : b < p \/ b >= hi \/ b = p \/ b = next
  BY <1>1, <1>4
<1>6. hi = NEXT_BLKP(m, next)
  OBVIOUS
<1> HIDE DEF hi
<1>7. Tagged(W, m, m2, p, hi, size + 1)
  <2>1. Slot(W, p, hi) /\ 1 \in {0, 1}
    BY <1>4 DEF Slot
  <2> QED
    BY <1>4, <2>1, MarkBlock
<1>8. /\ m2 \in [W -> Nat] /\ SameOutside(W, m, m2, p, hi)
      /\ m2[p - 4] = size + 1 /\ m2[hi - 8] = size + 1
  <2>1. Slot(W, p, hi)
    BY <1>4 DEF Slot
  <2> QED
    BY <1>7, <2>1, TaggedOutside DEF Tagged
<1>9. GET_SIZE(m2, p - 4) = size /\ GET_ALLOC(m2, p - 4) = 1
  <2> DEFINE s == hi - p
  <2>1. s \in Nat /\ s % 8 = 0 /\ m2[p - 4] = s + 1 /\ size = s
    BY <1>4, <1>8
  <2> HIDE DEF s
  <2> QED
    BY ONLY <2>1 DEF GET_SIZE, GET_ALLOC
<1>10. Layout(m2, brk, B2)
  <2>1. /\ p < hi /\ 1 \in {0, 1}
        /\ m2[p - 4] = (hi - p) + 1 /\ m2[hi - 8] = (hi - p) + 1
    BY <1>4, <1>8
  <2> HIDE DEF B2
  <2>2. Layout(m2, brk, Outside(B, p, hi) \cup {p})
    BY <1>1, <1>4, <1>8, <2>1, OneBlock
  <2> QED
    BY <2>2 DEF B2
<1>11. next \notin L
  BY <1>1, <1>4 DEF AllocOK
<1>12. B2 = B \ {next} /\ B2 \in SUBSET Nat
  <2>1. \A b \in B : b \in Nat
    BY <1>layout
  <2>2. \A b \in B : b # next <=> b < p \/ b >= hi \/ b = p
    BY <1>4, <1>5, <2>1
  <2> QED
    BY <1>layout, <1>4, <2>2 DEF Outside
<1> HIDE DEF B2
<1>13. \A c \in B2 : c # p => /\ NEXT_BLKP(m2, c) = NEXT_BLKP(m, c)
                              /\ GET_ALLOC(m2, c - 4) = GET_ALLOC(m, c - 4)
  <2>1. SUFFICES ASSUME NEW c \in B2, c # p
                 PROVE  /\ NEXT_BLKP(m2, c) = NEXT_BLKP(m, c)
                        /\ GET_ALLOC(m2, c - 4) = GET_ALLOC(m, c - 4)
    OBVIOUS
  <2>2. c \in B /\ (c < p \/ c >= hi)
    BY <1>5, <1>12, <2>1
  <2> QED
    BY <1>layout, <1>4, <1>8, <2>2, HeadersOutside
<1>14. AllocOK(m2, B2, L)
  <2>1. \A c \in B : GET_ALLOC(m, c - 4) = 1 <=> c \in L
    BY <1>1 DEF AllocOK, HDRP, WSIZE
  <2>2. L \subseteq B2
    BY <1>1, <1>11, <1>12
  <2>3. \A c \in B2 : GET_ALLOC(m2, c - 4) = 1 <=> c \in L
    BY <1>9, <1>12, <1>13, <2>1
  <2> QED
    BY <2>2, <2>3 DEF AllocOK, HDRP, WSIZE
<1>15. Coalesced(m2, brk, B2, L)
  <2>1. SUFFICES ASSUME NEW c \in B2, c \notin L, NEXT_BLKP(m2, c) # brk
                 PROVE  NEXT_BLKP(m2, c) \in L
    BY DEF Coalesced
  <2>2. c \in B /\ NEXT_BLKP(m2, c) = NEXT_BLKP(m, c)
    BY <1>12, <1>13, <2>1
  <2> QED
    BY <1>1, <2>1, <2>2 DEF Coalesced
<1>16. Tiling(m2, brk, B2, L)
  BY <1>10, <1>14, <1>15 DEF Tiling
<1>17. B2 = BlocksOf(m2, brk, L)
  BY <1>8, <1>12, <1>16, BlocksUnique
<1>18. WellFormed(m2, brk, L)
  BY <1>16, <1>17 DEF WellFormed
<1>19. Preserves(W, m, m2, L \ {p})
  <2>1. L \ {p} \in SUBSET B /\ \A c \in L \ {p} : c < p \/ c >= hi
    BY <1>1, <1>5, <1>11
  <2> QED
    BY <1>layout, <1>4, <1>8, <2>1, PreservesOutside
<1>20. ASSUME NEW a \in Nat, a \in W, p <= a, a < p + GET_SIZE(m, HDRP(p)) - 8
       PROVE  m2[a] = m[a]
  <2>1. a < next - 8 /\ a # p - 4 /\ a # hi - 8
    <3>1. a < p + GET_SIZE(m, p - 4) - 8
      BY <1>20 DEF HDRP, WSIZE
    <3>2. GET_SIZE(m, next - 4) >= 16 /\ GET_SIZE(m, next - 4) \in Nat
      BY <1>1, <1>4
    <3>3. a \in Int => a < next - 8 /\ a # p - 4 /\ a # hi - 8
      BY <1>4, <1>20, <3>1, <3>2
    <3> QED
      BY <3>3, <1>20, <3>1
  <2> QED
    BY <1>7, <1>20, <2>1 DEF Tagged
<1> QED
  BY <1>2, <1>8, <1>9, <1>12, <1>17, <1>18, <1>19, <1>20 DEF Absorbed, HDRP, WSIZE

(***************************************************************************)
(* The client                                                              *)
(***************************************************************************)
W == WordAddr

\* find_fit is running, or extend_heap after it.
InSearch == pc \notin {"init", "failed", "idle", "copy", "return"}

\* Which blocks are in transit at each pc.
CallOK ==
    /\ pc \in {"init", "failed"} => \A i \in Ids : owned[i] = NULL
    /\ pc \in {"init", "failed", "idle"} => ptr = NULL
    /\ pc \notin {"copy", "return"} => ret = NULL
    /\ pc = "copy" => ptr # NULL /\ ret # NULL
    /\ pc = "return" => ptr = NULL \/ ret = NULL
    /\ pc \notin {"init", "failed", "idle"} => owned[call.id] = NULL
    /\ pc = "init" => mem_brk = 0
    /\ HeapReady => mem_brk % 8 = 0

\* No block has two owners.
Distinct ==
    /\ \A i, j \in Ids : i # j /\ owned[i] # NULL => owned[i] # owned[j]
    /\ \A i \in Ids : owned[i] # NULL => owned[i] # ptr /\ owned[i] # ret
    /\ ptr # NULL => ptr # ret

\* A block holds the payload that was asked for and both tags.
Holds(p, n) == p # NULL => GET_SIZE(mem, HDRP(p)) >= n + DSIZE

Capacity ==
    HeapReady => /\ \A i \in Ids : Holds(owned[i], reqsize[i])
                 /\ Holds(ptr, reqsize[call.id])
                 /\ Holds(ret, call.size)

ClientInv ==
    /\ MemTypeOK
    /\ ClientTypeOK
    /\ CallOK
    /\ Distinct
    /\ HeapOK
    /\ Capacity

(***************************************************************************)
(* Sizes and addresses                                                     *)
(***************************************************************************)
\* What a search may be looking for.
BlockSize(a) == a \in Nat /\ a % 8 = 0 /\ a >= 16

LEMMA AdjustedSizeOK ==
    ASSUME NEW s \in Nat
    PROVE  BlockSize(AdjustedSize(s)) /\ AdjustedSize(s) >= s + 8
  BY DEF AdjustedSize, DSIZE, BlockSize

LEMMA CallType ==
    ASSUME ClientInv
    PROVE  call.size \in Nat /\ call.id \in Ids
  BY ClientAssumption DEF ClientInv, ClientTypeOK

LEMMA ExtendBytesOK ==
    ASSUME NEW x \in Nat, x % 8 = 0
    PROVE  ExtendBytes(x \div WSIZE) = x
  BY DEF ExtendBytes, WSIZE

LEMMA ExtensionOK ==
    ASSUME NEW x, BlockSize(x),
           NEW size, size = ExtendBytes(MAX(x, CHUNKSIZE) \div WSIZE)
    PROVE  BlockSize(size) /\ size >= x
<1>1. CHUNKSIZE \in Nat /\ CHUNKSIZE % 8 = 0 /\ CHUNKSIZE >= 16
  BY ClientAssumption DEF DSIZE
<1> DEFINE y == MAX(x, CHUNKSIZE)
<1>2. y \in Nat /\ y % 8 = 0 /\ y >= 16 /\ y >= x
  BY <1>1 DEF MAX, BlockSize
<1> HIDE DEF y
<1>3. ExtendBytes(y \div WSIZE) = y
  BY <1>2, ExtendBytesOK
<1> QED
  BY <1>2, <1>3 DEF y, BlockSize

LEMMA WordsCover ==
    ASSUME NEW brk \in Nat, NEW max \in HeapLimits, brk <= max
    PROVE  Covers(W, brk)
<1>1. max <= MAX_HEAP /\ max \in Nat /\ MAX_HEAP \in Nat
  BY MemlibAssumption
<1> QED
  BY <1>1 DEF Covers, W, WordAddr

(***************************************************************************)
(* The heap between two steps                                              *)
(***************************************************************************)
\* The conditions under which the lemmas of the first part speak of a memory.
Heap(m, brk, L) ==
    /\ m \in [W -> Nat] /\ brk \in Nat /\ brk % 8 = 0
    /\ Covers(W, brk)
    /\ L \in SUBSET Nat
    /\ WellFormed(m, brk, L)

LEMMA HeapFacts ==
    ASSUME ClientInv, HeapReady
    PROVE  Heap(mem, mem_brk, Live) /\ mem_brk <= mem_max_addr /\ mem_max_addr \in HeapLimits
<1>1. /\ mem \in [W -> Nat] /\ mem_brk \in Nat /\ Covers(W, mem_brk)
      /\ mem_brk <= mem_max_addr /\ mem_max_addr \in HeapLimits
  BY WordsCover DEF ClientInv, MemTypeOK, W
<1>2. Live \in SUBSET Nat
  BY DEF ClientInv, ClientTypeOK, Live
<1>3. mem_brk % 8 = 0
  BY DEF ClientInv, CallOK
<1>4. WellFormed(mem, mem_brk, Live)
  BY DEF ClientInv, HeapOK
<1> QED
  BY <1>1, <1>2, <1>3, <1>4 DEF Heap

LEMMA BlockFacts ==
    ASSUME ClientInv, HeapReady
    PROVE  /\ Blocks \in SUBSET Nat /\ 16 \in Blocks /\ Live \in SUBSET Blocks
           /\ mem_brk \in Nat
           /\ \A b \in Blocks :
                /\ b \in Nat /\ b >= 16 /\ b < mem_brk /\ b % 8 = 0
                /\ GET_SIZE(mem, HDRP(b)) \in Nat /\ GET_SIZE(mem, HDRP(b)) >= 16
                /\ NEXT_BLKP(mem, b) = b + GET_SIZE(mem, HDRP(b))
                /\ NEXT_BLKP(mem, b) \in Blocks \cup {mem_brk}
                /\ b < NEXT_BLKP(mem, b) /\ NEXT_BLKP(mem, b) <= mem_brk
           /\ \A b, c \in Blocks : b < c => NEXT_BLKP(mem, b) <= c
           /\ GET_SIZE(mem, HDRP(mem_brk)) = 0
           /\ NEXT_BLKP(mem, 8) = 16 /\ GET_SIZE(mem, HDRP(8)) = 8
           /\ GET_ALLOC(mem, HDRP(8)) = 1
<1>1. Heap(mem, mem_brk, Live)
  BY HeapFacts
<1> DEFINE B == Blocks
<1>2. /\ B \in SUBSET Nat /\ Layout(mem, mem_brk, B) /\ Live \in SUBSET B /\ 16 \in B
      /\ \A b \in B : /\ b \in Nat /\ b % 8 = 0 /\ b >= 16 /\ b + 16 <= mem_brk
                      /\ GET_SIZE(mem, b - 4) \in Nat /\ GET_SIZE(mem, b - 4) >= 16
                      /\ b + GET_SIZE(mem, b - 4) <= mem_brk
                      /\ NEXT_BLKP(mem, b) = b + GET_SIZE(mem, b - 4)
                      /\ NEXT_BLKP(mem, b) \in B \cup {mem_brk}
      /\ \A b, c \in B : b < c => NEXT_BLKP(mem, b) <= c
  BY <1>1, WellFormedBlocks DEF Blocks, Heap
<1> HIDE DEF B
<1>3. mem[mem_brk - 4] = 1 /\ mem[4] = 9
  BY <1>2 DEF Layout, SentinelsOK, PACK, DSIZE, WSIZE
<1>4. GET_SIZE(mem, HDRP(mem_brk)) = 0
  BY <1>3 DEF GET_SIZE, HDRP, WSIZE
<1>5. /\ NEXT_BLKP(mem, 8) = 16 /\ GET_SIZE(mem, HDRP(8)) = 8
      /\ GET_ALLOC(mem, HDRP(8)) = 1
  BY <1>3 DEF NEXT_BLKP, GET_SIZE, GET_ALLOC, HDRP, WSIZE
<1>6. mem_brk \in Nat
  BY <1>1 DEF Heap
<1>7. \A b \in B :
        /\ b < mem_brk /\ b < NEXT_BLKP(mem, b) /\ NEXT_BLKP(mem, b) <= mem_brk
  BY <1>2, <1>6
<1> QED
  BY <1>2, <1>4, <1>5, <1>6, <1>7 DEF HDRP, WSIZE, B

\* A block examined and passed over, the prologue included: what lies before
\* the next block.
LEMMA NextFacts ==
    ASSUME ClientInv, HeapReady, NEW b \in Blocks \cup {8}, NEW next, next = NEXT_BLKP(mem, b)
    PROVE  /\ next \in Blocks \cup {mem_brk} /\ next \in Nat /\ b \in Nat /\ b < next
           /\ \A c \in Blocks : c < next => c < b \/ c = b
           /\ \A c \in Blocks : b < c => next <= c
<1>1. CASE b = 8
  <2>1. next = 16
    BY <1>1, BlockFacts
  <2> QED
    BY <1>1, <2>1, BlockFacts
<1>2. CASE b \in Blocks
  <2>1. /\ next \in Blocks \cup {mem_brk} /\ b < next
        /\ \A c \in Blocks : b < c => next <= c
        /\ \A c \in Blocks : c \in Nat
        /\ mem_brk \in Nat
    BY <1>2, BlockFacts
  <2> QED
    BY <1>2, <2>1
<1> QED
  BY <1>1, <1>2

\* Freeing block p of a heap m whose allocated blocks are L.
LEMMA FreeInStep ==
    ASSUME NEW m, NEW brk, NEW L, Heap(m, brk, L), NEW p \in L, NEW f, f = MarkFree(m, p)
    PROVE  /\ Heap(Coalesce(f, p), brk, L \ {p})
           /\ CoalescedBp(f, p) \in BlocksOf(Coalesce(f, p), brk, L \ {p})
           /\ CoalescedBp(f, p) \in Nat
           /\ \A q \in L \ {p} :
                GET_SIZE(Coalesce(f, p), HDRP(q)) = GET_SIZE(m, HDRP(q))
<1> DEFINE c == Coalesce(f, p)
           K == L \ {p}
<1>1. /\ m \in [W -> Nat] /\ brk \in Nat /\ brk % 8 = 0 /\ Covers(W, brk)
      /\ L \in SUBSET Nat /\ WellFormed(m, brk, L)
  BY DEF Heap
<1>2. /\ c \in [W -> Nat] /\ WellFormed(c, brk, K)
      /\ CoalescedBp(f, p) \in BlocksOf(c, brk, K)
      /\ Preserves(W, m, c, K)
  BY <1>1, FreeLemma
<1>3. K \in SUBSET L /\ K \in SUBSET Nat
  BY <1>1
<1> HIDE DEF K, c
<1>4. BlocksOf(c, brk, K) \in SUBSET Nat
  BY <1>1, <1>2, <1>3, WellFormedBlocks
<1>5. \A q \in K : GET_SIZE(c, HDRP(q)) = GET_SIZE(m, HDRP(q))
  BY <1>1, <1>2, <1>3, SizeKept
<1> QED
  BY <1>1, <1>2, <1>3, <1>4, <1>5 DEF Heap, K, c

\* Placing a block of size a at the free block b of a heap m.
LEMMA AllocatedStep ==
    ASSUME NEW m, NEW brk, NEW L, Heap(m, brk, L), NEW a, BlockSize(a),
           NEW b \in BlocksOf(m, brk, L), Fits(m, b, a)
    PROVE  /\ Heap(Place(m, b, a), brk, L \cup {b})
           /\ b \notin L /\ b \in Nat /\ b >= 16 /\ b < brk
           /\ GET_SIZE(Place(m, b, a), HDRP(b)) \in Nat
           /\ GET_SIZE(Place(m, b, a), HDRP(b)) >= a
           /\ \A q \in L : GET_SIZE(Place(m, b, a), HDRP(q)) = GET_SIZE(m, HDRP(q))
<1> DEFINE c == Place(m, b, a)
<1>1. /\ m \in [W -> Nat] /\ brk \in Nat /\ brk % 8 = 0 /\ Covers(W, brk)
      /\ L \in SUBSET Nat /\ WellFormed(m, brk, L)
      /\ a \in Nat /\ a % 8 = 0 /\ a >= 16
  BY DEF Heap, BlockSize
<1>2. /\ c \in [W -> Nat]
      /\ WellFormed(c, brk, L \cup {b})
      /\ b \notin L
      /\ GET_SIZE(c, b - 4) >= a
      /\ Preserves(W, m, c, L)
  BY <1>1, PlaceLemma
<1> HIDE DEF c
<1>3. b \in Nat /\ b >= 16 /\ b + 16 <= brk
  BY <1>1, WellFormedBlocks
<1>4. L \in SUBSET L
  OBVIOUS
<1>5. \A q \in L : GET_SIZE(c, HDRP(q)) = GET_SIZE(m, HDRP(q))
  BY <1>1, <1>2, <1>4, SizeKept
<1>6. L \cup {b} \in SUBSET Nat /\ b \in L \cup {b}
  BY <1>1, <1>3
<1>7. b \in BlocksOf(c, brk, L \cup {b})
  BY <1>1, <1>2, <1>6, WellFormedBlocks
<1>8. GET_SIZE(c, b - 4) \in Nat
  BY <1>1, <1>2, <1>6, <1>7, WellFormedBlocks
<1> QED
  BY <1>1, <1>2, <1>3, <1>5, <1>6, <1>8 DEF Heap, HDRP, WSIZE, c

\* A free block of a coalesced heap has no free neighbour: coalescing it again
\* changes nothing.
LEMMA CoalescedOnce ==
    ASSUME NEW m, NEW brk, NEW L, Heap(m, brk, L),
           NEW b \in L, NEW r, r = NEXT_BLKP(m, b), r \in BlocksOf(m, brk, L) \ L
    PROVE  Coalesce(m, r) = m
<1> DEFINE B == BlocksOf(m, brk, L)
<1>1. /\ m \in [W -> Nat] /\ brk \in Nat /\ brk % 8 = 0 /\ L \in SUBSET Nat
      /\ Covers(W, brk) /\ WellFormed(m, brk, L)
  BY DEF Heap
<1>2. /\ B \in SUBSET Nat /\ Layout(m, brk, B) /\ AllocOK(m, B, L)
      /\ Coalesced(m, brk, B, L) /\ L \in SUBSET B
      /\ \A x \in B : /\ x \in Nat /\ x >= 16 /\ GET_SIZE(m, x - 4) \in Nat
                      /\ GET_SIZE(m, x - 4) >= 16
                      /\ NEXT_BLKP(m, x) = x + GET_SIZE(m, x - 4)
      /\ \A x, c \in B : x < c => NEXT_BLKP(m, x) <= c
  BY <1>1, WellFormedBlocks
<1>3. r \in B /\ r \notin L /\ b \in B
  BY <1>2
<1> HIDE DEF B
<1>4. NextAlloc(m, r)
  <2>1. CASE NEXT_BLKP(m, r) = brk
    <3>1. m[brk - 4] = 1
      BY <1>2 DEF Layout, SentinelsOK, PACK, WSIZE
    <3> QED
      BY <2>1, <3>1 DEF NextAlloc, GET_ALLOC, HDRP, WSIZE
  <2>2. CASE NEXT_BLKP(m, r) # brk
    BY <1>2, <1>3, <2>2 DEF Coalesced, AllocOK, NextAlloc
  <2> QED
    BY <2>1, <2>2
<1>5. PREV_BLKP(m, r) = b
  <2>1. r # FirstBlock
    BY <1>2, <1>3 DEF FirstBlock
  <2>2. PREV_BLKP(m, r) \in B /\ NEXT_BLKP(m, PREV_BLKP(m, r)) = r
    BY <1>2, <1>3, <2>1 DEF Layout, ChainOK
  <2> DEFINE c == PREV_BLKP(m, r)
  <2> HIDE DEF c
  <2>3. c \in B /\ NEXT_BLKP(m, c) = r
    BY <2>2 DEF c
  <2>4. ~(b < c) /\ ~(c < b)
    BY <1>2, <1>3, <2>3
  <2>5. c \in Nat /\ b \in Nat
    BY <1>2, <1>3, <2>3
  <2>6. c = b
    BY <2>4, <2>5
  <2> QED
    BY <2>6 DEF c
<1>6. PrevAlloc(m, r)
  <2>1. m[FTRP(m, b)] = m[HDRP(b)] /\ GET_ALLOC(m, HDRP(b)) = 1
    BY <1>2, <1>3 DEF Layout, BlockOK, AllocOK
  <2> QED
    BY <1>5, <2>1 DEF PrevAlloc, GET_ALLOC
<1> QED
  BY <1>4, <1>6 DEF Coalesce

\* The rest of a split block is a free block of the heap that Place leaves.
LEMMA SplitRest ==
    ASSUME NEW m, NEW brk, NEW L, Heap(m, brk, L), NEW a \in Nat, BlockSize(a),
           NEW b \in BlocksOf(m, brk, L), Fits(m, b, a), Splits(GET_SIZE(m, HDRP(b)), a),
           NEW p, p = Place(m, b, a)
    PROVE  NEXT_BLKP(p, b) \in BlocksOf(p, brk, L \cup {b}) \ (L \cup {b})
<1>1. /\ m \in [W -> Nat] /\ brk \in Nat /\ brk % 8 = 0 /\ L \in SUBSET Nat
      /\ Covers(W, brk) /\ WellFormed(m, brk, L)
      /\ a \in Nat /\ a % 8 = 0 /\ a >= 16
  BY DEF Heap, BlockSize
<1>2. /\ p \in [W -> Nat] /\ WellFormed(p, brk, L \cup {b})
      /\ NEXT_BLKP(p, b) = b + a /\ b + a + 16 <= brk /\ GET_ALLOC(p, (b + a) - 4) = 0
  <2>1. /\ Place(m, b, a) \in [W -> Nat] /\ WellFormed(Place(m, b, a), brk, L \cup {b})
    BY <1>1, PlaceLemma
  <2>2. SplitOff(Place(m, b, a), brk, b, a)
    BY <1>1, PlaceLemma
  <2> QED
    BY <2>1, <2>2 DEF SplitOff
<1>3. b \in Nat
  BY <1>1, WellFormedBlocks
<1> DEFINE K == L \cup {b}
<1>4. b \in K /\ K \in SUBSET Nat
  BY <1>1, <1>3
<1> HIDE DEF K
<1>5. NEXT_BLKP(p, b) \in BlocksOf(p, brk, K)
  <2>1. NEXT_BLKP(p, b) # brk
    BY <1>1, <1>2, <1>3
  <2> QED
    BY <1>4, <2>1 DEF BlocksOf
<1>6. NEXT_BLKP(p, b) \notin K
  <2>1. AllocOK(p, BlocksOf(p, brk, K), K)
    BY <1>2 DEF WellFormed, Tiling, K
  <2>2. GET_ALLOC(p, HDRP(NEXT_BLKP(p, b))) = 0
    BY <1>2 DEF HDRP, WSIZE
  <2> QED
    BY <1>5, <2>1, <2>2 DEF AllocOK
<1> QED
  BY <1>5, <1>6 DEF K

(***************************************************************************)
(* The steps of the search                                                 *)
(***************************************************************************)
\* A step that only moves bp and pc, in the search or out of it with nothing.
LEMMA SearchStep ==
    ASSUME ClientInv, InSearch, InSearch' \/ pc' = "return", bp' \in Nat,
           UNCHANGED <<owned, reqsize, call, ptr, ret, mem, mem_brk, mem_max_addr>>
    PROVE  ClientInv' /\ Blocks' = Blocks
<1>1. /\ Live' = Live /\ Blocks' = Blocks /\ HeapReady /\ HeapReady' /\ ret = NULL
      /\ pc' # "copy"
  BY DEF Live, Blocks, HeapReady, BlocksOf, InSearch, ClientInv, CallOK
<1>2. MemTypeOK' /\ ClientTypeOK'
  BY DEF ClientInv, MemTypeOK, ClientTypeOK
<1>3. CallOK'
  BY <1>1 DEF ClientInv, CallOK, HeapReady, InSearch
<1>4. Distinct'
  BY DEF ClientInv, Distinct
<1>5. HeapOK'
  BY <1>1 DEF ClientInv, HeapOK
<1>6. Capacity'
  BY <1>1 DEF ClientInv, Capacity, Holds
<1> QED
  BY <1>1, <1>2, <1>3, <1>4, <1>5, <1>6 DEF ClientInv

\* A step that places a block of size a for the call, on a heap m with the
\* client's blocks.
LEMMA PlaceStep ==
    ASSUME ClientInv, InSearch, NEW m, NEW brk, Heap(m, brk, Live), brk <= mem_max_addr,
           \A q \in Live : GET_SIZE(m, HDRP(q)) = GET_SIZE(mem, HDRP(q)),
           NEW a, BlockSize(a), a >= call.size + 8,
           NEW b \in BlocksOf(m, brk, Live), Fits(m, b, a),
           mem' = Place(m, b, a), mem_brk' = brk, ret' = b, bp' = NULL,
           pc' = IF ptr = NULL THEN "return" ELSE "copy",
           UNCHANGED <<owned, reqsize, call, ptr, mem_max_addr>>
    PROVE  /\ ClientInv' /\ b \in Blocks' /\ b \in Nat
           /\ GET_SIZE(mem', HDRP(b)) \in Nat /\ GET_SIZE(mem', HDRP(b)) >= a
<1>1. /\ HeapReady /\ ret = NULL /\ owned[call.id] = NULL
      /\ Live \in SUBSET Nat /\ call.size \in Nat
      /\ mem_max_addr \in HeapLimits
  BY CallType
     DEF ClientInv, CallOK, HeapReady, InSearch, ClientTypeOK, MemTypeOK, Live
<1>2. /\ Heap(mem', brk, Live \cup {b})
      /\ b \notin Live /\ b \in Nat /\ b >= 16 /\ b < brk
      /\ GET_SIZE(mem', HDRP(b)) \in Nat /\ GET_SIZE(mem', HDRP(b)) >= a
      /\ \A q \in Live : GET_SIZE(mem', HDRP(q)) = GET_SIZE(mem, HDRP(q))
  BY AllocatedStep
<1>3. b # NULL /\ GET_SIZE(mem', HDRP(b)) >= call.size + 8
  BY <1>1, <1>2 DEF NULL, BlockSize
<1>4. Live' = Live \cup {b}
  BY <1>1, <1>3 DEF Live
<1>5. MemTypeOK' /\ ClientTypeOK'
  BY <1>1, <1>2 DEF ClientInv, MemTypeOK, ClientTypeOK, W, NULL, Heap
<1>6. CallOK'
  BY <1>1, <1>2, <1>3 DEF ClientInv, CallOK, Heap
<1>7. Distinct'
  <2>1. \A i \in Ids : owned[i] # NULL => owned[i] \in Live
    BY DEF Live
  <2>2. ptr # NULL => ptr \in Live
    BY DEF Live
  <2> QED
    BY <1>2, <2>1, <2>2 DEF ClientInv, Distinct
<1>8. HeapOK' /\ b \in Blocks'
  <2>1. b \in BlocksOf(mem', brk, Live \cup {b})
    BY <1>2 DEF BlocksOf
  <2> QED
    BY <1>2, <1>4, <2>1 DEF HeapOK, Blocks, Heap
<1>9. Capacity'
  <2>1. ASSUME NEW i \in Ids PROVE Holds(owned[i], reqsize[i])'
    <3>1. owned[i] # NULL => owned[i] \in Live
      BY DEF Live
    <3> QED
      BY <1>1, <1>2, <3>1 DEF ClientInv, Capacity, Holds
  <2>2. Holds(ptr, reqsize[call.id])'
    <3>1. ptr # NULL => ptr \in Live
      BY DEF Live
    <3> QED
      BY <1>1, <1>2, <3>1 DEF ClientInv, Capacity, Holds
  <2>3. Holds(ret, call.size)'
    BY <1>3 DEF Holds, DSIZE
  <2> QED
    BY <2>1, <2>2, <2>3 DEF Capacity
<1> QED
  BY <1>2, <1>5, <1>6, <1>7, <1>8, <1>9 DEF ClientInv

\* The search has found block b.
LEMMA FoundStep ==
    ASSUME ClientInv, InSearch, NEW a, BlockSize(a), a >= call.size + 8,
           NEW b \in Blocks, Fits(mem, b, a),
           mem' = Place(mem, b, a), ret' = b, bp' = NULL,
           pc' = IF ptr = NULL THEN "return" ELSE "copy",
           UNCHANGED <<owned, reqsize, call, ptr, mem_brk, mem_max_addr>>
    PROVE  /\ ClientInv' /\ b \in Blocks' /\ b \in Nat
           /\ GET_SIZE(mem', HDRP(b)) \in Nat /\ GET_SIZE(mem', HDRP(b)) >= a
<1>1. Heap(mem, mem_brk, Live) /\ mem_brk <= mem_max_addr
  BY HeapFacts DEF InSearch, HeapReady
<1>2. b \in BlocksOf(mem, mem_brk, Live)
  BY DEF Blocks
<1> QED
  BY <1>1, <1>2, PlaceStep

\* The heap has grown by a free block, merged with the one before it.
LEMMA GrownHeap ==
    ASSUME ClientInv, InSearch, NEW a, BlockSize(a),
           NEW size, size = ExtendBytes(MAX(a, CHUNKSIZE) \div WSIZE),
           ~SbrkFails(mem_brk, size), NEW top, top = mem_brk + size,
           NEW n, n = NewBlock(mem, mem_brk, size), NEW b, b = CoalescedBp(n, mem_brk),
           NEW c, c = Coalesce(n, mem_brk)
    PROVE  /\ Heap(mem, mem_brk, Live) /\ Heap(c, top, Live) /\ top <= mem_max_addr
           /\ b \in BlocksOf(c, top, Live) /\ Fits(c, b, a) /\ b # NULL
           /\ Preserves(W, mem, c, Live)
           /\ \A q \in Live : GET_SIZE(c, HDRP(q)) = GET_SIZE(mem, HDRP(q))
<1>1. Heap(mem, mem_brk, Live) /\ mem_max_addr \in HeapLimits
  BY HeapFacts DEF InSearch, HeapReady
<1>2. size \in Nat /\ size % 8 = 0 /\ size >= 16 /\ size >= a
  BY ExtensionOK DEF BlockSize
<1>3. top \in Nat /\ top % 8 = 0 /\ top <= mem_max_addr
  <2>1. mem_max_addr \in Nat
    BY <1>1, MemlibAssumption
  <2> QED
    BY <1>1, <1>2, <2>1 DEF SbrkFails, Heap
<1>4. Covers(W, top)
  BY <1>1, <1>3, WordsCover
<1>5. /\ mem \in [W -> Nat] /\ mem_brk \in Nat /\ mem_brk % 8 = 0
      /\ Live \in SUBSET Nat /\ WellFormed(mem, mem_brk, Live) /\ Covers(W, mem_brk)
  BY <1>1 DEF Heap
<1>6. /\ c \in [W -> Nat] /\ WellFormed(c, top, Live)
      /\ b \in BlocksOf(c, top, Live)
      /\ Fits(c, b, size)
      /\ Preserves(W, mem, c, Live)
  BY <1>2, <1>3, <1>4, <1>5, ExtendLemma
<1>7. Heap(c, top, Live)
  BY <1>3, <1>4, <1>5, <1>6 DEF Heap
<1>8. \A q \in Live : GET_SIZE(c, HDRP(q)) = GET_SIZE(mem, HDRP(q))
  <2>1. Live \in SUBSET Live
    OBVIOUS
  <2> QED
    BY <1>5, <1>6, <2>1, SizeKept
<1>9. Fits(c, b, a) /\ b # NULL
  <2>1. GET_SIZE(c, b - 4) \in Nat /\ b >= 16 /\ b \in Nat
    BY <1>3, <1>4, <1>5, <1>6, WellFormedBlocks
  <2> QED
    BY <1>2, <1>6, <2>1 DEF Fits, HDRP, WSIZE, BlockSize, NULL
<1> QED
  BY <1>1, <1>3, <1>6, <1>7, <1>8, <1>9

\* The heap has grown and the call's block is placed in the new free block.
LEMMA ExtendStep ==
    ASSUME ClientInv, InSearch, NEW a, BlockSize(a), a >= call.size + 8,
           NEW size, size = ExtendBytes(MAX(a, CHUNKSIZE) \div WSIZE),
           ~SbrkFails(mem_brk, size),
           NEW n, n = NewBlock(mem, mem_brk, size), NEW b, b = CoalescedBp(n, mem_brk),
           mem' = Place(Coalesce(n, mem_brk), b, a), mem_brk' = mem_brk + size,
           ret' = b, bp' = NULL,
           pc' = IF ptr = NULL THEN "return" ELSE "copy",
           UNCHANGED <<owned, reqsize, call, ptr, mem_max_addr>>
    PROVE  /\ ClientInv' /\ b \in Blocks' /\ b \in Nat
           /\ GET_SIZE(mem', HDRP(b)) \in Nat /\ GET_SIZE(mem', HDRP(b)) >= a
<1>1. PICK c, top : c = Coalesce(n, mem_brk) /\ top = mem_brk + size
  OBVIOUS
<1>2. /\ Heap(c, top, Live) /\ top <= mem_max_addr
      /\ b \in BlocksOf(c, top, Live) /\ Fits(c, b, a)
      /\ \A q \in Live : GET_SIZE(c, HDRP(q)) = GET_SIZE(mem, HDRP(q))
  BY <1>1, GrownHeap
<1> QED
  BY <1>1, <1>2, PlaceStep

(***************************************************************************)
(* The calls and the returns                                               *)
(***************************************************************************)
\* mm_free(owned[id]); f is the heap before it is coalesced.
LEMMA FreeStep ==
    ASSUME ClientInv, NEW id \in Ids, pc = "idle", owned[id] # NULL,
           NEW f, f = MarkFree(mem, owned[id]), mem' = Coalesce(f, owned[id]),
           owned' = [owned EXCEPT ![id] = NULL], reqsize' = [reqsize EXCEPT ![id] = 0],
           UNCHANGED <<pc, call, bp, ptr, ret, mem_brk, mem_max_addr>>
    PROVE  /\ ClientInv'
           /\ CoalescedBp(f, owned[id]) \in Blocks' /\ CoalescedBp(f, owned[id]) \in Nat
<1> DEFINE p == owned[id]
           rover == CoalescedBp(f, p)
<1>1. HeapReady /\ Heap(mem, mem_brk, Live)
  BY HeapFacts DEF HeapReady
<1>2. owned \in [Ids -> Nat] /\ reqsize \in [Ids -> Nat] /\ ptr = NULL /\ ret = NULL
  BY DEF ClientInv, ClientTypeOK, CallOK
<1>3. p \in Live /\ \A i \in Ids : i # id => owned[i] # p
  BY DEF Live, ClientInv, Distinct
<1>4. p = owned[id]
  OBVIOUS
<1> HIDE DEF p
<1>5. /\ Heap(mem', mem_brk, Live \ {p})
      /\ rover \in BlocksOf(mem', mem_brk, Live \ {p}) /\ rover \in Nat
      /\ \A q \in Live \ {p} : GET_SIZE(mem', HDRP(q)) = GET_SIZE(mem, HDRP(q))
  BY <1>1, <1>3, <1>4, FreeInStep
<1>6. \A i \in Ids : owned'[i] = (IF i = id THEN NULL ELSE owned[i])
  BY <1>2
<1>7. Live' = Live \ {p}
  <2>1. Live = {owned[i] : i \in Ids} \ {NULL} /\ Live' = {owned'[i] : i \in Ids} \ {NULL}
    BY <1>2 DEF Live
  <2> QED
    BY <2>1, <1>3, <1>4, <1>6
<1>8. MemTypeOK' /\ ClientTypeOK'
  BY <1>2, <1>5 DEF ClientInv, MemTypeOK, ClientTypeOK, W, NULL, Heap
<1>9. CallOK' /\ Distinct'
  BY <1>2, <1>6 DEF ClientInv, CallOK, Distinct, HeapReady
<1>10. HeapOK' /\ rover \in Blocks'
  BY <1>5, <1>7 DEF HeapOK, Blocks, Heap
<1>11. Capacity'
  <2>1. ASSUME NEW i \in Ids PROVE Holds(owned[i], reqsize[i])'
    <3>1. CASE i = id
      BY <3>1, <1>6 DEF Holds
    <3>2. CASE i # id
      <4>1. owned'[i] = owned[i] /\ reqsize'[i] = reqsize[i]
        BY <3>2, <1>2
      <4>2. owned[i] # NULL => owned[i] \in Live \ {p}
        BY <3>2, <1>3 DEF Live
      <4>3. Holds(owned[i], reqsize[i])
        BY <1>1 DEF ClientInv, Capacity
      <4> QED
        BY <4>1, <4>2, <4>3, <1>5 DEF Holds
    <3> QED
      BY <3>1, <3>2
  <2> QED
    BY <1>2, <2>1 DEF Capacity, Holds
<1> QED
  BY <1>4, <1>5, <1>8, <1>9, <1>10, <1>11 DEF ClientInv

\* mm_malloc, or mm_realloc of nothing, has begun; for size 0 it has ended.
LEMMA MallocStep ==
    ASSUME ClientInv, NEW id \in Ids, NEW size \in Sizes, CallStarts(id, size, NULL),
           pc' \notin {"init", "failed", "idle", "copy"}, bp' \in Nat,
           UNCHANGED <<reqsize, ptr, ret, mem, mem_brk, mem_max_addr>>
    PROVE  ClientInv' /\ Blocks' = Blocks
<1>1. /\ pc = "idle" /\ owned[id] = NULL /\ call' = [id |-> id, size |-> size]
      /\ owned' = [owned EXCEPT ![id] = NULL]
  BY DEF CallStarts
<1>2. owned \in [Ids -> Nat] /\ ptr = NULL /\ ret = NULL
  BY <1>1 DEF ClientInv, ClientTypeOK, CallOK
<1>3. owned' = owned
  BY <1>1, <1>2
<1>4. Live' = Live /\ Blocks' = Blocks /\ HeapReady /\ HeapReady'
  BY <1>1, <1>3 DEF Live, Blocks, HeapReady, BlocksOf
<1>5. MemTypeOK' /\ ClientTypeOK'
  BY <1>1, <1>3 DEF ClientInv, MemTypeOK, ClientTypeOK
<1>6. CallOK' /\ Distinct'
  BY <1>1, <1>2, <1>3, <1>4 DEF ClientInv, CallOK, Distinct
<1>7. HeapOK'
  BY <1>4 DEF ClientInv, HeapOK
<1>8. Capacity'
  BY <1>1, <1>2, <1>3, <1>4 DEF ClientInv, Capacity, Holds
<1> QED
  BY <1>4, <1>5, <1>6, <1>7, <1>8 DEF ClientInv

\* mm_realloc(owned[id], 0) is mm_free.
LEMMA ReallocFreesStep ==
    ASSUME ClientInv, NEW id \in Ids, NEW size \in Sizes,
           owned[id] # NULL, CallStarts(id, size, owned[id]),
           NEW f, f = MarkFree(mem, owned[id]), mem' = Coalesce(f, owned[id]),
           pc' = "return", UNCHANGED <<reqsize, bp, ptr, ret, mem_brk, mem_max_addr>>
    PROVE  /\ ClientInv'
           /\ CoalescedBp(f, owned[id]) \in Blocks' /\ CoalescedBp(f, owned[id]) \in Nat
<1> DEFINE p == owned[id]
           rover == CoalescedBp(f, p)
<1>1. /\ pc = "idle" /\ call' = [id |-> id, size |-> size]
      /\ owned' = [owned EXCEPT ![id] = NULL]
  BY DEF CallStarts
<1>2. HeapReady /\ Heap(mem, mem_brk, Live)
  BY <1>1, HeapFacts DEF HeapReady
<1>3. owned \in [Ids -> Nat] /\ reqsize \in [Ids -> Nat] /\ ptr = NULL /\ ret = NULL
  BY <1>1 DEF ClientInv, ClientTypeOK, CallOK
<1>4. p \in Live /\ \A i \in Ids : i # id => owned[i] # p
  BY DEF Live, ClientInv, Distinct
<1>5. p = owned[id] /\ Live = {owned[i] : i \in Ids} \ {NULL}
  BY <1>3 DEF Live
<1> HIDE DEF p
<1>6. \A i \in Ids : owned'[i] = (IF i = id THEN NULL ELSE owned[i])
  BY <1>1, <1>3
<1>7. /\ Heap(mem', mem_brk, Live \ {p})
      /\ rover \in BlocksOf(mem', mem_brk, Live \ {p}) /\ rover \in Nat
      /\ \A q \in Live \ {p} : GET_SIZE(mem', HDRP(q)) = GET_SIZE(mem, HDRP(q))
  BY <1>2, <1>4, <1>5, FreeInStep
<1>8. Live' = Live \ {p}
  <2>1. Live' = {owned'[i] : i \in Ids} \ {NULL}
    BY <1>3 DEF Live
  <2> QED
    BY <2>1, <1>4, <1>5, <1>6
<1>9. MemTypeOK' /\ ClientTypeOK'
  BY <1>1, <1>3, <1>7 DEF ClientInv, MemTypeOK, ClientTypeOK, W, NULL, Heap
<1>10. CallOK' /\ Distinct'
  BY <1>1, <1>3, <1>6 DEF ClientInv, CallOK, Distinct, HeapReady
<1>11. HeapOK' /\ rover \in Blocks'
  BY <1>7, <1>8 DEF HeapOK, Blocks, Heap
<1>12. Capacity'
  <2>1. ASSUME NEW i \in Ids PROVE Holds(owned[i], reqsize[i])'
    <3>1. Holds(owned[i], reqsize[i])
      BY <1>2 DEF ClientInv, Capacity
    <3>2. owned[i] # NULL /\ i # id => owned[i] \in Live \ {p}
      BY <1>4, <1>5
    <3> QED
      BY <1>6, <1>7, <3>1, <3>2 DEF Holds
  <2> QED
    BY <1>3, <2>1 DEF Capacity, Holds
<1> QED
  BY <1>5, <1>7, <1>9, <1>10, <1>11, <1>12 DEF ClientInv

\* mm_realloc has called mm_malloc.
LEMMA ReallocStep ==
    ASSUME ClientInv, NEW id \in Ids, NEW size \in Sizes,
           owned[id] # NULL, CallStarts(id, size, owned[id]),
           ptr' = owned[id], pc' \notin {"init", "failed", "idle", "copy"}, bp' \in Nat,
           UNCHANGED <<reqsize, ret, mem, mem_brk, mem_max_addr>>
    PROVE  ClientInv' /\ Blocks' = Blocks
<1> DEFINE p == owned[id]
<1>1. /\ pc = "idle" /\ call' = [id |-> id, size |-> size]
      /\ owned' = [owned EXCEPT ![id] = NULL]
  BY DEF CallStarts
<1>2. owned \in [Ids -> Nat] /\ reqsize \in [Ids -> Nat] /\ ptr = NULL /\ ret = NULL
  BY <1>1 DEF ClientInv, ClientTypeOK, CallOK
<1>3. p \in Live /\ p \in Nat /\ \A i \in Ids : i # id => owned[i] # p
  BY <1>2 DEF Live, ClientInv, Distinct
<1>4. p = owned[id] /\ p # NULL /\ Live = {owned[i] : i \in Ids} \ {NULL} /\ ptr' = p
  BY <1>2 DEF Live
<1> HIDE DEF p
<1>5. \A i \in Ids : owned'[i] = (IF i = id THEN NULL ELSE owned[i])
  BY <1>1, <1>2
<1>6. Live' = Live
  <2>1. Live' = ({owned'[i] : i \in Ids} \cup {p}) \ {NULL}
    BY <1>2, <1>4 DEF Live, NULL
  <2> QED
    BY <2>1, <1>3, <1>4, <1>5
<1>7. Blocks' = Blocks /\ HeapReady /\ HeapReady'
  BY <1>1, <1>6 DEF Blocks, HeapReady, BlocksOf
<1>8. MemTypeOK' /\ ClientTypeOK'
  BY <1>1, <1>2, <1>3, <1>4 DEF ClientInv, MemTypeOK, ClientTypeOK, NULL
<1>9. CallOK' /\ Distinct'
  BY <1>1, <1>2, <1>3, <1>4, <1>5, <1>7 DEF ClientInv, CallOK, Distinct
<1>10. HeapOK'
  BY <1>6, <1>7 DEF ClientInv, HeapOK
<1>11. Capacity'
  <2>1. \A i \in Ids : Holds(owned[i], reqsize[i])
    BY <1>7 DEF ClientInv, Capacity
  <2>2. ASSUME NEW i \in Ids PROVE Holds(owned[i], reqsize[i])'
    BY <1>5, <2>1 DEF Holds
  <2>3. Holds(ptr, reqsize[call.id])'
    BY <1>1, <1>4, <2>1 DEF Holds
  <2> QED
    BY <1>2, <2>2, <2>3 DEF Capacity, Holds
<1> QED
  BY <1>7, <1>8, <1>9, <1>10, <1>11 DEF ClientInv

\* mm_realloc returns the block it was given, which is large enough now: all
\* the blocks are where they were but the one it may have absorbed.
LEMMA KeptStep ==
    ASSUME ClientInv, NEW id \in Ids, NEW size \in Sizes,
           owned[id] # NULL, CallStarts(id, size, owned[id]),
           ret' = owned[id], pc' = "return",
           Heap(mem', mem_brk, Live),
           \A q \in Live \ {owned[id]} : GET_SIZE(mem', HDRP(q)) = GET_SIZE(mem, HDRP(q)),
           GET_SIZE(mem', HDRP(owned[id])) >= size + DSIZE,
           UNCHANGED <<reqsize, bp, ptr, mem_brk, mem_max_addr>>
    PROVE  ClientInv' /\ Live' = Live
<1> DEFINE p == owned[id]
<1>1. /\ pc = "idle" /\ call' = [id |-> id, size |-> size]
      /\ owned' = [owned EXCEPT ![id] = NULL]
  BY DEF CallStarts
<1>2. owned \in [Ids -> Nat] /\ reqsize \in [Ids -> Nat] /\ ptr = NULL /\ ret = NULL
  BY <1>1 DEF ClientInv, ClientTypeOK, CallOK
<1>3. p \in Live /\ p \in Nat /\ \A i \in Ids : i # id => owned[i] # p
  BY <1>2 DEF Live, ClientInv, Distinct
<1>4. p = owned[id] /\ p # NULL /\ Live = {owned[i] : i \in Ids} \ {NULL} /\ ret' = p
  BY <1>2 DEF Live
<1> HIDE DEF p
<1>5. \A i \in Ids : owned'[i] = (IF i = id THEN NULL ELSE owned[i])
  BY <1>1, <1>2
<1>6. Live' = Live
  <2>1. Live' = ({owned'[i] : i \in Ids} \cup {p}) \ {NULL}
    BY <1>2, <1>4 DEF Live, NULL
  <2> QED
    BY <2>1, <1>3, <1>4, <1>5
<1>7. HeapReady /\ HeapReady'
  BY <1>1 DEF HeapReady
<1>8. MemTypeOK' /\ ClientTypeOK'
  BY <1>1, <1>2, <1>3, <1>4 DEF ClientInv, MemTypeOK, ClientTypeOK, NULL, Heap, W
<1>9. CallOK' /\ Distinct'
  BY <1>1, <1>2, <1>3, <1>4, <1>5, <1>7 DEF ClientInv, CallOK, Distinct
<1>10. HeapOK'
  BY <1>6, <1>7 DEF HeapOK, Heap
<1>11. Capacity'
  <2>1. ASSUME NEW i \in Ids PROVE Holds(owned[i], reqsize[i])'
    <3>1. Holds(owned[i], reqsize[i])
      BY <1>2, <1>7 DEF ClientInv, Capacity
    <3>2. owned[i] # NULL /\ i # id => owned[i] \in Live \ {p}
      BY <1>3, <1>4
    <3> QED
      BY <1>4, <1>5, <3>1, <3>2 DEF Holds
  <2>2. Holds(ret, call.size)'
    BY <1>1, <1>4 DEF Holds
  <2> QED
    BY <1>2, <2>1, <2>2 DEF Capacity, Holds
<1> QED
  BY <1>6, <1>8, <1>9, <1>10, <1>11 DEF ClientInv

\* mm_realloc has written the tags of p with the free block after it.
LEMMA AbsorbStep ==
    ASSUME NEW m, NEW brk, NEW L, Heap(m, brk, L), NEW p \in L,
           NEW next, next = NEXT_BLKP(m, p), GET_ALLOC(m, HDRP(next)) = 0,
           NEW size, size = GET_SIZE(m, HDRP(p)) + GET_SIZE(m, HDRP(next)),
           NEW m2, m2 = Mark(m, p, size, 1)
    PROVE  /\ Heap(m2, brk, L)
           /\ BlocksOf(m2, brk, L) = BlocksOf(m, brk, L) \ {next}
           /\ GET_SIZE(m2, HDRP(p)) = size /\ size \in Nat
           /\ \A q \in L \ {p} : GET_SIZE(m2, HDRP(q)) = GET_SIZE(m, HDRP(q))
<1>1. /\ m \in [W -> Nat] /\ brk \in Nat /\ brk % 8 = 0 /\ L \in SUBSET Nat
      /\ Covers(W, brk) /\ WellFormed(m, brk, L)
  BY DEF Heap
<1>2. size \in Nat
  <2>1. p \in BlocksOf(m, brk, L) /\ next \in BlocksOf(m, brk, L) \cup {brk}
    BY <1>1, WellFormedBlocks
  <2>2. next # brk
    <3>1. m[brk - 4] = 1
      BY <1>1, WellFormedBlocks DEF Layout, SentinelsOK, PACK, WSIZE
    <3> QED
      BY <3>1 DEF GET_ALLOC, HDRP, WSIZE
  <2> QED
    BY <1>1, <2>1, <2>2, WellFormedBlocks DEF HDRP, WSIZE
<1>3. Absorbed(W, m, m2, brk, L, p, next)
  BY <1>1, AbsorbLemma
<1>4. \A q \in L \ {p} : GET_SIZE(m2, HDRP(q)) = GET_SIZE(m, HDRP(q))
  <2>1. L \ {p} \in SUBSET L
    OBVIOUS
  <2> QED
    BY <1>1, <1>3, <2>1, SizeKept DEF Absorbed
<1> QED
  BY <1>1, <1>2, <1>3, <1>4 DEF Heap, Absorbed

(***************************************************************************)
(* memcpy and memset write words to words of the heap, in a payload only   *)
(***************************************************************************)
OnlyWrites(m, m2, dst, n) ==
    /\ m2 \in [W -> Nat]
    /\ \A a \in W : a < dst \/ a >= dst + n => m2[a] = m[a]

LEMMA memcpyOK ==
    ASSUME NEW m, NEW brk, NEW L, Heap(m, brk, L), NEW dst \in Nat, dst % 8 = 0,
           NEW src \in Nat, src % 8 = 0, NEW n \in Nat, src + n <= brk
    PROVE  OnlyWrites(m, memcpy(m, dst, src, n), dst, n)
<1> USE DEF Heap
<1>1. ASSUME NEW a \in W, dst <= a, a < dst + n PROVE m[src + (a - dst)] \in Nat
  <2>1. a \in Nat /\ a % 4 = 0
    BY MemlibAssumption DEF W, WordAddr
  <2>2. src + (a - dst) \in Nat /\ (src + (a - dst)) % 4 = 0 /\ src + (a - dst) < brk
    BY <1>1, <2>1
  <2> HIDE DEF W
  <2>3. src + (a - dst) \in W
    BY <2>2 DEF Covers
  <2> QED
    BY <2>3
<1>2. DOMAIN m = W
  OBVIOUS
<1> DEFINE m2 == memcpy(m, dst, src, n)
<1>3. m2 = [a \in W |-> IF dst <= a /\ a < dst + n THEN m[src + (a - dst)] ELSE m[a]]
  BY <1>2 DEF memcpy
<1> HIDE DEF m2
<1>4. m2 \in [W -> Nat]
  BY <1>1, <1>3
<1>5. ASSUME NEW a \in W, a < dst \/ a >= dst + n PROVE m2[a] = m[a]
  <2>1. a \in Nat
    BY MemlibAssumption DEF W, WordAddr
  <2>2. ~(dst <= a /\ a < dst + n)
    BY <1>5, <2>1
  <2> QED
    BY <1>3, <2>2
<1> QED
  BY <1>4, <1>5 DEF m2, OnlyWrites

LEMMA memsetOK ==
    ASSUME NEW m \in [W -> Nat], NEW dst \in Nat, NEW val \in Nat, NEW n \in Nat
    PROVE  OnlyWrites(m, memset(m, dst, val, n), dst, n)
<1>1. DOMAIN m = W
  OBVIOUS
<1> DEFINE m2 == memset(m, dst, val, n)
<1>2. m2 = [a \in W |-> IF dst <= a /\ a < dst + n THEN val ELSE m[a]]
  BY <1>1 DEF memset
<1> HIDE DEF m2
<1>3. m2 \in [W -> Nat]
  BY <1>2
<1>4. ASSUME NEW a \in W, a < dst \/ a >= dst + n PROVE m2[a] = m[a]
  <2>1. a \in Nat
    BY MemlibAssumption DEF W, WordAddr
  <2>2. ~(dst <= a /\ a < dst + n)
    BY <1>4, <2>1
  <2> QED
    BY <1>2, <2>2
<1> QED
  BY <1>3, <1>4 DEF m2, OnlyWrites

\* Whatever is written into the payload of a live block, the heap stays.
LEMMA WriteStep ==
    ASSUME ClientInv, HeapReady, NEW p \in Live, NEW n \in Nat,
           n + 8 <= GET_SIZE(mem, HDRP(p)),
           NEW m, OnlyWrites(mem, m, p, n)
    PROVE  /\ Heap(m, mem_brk, Live)
           /\ BlocksOf(m, mem_brk, Live) = BlocksOf(mem, mem_brk, Live)
           /\ \A b \in Blocks : m[b - 4] = mem[b - 4]
           /\ \A q \in Live : GET_SIZE(m, HDRP(q)) = GET_SIZE(mem, HDRP(q))
<1>1. /\ mem \in [W -> Nat] /\ mem_brk \in Nat /\ mem_brk % 8 = 0
      /\ Covers(W, mem_brk) /\ Live \in SUBSET Nat
      /\ WellFormed(mem, mem_brk, Live)
  BY HeapFacts DEF Heap
<1>2. /\ m \in [W -> Nat] /\ \A a \in W : a < p \/ a >= p + n => m[a] = mem[a]
      /\ n + 8 <= GET_SIZE(mem, p - 4)
  BY DEF OnlyWrites, HDRP, WSIZE
<1>3. /\ WellFormed(m, mem_brk, Live)
      /\ BlocksOf(m, mem_brk, Live) = BlocksOf(mem, mem_brk, Live)
      /\ \A b \in Blocks : m[b - 4] = mem[b - 4]
  BY <1>1, <1>2, PayloadLemma DEF Blocks
<1>4. \A q \in Live : GET_SIZE(m, HDRP(q)) = GET_SIZE(mem, HDRP(q))
  BY <1>3, BlockFacts DEF GET_SIZE, HDRP, WSIZE
<1> QED
  BY <1>1, <1>2, <1>3, <1>4 DEF Heap

\* The blocks of a copy.
LEMMA CopyFacts ==
    ASSUME ClientInv, pc = "copy"
    PROVE  /\ HeapReady /\ Heap(mem, mem_brk, Live)
           /\ ptr \in Live /\ ret \in Live /\ ptr # ret
           /\ \A q \in Live : /\ q \in Nat /\ q % 8 = 0
                              /\ GET_SIZE(mem, HDRP(q)) \in Nat
                              /\ GET_SIZE(mem, HDRP(q)) >= 16
                              /\ q + GET_SIZE(mem, HDRP(q)) <= mem_brk
           /\ GET_SIZE(mem, HDRP(ret)) >= call.size + 8
<1>1. HeapReady /\ ptr # NULL /\ ret # NULL /\ ptr # ret
  BY DEF ClientInv, CallOK, HeapReady, Distinct
<1>2. Heap(mem, mem_brk, Live)
  BY <1>1, HeapFacts
<1>3. ptr \in Live /\ ret \in Live
  BY <1>1 DEF Live
<1>4. \A q \in Live : /\ q \in Nat /\ q % 8 = 0
                      /\ GET_SIZE(mem, HDRP(q)) \in Nat /\ GET_SIZE(mem, HDRP(q)) >= 16
                      /\ q + GET_SIZE(mem, HDRP(q)) <= mem_brk
  BY <1>1, BlockFacts
<1>5. GET_SIZE(mem, HDRP(ret)) >= call.size + 8
  BY <1>1 DEF ClientInv, Capacity, Holds, DSIZE
<1> QED
  BY <1>1, <1>2, <1>3, <1>4, <1>5

\* mm_realloc's copy of min(size, old payload) bytes.
LEMMA CopyInside ==
    ASSUME ClientInv, pc = "copy",
           NEW n, n = LET payload == GET_SIZE(mem, HDRP(ptr)) - DSIZE
                      IN  IF call.size < payload THEN call.size ELSE payload
    PROVE  /\ n \in Nat /\ n + 8 <= GET_SIZE(mem, HDRP(ret))
           /\ OnlyWrites(mem, memcpy(mem, ret, ptr, n), ret, n)
<1>1. /\ Heap(mem, mem_brk, Live) /\ ptr \in Live /\ ret \in Live
      /\ \A q \in Live : /\ q \in Nat /\ q % 8 = 0
                         /\ GET_SIZE(mem, HDRP(q)) \in Nat /\ GET_SIZE(mem, HDRP(q)) >= 16
                         /\ q + GET_SIZE(mem, HDRP(q)) <= mem_brk
      /\ GET_SIZE(mem, HDRP(ret)) >= call.size + 8
      /\ call.size \in Nat /\ mem_brk \in Nat
  BY CopyFacts, CallType DEF Heap
<1>2. n \in Nat /\ n <= call.size /\ n + 8 <= GET_SIZE(mem, HDRP(ptr))
  BY <1>1 DEF DSIZE
<1>3. n + 8 <= GET_SIZE(mem, HDRP(ret)) /\ ptr + n <= mem_brk
  BY <1>1, <1>2
<1>4. OnlyWrites(mem, memcpy(mem, ret, ptr, n), ret, n)
  BY <1>1, <1>2, <1>3, memcpyOK
<1> QED
  BY <1>2, <1>3, <1>4

\* mm_realloc has written n bytes to the new block and frees the old one.
LEMMA CopyStep ==
    ASSUME ClientInv, pc = "copy",
           NEW n \in Nat, n + 8 <= GET_SIZE(mem, HDRP(ret)),
           NEW m, OnlyWrites(mem, m, ret, n),
           NEW f, f = MarkFree(m, ptr), mem' = Coalesce(f, ptr),
           ptr' = NULL, pc' = "return",
           UNCHANGED <<owned, reqsize, call, bp, ret, mem_brk, mem_max_addr>>
    PROVE  /\ ClientInv'
           /\ CoalescedBp(f, ptr) \in Blocks' /\ CoalescedBp(f, ptr) \in Nat
<1> DEFINE rover == CoalescedBp(f, ptr)
<1>1. HeapReady /\ ptr \in Live /\ ret \in Live /\ ptr # ret
  BY CopyFacts
<1>2. ptr # NULL /\ ret # NULL /\ owned[call.id] = NULL
  BY DEF ClientInv, CallOK
<1>3. /\ Heap(m, mem_brk, Live)
      /\ \A q \in Live : GET_SIZE(m, HDRP(q)) = GET_SIZE(mem, HDRP(q))
  BY <1>1, WriteStep
<1>4. /\ Heap(mem', mem_brk, Live \ {ptr})
      /\ rover \in BlocksOf(mem', mem_brk, Live \ {ptr}) /\ rover \in Nat
      /\ \A q \in Live \ {ptr} : GET_SIZE(mem', HDRP(q)) = GET_SIZE(m, HDRP(q))
  BY <1>1, <1>3, FreeInStep
<1> HIDE DEF rover
<1>5. /\ \A i \in Ids : owned[i] # NULL => owned[i] \in Live \ {ptr}
      /\ ret \in Live \ {ptr}
  BY <1>1, <1>2 DEF Live, ClientInv, Distinct
<1>6. Live' = Live \ {ptr}
  BY <1>5 DEF Live
<1>7. MemTypeOK' /\ ClientTypeOK'
  BY <1>4 DEF ClientInv, MemTypeOK, ClientTypeOK, W, NULL, Heap
<1>8. CallOK' /\ Distinct'
  BY <1>1, <1>2 DEF ClientInv, CallOK, HeapReady, Distinct
<1>9. HeapOK' /\ rover \in Blocks'
  BY <1>4, <1>6 DEF HeapOK, Blocks, Heap
<1>10. Capacity'
  <2>1. ASSUME NEW i \in Ids PROVE Holds(owned[i], reqsize[i])'
    BY <1>1, <1>3, <1>4, <1>5 DEF ClientInv, Capacity, Holds
  <2>2. Holds(ret, call.size)'
    BY <1>1, <1>3, <1>4, <1>5 DEF ClientInv, Capacity, Holds
  <2> QED
    BY <2>1, <2>2 DEF Capacity, Holds
<1> QED
  BY <1>4, <1>7, <1>8, <1>9, <1>10 DEF ClientInv, rover

\* Storage c holds the blocks L as m does.
SizesKept(m, c, L) == \A q \in L : GET_SIZE(c, HDRP(q)) = GET_SIZE(m, HDRP(q))

\* The call returns, and the client fills the payload or leaves it.
LEMMA ReturnStep ==
    ASSUME ClientInv, Return \/ Returns(mem)
    PROVE  ClientInv' /\ Blocks' = Blocks /\ Live' = Live /\ SizesKept(mem, mem', Live)
<1> DEFINE id == call.id
           p == IF ret # NULL THEN ret ELSE ptr
           n == IF ret # NULL THEN call.size ELSE IF ptr # NULL THEN reqsize[id] ELSE 0
<1>1. /\ pc = "return" /\ pc' = "idle"
      /\ owned' = [owned EXCEPT ![id] = p] /\ reqsize' = [reqsize EXCEPT ![id] = n]
      /\ mem' = mem \/ (ret # NULL /\ mem' = memset(mem, ret, Fill[id], call.size))
      /\ call' = NoCall /\ bp' = NULL /\ ptr' = NULL /\ ret' = NULL
      /\ UNCHANGED <<mem_brk, mem_max_addr>>
  BY DEF Return, Returns
<1>2. /\ HeapReady /\ Heap(mem, mem_brk, Live)
      /\ ptr = NULL \/ ret = NULL
      /\ owned[id] = NULL /\ call.size \in Nat /\ id \in Ids
  BY <1>1, CallType, HeapFacts DEF ClientInv, CallOK, HeapReady
<1>3. /\ owned \in [Ids -> Nat] /\ reqsize \in [Ids -> Nat] /\ p \in Nat /\ n \in Nat
      /\ ret \in Nat /\ Fill[id] \in Nat
  BY <1>2, ClientAssumption DEF ClientInv, ClientTypeOK
<1>4. /\ p # NULL => p \in Live
      /\ \A i \in Ids : owned[i] # NULL => owned[i] \in Live /\ owned[i] # p
      /\ Holds(p, n)
  BY <1>2 DEF Live, ClientInv, Distinct, Capacity, Holds
<1>5. /\ Heap(mem', mem_brk, Live)
      /\ BlocksOf(mem', mem_brk, Live) = BlocksOf(mem, mem_brk, Live)
      /\ \A q \in Live : GET_SIZE(mem', HDRP(q)) = GET_SIZE(mem, HDRP(q))
  <2>1. CASE mem' = mem
    BY <2>1, <1>1, <1>2
  <2>2. CASE ret # NULL /\ mem' = memset(mem, ret, Fill[id], call.size)
    <3>1. ret \in Live /\ call.size + 8 <= GET_SIZE(mem, HDRP(ret))
      <4>1. ret \in Live /\ GET_SIZE(mem, HDRP(ret)) >= call.size + 8
        BY <2>2, <1>2 DEF Live, ClientInv, Capacity, Holds, DSIZE
      <4>2. GET_SIZE(mem, HDRP(ret)) \in Nat
        BY <1>2, <4>1, BlockFacts
      <4> QED
        BY <1>2, <4>1, <4>2
    <3>2. OnlyWrites(mem, mem', ret, call.size)
      BY <2>2, <1>1, <1>2, <1>3, memsetOK DEF Heap
    <3> QED
      BY <1>2, <3>1, <3>2, WriteStep
  <2> QED
    BY <1>1, <2>1, <2>2
<1>6. id = call.id
  OBVIOUS
<1>7. Live = ({owned[i] : i \in Ids} \cup {p}) \ {NULL}
  BY <1>2 DEF Live
<1> HIDE DEF p, n, id
<1>8. \A i \in Ids : /\ owned'[i] = (IF i = id THEN p ELSE owned[i])
                     /\ reqsize'[i] = (IF i = id THEN n ELSE reqsize[i])
  BY <1>1, <1>3
<1>9. Live' = Live
  <2>1. Live' = {owned'[i] : i \in Ids} \ {NULL}
    BY <1>1 DEF Live, NULL
  <2> QED
    BY <2>1, <1>2, <1>7, <1>8
<1>10. Blocks' = Blocks
  BY <1>1, <1>5, <1>9 DEF Blocks
<1>11. MemTypeOK' /\ ClientTypeOK'
  <2>1. NoCall \in [id : Ids, size : Sizes \cup {0}]
    BY ClientAssumption DEF NoCall
  <2> QED
    BY <1>1, <1>3, <1>5, <2>1 DEF ClientInv, MemTypeOK, ClientTypeOK, W, NULL, Heap
<1>12. CallOK'
  BY <1>1, <1>2 DEF CallOK, Heap
<1>13. Distinct'
  BY <1>1, <1>2, <1>4, <1>8 DEF ClientInv, Distinct
<1>14. HeapOK'
  BY <1>1, <1>5, <1>9 DEF HeapOK, Heap
<1>15. Capacity'
  <2>1. ASSUME NEW i \in Ids PROVE Holds(owned[i], reqsize[i])'
    <3>1. CASE i = id
      BY <3>1, <1>4, <1>5, <1>8 DEF Holds
    <3>2. CASE i # id
      BY <3>2, <1>2, <1>4, <1>5, <1>8 DEF Holds, ClientInv, Capacity
    <3> QED
      BY <3>1, <3>2
  <2> QED
    BY <1>1, <2>1 DEF Capacity, Holds
<1> QED
  BY <1>5, <1>9, <1>10, <1>11, <1>12, <1>13, <1>14, <1>15 DEF ClientInv, SizesKept

LEMMA NewTraceStep ==
    ASSUME ClientInv, NewTrace
    PROVE  ClientInv' /\ pc' = "init"
<1>1. /\ pc \in {"idle", "failed"} /\ pc' = "init" /\ mem_brk' = 0
      /\ owned' = [id \in Ids |-> NULL] /\ reqsize' = [id \in Ids |-> 0]
      /\ UNCHANGED <<call, bp, ptr, ret, mem, mem_max_addr>>
  BY DEF NewTrace, mem_reset_brk, mem_start_brk
<1>2. ptr = NULL /\ ret = NULL /\ mem_max_addr \in Nat
  BY <1>1, MemlibAssumption DEF ClientInv, CallOK, MemTypeOK
<1>3. MemTypeOK' /\ ClientTypeOK'
  BY <1>1, <1>2 DEF ClientInv, MemTypeOK, ClientTypeOK, NULL
<1>4. CallOK' /\ Distinct'
  BY <1>1, <1>2 DEF CallOK, Distinct, HeapReady
<1>5. HeapOK' /\ Capacity'
  BY <1>1 DEF HeapOK, Capacity, HeapReady
<1> QED
  BY <1>1, <1>3, <1>4, <1>5 DEF ClientInv

(***************************************************************************)
(* mm_init                                                                 *)
(***************************************************************************)
\* A word written keeps the memory a function from words to words.
LEMMA PutType ==
    ASSUME NEW m \in [W -> Nat], NEW a, NEW v \in Nat
    PROVE  PUT(m, a, v) \in [W -> Nat]
  BY DEF PUT

LEMMA EmptyHeapType ==
    ASSUME NEW m \in [W -> Nat], NEW lo
    PROVE  EmptyHeap(m, lo) \in [W -> Nat]
<1> DEFINE m1 == PUT(m, lo, 0)
           m2 == PUT(m1, lo + WSIZE, PACK(DSIZE, 1))
           m3 == PUT(m2, lo + 2 * WSIZE, PACK(DSIZE, 1))
           m4 == PUT(m3, lo + 3 * WSIZE, PACK(0, 1))
<1>1. PACK(DSIZE, 1) \in Nat /\ PACK(0, 1) \in Nat
  BY DEF PACK, DSIZE
<1>2. m1 \in [W -> Nat]
  BY PutType
<1>3. m2 \in [W -> Nat]
  <2> HIDE DEF m1
  <2> QED
    BY <1>1, <1>2, PutType
<1>4. m3 \in [W -> Nat]
  <2> HIDE DEF m2
  <2> QED
    BY <1>1, <1>3, PutType
<1>5. m4 \in [W -> Nat]
  <2> HIDE DEF m3
  <2> QED
    BY <1>1, <1>4, PutType
<1> QED
  BY <1>5 DEF EmptyHeap

\* mem_sbrk has failed, before the sentinels were written or after.
LEMMA InitFailsStep ==
    ASSUME ClientInv, pc = "init", pc' = "failed",
           \/ UNCHANGED <<mem, mem_brk>>
           \/ /\ ~SbrkFails(mem_brk, 4 * WSIZE)
              /\ mem' = EmptyHeap(mem, mem_brk)
              /\ mem_brk' = mem_brk + 4 * WSIZE,
           UNCHANGED <<owned, reqsize, call, bp, ptr, ret, mem_max_addr>>
    PROVE  ClientInv'
<1>1. /\ mem \in [W -> Nat] /\ mem_brk = 0 /\ ptr = NULL /\ ret = NULL
      /\ mem_max_addr \in HeapLimits /\ mem_max_addr \in Nat
      /\ \A i \in Ids : owned[i] = NULL
  BY MemlibAssumption DEF ClientInv, CallOK, MemTypeOK, W
<1>2. mem' \in [W -> Nat] /\ mem_brk' \in Nat /\ mem_brk' <= mem_max_addr
  BY <1>1, EmptyHeapType DEF SbrkFails, WSIZE
<1>3. MemTypeOK' /\ ClientTypeOK'
  BY <1>1, <1>2 DEF ClientInv, MemTypeOK, ClientTypeOK, W
<1>4. CallOK' /\ Distinct'
  BY <1>1 DEF CallOK, Distinct, HeapReady
<1>5. HeapOK' /\ Capacity'
  BY DEF HeapOK, Capacity, HeapReady
<1> QED
  BY <1>3, <1>4, <1>5 DEF ClientInv

LEMMA InitStep ==
    ASSUME ClientInv, pc = "init", pc' = "idle",
           NEW brk, brk = mem_brk + 4 * WSIZE,
           NEW size, size = ExtendBytes(CHUNKSIZE \div WSIZE), ~SbrkFails(brk, size),
           NEW n, n = NewBlock(EmptyHeap(mem, mem_brk), brk, size),
           mem' = Coalesce(n, brk), mem_brk' = brk + size,
           UNCHANGED <<owned, reqsize, call, bp, ptr, ret, mem_max_addr>>
    PROVE  ClientInv' /\ CoalescedBp(n, brk) \in Blocks' /\ CoalescedBp(n, brk) \in Nat
<1> DEFINE top == 16 + size
           L == {}
<1>1. /\ mem \in [W -> Nat] /\ mem_brk = 0 /\ ptr = NULL /\ ret = NULL
      /\ mem_max_addr \in HeapLimits /\ mem_max_addr \in Nat
      /\ \A i \in Ids : owned[i] = NULL
  BY MemlibAssumption DEF ClientInv, CallOK, MemTypeOK, W
<1>2. brk = 16 /\ n = NewBlock(EmptyHeap(mem, 0), 16, size)
  BY <1>1 DEF WSIZE
<1>3. size \in Nat /\ size % 8 = 0 /\ size >= 16
  <2>1. CHUNKSIZE \in Nat /\ CHUNKSIZE % 8 = 0 /\ CHUNKSIZE >= 16
    BY ClientAssumption DEF DSIZE
  <2> QED
    BY <2>1, ExtendBytesOK
<1>4. top \in Nat /\ top % 8 = 0 /\ top <= mem_max_addr
  BY <1>1, <1>2, <1>3 DEF SbrkFails
<1>5. Covers(W, top)
  BY <1>1, <1>4, WordsCover
<1>6. top = 16 + size /\ mem_brk' = top /\ L \in SUBSET Nat /\ L = {}
  BY <1>2
<1> HIDE DEF top, L
<1>7. /\ mem' \in [W -> Nat] /\ WellFormed(mem', top, L)
      /\ CoalescedBp(n, brk) \in BlocksOf(mem', top, L)
  BY <1>1, <1>2, <1>3, <1>4, <1>5, <1>6, InitLemma
<1>8. CoalescedBp(n, brk) \in Nat
  BY <1>4, <1>5, <1>6, <1>7, WellFormedBlocks
<1>9. Live' = L
  BY <1>1, <1>6 DEF Live
<1>10. MemTypeOK' /\ ClientTypeOK'
  BY <1>1, <1>4, <1>6, <1>7 DEF ClientInv, MemTypeOK, ClientTypeOK, W
<1>11. CallOK' /\ Distinct'
  BY <1>1, <1>4, <1>6 DEF CallOK, Distinct, HeapReady
<1>12. HeapOK' /\ CoalescedBp(n, brk) \in Blocks'
  BY <1>6, <1>7, <1>9 DEF HeapOK, Blocks
<1>13. Capacity'
  BY <1>1 DEF Capacity, Holds
<1> QED
  BY <1>8, <1>10, <1>11, <1>12, <1>13 DEF ClientInv

LEMMA InitialState ==
    ASSUME mem_init, ClientInit
    PROVE  ClientInv
<1>1. PICK g \in Garbage : mem = [a \in WordAddr |-> g]
  BY DEF mem_init
<1>2. /\ mem_max_addr \in HeapLimits /\ mem_brk = 0
      /\ owned = [id \in Ids |-> 0] /\ reqsize = [id \in Ids |-> 0]
      /\ pc = "init" /\ call = NoCall /\ bp = 0 /\ ptr = 0 /\ ret = 0
  BY DEF mem_init, mem_start_brk, ClientInit, NULL
<1>3. mem_max_addr \in Nat /\ g \in Nat
  BY <1>1, <1>2, MemlibAssumption
<1>4. NoCall \in [id : Ids, size : Sizes \cup {0}]
  BY ClientAssumption DEF NoCall
<1>5. MemTypeOK /\ ClientTypeOK
  BY <1>1, <1>2, <1>3, <1>4 DEF MemTypeOK, ClientTypeOK
<1>6. CallOK /\ Distinct
  BY <1>2 DEF CallOK, Distinct, HeapReady, NULL
<1>7. HeapOK /\ Capacity
  BY <1>2 DEF HeapOK, Capacity, HeapReady
<1> QED
  BY <1>5, <1>6, <1>7 DEF ClientInv

LEMMA StutterStep ==
    ASSUME ClientInv, UNCHANGED memVars, UNCHANGED clientVars
    PROVE  ClientInv' /\ Blocks' = Blocks /\ HeapReady' = HeapReady
<1>1. UNCHANGED <<mem, mem_brk, mem_max_addr, owned, reqsize, pc, call, bp, ptr, ret>>
  BY DEF memVars, clientVars
<1>2. Live' = Live /\ Blocks' = Blocks /\ HeapReady' = HeapReady
  BY <1>1 DEF Live, Blocks, HeapReady, BlocksOf
<1>3. MemTypeOK' /\ ClientTypeOK' /\ CallOK' /\ Distinct'
  BY <1>1, <1>2 DEF ClientInv, MemTypeOK, ClientTypeOK, CallOK, Distinct
<1>4. HeapOK' /\ Capacity'
  BY <1>1, <1>2 DEF ClientInv, HeapOK, Capacity, Holds
<1> QED
  BY <1>2, <1>3, <1>4 DEF ClientInv

\* What a step of the package between the start and the end of a call leaves as
\* it is: of the client's state only the pc and the block in transit move, and
\* the break only grows.
PackageStep ==
    /\ pc \notin {"idle", "failed", "return"}
    /\ pc' # "init"
    /\ pc' \in {"idle", "failed"} <=> pc = "init"
    /\ mem_brk' >= mem_brk
    /\ UNCHANGED <<owned, reqsize, call>>

LEMMA BreakGrows ==
    /\ ClientInv => mem_brk \in Nat
    /\ 4 * WSIZE = 16
    /\ ExtendBytes(CHUNKSIZE \div WSIZE) \in Nat
<1>1. ClientInv => mem_brk \in Nat
  BY DEF ClientInv, MemTypeOK
<1>2. CHUNKSIZE \in Nat /\ CHUNKSIZE % 8 = 0
  BY ClientAssumption
<1>3. ExtendBytes(CHUNKSIZE \div WSIZE) \in Nat
  BY <1>2, ExtendBytesOK
<1> QED
  BY <1>1, <1>3 DEF WSIZE

\* Payloads of the client and of the call in progress never overlap: blocks do
\* not, and each holds its payload between its tags.
LEMMA BlocksHoldPayloads ==
    ASSUME ClientInv
    PROVE  PayloadsDisjoint
<1>1. SUFFICES ASSUME HeapReady
               PROVE  /\ \A x \in Payloads :
                            /\ x[1] % 8 = 0 /\ x[1] >= mem_heap_lo
                            /\ x[1] + x[2] - 1 <= mem_heap_hi
                      /\ \A x, y \in Payloads :
                            x # y => x[1] + x[2] <= y[1] \/ y[1] + y[2] <= x[1]
                      /\ \A i, j \in Ids : i # j /\ owned[i] # NULL => owned[i] # owned[j]
  BY DEF PayloadsDisjoint
<1>2. ClientTypeOK /\ Distinct /\ Capacity
  BY DEF ClientInv
<1>3. /\ Live \in SUBSET Blocks /\ mem_brk \in Nat
      /\ \A b \in Blocks :
           /\ b \in Nat /\ b >= 16 /\ b % 8 = 0
           /\ GET_SIZE(mem, HDRP(b)) \in Nat
           /\ NEXT_BLKP(mem, b) = b + GET_SIZE(mem, HDRP(b))
           /\ NEXT_BLKP(mem, b) <= mem_brk
      /\ \A b, c \in Blocks : b < c => NEXT_BLKP(mem, b) <= c
  BY <1>1, BlockFacts
<1>4. /\ reqsize \in [Ids -> Nat] /\ call.size \in Nat /\ call.id \in Ids
  BY <1>2, CallType DEF ClientTypeOK
<1>5. ASSUME NEW x \in Payloads
      PROVE  /\ x = <<x[1], x[2]>> /\ x[1] \in Live /\ x[2] \in Nat
             /\ GET_SIZE(mem, HDRP(x[1])) >= x[2] + 8
             /\ \/ \E i \in Ids : owned[i] # NULL /\ x = <<owned[i], reqsize[i]>>
                \/ ptr # NULL /\ x = <<ptr, reqsize[call.id]>>
                \/ ret # NULL /\ x = <<ret, call.size>>
  <2>1. \/ \E i \in Ids : owned[i] # NULL /\ x = <<owned[i], reqsize[i]>>
        \/ ptr # NULL /\ x = <<ptr, reqsize[call.id]>>
        \/ ret # NULL /\ x = <<ret, call.size>>
    BY DEF Payloads
  <2>2. CASE \E i \in Ids : owned[i] # NULL /\ x = <<owned[i], reqsize[i]>>
    BY <2>2, <1>1, <1>2, <1>4 DEF Live, Capacity, Holds, DSIZE
  <2>3. CASE ptr # NULL /\ x = <<ptr, reqsize[call.id]>>
    BY <2>3, <1>1, <1>2, <1>4 DEF Live, Capacity, Holds, DSIZE
  <2>4. CASE ret # NULL /\ x = <<ret, call.size>>
    BY <2>4, <1>1, <1>2, <1>4 DEF Live, Capacity, Holds, DSIZE
  <2> QED
    BY <2>1, <2>2, <2>3, <2>4
<1>6. ASSUME NEW x \in Payloads, NEW y \in Payloads, x[1] = y[1]
      PROVE  x = y
  BY <1>2, <1>5, <1>6 DEF Distinct
<1>7. ASSUME NEW x \in Payloads
      PROVE  /\ x[1] \in Nat /\ x[1] % 8 = 0 /\ x[1] >= 16 /\ x[2] \in Nat
             /\ x[1] + x[2] + 8 <= NEXT_BLKP(mem, x[1]) /\ NEXT_BLKP(mem, x[1]) <= mem_brk
             /\ NEXT_BLKP(mem, x[1]) \in Nat
  <2> DEFINE p == x[1]
             n == x[2]
  <2>1. p \in Blocks /\ n \in Nat /\ GET_SIZE(mem, HDRP(p)) >= n + 8
    BY <1>3, <1>5
  <2> HIDE DEF p, n
  <2>2. /\ p \in Nat /\ p % 8 = 0 /\ p >= 16
        /\ GET_SIZE(mem, HDRP(p)) \in Nat /\ NEXT_BLKP(mem, p) = p + GET_SIZE(mem, HDRP(p))
        /\ NEXT_BLKP(mem, p) <= mem_brk
    BY <1>3, <2>1
  <2>3. p + n + 8 <= NEXT_BLKP(mem, p) /\ NEXT_BLKP(mem, p) \in Nat
    BY <2>1, <2>2
  <2> QED
    BY <2>1, <2>2, <2>3 DEF p, n
<1>8. ASSUME NEW x \in Payloads, NEW y \in Payloads, x # y
      PROVE  x[1] + x[2] <= y[1] \/ y[1] + y[2] <= x[1]
  <2>1. x[1] # y[1]
    BY <1>6, <1>8
  <2>2. x[1] \in Blocks /\ y[1] \in Blocks
    BY <1>3, <1>5
  <2>3. CASE x[1] < y[1]
    <3>1. NEXT_BLKP(mem, x[1]) <= y[1]
      BY <1>3, <2>2, <2>3
    <3> QED
      BY <3>1, <1>7
  <2>4. CASE y[1] < x[1]
    <3>1. NEXT_BLKP(mem, y[1]) <= x[1]
      BY <1>3, <2>2, <2>4
    <3> QED
      BY <3>1, <1>7
  <2> QED
    BY <1>7, <2>1, <2>3, <2>4
<1>9. ASSUME NEW x \in Payloads
      PROVE  x[1] % 8 = 0 /\ x[1] >= mem_heap_lo /\ x[1] + x[2] - 1 <= mem_heap_hi
  BY <1>3, <1>7 DEF mem_heap_lo, mem_heap_hi, mem_start_brk
<1> QED
  BY <1>2, <1>8, <1>9 DEF Distinct

(***************************************************************************)
(* The allocators implement MemoryContract: what each kind of step does to *)
(* the blocks as the client sees them, under the mapping of MmClient.  A   *)
(* lemma assumes what the allocators' actions say of the variables of      *)
(* memlib and MmClient.                                                    *)
(***************************************************************************)

\* What a step of the contract leaves as it is, for the block of one id.
Same(i) == BlockOf(i)' = BlockOf(i) /\ SizeOf(i)' = SizeOf(i) /\ DataOf(i)' = DataOf(i)

(***************************************************************************)
(* The steps of the contract, in terms of BlockOf, SizeOf and DataOf       *)
(***************************************************************************)
LEMMA QuietStep ==
    ASSUME \A i \in Ids : Same(i)
    PROVE  Contract!Next \/ UNCHANGED Contract!vars
<1>1. /\ [i \in Ids |-> BlockOf(i)]' = [i \in Ids |-> BlockOf(i)]
      /\ [i \in Ids |-> SizeOf(i)]' = [i \in Ids |-> SizeOf(i)]
      /\ [i \in Ids |-> DataOf(i)]' = [i \in Ids |-> DataOf(i)]
  BY DEF Same
<1>2. CASE (pc # "idle")' = (pc # "idle")
  BY <1>1, <1>2 DEF Contract!vars
<1>3. CASE (pc # "idle")' # (pc # "idle")
  BY <1>1, <1>3 DEF Contract!Next, Contract!Turn
<1> QED
  BY <1>2, <1>3

AwayFrom(id) ==
    \A i \in Ids \ {id} :
        BlockOf(i) # 0 => \/ BlockOf(id)' + SizeOf(id)' <= BlockOf(i)
                          \/ BlockOf(i) + SizeOf(i) <= BlockOf(id)'

LEMMA AllocateStep ==
    ASSUME NEW id \in Ids, BlockOf(id) = 0, BlockOf(id)' # 0, BlockOf(id)' % 8 = 0,
           AwayFrom(id), \A i \in Ids \ {id} : Same(i)
    PROVE  Contract!Next
  BY DEF Contract!Next, Contract!Allocate, Contract!Apart, Contract!Others,
         Contract!UnchangedFor, Same, AwayFrom

LEMMA FreeStepIsFree ==
    ASSUME NEW id \in Ids, BlockOf(id) # 0, BlockOf(id)' = 0, \A i \in Ids \ {id} : Same(i)
    PROVE  Contract!Next
  BY DEF Contract!Next, Contract!Free, Contract!Others, Contract!UnchangedFor, Same

LEMMA ResizeStep ==
    ASSUME NEW id \in Ids, BlockOf(id) # 0, BlockOf(id)' # 0, BlockOf(id)' % 8 = 0,
           \A k \in DOMAIN DataOf(id) \cap DOMAIN DataOf(id)' :
               DataOf(id)'[k] = DataOf(id)[k],
           AwayFrom(id), \A i \in Ids \ {id} : Same(i)
    PROVE  Contract!Next
  BY DEF Contract!Next, Contract!Resize, Contract!Apart, Contract!Others,
         Contract!UnchangedFor, Same, AwayFrom

LEMMA WriteStepIsWrite ==
    ASSUME NEW id \in Ids, BlockOf(id) # 0, BlockOf(id)' = BlockOf(id),
           SizeOf(id)' = SizeOf(id), pc' = "idle", \A i \in Ids \ {id} : Same(i)
    PROVE  Contract!Next
  BY DEF Contract!Next, Contract!Write, Contract!Others, Contract!UnchangedFor, Same

LEMMA ForgetStep ==
    ASSUME \A i \in Ids : BlockOf(i)' = 0
    PROVE  Contract!Next
  BY DEF Contract!Next, Contract!Forget

(***************************************************************************)
(* The block of an id                                                      *)
(***************************************************************************)
LEMMA BlockOfOther ==
    ASSUME ClientInv, NEW i \in Ids, ~HeapReady \/ pc = "idle" \/ i # call.id
    PROVE  /\ BlockOf(i) = owned[i]
           /\ SizeOf(i) = IF owned[i] = NULL THEN 0 ELSE reqsize[i]
<1>1. BlockOf(i) = owned[i]
  BY DEF BlockOf
<1> QED
  BY <1>1 DEF SizeOf

LEMMA BlockOfCall ==
    ASSUME ClientInv, HeapReady, pc # "idle"
    PROVE  /\ BlockOf(call.id) = IF ptr # NULL THEN ptr ELSE ret
           /\ SizeOf(call.id) = IF ptr # NULL THEN reqsize[call.id]
                                ELSE IF ret # NULL THEN call.size ELSE 0
<1>1. BlockOf(call.id) = IF ptr # NULL THEN ptr ELSE ret
  BY DEF BlockOf
<1>2. owned[call.id] = NULL
  BY DEF ClientInv, CallOK, HeapReady
<1> QED
  BY <1>1, <1>2 DEF SizeOf

\* Every block of the client is one of Live, and holds what was asked for.
LEMMA BlockOfFacts ==
    ASSUME ClientInv, HeapReady, NEW i \in Ids
    PROVE  /\ BlockOf(i) # 0 => /\ BlockOf(i) \in Live /\ BlockOf(i) \in Blocks
                                /\ BlockOf(i) \in Nat /\ BlockOf(i) % 8 = 0
                                /\ BlockOf(i) >= 16
                                /\ GET_SIZE(mem, HDRP(BlockOf(i))) \in Nat
                                /\ SizeOf(i) + 8 <= GET_SIZE(mem, HDRP(BlockOf(i)))
           /\ BlockOf(i) = 0 => SizeOf(i) = 0
           /\ SizeOf(i) \in Nat
<1>1. /\ owned \in [Ids -> Nat] /\ reqsize \in [Ids -> Nat] /\ call.size \in Nat
      /\ call.id \in Ids
  BY CallType DEF ClientInv, ClientTypeOK
<1>2. /\ Live \in SUBSET Blocks
      /\ \A b \in Blocks : /\ b \in Nat /\ b % 8 = 0 /\ b >= 16
                           /\ GET_SIZE(mem, HDRP(b)) \in Nat
  BY BlockFacts
<1>3. \A j \in Ids : Holds(owned[j], reqsize[j])
  BY DEF ClientInv, Capacity
<1>4. CASE pc = "idle" \/ i # call.id
  <2>1. BlockOf(i) = owned[i] /\ SizeOf(i) = IF owned[i] = NULL THEN 0 ELSE reqsize[i]
    BY <1>4, BlockOfOther
  <2>2. owned[i] # NULL => /\ owned[i] \in Live
                           /\ GET_SIZE(mem, HDRP(owned[i])) >= reqsize[i] + 8
    BY <1>3 DEF Live, Holds, DSIZE
  <2> QED
    BY <1>1, <1>2, <2>1, <2>2 DEF NULL
<1>5. CASE pc # "idle" /\ i = call.id
  <2>1. /\ BlockOf(i) = IF ptr # NULL THEN ptr ELSE ret
        /\ SizeOf(i) = IF ptr # NULL THEN reqsize[call.id]
                       ELSE IF ret # NULL THEN call.size ELSE 0
    BY <1>5, BlockOfCall
  <2>2. /\ ptr # NULL => /\ ptr \in Live
                         /\ GET_SIZE(mem, HDRP(ptr)) >= reqsize[call.id] + 8
        /\ ret # NULL => /\ ret \in Live
                         /\ GET_SIZE(mem, HDRP(ret)) >= call.size + 8
    BY DEF Live, Holds, DSIZE, ClientInv, Capacity
  <2> QED
    BY <1>1, <1>2, <2>1, <2>2 DEF NULL
<1> QED
  BY <1>4, <1>5

\* Two ids never have the same block, and no block overlaps another.
LEMMA BlocksApart ==
    ASSUME ClientInv, HeapReady, NEW i \in Ids, NEW j \in Ids, i # j,
           BlockOf(i) # 0, BlockOf(j) # 0
    PROVE  /\ BlockOf(i) # BlockOf(j)
           /\ \/ BlockOf(i) + SizeOf(i) <= BlockOf(j)
              \/ BlockOf(j) + SizeOf(j) <= BlockOf(i)
<1>1. BlockOf(i) # BlockOf(j)
  <2>1. ASSUME NEW k \in Ids, pc # "idle", k # call.id, owned[k] # NULL
        PROVE  owned[k] # ptr /\ owned[k] # ret
    BY <2>1 DEF ClientInv, Distinct
  <2>2. CASE pc = "idle" \/ (i # call.id /\ j # call.id)
    BY <2>2, BlockOfOther DEF ClientInv, Distinct, NULL
  <2>3. CASE pc # "idle" /\ i = call.id
    BY <2>1, <2>3, BlockOfOther, BlockOfCall DEF NULL
  <2>4. CASE pc # "idle" /\ j = call.id
    BY <2>1, <2>4, BlockOfOther, BlockOfCall DEF NULL
  <2> QED
    BY <2>2, <2>3, <2>4
<1>2. \A b, c \in Blocks : b < c => b + GET_SIZE(mem, HDRP(b)) <= c
  BY BlockFacts
<1>3. /\ BlockOf(i) \in Blocks /\ BlockOf(i) \in Nat
      /\ GET_SIZE(mem, HDRP(BlockOf(i))) \in Nat /\ SizeOf(i) \in Nat
      /\ SizeOf(i) + 8 <= GET_SIZE(mem, HDRP(BlockOf(i)))
      /\ BlockOf(j) \in Blocks /\ BlockOf(j) \in Nat
      /\ GET_SIZE(mem, HDRP(BlockOf(j))) \in Nat /\ SizeOf(j) \in Nat
      /\ SizeOf(j) + 8 <= GET_SIZE(mem, HDRP(BlockOf(j)))
  BY BlockOfFacts
<1>4. /\ BlockOf(i) < BlockOf(j)
           => BlockOf(i) + GET_SIZE(mem, HDRP(BlockOf(i))) <= BlockOf(j)
      /\ BlockOf(j) < BlockOf(i)
           => BlockOf(j) + GET_SIZE(mem, HDRP(BlockOf(j))) <= BlockOf(i)
  BY <1>2, <1>3
<1> QED
  BY <1>1, <1>3, <1>4

\* What the contract needs of the blocks of a state.
BlocksTrue ==
    HeapReady =>
        /\ \A i \in Ids : BlockOf(i) # 0 => BlockOf(i) % 8 = 0
        /\ \A i, j \in Ids :
              i # j /\ BlockOf(i) # 0 /\ BlockOf(j) # 0 =>
                  \/ BlockOf(i) + SizeOf(i) <= BlockOf(j)
                  \/ BlockOf(j) + SizeOf(j) <= BlockOf(i)

LEMMA BlocksTrueHere == ClientInv => BlocksTrue
<1> SUFFICES ASSUME ClientInv, HeapReady PROVE BlocksTrue
  BY DEF BlocksTrue
<1>1. \A i \in Ids : BlockOf(i) # 0 => BlockOf(i) % 8 = 0
  BY BlockOfFacts
<1>2. ASSUME NEW i \in Ids, NEW j \in Ids, i # j, BlockOf(i) # 0, BlockOf(j) # 0
      PROVE  \/ BlockOf(i) + SizeOf(i) <= BlockOf(j)
             \/ BlockOf(j) + SizeOf(j) <= BlockOf(i)
  BY <1>2, BlocksApart
<1> QED
  BY <1>1, <1>2 DEF BlocksTrue

LEMMA BlocksTrueNext == ClientInv' => BlocksTrue'
  BY BlocksTrueHere, PTL

\* The same for the next state, where only the block of id has changed.
LEMMA ApartAfter ==
    ASSUME ClientInv', HeapReady', NEW id \in Ids, BlockOf(id)' # 0,
           \A i \in Ids \ {id} : Same(i)
    PROVE  AwayFrom(id) /\ BlockOf(id)' % 8 = 0
<1>1. BlocksTrue'
  BY BlocksTrueNext
<1>2. /\ BlockOf(id)' % 8 = 0
      /\ \A i \in Ids \ {id} : BlockOf(i)' # 0 =>
            \/ BlockOf(id)' + SizeOf(id)' <= BlockOf(i)'
            \/ BlockOf(i)' + SizeOf(i)' <= BlockOf(id)'
  BY <1>1 DEF BlocksTrue
<1>3. \A i \in Ids \ {id} : BlockOf(i)' = BlockOf(i) /\ SizeOf(i)' = SizeOf(i)
  BY DEF Same
<1> QED
  BY <1>2, <1>3 DEF AwayFrom

(***************************************************************************)
(* What keeps the block of an id                                           *)
(***************************************************************************)
\* The words of a block are inside its payload.
LEMMA DataKept ==
    ASSUME ClientInv, HeapReady, NEW i \in Ids,
           BlockOf(i)' = BlockOf(i), SizeOf(i)' = SizeOf(i),
           NEW L, BlockOf(i) # 0 => BlockOf(i) \in L, Preserves(W, mem, mem', L)
    PROVE  Same(i)
<1> DEFINE b == BlockOf(i)
           n == SizeOf(i)
           K == {k \in 0..(n - 1) : k % WSIZE = 0}
<1>1. n \in Nat /\ (b = 0 => n = 0)
      /\ (b # 0 => /\ b \in Nat /\ b % 8 = 0 /\ b >= 16 /\ b \in Live
                   /\ GET_SIZE(mem, b - 4) \in Nat
                   /\ n + 8 <= GET_SIZE(mem, b - 4))
  BY BlockOfFacts DEF HDRP, WSIZE
<1>2. b # 0 => b \in L
  OBVIOUS
<1>3. Covers(W, mem_brk) /\ mem_brk \in Nat
  BY HeapFacts DEF Heap
<1>4. b # 0 => b + GET_SIZE(mem, b - 4) <= mem_brk
  <2>1. \A c \in Live : c + GET_SIZE(mem, HDRP(c)) <= mem_brk
    BY BlockFacts
  <2> QED
    BY <1>1, <2>1 DEF HDRP, WSIZE
<1>5. DataOf(i) = [k \in K |-> mem[b + k]] /\ DataOf(i)' = [k \in K |-> mem'[b + k]]
  BY DEF DataOf
<1> HIDE DEF b, n
<1>6. ASSUME NEW k \in K PROVE mem'[b + k] = mem[b + k]
  <2>1. k \in Nat /\ k < n /\ k % 4 = 0
    BY <1>1 DEF WSIZE
  <2>2. b # 0
    BY <1>1, <2>1
  <2>3. /\ b + k \in Nat /\ (b + k) % 4 = 0 /\ b + k < mem_brk
        /\ b - 4 <= b + k /\ b + k < b + GET_SIZE(mem, b - 4) - 4
    BY <1>1, <1>3, <1>4, <2>1, <2>2
  <2>4. b + k \in W
    BY <1>3, <2>3 DEF Covers
  <2> QED
    BY <1>2, <2>2, <2>3, <2>4 DEF Preserves
<1>7. DataOf(i)' = DataOf(i)
  BY <1>5, <1>6
<1> QED
  BY <1>7 DEF Same

LEMMA PreservesItself == ASSUME NEW m, NEW L PROVE Preserves(W, m, m, L)
  BY DEF Preserves

\* The client's bytes of a block lie before its footer.
LEMMA WritesPreserve ==
    ASSUME ClientInv, HeapReady, NEW p \in Live, NEW n \in Nat,
           n + 8 <= GET_SIZE(mem, HDRP(p)), NEW m, OnlyWrites(mem, m, p, n)
    PROVE  Preserves(W, mem, m, Live \ {p})
<1>1. SUFFICES ASSUME NEW q \in Live \ {p}, NEW a \in Nat, a \in W,
                      q - 4 <= a, a < q + GET_SIZE(mem, q - 4) - 4
               PROVE  m[a] = mem[a]
  BY DEF Preserves
<1>2. /\ p \in Nat /\ GET_SIZE(mem, p - 4) \in Nat
      /\ q \in Nat /\ GET_SIZE(mem, q - 4) \in Nat
      /\ p < q => p + GET_SIZE(mem, p - 4) <= q
      /\ q < p => q + GET_SIZE(mem, q - 4) <= p
  BY BlockFacts DEF HDRP, WSIZE
<1>3. n + 8 <= GET_SIZE(mem, p - 4)
  BY DEF HDRP, WSIZE
<1>4. a < p \/ a >= p + n
  BY <1>1, <1>2, <1>3
<1> QED
  BY <1>1, <1>4 DEF OnlyWrites

\* Two changes of the heap one after the other.
LEMMA PreservesBoth ==
    ASSUME ClientInv, HeapReady, NEW m, NEW m2, NEW K, NEW L, NEW J,
           Preserves(W, mem, m, K), Preserves(W, m, m2, L),
           J \subseteq K, J \subseteq L, J \subseteq Live
    PROVE  Preserves(W, mem, m2, J)
<1>1. Preserves(W, mem, m, J) /\ Preserves(W, m, m2, J)
  BY DEF Preserves
<1>2. Covers(W, mem_brk) /\ mem_brk \in Nat
  BY HeapFacts DEF Heap
<1>3. \A p \in Live : /\ p \in Nat /\ p >= 4 /\ p % 8 = 0 /\ p < mem_brk
                      /\ GET_SIZE(mem, p - 4) \in Nat /\ GET_SIZE(mem, p - 4) >= 16
  BY BlockFacts DEF HDRP, WSIZE
<1>4. ASSUME NEW p \in Live PROVE p - 4 \in W
  <2>1. p - 4 \in Nat /\ (p - 4) % 4 = 0 /\ p - 4 < mem_brk
    BY <1>2, <1>3
  <2> QED
    BY <1>2, <2>1 DEF Covers
<1> HIDE DEF W
<1>5. \A p \in J : /\ p \in Nat /\ p - 4 \in W /\ p >= 4
                   /\ GET_SIZE(mem, p - 4) \in Nat /\ GET_SIZE(mem, p - 4) >= 16
  BY <1>3, <1>4
<1> QED
  BY <1>1, <1>5, PreservesTrans

(***************************************************************************)
(* A step between the beginning and the end of a call                      *)
(***************************************************************************)
ContractStep == Contract!Next \/ UNCHANGED Contract!vars

LEMMA DuringCall ==
    ASSUME ClientInv, ClientInv', HeapReady, HeapReady', pc # "idle", pc' # "idle",
           UNCHANGED <<owned, reqsize, call>>, NEW id, id = call.id
    PROVE  /\ id \in Ids
           /\ \A i \in Ids \ {id} : /\ BlockOf(i) = owned[i]
                                    /\ BlockOf(i)' = BlockOf(i) /\ SizeOf(i)' = SizeOf(i)
           /\ BlockOf(id) = IF ptr # NULL THEN ptr ELSE ret
           /\ SizeOf(id) = IF ptr # NULL THEN reqsize[id]
                           ELSE IF ret # NULL THEN call.size ELSE 0
           /\ BlockOf(id)' = IF ptr' # NULL THEN ptr' ELSE ret'
           /\ SizeOf(id)' = IF ptr' # NULL THEN reqsize[id]
                            ELSE IF ret' # NULL THEN call.size ELSE 0
<1>1. id \in Ids /\ owned[id] = NULL /\ owned'[id] = NULL /\ call'.id = id
  BY DEF ClientInv, ClientTypeOK, CallOK, HeapReady
<1>2. ASSUME NEW i \in Ids \ {id}
      PROVE  BlockOf(i) = owned[i] /\ BlockOf(i)' = BlockOf(i) /\ SizeOf(i)' = SizeOf(i)
  <2>1. BlockOf(i) = owned[i] /\ BlockOf(i)' = owned[i]
    BY <1>1 DEF BlockOf
  <2>2. /\ SizeOf(i) = IF owned[i] = NULL THEN 0 ELSE reqsize[i]
        /\ SizeOf(i)' = IF owned[i] = NULL THEN 0 ELSE reqsize[i]
    BY <2>1 DEF SizeOf
  <2> QED
    BY <2>1, <2>2
<1>3. /\ BlockOf(id) = IF ptr # NULL THEN ptr ELSE ret
      /\ BlockOf(id)' = IF ptr' # NULL THEN ptr' ELSE ret'
  BY <1>1 DEF BlockOf
<1>4. SizeOf(id) = IF ptr # NULL THEN reqsize[id] ELSE IF ret # NULL THEN call.size ELSE 0
  BY <1>1, <1>3 DEF SizeOf
<1>5. SizeOf(id)' = IF ptr' # NULL THEN reqsize[id]
                    ELSE IF ret' # NULL THEN call.size ELSE 0
  BY <1>1, <1>3 DEF SizeOf
<1> QED
  BY <1>1, <1>2, <1>3, <1>4, <1>5

\* The search moves on, or fails.
LEMMA SearchContract ==
    ASSUME ClientInv, ClientInv', HeapReady, HeapReady', pc # "idle", pc' # "idle",
           UNCHANGED <<owned, reqsize, call, ptr, ret, mem>>
    PROVE  ContractStep
<1>1. PICK id : id = call.id
  OBVIOUS
<1>2. \A i \in Ids : BlockOf(i)' = BlockOf(i) /\ SizeOf(i)' = SizeOf(i)
  BY <1>1, DuringCall
<1>3. ASSUME NEW i \in Ids PROVE Same(i)
  BY <1>2 DEF Same, DataOf
<1> QED
  BY <1>3, QuietStep DEF ContractStep

\* A block is placed: malloc has its block, realloc will copy to it.
LEMMA PlaceContract ==
    ASSUME ClientInv, ClientInv', InSearch, Preserves(W, mem, mem', Live),
           ret' # NULL, pc' \in {"return", "copy"}, UNCHANGED <<owned, reqsize, call, ptr>>
    PROVE  ContractStep
<1>1. PICK id : id = call.id
  OBVIOUS
<1>2. HeapReady /\ HeapReady' /\ pc # "idle" /\ pc' # "idle" /\ ret = NULL
  BY DEF InSearch, HeapReady, ClientInv, CallOK
<1>3. /\ id \in Ids
      /\ \A i \in Ids \ {id} : BlockOf(i)' = BlockOf(i) /\ SizeOf(i)' = SizeOf(i)
      /\ BlockOf(id) = IF ptr # NULL THEN ptr ELSE ret
      /\ BlockOf(id)' = IF ptr # NULL THEN ptr ELSE ret'
      /\ ptr # NULL => SizeOf(id)' = SizeOf(id)
  BY <1>1, <1>2, DuringCall
<1>4. ASSUME NEW i \in Ids, BlockOf(i)' = BlockOf(i), SizeOf(i)' = SizeOf(i) PROVE Same(i)
  <2>1. BlockOf(i) # 0 => BlockOf(i) \in Live
    BY <1>2, BlockOfFacts
  <2> QED
    BY <1>2, <1>4, <2>1, DataKept
<1>5. \A i \in Ids \ {id} : Same(i)
  BY <1>3, <1>4
<1>6. CASE ptr # NULL
  <2>1. \A i \in Ids : Same(i)
    BY <1>3, <1>4, <1>5, <1>6
  <2> QED
    BY <2>1, QuietStep DEF ContractStep
<1>7. CASE ptr = NULL
  <2>1. BlockOf(id) = 0 /\ BlockOf(id)' # 0
    BY <1>2, <1>3, <1>7 DEF NULL
  <2>2. AwayFrom(id) /\ BlockOf(id)' % 8 = 0
    BY <1>2, <1>3, <1>5, <2>1, ApartAfter
  <2> QED
    BY <1>3, <1>5, <2>1, <2>2, AllocateStep DEF ContractStep
<1> QED
  BY <1>6, <1>7

\* What PlaceLemma says of the blocks that were there.
LEMMA PlaceKeeps ==
    ASSUME NEW m, NEW brk, NEW L, Heap(m, brk, L), NEW a, BlockSize(a),
           NEW b \in BlocksOf(m, brk, L), Fits(m, b, a)
    PROVE  Preserves(W, m, Place(m, b, a), L)
  BY PlaceLemma DEF Heap, BlockSize

\* The search has found block b.
LEMMA FoundContract ==
    ASSUME ClientInv, ClientInv', InSearch, NEW a, BlockSize(a),
           NEW b \in Blocks, Fits(mem, b, a), mem' = Place(mem, b, a), ret' = b,
           pc' = IF ptr = NULL THEN "return" ELSE "copy", UNCHANGED <<owned, reqsize, call, ptr>>
    PROVE  ContractStep
<1>1. HeapReady /\ Heap(mem, mem_brk, Live)
  BY HeapFacts DEF InSearch, HeapReady
<1>2. b \in BlocksOf(mem, mem_brk, Live) /\ b # NULL
  BY <1>1, BlockFacts DEF Blocks, NULL
<1>3. Preserves(W, mem, mem', Live)
  BY <1>1, <1>2, PlaceKeeps
<1> QED
  BY <1>2, <1>3, PlaceContract

\* The heap has grown and a block is placed in the new free block.
LEMMA ExtendContract ==
    ASSUME ClientInv, ClientInv', InSearch, NEW a, BlockSize(a),
           NEW size, size = ExtendBytes(MAX(a, CHUNKSIZE) \div WSIZE),
           ~SbrkFails(mem_brk, size),
           NEW n, n = NewBlock(mem, mem_brk, size), NEW b, b = CoalescedBp(n, mem_brk),
           mem' = Place(Coalesce(n, mem_brk), b, a), ret' = b,
           pc' = IF ptr = NULL THEN "return" ELSE "copy",
           UNCHANGED <<owned, reqsize, call, ptr, mem_max_addr>>
    PROVE  ContractStep
<1>1. PICK c, top : c = Coalesce(n, mem_brk) /\ top = mem_brk + size
  OBVIOUS
<1>2. /\ Heap(mem, mem_brk, Live) /\ Heap(c, top, Live) /\ Preserves(W, mem, c, Live)
      /\ b \in BlocksOf(c, top, Live) /\ Fits(c, b, a) /\ b # NULL
  BY <1>1, GrownHeap
<1>3. Preserves(W, c, mem', Live)
  BY <1>1, <1>2, PlaceKeeps
<1>4. Preserves(W, mem, mem', Live)
  BY <1>2, <1>3, PreservesBoth DEF InSearch, HeapReady
<1> QED
  BY <1>2, <1>4, PlaceContract

(***************************************************************************)
(* The beginning of a call                                                 *)
(***************************************************************************)
\* Between calls the blocks are those the client owns.
LEMMA BetweenCalls ==
    ASSUME ClientInv, pc = "idle"
    PROVE  /\ HeapReady /\ ptr = NULL /\ ret = NULL
           /\ owned \in [Ids -> Nat] /\ reqsize \in [Ids -> Nat]
           /\ \A i \in Ids : /\ BlockOf(i) = owned[i]
                             /\ SizeOf(i) = IF owned[i] = NULL THEN 0 ELSE reqsize[i]
                             /\ BlockOf(i) # 0 => BlockOf(i) \in Live
<1>1. HeapReady /\ ptr = NULL /\ ret = NULL
  BY DEF HeapReady, ClientInv, CallOK
<1>2. owned \in [Ids -> Nat] /\ reqsize \in [Ids -> Nat]
  BY DEF ClientInv, ClientTypeOK
<1>3. ASSUME NEW i \in Ids
      PROVE  /\ BlockOf(i) = owned[i]
             /\ SizeOf(i) = IF owned[i] = NULL THEN 0 ELSE reqsize[i]
             /\ BlockOf(i) # 0 => BlockOf(i) \in Live
  BY <1>1, BlockOfOther, BlockOfFacts
<1> QED
  BY <1>1, <1>2, <1>3

\* The block of an id that is not the one of the call, after a step.
LEMMA OtherNext ==
    ASSUME NEW i \in Ids, ~HeapReady' \/ pc' = "idle" \/ i # call'.id
    PROVE  /\ BlockOf(i)' = owned'[i]
           /\ SizeOf(i)' = IF owned'[i] = NULL THEN 0 ELSE reqsize'[i]
<1>1. BlockOf(i)' = owned'[i]
  BY DEF BlockOf
<1> QED
  BY <1>1 DEF SizeOf

\* mm_malloc, or mm_realloc of nothing, has begun.
LEMMA MallocContract ==
    ASSUME ClientInv, NEW id \in Ids, NEW size, CallStarts(id, size, NULL),
           pc' \notin {"init", "failed", "idle"}, UNCHANGED <<reqsize, ptr, ret, mem>>
    PROVE  ContractStep
<1>1. /\ pc = "idle" /\ owned[id] = NULL /\ call' = [id |-> id, size |-> size]
      /\ owned' = [owned EXCEPT ![id] = NULL]
  BY DEF CallStarts
<1>2. /\ HeapReady /\ ptr = NULL /\ ret = NULL /\ owned \in [Ids -> Nat]
      /\ \A i \in Ids : /\ BlockOf(i) = owned[i]
                        /\ SizeOf(i) = IF owned[i] = NULL THEN 0 ELSE reqsize[i]
  BY <1>1, BetweenCalls
<1>3. owned' = owned /\ HeapReady' /\ call'.id = id
  BY <1>1, <1>2 DEF HeapReady
<1>4. ASSUME NEW i \in Ids PROVE Same(i)
  <2>1. BlockOf(i)' = owned[i]
    <3>1. CASE i = id
      BY <3>1, <1>1, <1>2, <1>3 DEF BlockOf
    <3>2. CASE i # id
      BY <3>2, <1>3, OtherNext
    <3> QED
      BY <3>1, <3>2
  <2>2. SizeOf(i)' = SizeOf(i)
    BY <2>1, <1>2, <1>3 DEF SizeOf
  <2> QED
    BY <2>1, <2>2, <1>2 DEF Same, DataOf
<1> QED
  BY <1>4, QuietStep DEF ContractStep

\* mm_realloc has called mm_malloc, with its block in ptr.
LEMMA ReallocContract ==
    ASSUME ClientInv, NEW id \in Ids, NEW size, owned[id] # NULL,
           CallStarts(id, size, owned[id]), ptr' = owned[id],
           pc' \notin {"init", "failed", "idle"}, UNCHANGED <<reqsize, ret, mem>>
    PROVE  ContractStep
<1>1. /\ pc = "idle" /\ call' = [id |-> id, size |-> size]
      /\ owned' = [owned EXCEPT ![id] = NULL]
  BY DEF CallStarts
<1>2. /\ HeapReady /\ ptr = NULL /\ ret = NULL /\ owned \in [Ids -> Nat]
      /\ \A i \in Ids : /\ BlockOf(i) = owned[i]
                        /\ SizeOf(i) = IF owned[i] = NULL THEN 0 ELSE reqsize[i]
  BY <1>1, BetweenCalls
<1>3. /\ HeapReady' /\ call'.id = id
      /\ \A i \in Ids : owned'[i] = IF i = id THEN NULL ELSE owned[i]
  BY <1>1, <1>2 DEF HeapReady
<1>4. ASSUME NEW i \in Ids PROVE Same(i)
  <2>1. BlockOf(i)' = owned[i] /\ SizeOf(i)' = SizeOf(i)
    <3>1. CASE i = id
      <4>1. BlockOf(i)' = ptr'
        BY <3>1, <1>3 DEF BlockOf
      <4>2. SizeOf(i)' = reqsize[i]
        BY <3>1, <4>1 DEF SizeOf
      <4> QED
        BY <3>1, <4>1, <4>2, <1>2
    <3>2. CASE i # id
      BY <3>2, <1>2, <1>3, OtherNext
    <3> QED
      BY <3>1, <3>2
  <2> QED
    BY <2>1, <1>2 DEF Same, DataOf
<1> QED
  BY <1>4, QuietStep DEF ContractStep

(***************************************************************************)
(* mm_free, also as mm_realloc(p, 0)                                       *)
(***************************************************************************)
\* What FreeLemma says of the heap, for any block that is freed.
LEMMA FreeKeeps ==
    ASSUME NEW m, NEW brk, NEW L, Heap(m, brk, L), NEW p \in L, NEW f, f = MarkFree(m, p)
    PROVE  Preserves(W, m, Coalesce(f, p), L \ {p})
  BY FreeLemma DEF Heap

\* The block of id is gone; the others are where they were.
LEMMA FreeContract ==
    ASSUME ClientInv, NEW id \in Ids, pc = "idle", owned[id] # NULL,
           NEW f, f = MarkFree(mem, owned[id]), mem' = Coalesce(f, owned[id]),
           \A i \in Ids : owned'[i] = IF i = id THEN NULL ELSE owned[i],
           \A i \in Ids \ {id} : reqsize'[i] = reqsize[i],
           \/ pc' = "idle"
           \/ pc' = "return" /\ call'.id = id,
           UNCHANGED <<ptr, ret>>
    PROVE  ContractStep
<1>1. /\ HeapReady /\ ptr = NULL /\ ret = NULL
      /\ \A i \in Ids : /\ BlockOf(i) = owned[i]
                        /\ SizeOf(i) = IF owned[i] = NULL THEN 0 ELSE reqsize[i]
                        /\ BlockOf(i) # 0 => BlockOf(i) \in Live
  BY BetweenCalls
<1>2. owned[id] \in Live
  BY DEF Live
<1>3. Preserves(W, mem, mem', Live \ {owned[id]})
  BY <1>1, <1>2, HeapFacts, FreeKeeps
<1>4. ASSUME NEW i \in Ids \ {id} PROVE Same(i)
  <2>1. BlockOf(i)' = BlockOf(i) /\ SizeOf(i)' = SizeOf(i)
    BY <1>1, OtherNext
  <2>2. BlockOf(i) # 0 => BlockOf(i) \in Live \ {owned[id]}
    BY <1>1 DEF ClientInv, Distinct, NULL
  <2> QED
    BY <2>1, <2>2, <1>1, <1>3, DataKept
<1>5. BlockOf(id)' = 0
  <2>1. CASE pc' = "idle"
    BY <2>1, OtherNext DEF NULL
  <2>2. CASE pc' = "return" /\ call'.id = id
    BY <2>2, <1>1 DEF BlockOf, NULL
  <2> QED
    BY <2>1, <2>2
<1>6. BlockOf(id) # 0
  BY <1>1 DEF NULL
<1> QED
  BY <1>4, <1>5, <1>6, FreeStepIsFree DEF ContractStep

(***************************************************************************)
(* The end of mm_realloc                                                   *)
(***************************************************************************)
\* The words that fit in both sizes are at `to` of m2 as they were at ptr.
PrefixKept(m2, from, to, old, new) ==
    \A k \in Nat : k % WSIZE = 0 /\ k < old /\ k < new => m2[to + k] = mem[from + k]

\* The new block does not begin before the old payload ends: a copy that gets
\* the words right up to there gets all of them right.
LEMMA PrefixBefore ==
    ASSUME ClientInv, pc = "copy", NEW m2,
           \A k \in Nat :
              k < call.size /\ ret + k \in W /\ ptr + k \in W /\ (ret > ptr => k < ret - ptr) =>
                 m2[ret + k] = mem[ptr + k]
    PROVE  PrefixKept(m2, ptr, ret, reqsize[call.id], call.size)
<1>1. SUFFICES ASSUME NEW k \in Nat, k % WSIZE = 0, k < reqsize[call.id], k < call.size
               PROVE  m2[ret + k] = mem[ptr + k]
  BY DEF PrefixKept
<1>2. /\ HeapReady /\ ptr # NULL /\ ret \in Live /\ ptr \in Live
      /\ ret \in Nat /\ ret % 8 = 0 /\ ptr \in Nat /\ ptr % 8 = 0
      /\ GET_SIZE(mem, HDRP(ret)) \in Nat /\ GET_SIZE(mem, HDRP(ptr)) \in Nat
      /\ ret + GET_SIZE(mem, HDRP(ret)) <= mem_brk
      /\ ptr + GET_SIZE(mem, HDRP(ptr)) <= mem_brk
      /\ GET_SIZE(mem, HDRP(ret)) >= call.size + 8
      /\ Covers(W, mem_brk) /\ mem_brk \in Nat
      /\ call.size \in Nat /\ call.id \in Ids
  BY CopyFacts, CallType DEF Heap, NULL, Live
<1>3. reqsize[call.id] \in Nat /\ GET_SIZE(mem, HDRP(ptr)) >= reqsize[call.id] + 8
  BY <1>2 DEF ClientInv, ClientTypeOK, Capacity, Holds, DSIZE
<1>4. ptr < ret => ptr + GET_SIZE(mem, HDRP(ptr)) <= ret
  BY <1>2, BlockFacts
<1>5. /\ ret + k \in Nat /\ (ret + k) % 4 = 0 /\ ret + k < mem_brk
      /\ ptr + k \in Nat /\ (ptr + k) % 4 = 0 /\ ptr + k < mem_brk
  BY <1>1, <1>2, <1>3 DEF WSIZE
<1>6. ret + k \in W /\ ptr + k \in W
  BY <1>2, <1>5 DEF Covers
<1>7. ret > ptr => k < ret - ptr
  BY <1>1, <1>2, <1>3, <1>4
<1> QED
  BY <1>1, <1>6, <1>7

\* The new block has been written, the old one freed.
LEMMA CopyContract ==
    ASSUME ClientInv, ClientInv', pc = "copy", NEW n \in Nat,
           n + 8 <= GET_SIZE(mem, HDRP(ret)),
           NEW m, OnlyWrites(mem, m, ret, n),
           PrefixKept(m, ptr, ret, reqsize[call.id], call.size),
           NEW f, f = MarkFree(m, ptr), mem' = Coalesce(f, ptr),
           ptr' = NULL, pc' = "return", UNCHANGED <<owned, reqsize, call, ret>>
    PROVE  ContractStep
<1>1. PICK id : id = call.id
  OBVIOUS
<1>2. /\ HeapReady /\ HeapReady' /\ pc # "idle" /\ pc' # "idle"
      /\ ptr # NULL /\ ret # NULL /\ ptr # ret /\ ptr \in Live /\ ret \in Live
  BY CopyFacts DEF HeapReady, ClientInv, CallOK
<1>3. /\ id \in Ids
      /\ \A i \in Ids \ {id} : /\ BlockOf(i) = owned[i]
                               /\ BlockOf(i)' = BlockOf(i) /\ SizeOf(i)' = SizeOf(i)
      /\ BlockOf(id) = ptr /\ SizeOf(id) = reqsize[id]
      /\ BlockOf(id)' = ret /\ SizeOf(id)' = call.size
  BY <1>1, <1>2, DuringCall
<1>4. /\ Heap(m, mem_brk, Live)
      /\ \A q \in Live : GET_SIZE(m, HDRP(q)) = GET_SIZE(mem, HDRP(q))
  BY <1>2, WriteStep
<1>5. Preserves(W, mem, m, Live \ {ret})
  BY <1>2, WritesPreserve
<1>6. Preserves(W, m, mem', Live \ {ptr})
  BY <1>2, <1>4, FreeKeeps
<1>7. Preserves(W, mem, mem', Live \ {ptr, ret})
  <2>1. /\ Live \ {ptr, ret} \subseteq Live \ {ret} /\ Live \ {ptr, ret} \subseteq Live \ {ptr}
        /\ Live \ {ptr, ret} \subseteq Live
    OBVIOUS
  <2> QED
    BY <1>2, <1>5, <1>6, <2>1, PreservesBoth
<1>8. ASSUME NEW i \in Ids \ {id} PROVE Same(i)
  <2>1. BlockOf(i) # 0 => BlockOf(i) \in Live \ {ptr, ret}
    BY <1>2, <1>3, BlockOfFacts DEF ClientInv, Distinct, NULL
  <2> QED
    BY <2>1, <1>2, <1>3, <1>7, DataKept
<1>9. BlockOf(id) # 0 /\ BlockOf(id)' # 0
  BY <1>2, <1>3 DEF NULL
<1>10. AwayFrom(id) /\ BlockOf(id)' % 8 = 0
  BY <1>2, <1>3, <1>8, <1>9, ApartAfter
<1>11. ASSUME NEW k \in DOMAIN DataOf(id) \cap DOMAIN DataOf(id)'
       PROVE  DataOf(id)'[k] = DataOf(id)[k]
  <2>1. reqsize[id] \in Nat /\ call.size \in Nat
    BY <1>3, CallType DEF ClientInv, ClientTypeOK
  <2>2. /\ DataOf(id) = [j \in {j \in 0..(reqsize[id] - 1) : j % WSIZE = 0} |-> mem[ptr + j]]
        /\ DataOf(id)' = [j \in {j \in 0..(call.size - 1) : j % WSIZE = 0} |-> mem'[ret + j]]
    BY <1>3 DEF DataOf
  <2>3. k \in Nat /\ k % WSIZE = 0 /\ k < reqsize[id] /\ k < call.size
    BY <1>11, <2>1, <2>2
  <2>4. m[ret + k] = mem[ptr + k]
    BY <1>1, <2>3 DEF PrefixKept
  <2>5. mem'[ret + k] = m[ret + k]
    <3>1. /\ ret \in Nat /\ ret % 8 = 0 /\ ret >= 16 /\ GET_SIZE(mem, HDRP(ret)) \in Nat
          /\ ret + GET_SIZE(mem, HDRP(ret)) <= mem_brk
          /\ GET_SIZE(mem, HDRP(ret)) >= call.size + 8
      BY <1>2, BlockFacts, CopyFacts
    <3>2. GET_SIZE(m, ret - 4) = GET_SIZE(mem, HDRP(ret))
      BY <1>2, <1>4 DEF HDRP, WSIZE
    <3>3. Covers(W, mem_brk) /\ mem_brk \in Nat
      BY <1>4 DEF Heap
    <3> HIDE DEF W
    <3>4. /\ ret + k \in Nat /\ (ret + k) % 4 = 0 /\ ret + k < mem_brk
          /\ ret - 4 <= ret + k /\ ret + k < ret + GET_SIZE(m, ret - 4) - 4
      BY <2>1, <2>3, <3>1, <3>2, <3>3 DEF WSIZE
    <3>5. ret + k \in W
      BY <3>3, <3>4 DEF Covers
    <3> QED
      BY <1>2, <1>6, <3>4, <3>5 DEF Preserves
  <2> QED
    BY <1>11, <2>2, <2>4, <2>5
<1> QED
  BY <1>3, <1>8, <1>9, <1>10, <1>11, ResizeStep DEF ContractStep

\* mm_realloc returns the block it was given, larger than before or not.
LEMMA KeptContract ==
    ASSUME ClientInv, ClientInv', NEW id \in Ids, NEW size, owned[id] # NULL,
           CallStarts(id, size, owned[id]), size \in Nat,
           ret' = owned[id], pc' = "return", UNCHANGED <<reqsize, ptr>>,
           Preserves(W, mem, mem', Live \ {owned[id]}),
           PrefixKept(mem', owned[id], owned[id], reqsize[id], size)
    PROVE  ContractStep
<1>1. /\ pc = "idle" /\ call' = [id |-> id, size |-> size]
      /\ owned' = [owned EXCEPT ![id] = NULL]
  BY DEF CallStarts
<1>2. /\ HeapReady /\ ptr = NULL /\ ret = NULL
      /\ owned \in [Ids -> Nat] /\ reqsize \in [Ids -> Nat]
      /\ \A i \in Ids : /\ BlockOf(i) = owned[i]
                        /\ SizeOf(i) = IF owned[i] = NULL THEN 0 ELSE reqsize[i]
                        /\ BlockOf(i) # 0 => BlockOf(i) \in Live
  BY <1>1, BetweenCalls
<1>3. /\ HeapReady' /\ call'.id = id /\ call'.size = size /\ ptr' = NULL
      /\ \A i \in Ids : owned'[i] = IF i = id THEN NULL ELSE owned[i]
  BY <1>1, <1>2 DEF HeapReady
<1>4. ASSUME NEW i \in Ids \ {id} PROVE Same(i)
  <2>1. BlockOf(i)' = BlockOf(i) /\ SizeOf(i)' = SizeOf(i)
    BY <1>2, <1>3, OtherNext
  <2>2. BlockOf(i) # 0 => BlockOf(i) \in Live \ {owned[id]}
    BY <1>2 DEF ClientInv, Distinct, NULL
  <2> QED
    BY <2>1, <2>2, <1>2, DataKept
<1>5. BlockOf(id)' = owned[id] /\ SizeOf(id)' = size
  <2>1. BlockOf(id)' = owned[id]
    BY <1>3 DEF BlockOf
  <2> QED
    BY <2>1, <1>3 DEF SizeOf
<1>6. BlockOf(id) # 0 /\ BlockOf(id)' # 0 /\ BlockOf(id) = owned[id] /\ SizeOf(id) = reqsize[id]
  BY <1>2, <1>5 DEF NULL
<1>7. AwayFrom(id) /\ BlockOf(id)' % 8 = 0
  BY <1>3, <1>4, <1>6, ApartAfter
<1>8. ASSUME NEW k \in DOMAIN DataOf(id) \cap DOMAIN DataOf(id)'
      PROVE  DataOf(id)'[k] = DataOf(id)[k]
  <2>1. /\ DataOf(id) = [j \in {j \in 0..(reqsize[id] - 1) : j % WSIZE = 0}
                            |-> mem[owned[id] + j]]
        /\ DataOf(id)' = [j \in {j \in 0..(size - 1) : j % WSIZE = 0}
                            |-> mem'[owned[id] + j]]
    BY <1>5, <1>6 DEF DataOf
  <2>2. k \in Nat /\ k % WSIZE = 0 /\ k < reqsize[id] /\ k < size
    BY <1>2, <1>8, <2>1
  <2>3. mem'[owned[id] + k] = mem[owned[id] + k]
    BY <2>2 DEF PrefixKept
  <2> QED
    BY <1>8, <2>1, <2>3
<1> QED
  BY <1>4, <1>6, <1>7, <1>8, ResizeStep DEF ContractStep

\* mm_realloc grows the block in place, over the free block behind it.
LEMMA AbsorbContract ==
    ASSUME ClientInv, ClientInv', NEW id \in Ids, NEW size, owned[id] # NULL,
           CallStarts(id, size, owned[id]), size \in Nat,
           ret' = owned[id], pc' = "return", UNCHANGED <<reqsize, ptr>>,
           NEW next, next = NEXT_BLKP(mem, owned[id]), GET_ALLOC(mem, HDRP(next)) = 0,
           NEW n, n = GET_SIZE(mem, HDRP(owned[id])) + GET_SIZE(mem, HDRP(next)),
           mem' = Mark(mem, owned[id], n, 1)
    PROVE  ContractStep
<1> DEFINE p == owned[id]
<1>1. /\ HeapReady /\ p \in Live /\ reqsize[id] \in Nat /\ Heap(mem, mem_brk, Live)
  BY BetweenCalls, HeapFacts DEF Live, CallStarts
<1>2. Absorbed(W, mem, mem', mem_brk, Live, p, next)
  BY <1>1, AbsorbLemma DEF Heap
<1>3. Preserves(W, mem, mem', Live \ {p})
  BY <1>2 DEF Absorbed
<1>4. PrefixKept(mem', p, p, reqsize[id], size)
  <2>1. SUFFICES ASSUME NEW k \in Nat, k % WSIZE = 0, k < reqsize[id]
                 PROVE  mem'[p + k] = mem[p + k]
    BY DEF PrefixKept
  <2>2. /\ p \in Nat /\ p % 8 = 0 /\ GET_SIZE(mem, HDRP(p)) \in Nat
        /\ p + GET_SIZE(mem, HDRP(p)) <= mem_brk
    BY <1>1, BlockFacts
  <2>3. GET_SIZE(mem, HDRP(p)) >= reqsize[id] + 8
    BY <1>1 DEF ClientInv, Capacity, Holds, DSIZE
  <2>4. Covers(W, mem_brk) /\ mem_brk \in Nat
    BY <1>1 DEF Heap
  <2> HIDE DEF W, p
  <2>5. /\ p + k \in Nat /\ (p + k) % 4 = 0 /\ p + k < mem_brk
        /\ p <= p + k /\ p + k < p + GET_SIZE(mem, HDRP(p)) - 8
    BY <1>1, <2>1, <2>2, <2>3, <2>4 DEF WSIZE
  <2>6. p + k \in W
    BY <2>4, <2>5 DEF Covers
  <2> QED
    BY <1>2, <2>5, <2>6 DEF Absorbed
<1> QED
  BY <1>3, <1>4, KeptContract

(***************************************************************************)
(* The end of a call                                                       *)
(***************************************************************************)
\* The client fills the block it got, or has what it had.
LEMMA ReturnContract ==
    ASSUME ClientInv, Return
    PROVE  ContractStep
<1>1. PICK id : id = call.id
  OBVIOUS
<1>2. /\ pc = "return" /\ pc' = "idle"
      /\ owned' = [owned EXCEPT ![id] = IF ret # NULL THEN ret ELSE ptr]
      /\ reqsize' = [reqsize EXCEPT ![id] = IF ret # NULL THEN call.size
                                            ELSE IF ptr # NULL THEN reqsize[id] ELSE 0]
      /\ mem' = IF ret # NULL THEN memset(mem, ret, Fill[id], call.size) ELSE mem
  BY <1>1 DEF Return, Returns
<1>3. /\ HeapReady /\ id \in Ids /\ owned[id] = NULL /\ call.size \in Nat
      /\ ptr = NULL \/ ret = NULL
      /\ owned \in [Ids -> Nat] /\ reqsize \in [Ids -> Nat]
      /\ ret \in Nat /\ Fill[id] \in Nat
  BY <1>1, <1>2, CallType, ClientAssumption
     DEF HeapReady, ClientInv, ClientTypeOK, CallOK
<1>4. \A i \in Ids : /\ owned'[i] = IF i # id THEN owned[i] ELSE IF ret # NULL THEN ret ELSE ptr
                     /\ reqsize'[i] = IF i # id THEN reqsize[i]
                                      ELSE IF ret # NULL THEN call.size
                                      ELSE IF ptr # NULL THEN reqsize[id] ELSE 0
  BY <1>2, <1>3
<1>5. /\ BlockOf(id) = IF ptr # NULL THEN ptr ELSE ret
      /\ SizeOf(id) = IF ptr # NULL THEN reqsize[id] ELSE IF ret # NULL THEN call.size ELSE 0
      /\ \A i \in Ids \ {id} : /\ BlockOf(i) = owned[i]
                               /\ SizeOf(i) = IF owned[i] = NULL THEN 0 ELSE reqsize[i]
  BY <1>1, <1>2, <1>3, BlockOfCall, BlockOfOther
<1>6. \A i \in Ids : /\ BlockOf(i)' = owned'[i]
                     /\ SizeOf(i)' = IF owned'[i] = NULL THEN 0 ELSE reqsize'[i]
  BY <1>2, OtherNext
<1>7. \A i \in Ids : BlockOf(i)' = BlockOf(i) /\ SizeOf(i)' = SizeOf(i)
  BY <1>3, <1>4, <1>5, <1>6
<1>8. CASE ret = NULL
  <2>1. \A i \in Ids : Same(i)
    BY <1>2, <1>7, <1>8 DEF Same, DataOf
  <2> QED
    BY <2>1, QuietStep DEF ContractStep
<1>9. CASE ret # NULL
  <2>1. ret \in Live /\ call.size + 8 <= GET_SIZE(mem, HDRP(ret))
    <3>1. ret \in Live /\ GET_SIZE(mem, HDRP(ret)) >= call.size + 8
      BY <1>3, <1>9 DEF Live, ClientInv, Capacity, Holds, DSIZE
    <3>2. GET_SIZE(mem, HDRP(ret)) \in Nat
      BY <1>3, <3>1, BlockFacts
    <3> QED
      BY <1>3, <3>1, <3>2
  <2>2. OnlyWrites(mem, mem', ret, call.size)
    <3>1. mem \in [W -> Nat]
      BY <1>3, HeapFacts DEF Heap
    <3> QED
      BY <1>2, <1>3, <1>9, <3>1, memsetOK
  <2>3. Preserves(W, mem, mem', Live \ {ret})
    BY <1>3, <2>1, <2>2, WritesPreserve
  <2>4. ASSUME NEW i \in Ids \ {id} PROVE Same(i)
    <3>1. BlockOf(i) # 0 => BlockOf(i) \in Live \ {ret}
      BY <1>3, <1>5, BlockOfFacts DEF ClientInv, Distinct, NULL
    <3> QED
      BY <3>1, <1>3, <1>7, <2>3, DataKept
  <2>5. BlockOf(id) # 0
    BY <1>3, <1>5, <1>9 DEF NULL
  <2> QED
    BY <1>2, <1>3, <1>7, <2>4, <2>5, WriteStepIsWrite DEF ContractStep
<1> QED
  BY <1>8, <1>9

(***************************************************************************)
(* mm_init, and the first state                                            *)
(***************************************************************************)
LEMMA InitContract ==
    ASSUME ClientInv, pc = "init", pc' \in {"idle", "failed"}, UNCHANGED owned
    PROVE  ContractStep
<1>1. \A i \in Ids : owned[i] = 0
  BY DEF ClientInv, CallOK, NULL
<1>2. \A i \in Ids : BlockOf(i)' = 0
  BY <1>1, OtherNext DEF HeapReady
<1> QED
  BY <1>2, ForgetStep DEF ContractStep

LEMMA NewTraceContract ==
    ASSUME NewTrace
    PROVE  ContractStep
<1>1. \A i \in Ids : BlockOf(i)' = 0
  BY OtherNext DEF NewTrace, HeapReady, NULL
<1> QED
  BY <1>1, ForgetStep DEF ContractStep

LEMMA StutterContract ==
    ASSUME UNCHANGED memVars, UNCHANGED clientVars
    PROVE  ContractStep
<1>1. \A i \in Ids : Same(i)
  BY DEF Same, DataOf, SizeOf, BlockOf, HeapReady, memVars, clientVars
<1> QED
  BY <1>1, QuietStep DEF ContractStep

LEMMA ContractInit ==
    ASSUME ClientInit
    PROVE  Contract!Init
<1>1. \A i \in Ids : BlockOf(i) = 0 /\ SizeOf(i) = 0
  BY DEF ClientInit, BlockOf, SizeOf, HeapReady, NULL
<1> QED
  BY <1>1 DEF Contract!Init

\* memcpy of the smaller of the two sizes, or of all the old payload.
LEMMA memcpyPrefix ==
    ASSUME ClientInv, pc = "copy",
           NEW n, n = LET payload == GET_SIZE(mem, HDRP(ptr)) - DSIZE
                      IN  IF call.size < payload THEN call.size ELSE payload
    PROVE  PrefixKept(memcpy(mem, ret, ptr, n), ptr, ret, reqsize[call.id], call.size)
<1>1. SUFFICES ASSUME NEW k \in Nat, k % WSIZE = 0, k < reqsize[call.id], k < call.size
               PROVE  memcpy(mem, ret, ptr, n)[ret + k] = mem[ptr + k]
  BY DEF PrefixKept
<1>2. /\ HeapReady /\ ptr # NULL /\ ret \in Live /\ ptr \in Live
      /\ ret \in Nat /\ ret % 8 = 0 /\ ptr \in Nat
      /\ GET_SIZE(mem, HDRP(ret)) \in Nat /\ GET_SIZE(mem, HDRP(ptr)) \in Nat
      /\ ret + GET_SIZE(mem, HDRP(ret)) <= mem_brk
      /\ GET_SIZE(mem, HDRP(ret)) >= call.size + 8
      /\ mem \in [W -> Nat] /\ Covers(W, mem_brk) /\ mem_brk \in Nat
      /\ call.size \in Nat /\ call.id \in Ids
  BY CopyFacts, CallType DEF Heap, NULL, Live
<1>3. reqsize[call.id] \in Nat /\ GET_SIZE(mem, HDRP(ptr)) >= reqsize[call.id] + 8
  BY <1>2 DEF ClientInv, ClientTypeOK, Capacity, Holds, DSIZE
<1>4. n \in Nat /\ k < n
  BY <1>1, <1>2, <1>3 DEF DSIZE
<1> DEFINE a == ret + k
<1>5. a \in Nat /\ a % 4 = 0 /\ a < mem_brk /\ ret <= a /\ a < ret + n /\ a - ret = k
  BY <1>1, <1>2, <1>4 DEF WSIZE
<1>6. a \in DOMAIN mem
  BY <1>2, <1>5 DEF Covers
<1> HIDE DEF a
<1>7. memcpy(mem, ret, ptr, n)[a] = mem[ptr + (a - ret)]
  BY <1>5, <1>6 DEF memcpy
<1> QED
  BY <1>5, <1>7 DEF a

(***************************************************************************)
(* What an allocator can see of the storage.  Two heaps with the same      *)
(* break whose allocated blocks have the same sizes are alike: they have   *)
(* the same blocks and the same headers, whatever else their words hold.   *)
(***************************************************************************)
Alike(m, m2, brk, L) ==
    /\ Heap(m, brk, L) /\ Heap(m2, brk, L)
    /\ \A q \in L : GET_SIZE(m, HDRP(q)) = GET_SIZE(m2, HDRP(q))

LEMMA SameBlocks ==
    ASSUME NEW m, NEW m2, NEW brk, NEW L, Alike(m, m2, brk, L)
    PROVE  BlocksOf(m, brk, L) = BlocksOf(m2, brk, L)
<1>1. \A q \in L : NEXT_BLKP(m, q) = NEXT_BLKP(m2, q)
  BY DEF Alike, NEXT_BLKP, HDRP
<1>2. {NEXT_BLKP(m, p) : p \in L} = {NEXT_BLKP(m2, p) : p \in L}
  BY <1>1
<1> QED
  BY <1>2 DEF BlocksOf

\* In one of the two heaps a block does not end before it does in the other.
LEMMA NotShorter ==
    ASSUME NEW m, NEW m2, NEW brk, NEW L, Alike(m, m2, brk, L),
           NEW b \in BlocksOf(m, brk, L)
    PROVE  NEXT_BLKP(m2, b) <= NEXT_BLKP(m, b)
<1> DEFINE B == BlocksOf(m, brk, L)
<1>1. B = BlocksOf(m2, brk, L)
  BY SameBlocks
<1>2. /\ m \in [W -> Nat] /\ m2 \in [W -> Nat] /\ brk \in Nat /\ brk % 8 = 0
      /\ L \in SUBSET Nat /\ Covers(W, brk)
      /\ WellFormed(m, brk, L) /\ WellFormed(m2, brk, L)
  BY DEF Alike, Heap
<1>3. /\ NEXT_BLKP(m, b) \in B \cup {brk} /\ b < NEXT_BLKP(m, b)
  BY <1>2, WellFormedBlocks
<1>4. /\ \A x, c \in B : x < c => NEXT_BLKP(m2, x) <= c
      /\ NEXT_BLKP(m2, b) <= brk
  BY <1>1, <1>2, WellFormedBlocks
<1> HIDE DEF B
<1> QED
  BY <1>3, <1>4 DEF B

\* What the macros read at a block, at the prologue (8) and at the epilogue.
LEMMA SameHeaders ==
    ASSUME NEW m, NEW m2, NEW brk, NEW L, Alike(m, m2, brk, L),
           NEW b \in BlocksOf(m, brk, L) \cup {8, brk}
    PROVE  /\ m[b - 4] = m2[b - 4]
           /\ GET_SIZE(m, HDRP(b)) = GET_SIZE(m2, HDRP(b))
           /\ GET_ALLOC(m, HDRP(b)) = GET_ALLOC(m2, HDRP(b))
           /\ NEXT_BLKP(m, b) = NEXT_BLKP(m2, b)
           /\ \A a : Fits(m, b, a) <=> Fits(m2, b, a)
<1> DEFINE B == BlocksOf(m, brk, L)
<1>1. B = BlocksOf(m2, brk, L)
  BY SameBlocks
<1>2. /\ m \in [W -> Nat] /\ m2 \in [W -> Nat] /\ brk \in Nat /\ brk % 8 = 0
      /\ L \in SUBSET Nat /\ Covers(W, brk)
      /\ WellFormed(m, brk, L) /\ WellFormed(m2, brk, L)
  BY DEF Alike, Heap
<1>3. m[b - 4] = m2[b - 4]
  <2>1. CASE b \in B
    <3>1. /\ b \in Nat /\ b - 4 \in W /\ GET_SIZE(m, b - 4) \in Nat
          /\ NEXT_BLKP(m, b) = b + GET_SIZE(m, b - 4)
          /\ Layout(m, brk, B) /\ AllocOK(m, B, L)
      BY <1>2, <2>1, WellFormedBlocks
    <3>2. /\ GET_SIZE(m2, b - 4) \in Nat
          /\ NEXT_BLKP(m2, b) = b + GET_SIZE(m2, b - 4)
          /\ Layout(m2, brk, B) /\ AllocOK(m2, B, L)
      BY <1>1, <1>2, <2>1, WellFormedBlocks
    <3>3. NEXT_BLKP(m, b) = NEXT_BLKP(m2, b)
      <4>1. Alike(m2, m, brk, L)
        BY DEF Alike
      <4>2. NEXT_BLKP(m2, b) <= NEXT_BLKP(m, b) /\ NEXT_BLKP(m, b) <= NEXT_BLKP(m2, b)
        BY <1>1, <2>1, <4>1, NotShorter
      <4> QED
        BY <3>1, <3>2, <4>2
    <3>4. m[b - 4] - (m[b - 4] % 8) = m2[b - 4] - (m2[b - 4] % 8)
      BY <3>1, <3>2, <3>3 DEF GET_SIZE
    <3>5. m[b - 4] \in Nat /\ m2[b - 4] \in Nat
      BY <1>2, <3>1
    <3>6. m[b - 4] % 8 \in {0, 1} /\ m2[b - 4] % 8 \in {0, 1}
      BY <2>1, <3>1, <3>2 DEF Layout, BlockOK, HDRP, WSIZE
    <3>7. m[b - 4] % 2 = 1 <=> m2[b - 4] % 2 = 1
      BY <2>1, <3>1, <3>2 DEF AllocOK, GET_ALLOC, HDRP, WSIZE
    <3>8. \A x \in Nat : (x % 8 = 0 => x % 2 = 0) /\ (x % 8 = 1 => x % 2 = 1)
      OBVIOUS
    <3>9. m[b - 4] % 8 = m2[b - 4] % 8
      BY <3>5, <3>6, <3>7, <3>8
    <3> QED
      BY <3>4, <3>5, <3>9
  <2>2. CASE b \in {8, brk}
    <3>1. SentinelsOK(m, brk) /\ SentinelsOK(m2, brk)
      BY <1>2 DEF WellFormed, Tiling, Layout
    <3> QED
      BY <2>2, <3>1 DEF SentinelsOK, WSIZE, DSIZE, PACK
  <2> QED
    BY <2>1, <2>2
<1> QED
  BY <1>3 DEF GET_SIZE, GET_ALLOC, HDRP, NEXT_BLKP, WSIZE, Fits

\* The block that ends where the block (or the epilogue) e begins.
Before(m, brk, L, e) == CHOOSE q \in BlocksOf(m, brk, L) : NEXT_BLKP(m, q) = e

\* Where coalesce puts the free block e: the words before it decide.
MergedAt(m, brk, L, e) ==
    IF e = 16 \/ Before(m, brk, L, e) \in L THEN e ELSE Before(m, brk, L, e)

LEMMA BeforeFacts ==
    ASSUME NEW m, NEW brk, NEW L, Heap(m, brk, L),
           NEW e \in BlocksOf(m, brk, L) \cup {brk}, e # 16,
           NEW q, q = Before(m, brk, L, e)
    PROVE  /\ q \in BlocksOf(m, brk, L) /\ NEXT_BLKP(m, q) = e
           /\ PREV_BLKP(m, e) = q
<1> DEFINE B == BlocksOf(m, brk, L)
           p == PREV_BLKP(m, e)
<1>1. /\ m \in [W -> Nat] /\ brk \in Nat /\ brk % 8 = 0
      /\ L \in SUBSET Nat /\ Covers(W, brk) /\ WellFormed(m, brk, L)
  BY DEF Heap
<1>2. /\ Layout(m, brk, B)
      /\ \A b \in B : b \in Nat /\ NEXT_BLKP(m, b) \in B \cup {brk} /\ b < NEXT_BLKP(m, b)
      /\ \A b, c \in B : b < c => NEXT_BLKP(m, b) <= c
  BY <1>1, WellFormedBlocks
<1>3. p \in B /\ NEXT_BLKP(m, p) = e
  BY <1>2 DEF Layout, ChainOK, FirstBlock
<1>4. q \in B /\ NEXT_BLKP(m, q) = e
  BY <1>3 DEF Before
<1> HIDE DEF B, p
<1>5. p \in Nat /\ q \in Nat /\ e \in Nat /\ p < e /\ q < e
  BY <1>1, <1>2, <1>3, <1>4
<1>6. ~(p < q) /\ ~(q < p)
  BY <1>2, <1>3, <1>4, <1>5
<1>7. p = q
  BY <1>5, <1>6
<1> QED
  BY <1>4, <1>7 DEF B, p

LEMMA MergesAt ==
    ASSUME NEW m, NEW brk, NEW L, Heap(m, brk, L),
           NEW e \in BlocksOf(m, brk, L) \cup {brk},
           NEW f, \A a \in W : a < e - 4 => f[a] = m[a]
    PROVE  /\ CoalescedBp(f, e) = MergedAt(m, brk, L, e)
           /\ PrevAlloc(f, e) <=> e = 16 \/ Before(m, brk, L, e) \in L
           /\ e # 16 => PREV_BLKP(f, e) = Before(m, brk, L, e)
<1> DEFINE B == BlocksOf(m, brk, L)
<1>1. /\ m \in [W -> Nat] /\ brk \in Nat /\ brk % 8 = 0
      /\ L \in SUBSET Nat /\ Covers(W, brk) /\ WellFormed(m, brk, L)
  BY DEF Heap
<1>2. /\ Layout(m, brk, B) /\ AllocOK(m, B, L) /\ 16 \in B
      /\ \A b \in B : /\ b \in Nat /\ b >= 16 /\ b + 16 <= brk
                      /\ b - 4 \in W
                      /\ GET_SIZE(m, b - 4) \in Nat /\ GET_SIZE(m, b - 4) >= 16
                      /\ b + GET_SIZE(m, b - 4) - 8 \in W
                      /\ NEXT_BLKP(m, b) = b + GET_SIZE(m, b - 4)
  BY <1>1, WellFormedBlocks
<1>3. CASE e = 16
  <2>1. 8 \in W /\ m[8] = 9
    BY <1>1, <1>2 DEF Covers, Layout, SentinelsOK, DSIZE, PACK
  <2>2. f[8] = 9
    BY <2>1, <1>3
  <2>3. PREV_BLKP(f, 16) = 8 /\ PrevAlloc(f, 16)
    <3>1. PREV_BLKP(f, 16) = 8
      BY <2>2 DEF PREV_BLKP, GET_SIZE, DSIZE
    <3>2. FTRP(f, 8) = 8
      <4>1. 4 \in W /\ m[4] = 9
        BY <1>1, <1>2 DEF Covers, Layout, SentinelsOK, DSIZE, WSIZE, PACK
      <4>2. f[4] = 9
        BY <4>1, <1>3
      <4> QED
        BY <4>2 DEF FTRP, HDRP, GET_SIZE, DSIZE, WSIZE
    <3> QED
      BY <2>2, <3>1, <3>2 DEF PrevAlloc, GET_ALLOC
  <2> QED
    BY <1>3, <2>3 DEF CoalescedBp, MergedAt
<1>4. CASE e # 16
  <2> DEFINE q == Before(m, brk, L, e)
  <2>1. q \in B /\ NEXT_BLKP(m, q) = e /\ PREV_BLKP(m, e) = q
    BY <1>4, BeforeFacts
  <2> HIDE DEF B
  <2>2. /\ q \in Nat /\ q - 4 \in W /\ GET_SIZE(m, q - 4) \in Nat
        /\ GET_SIZE(m, q - 4) >= 16
        /\ e = q + GET_SIZE(m, q - 4) /\ e - 8 \in W /\ e \in Nat
    BY <1>2, <2>1
  <2>3. m[e - 8] = m[q - 4]
    <3>1. m[FTRP(m, q)] = m[HDRP(q)]
      BY <1>2, <2>1 DEF Layout, BlockOK
    <3> HIDE DEF q
    <3> QED
      BY <2>2, <3>1 DEF FTRP, HDRP, DSIZE, WSIZE
  <2>4. f[e - 8] = m[e - 8] /\ f[q - 4] = m[q - 4]
    <3> HIDE DEF q
    <3> QED
      BY <2>2
  <2>5. PREV_BLKP(f, e) = q
    BY <2>1, <2>4 DEF PREV_BLKP, GET_SIZE, DSIZE
  <2>6. FTRP(f, q) = e - 8
    <3>1. GET_SIZE(f, q - 4) = GET_SIZE(m, q - 4)
      BY <2>4 DEF GET_SIZE
    <3> HIDE DEF q
    <3> QED
      BY <2>2, <3>1 DEF FTRP, HDRP, DSIZE, WSIZE
  <2>7. PrevAlloc(f, e) <=> GET_ALLOC(m, HDRP(q)) = 1
    BY <2>3, <2>4, <2>5, <2>6 DEF PrevAlloc, GET_ALLOC, HDRP, WSIZE
  <2>8. PrevAlloc(f, e) <=> q \in L
    BY <2>1, <2>7, <1>2 DEF AllocOK
  <2> QED
    BY <1>4, <2>5, <2>8 DEF CoalescedBp, MergedAt
<1> QED
  BY <1>3, <1>4

LEMMA SameMerge ==
    ASSUME NEW m, NEW m2, NEW brk, NEW L, Alike(m, m2, brk, L),
           NEW e \in BlocksOf(m, brk, L) \cup {brk}
    PROVE  /\ MergedAt(m, brk, L, e) = MergedAt(m2, brk, L, e)
           /\ Before(m, brk, L, e) = Before(m2, brk, L, e)
<1>1. BlocksOf(m, brk, L) = BlocksOf(m2, brk, L)
  BY SameBlocks
<1>2. \A b \in BlocksOf(m, brk, L) : NEXT_BLKP(m, b) = NEXT_BLKP(m2, b)
  BY SameHeaders
<1>3. Before(m, brk, L, e) = Before(m2, brk, L, e)
  BY <1>1, <1>2 DEF Before
<1> QED
  BY <1>3 DEF MergedAt

\* Freeing the same block of two heaps that are alike moves the rover alike.
LEMMA SameFree ==
    ASSUME NEW m, NEW m2, NEW brk, NEW L, Alike(m, m2, brk, L), NEW p \in L
    PROVE  CoalescedBp(MarkFree(m, p), p) = CoalescedBp(MarkFree(m2, p), p)
<1>1. ASSUME NEW x, Heap(x, brk, L)
      PROVE  CoalescedBp(MarkFree(x, p), p) = MergedAt(x, brk, L, p)
  <2> DEFINE f == MarkFree(x, p)
  <2>1. /\ x \in [W -> Nat] /\ brk \in Nat /\ brk % 8 = 0
        /\ L \in SUBSET Nat /\ Covers(W, brk) /\ WellFormed(x, brk, L)
    BY <1>1 DEF Heap
  <2>2. /\ p \in BlocksOf(x, brk, L) /\ p \in Nat
        /\ GET_SIZE(x, p - 4) \in Nat /\ GET_SIZE(x, p - 4) >= 16
        /\ p - 4 \in W /\ p + GET_SIZE(x, p - 4) - 8 \in W
    BY <2>1, WellFormedBlocks
  <2> DEFINE s == GET_SIZE(x, p - 4)
  <2>3. s \in Nat /\ s % 8 = 0 /\ s >= 16
    BY <2>1, <2>2, SizeType
  <2>4. f = Mark(x, p, s, 0)
    BY DEF MarkFree, HDRP, WSIZE
  <2> HIDE DEF s, f
  <2>5. Slot(W, p, p + s) /\ s = (p + s) - p /\ 0 \in {0, 1}
    BY <2>2, <2>3 DEF Slot, s
  <2>6. Tagged(W, x, f, p, p + s, s + 0)
    BY <2>1, <2>4, <2>5, MarkBlock
  <2>7. \A a \in W : a < p - 4 => f[a] = x[a]
    <3>1. W \subseteq Nat
      BY MemlibAssumption DEF W, WordAddr
    <3> QED
      BY <2>2, <2>3, <2>6, <3>1 DEF Tagged
  <2> QED
    BY <1>1, <2>2, <2>7, MergesAt DEF f
<1>2. p \in BlocksOf(m, brk, L)
  <2>1. /\ m \in [W -> Nat] /\ brk \in Nat /\ brk % 8 = 0
        /\ L \in SUBSET Nat /\ Covers(W, brk) /\ WellFormed(m, brk, L)
    BY DEF Alike, Heap
  <2> QED
    BY <2>1, WellFormedBlocks
<1>3. MergedAt(m, brk, L, p) = MergedAt(m2, brk, L, p)
  BY <1>2, SameMerge
<1> QED
  BY <1>1, <1>3 DEF Alike

\* The free block that extend_heap and coalesce make, and its size.
LEMMA GrownSize ==
    ASSUME NEW m, NEW brk, NEW L, Heap(m, brk, L),
           NEW size, BlockSize(size), Covers(W, brk + size),
           NEW n, n = NewBlock(m, brk, size), NEW b, b = CoalescedBp(n, brk)
    PROVE  /\ b = MergedAt(m, brk, L, brk)
           /\ b # brk => b \in BlocksOf(m, brk, L)
           /\ GET_SIZE(Coalesce(n, brk), HDRP(b)) =
                 IF b = brk THEN size ELSE size + GET_SIZE(m, HDRP(b))
<1> DEFINE B == BlocksOf(m, brk, L)
           top == brk + size
           q == Before(m, brk, L, brk)
<1>1. /\ m \in [W -> Nat] /\ brk \in Nat /\ brk % 8 = 0
      /\ L \in SUBSET Nat /\ Covers(W, brk) /\ WellFormed(m, brk, L)
      /\ size \in Nat /\ size % 8 = 0 /\ size >= 16
  BY DEF Heap, BlockSize
<1>2. /\ 16 \in B
      /\ \A x \in B : /\ x \in Nat /\ x >= 16 /\ x + 16 <= brk /\ x - 4 \in W
                      /\ GET_SIZE(m, x - 4) \in Nat /\ GET_SIZE(m, x - 4) % 8 = 0
                      /\ GET_SIZE(m, x - 4) >= 16
                      /\ NEXT_BLKP(m, x) = x + GET_SIZE(m, x - 4)
  BY <1>1, WellFormedBlocks
<1>3. brk - 4 \in W /\ top - 8 \in W /\ top - 4 \in W /\ brk >= 32 /\ top \in Nat /\ top % 8 = 0
  <2>1. brk >= 32
    BY <1>1, <1>2
  <2> QED
    BY <1>1, <2>1 DEF Covers
<1>4. Grown(W, m, n, brk, top)
  <2>1. brk >= 16 /\ top = brk + size
    BY <1>1, <1>3
  <2> HIDE DEF top
  <2> QED
    BY <1>1, <1>3, <2>1, NewBlockWords
<1>5. /\ NEXT_BLKP(n, brk) = top /\ GET_SIZE(n, brk - 4) = size
      /\ n[top - 4] = 1 /\ n \in [W -> Nat]
      /\ \A a \in W : a < brk - 4 => n[a] = m[a]
  BY <1>1, <1>3, <1>4, GrownBlock DEF Grown
<1>6. /\ b = MergedAt(m, brk, L, brk)
      /\ PrevAlloc(n, brk) <=> q \in L
      /\ PREV_BLKP(n, brk) = q
      /\ q \in B /\ NEXT_BLKP(m, q) = brk
  <2>1. brk # 16 /\ brk \in B \cup {brk}
    BY <1>1, <1>3
  <2>2. /\ CoalescedBp(n, brk) = MergedAt(m, brk, L, brk)
        /\ PrevAlloc(n, brk) <=> brk = 16 \/ q \in L
        /\ brk # 16 => PREV_BLKP(n, brk) = q
    BY <1>5, MergesAt
  <2>3. q \in B /\ NEXT_BLKP(m, q) = brk
    BY <2>1, BeforeFacts
  <2> QED
    BY <2>1, <2>2, <2>3
<1>7. NextAlloc(n, brk)
  BY <1>5 DEF NextAlloc, HDRP, WSIZE, GET_ALLOC
<1>8. CASE q \in L
  <2>1. b = brk /\ Coalesce(n, brk) = n
    BY <1>3, <1>6, <1>7, <1>8 DEF MergedAt, Coalesce
  <2> QED
    BY <1>5, <1>6, <2>1 DEF HDRP, WSIZE
<1>9. CASE q \notin L
  <2> HIDE DEF B, q
  <2>1. /\ q \in Nat /\ q # brk /\ q - 4 \in W /\ q - 4 < brk - 4
        /\ GET_SIZE(m, q - 4) \in Nat /\ GET_SIZE(m, q - 4) % 8 = 0
    BY <1>1, <1>2, <1>6
  <2>2. b = q
    <3>1. b = Before(m, brk, L, brk)
      BY <1>3, <1>6, <1>9 DEF MergedAt, q
    <3> QED
      BY <3>1 DEF q
  <2>3. GET_SIZE(n, q - 4) = GET_SIZE(m, q - 4)
    BY <1>5, <2>1 DEF GET_SIZE
  <2> DEFINE s == size + GET_SIZE(m, q - 4)
  <2>4. Coalesce(n, brk) = PUT(PUT(n, q - 4, s), FTRP(n, brk), s)
    BY <1>5, <1>6, <1>7, <1>9, <2>3 DEF Coalesce, HDRP, WSIZE
  <2>5. FTRP(n, brk) = top - 8
    BY <1>1, <1>5 DEF FTRP, HDRP, WSIZE, DSIZE
  <2>6. s \in Nat /\ s % 8 = 0
    BY <1>1, <2>1
  <2>7. top - 8 # q - 4
    BY <1>1, <2>1
  <2> HIDE DEF s, top
  <2>8. Coalesce(n, brk)[q - 4] = s
    BY <1>5, <2>1, <2>4, <2>5, <2>7 DEF PUT
  <2>9. GET_SIZE(Coalesce(n, brk), q - 4) = s
    BY <2>6, <2>8 DEF GET_SIZE
  <2> QED
    BY <1>6, <2>1, <2>2, <2>9 DEF HDRP, WSIZE, s, B
<1> QED
  BY <1>8, <1>9

\* Two heaps that are alike grow alike.
LEMMA SameExtend ==
    ASSUME NEW m, NEW m2, NEW brk, NEW L, Alike(m, m2, brk, L),
           NEW size, BlockSize(size), Covers(W, brk + size),
           NEW n, n = NewBlock(m, brk, size), NEW n2, n2 = NewBlock(m2, brk, size)
    PROVE  /\ CoalescedBp(n, brk) = CoalescedBp(n2, brk)
           /\ GET_SIZE(Coalesce(n, brk), HDRP(CoalescedBp(n, brk))) =
              GET_SIZE(Coalesce(n2, brk), HDRP(CoalescedBp(n2, brk)))
<1> DEFINE b == CoalescedBp(n, brk)
           b2 == CoalescedBp(n2, brk)
<1>1. Heap(m, brk, L) /\ Heap(m2, brk, L)
  BY DEF Alike
<1>2. /\ b = MergedAt(m, brk, L, brk)
      /\ b # brk => b \in BlocksOf(m, brk, L)
      /\ GET_SIZE(Coalesce(n, brk), HDRP(b)) =
            IF b = brk THEN size ELSE size + GET_SIZE(m, HDRP(b))
  BY <1>1, GrownSize
<1>3. /\ b2 = MergedAt(m2, brk, L, brk)
      /\ GET_SIZE(Coalesce(n2, brk), HDRP(b2)) =
            IF b2 = brk THEN size ELSE size + GET_SIZE(m2, HDRP(b2))
  BY <1>1, GrownSize
<1>4. b = b2
  BY <1>2, <1>3, SameMerge
<1>5. b # brk => GET_SIZE(m, HDRP(b)) = GET_SIZE(m2, HDRP(b))
  BY <1>2, SameHeaders
<1> HIDE DEF b, b2
<1>6. GET_SIZE(Coalesce(n, brk), HDRP(b)) = GET_SIZE(Coalesce(n2, brk), HDRP(b2))
  BY <1>2, <1>3, <1>4, <1>5
<1> QED
  BY <1>4, <1>6 DEF b, b2

\* The size of the block that place leaves allocated.
PlacedSize(csize, a) == IF Splits(csize, a) THEN a ELSE csize

LEMMA PlaceSize ==
    ASSUME NEW m, NEW brk, NEW L, Heap(m, brk, L), NEW a, BlockSize(a),
           NEW b \in BlocksOf(m, brk, L), Fits(m, b, a)
    PROVE  GET_SIZE(Place(m, b, a), HDRP(b)) = PlacedSize(GET_SIZE(m, HDRP(b)), a)
<1> DEFINE p == Place(m, b, a)
           s == GET_SIZE(m, b - 4)
<1>1. /\ m \in [W -> Nat] /\ brk \in Nat /\ brk % 8 = 0 /\ L \in SUBSET Nat
      /\ Covers(W, brk) /\ WellFormed(m, brk, L)
      /\ a \in Nat /\ a % 8 = 0 /\ a >= 16
  BY DEF Heap, BlockSize
<1>2. /\ b \in Nat /\ b >= 16 /\ b - 4 \in W /\ s \in Nat /\ s % 8 = 0 /\ s >= 16
      /\ b + s - 8 \in W
  BY <1>1, WellFormedBlocks
<1>3. p \in [W -> Nat]
  BY <1>1, PlaceLemma
<1>4. CASE Splits(s, a)
  <2>1. SplitOff(p, brk, b, a)
    BY <1>1, <1>4, PlaceLemma DEF HDRP, WSIZE
  <2>2. b + GET_SIZE(p, b - 4) = b + a
    BY <2>1 DEF SplitOff, NEXT_BLKP, WSIZE
  <2>3. GET_SIZE(p, b - 4) \in Nat
    BY <1>2, <1>3, SizeType
  <2> HIDE DEF p, s
  <2>4. GET_SIZE(p, b - 4) = a
    BY <1>1, <1>2, <2>2, <2>3
  <2> QED
    BY <1>4, <2>4 DEF PlacedSize, HDRP, WSIZE, p, s
<1>5. CASE ~Splits(s, a)
  <2>1. p = Mark(m, b, s, 1)
    BY <1>5 DEF Place, HDRP, WSIZE
  <2>2. Slot(W, b, b + s) /\ s = (b + s) - b /\ 1 \in {0, 1}
    <3> HIDE DEF s
    <3> QED
      BY <1>2 DEF Slot
  <2>3. Tagged(W, m, p, b, b + s, s + 1)
    <3> HIDE DEF s, p
    <3> QED
      BY <1>1, <2>1, <2>2, MarkBlock
  <2>4. p[b - 4] = s + 1
    BY <2>3 DEF Tagged
  <2> HIDE DEF p, s
  <2>5. GET_SIZE(p, b - 4) = s
    BY <1>2, <2>4 DEF GET_SIZE
  <2> QED
    BY <1>5, <2>5 DEF PlacedSize, HDRP, WSIZE, p, s
<1> QED
  BY <1>4, <1>5

(***************************************************************************)
(* The view of an allocator: the variables it reads, with the sizes of the *)
(* allocated blocks in place of the words of the storage.  What is stale   *)
(* (bp outside a search, the call between calls, the rover before mm_init) *)
(* is left out.                                                            *)
(***************************************************************************)
BlockSizes(m, L) == [q \in L |-> GET_SIZE(m, HDRP(q))]

NoSizes == [q \in {} |-> 0]

Seen(at, c, own, p, r, b, rover, brk, max, sizes) ==
    [pc |-> at, call |-> c, owned |-> own, ptr |-> p, ret |-> r, bp |-> b,
     rover |-> rover, brk |-> brk, max |-> max, sizes |-> sizes]

CallSeen == IF pc \in {"init", "failed", "idle"} THEN NoCall ELSE call
BpSeen == IF InSearch THEN bp ELSE NULL
SizesSeen == IF HeapReady THEN BlockSizes(mem, Live) ELSE NoSizes

ViewOf(rover) ==
    Seen(pc, CallSeen, owned, ptr, ret, BpSeen, IF HeapReady THEN rover ELSE NULL,
         mem_brk, mem_max_addr, SizesSeen)

\* The view after a step that leaves the rover at `rover`.
ViewNext(rover) ==
    Seen(pc', CallSeen', owned', ptr', ret', BpSeen', IF HeapReady' THEN rover ELSE NULL,
         mem_brk', mem_max_addr', SizesSeen')

\* Some storage that looks like this.
MemOf(v) ==
    CHOOSE m \in [W -> Nat] :
        Heap(m, v.brk, DOMAIN v.sizes) /\ BlockSizes(m, DOMAIN v.sizes) = v.sizes

LEMMA SeenFields ==
    ASSUME NEW at, NEW c, NEW own, NEW p, NEW r, NEW b, NEW rover, NEW brk, NEW max,
           NEW sizes, NEW v, v = Seen(at, c, own, p, r, b, rover, brk, max, sizes)
    PROVE  /\ v.pc = at /\ v.call = c /\ v.owned = own /\ v.ptr = p /\ v.ret = r
           /\ v.bp = b /\ v.rover = rover /\ v.brk = brk /\ v.max = max
           /\ v.sizes = sizes
  BY DEF Seen

LEMMA ViewNow ==
    ASSUME ClientInv, HeapReady, NEW r, NEW v, v = ViewOf(r)
    PROVE  /\ v.pc = pc /\ v.owned = owned /\ v.ptr = ptr /\ v.ret = ret
           /\ v.brk = mem_brk /\ v.max = mem_max_addr /\ v.rover = r
           /\ pc # "idle" => v.call = call
           /\ InSearch => v.bp = bp
           /\ v.sizes = BlockSizes(mem, Live) /\ DOMAIN v.sizes = Live
           /\ \A q \in Live : v.sizes[q] = GET_SIZE(mem, HDRP(q))
           /\ Alike(mem, MemOf(v), mem_brk, Live)
<1>1. v = Seen(pc, CallSeen, owned, ptr, ret, BpSeen, r, mem_brk, mem_max_addr, SizesSeen)
  BY DEF ViewOf
<1>2. /\ v.pc = pc /\ v.call = CallSeen /\ v.owned = owned /\ v.ptr = ptr /\ v.ret = ret
      /\ v.bp = BpSeen /\ v.rover = r /\ v.brk = mem_brk /\ v.max = mem_max_addr
      /\ v.sizes = SizesSeen
  BY <1>1, SeenFields
<1>3. SizesSeen = BlockSizes(mem, Live)
  BY DEF SizesSeen
<1>4. v.sizes = BlockSizes(mem, Live) /\ DOMAIN v.sizes = Live
  BY <1>2, <1>3 DEF BlockSizes
<1>5. \A q \in Live : v.sizes[q] = GET_SIZE(mem, HDRP(q))
  BY <1>4 DEF BlockSizes
<1>6. Alike(mem, MemOf(v), mem_brk, Live)
  <2> DEFINE x == MemOf(v)
  <2>1. Heap(mem, mem_brk, Live) /\ mem \in [W -> Nat]
    BY HeapFacts DEF Heap
  <2>2. x = CHOOSE m \in [W -> Nat] :
              Heap(m, mem_brk, Live) /\ BlockSizes(m, Live) = v.sizes
    BY <1>2, <1>4 DEF MemOf
  <2> HIDE DEF x
  <2>3. Heap(x, mem_brk, Live) /\ BlockSizes(x, Live) = v.sizes
    BY <1>4, <2>1, <2>2
  <2>4. \A q \in Live : BlockSizes(x, Live)[q] = GET_SIZE(x, HDRP(q))
    BY DEF BlockSizes
  <2>5. \A q \in Live : GET_SIZE(mem, HDRP(q)) = GET_SIZE(x, HDRP(q))
    BY <1>5, <2>3, <2>4
  <2> QED
    BY <2>1, <2>3, <2>5 DEF Alike, x
<1>7. (pc # "idle" => CallSeen = call) /\ (InSearch => BpSeen = bp)
  BY DEF CallSeen, BpSeen, HeapReady
<1> QED
  BY <1>2, <1>4, <1>5, <1>6, <1>7

\* The view of a state whose heap is ready, part by part.
LEMMA ViewThen ==
    ASSUME HeapReady', NEW r, NEW c, pc' # "idle" => c = call', pc' = "idle" => c = NoCall,
           NEW b, InSearch' => b = bp', ~InSearch' => b = NULL,
           NEW sizes, sizes = BlockSizes(mem', Live')
    PROVE  ViewNext(r) =
              Seen(pc', c, owned', ptr', ret', b, r, mem_brk', mem_max_addr', sizes)
<1>1. CallSeen' = c
  BY DEF CallSeen, HeapReady, NoCall
<1>2. BpSeen' = b
  BY DEF BpSeen, NULL
<1>3. SizesSeen' = sizes
  BY DEF SizesSeen, BlockSizes, GET_SIZE, HDRP, WSIZE
<1> QED
  BY <1>1, <1>2, <1>3 DEF ViewNext

LEMMA SameSizes ==
    ASSUME NEW m, NEW f, NEW L, DOMAIN f = L, f = [q \in L |-> f[q]],
           \A q \in L : f[q] = GET_SIZE(m, HDRP(q))
    PROVE  f = BlockSizes(m, L)
  BY DEF BlockSizes

(***************************************************************************)
(* The steps of an allocator on its view: what the code does with storage  *)
(* that looks like it.                                                     *)
(***************************************************************************)
SearchesAt(v, at, b) ==
    Seen(at, v.call, v.owned, v.ptr, v.ret, b, v.rover, v.brk, v.max, v.sizes)

Places(v, brk, b, size) ==
    Seen(IF v.ptr = NULL THEN "return" ELSE "copy", v.call, v.owned, v.ptr, b, NULL, b,
         brk, v.max,
         [q \in DOMAIN v.sizes \cup {b} |-> IF q = b THEN size ELSE v.sizes[q]])

Finds(v, b, a) == Places(v, v.brk, b, PlacedSize(GET_SIZE(MemOf(v), HDRP(b)), a))

Fails(max, brk, incr) == incr < 0 \/ brk + incr > max

Grows(v, a) ==
    LET size == ExtendBytes(MAX(a, CHUNKSIZE) \div WSIZE)
        n == NewBlock(MemOf(v), v.brk, size)
        b == CoalescedBp(n, v.brk)
    IN  IF Fails(v.max, v.brk, size)
        THEN SearchesAt(v, "return", NULL)
        ELSE Places(v, v.brk + size, b,
                    PlacedSize(GET_SIZE(Coalesce(n, v.brk), HDRP(b)), a))

\* The block p is freed, by mm_free or by mm_realloc.
Frees(v, at, c, own, p) ==
    Seen(at, c, own, NULL, v.ret, NULL, CoalescedBp(MarkFree(MemOf(v), p), p), v.brk, v.max,
         [q \in DOMAIN v.sizes \ {p} |-> v.sizes[q]])

CallOf(id, size) == [id |-> id, size |-> size]
Without(own, id) == [own EXCEPT ![id] = NULL]

Enters(v, id, size, at, p, r, b, sizes) ==
    Seen(at, CallOf(id, size), Without(v.owned, id), p, r, b, v.rover, v.brk, v.max, sizes)

FreesBlock(v, id) == Frees(v, "idle", NoCall, Without(v.owned, id), v.owned[id])

Answers(v) ==
    Seen("idle", NoCall,
         [v.owned EXCEPT ![v.call.id] = IF v.ret # NULL THEN v.ret ELSE v.ptr],
         NULL, NULL, NULL, v.rover, v.brk, v.max, v.sizes)

Fresh(max) ==
    Seen("init", NoCall, [id \in Ids |-> NULL], NULL, NULL, NULL, NULL, mem_start_brk, max,
         NoSizes)

Inits(v, rover) ==
    LET brk == v.brk + 4 * WSIZE
        size == ExtendBytes(CHUNKSIZE \div WSIZE)
        Failed(b) == Seen("failed", NoCall, v.owned, v.ptr, v.ret, NULL, NULL, b, v.max, NoSizes)
    IN  IF Fails(v.max, v.brk, 4 * WSIZE) THEN Failed(v.brk)
        ELSE IF Fails(v.max, brk, size) THEN Failed(brk)
        ELSE Seen("idle", NoCall, v.owned, v.ptr, v.ret, NULL, rover, brk + size, v.max, NoSizes)

\* Storage c, with an allocated block at b, holds the blocks L as m does.
PlacedAt(m, c, L, b) ==
    /\ b \notin L /\ b \in Nat /\ b >= 16
    /\ \A q \in L : GET_SIZE(c, HDRP(q)) = GET_SIZE(m, HDRP(q))

LEMMA PlacedBlock ==
    ASSUME NEW m, NEW brk, NEW L, Heap(m, brk, L), NEW a, BlockSize(a),
           NEW b \in BlocksOf(m, brk, L), Fits(m, b, a)
    PROVE  PlacedAt(m, Place(m, b, a), L, b)
<1>1. /\ Heap(Place(m, b, a), brk, L \cup {b})
      /\ b \notin L /\ b \in Nat /\ b >= 16 /\ b < brk
      /\ GET_SIZE(Place(m, b, a), HDRP(b)) \in Nat
      /\ GET_SIZE(Place(m, b, a), HDRP(b)) >= a
      /\ \A q \in L : GET_SIZE(Place(m, b, a), HDRP(q)) = GET_SIZE(m, HDRP(q))
  BY AllocatedStep
<1> QED
  BY <1>1 DEF PlacedAt

LEMMA SearchView ==
    ASSUME ClientInv, InSearch, InSearch', NEW r, NEW v, v = ViewOf(r),
           UNCHANGED <<owned, call, ptr, ret, mem, mem_brk, mem_max_addr>>
    PROVE  ViewNext(r) = SearchesAt(v, pc', bp')
<1>1. HeapReady /\ HeapReady' /\ Live' = Live /\ pc # "idle" /\ pc' # "idle"
  BY DEF InSearch, HeapReady, Live
<1>2. /\ v.owned = owned /\ v.ptr = ptr /\ v.ret = ret /\ v.call = call
      /\ v.brk = mem_brk /\ v.max = mem_max_addr /\ v.rover = r
      /\ v.sizes = BlockSizes(mem, Live)
  BY <1>1, ViewNow
<1>3. ViewNext(r) = Seen(pc', call', owned', ptr', ret', bp', r, mem_brk', mem_max_addr',
                         BlockSizes(mem', Live'))
  BY <1>1, ViewThen
<1> QED
  BY <1>1, <1>2, <1>3 DEF SearchesAt

\* A block of size bytes has been placed at b.
LEMMA PlacesView ==
    ASSUME ClientInv, InSearch, NEW r, NEW v, v = ViewOf(r),
           NEW b \in Nat, b # NULL, NEW size, NEW brk,
           \A q \in Live : GET_SIZE(mem', HDRP(q)) = GET_SIZE(mem, HDRP(q)),
           GET_SIZE(mem', HDRP(b)) = size, b \notin Live,
           ret' = b, pc' = IF ptr = NULL THEN "return" ELSE "copy", mem_brk' = brk,
           UNCHANGED <<owned, call, ptr, mem_max_addr>>
    PROVE  ViewNext(b) = Places(v, brk, b, size)
<1>1. /\ HeapReady /\ HeapReady' /\ pc # "idle" /\ pc' # "idle" /\ ~InSearch'
      /\ ret = NULL
  BY DEF InSearch, HeapReady, ClientInv, CallOK
<1>2. Live' = Live \cup {b}
  BY <1>1 DEF Live
<1>3. /\ v.owned = owned /\ v.ptr = ptr /\ v.ret = ret /\ v.call = call
      /\ v.brk = mem_brk /\ v.max = mem_max_addr
      /\ DOMAIN v.sizes = Live
      /\ \A q \in Live : v.sizes[q] = GET_SIZE(mem, HDRP(q))
  BY <1>1, ViewNow
<1> DEFINE f == [q \in DOMAIN v.sizes \cup {b} |-> IF q = b THEN size ELSE v.sizes[q]]
<1>4. f = BlockSizes(mem', Live')
  <2>1. \A q \in Live' : f[q] = GET_SIZE(mem', HDRP(q))
    BY <1>2, <1>3
  <2>2. DOMAIN f = Live' /\ f = [q \in Live' |-> f[q]]
    BY <1>2, <1>3
  <2> HIDE DEF f
  <2> QED
    BY <2>1, <2>2, SameSizes
<1> HIDE DEF f
<1>5. ViewNext(b) = Seen(pc', call', owned', ptr', ret', NULL, b, mem_brk', mem_max_addr', f)
  BY <1>1, <1>4, ViewThen
<1> QED
  BY <1>3, <1>5 DEF Places, f

LEMMA FoundView ==
    ASSUME ClientInv, InSearch, NEW r, NEW v, v = ViewOf(r), NEW a, BlockSize(a),
           NEW b \in Blocks, Fits(mem, b, a), mem' = Place(mem, b, a), ret' = b,
           pc' = IF ptr = NULL THEN "return" ELSE "copy",
           UNCHANGED <<owned, call, ptr, mem_brk, mem_max_addr>>
    PROVE  ViewNext(b) = Finds(v, b, a)
<1>1. HeapReady
  BY DEF InSearch, HeapReady
<1>2. Heap(mem, mem_brk, Live) /\ b \in BlocksOf(mem, mem_brk, Live)
  BY <1>1, HeapFacts DEF Blocks
<1>3. /\ b \notin Live /\ b \in Nat /\ b >= 16
      /\ \A q \in Live : GET_SIZE(mem', HDRP(q)) = GET_SIZE(mem, HDRP(q))
  <2>1. PlacedAt(mem, mem', Live, b)
    BY <1>2, PlacedBlock
  <2> QED
    BY <2>1 DEF PlacedAt
<1>4. GET_SIZE(mem', HDRP(b)) = PlacedSize(GET_SIZE(mem, HDRP(b)), a)
  BY <1>2, PlaceSize
<1>5. Alike(mem, MemOf(v), mem_brk, Live) /\ v.brk = mem_brk
  BY <1>1, ViewNow
<1>6. GET_SIZE(mem, HDRP(b)) = GET_SIZE(MemOf(v), HDRP(b))
  BY <1>2, <1>5, SameHeaders
<1>7. b # NULL
  BY <1>3 DEF NULL
<1>8. ViewNext(b) = Places(v, mem_brk, b, PlacedSize(GET_SIZE(mem, HDRP(b)), a))
  BY <1>3, <1>4, <1>7, PlacesView
<1> QED
  BY <1>5, <1>6, <1>8 DEF Finds

LEMMA GrowsView ==
    ASSUME ClientInv, InSearch, NEW r, NEW v, v = ViewOf(r), NEW a, BlockSize(a),
           NEW size, size = ExtendBytes(MAX(a, CHUNKSIZE) \div WSIZE),
           ~SbrkFails(mem_brk, size),
           NEW n, n = NewBlock(mem, mem_brk, size), NEW b, b = CoalescedBp(n, mem_brk),
           mem' = Place(Coalesce(n, mem_brk), b, a), mem_brk' = mem_brk + size,
           ret' = b,
           pc' = IF ptr = NULL THEN "return" ELSE "copy",
           UNCHANGED <<owned, call, ptr, mem_max_addr>>
    PROVE  ViewNext(b) = Grows(v, a)
<1>1. PICK c, top : c = Coalesce(n, mem_brk) /\ top = mem_brk + size
  OBVIOUS
<1>2. /\ Heap(mem, mem_brk, Live) /\ Heap(c, top, Live)
      /\ b \in BlocksOf(c, top, Live) /\ Fits(c, b, a)
      /\ \A q \in Live : GET_SIZE(c, HDRP(q)) = GET_SIZE(mem, HDRP(q))
  BY <1>1, GrownHeap
<1>3. mem' = Place(c, b, a)
  BY <1>1
<1>4. /\ b \notin Live /\ b \in Nat /\ b >= 16
      /\ \A q \in Live : GET_SIZE(mem', HDRP(q)) = GET_SIZE(mem, HDRP(q))
  <2>1. PlacedAt(c, mem', Live, b)
    BY <1>2, <1>3, PlacedBlock
  <2> QED
    BY <1>2, <2>1 DEF PlacedAt
<1>5. GET_SIZE(mem', HDRP(b)) = PlacedSize(GET_SIZE(c, HDRP(b)), a)
  BY <1>2, <1>3, PlaceSize
<1>6. HeapReady /\ b # NULL
  BY <1>4 DEF InSearch, HeapReady, NULL
<1>7. /\ Alike(mem, MemOf(v), mem_brk, Live)
      /\ v.brk = mem_brk /\ v.max = mem_max_addr
  BY <1>6, ViewNow
<1>8. ViewNext(b) = Places(v, top, b, PlacedSize(GET_SIZE(c, HDRP(b)), a))
  BY <1>1, <1>4, <1>5, <1>6, PlacesView
<1> DEFINE n2 == NewBlock(MemOf(v), v.brk, size)
<1>9. /\ CoalescedBp(n2, v.brk) = b
      /\ GET_SIZE(Coalesce(n2, v.brk), HDRP(b)) = GET_SIZE(c, HDRP(b))
  <2>1. BlockSize(size)
    BY ExtensionOK
  <2>2. Covers(W, mem_brk + size)
    BY <1>1, <1>2 DEF Heap
  <2>3. n2 = NewBlock(MemOf(v), mem_brk, size)
    BY <1>7
  <2> HIDE DEF n2
  <2>4. /\ CoalescedBp(n, mem_brk) = CoalescedBp(n2, mem_brk)
        /\ GET_SIZE(Coalesce(n, mem_brk), HDRP(CoalescedBp(n, mem_brk))) =
           GET_SIZE(Coalesce(n2, mem_brk), HDRP(CoalescedBp(n2, mem_brk)))
    BY <1>7, <2>1, <2>2, <2>3, SameExtend
  <2> QED
    BY <1>1, <1>7, <2>4
<1>10. ~Fails(v.max, v.brk, size)
  BY <1>7 DEF Fails, SbrkFails
<1>11. Grows(v, a) =
          Places(v, v.brk + size, CoalescedBp(n2, v.brk),
                 PlacedSize(GET_SIZE(Coalesce(n2, v.brk), HDRP(CoalescedBp(n2, v.brk))), a))
  BY <1>10, Zenon DEF Grows
<1> HIDE DEF n2
<1> QED
  BY <1>1, <1>7, <1>8, <1>9, <1>11

LEMMA GivesUpView ==
    ASSUME ClientInv, InSearch, NEW r, NEW v, v = ViewOf(r), NEW a,
           NEW size, size = ExtendBytes(MAX(a, CHUNKSIZE) \div WSIZE),
           SbrkFails(mem_brk, size), pc' = "return",
           UNCHANGED <<owned, call, ptr, ret, mem, mem_brk, mem_max_addr>>
    PROVE  ViewNext(r) = Grows(v, a)
<1>1. HeapReady /\ HeapReady' /\ Live' = Live /\ pc # "idle" /\ ~InSearch'
  BY DEF InSearch, HeapReady, Live
<1>2. /\ v.owned = owned /\ v.ptr = ptr /\ v.ret = ret /\ v.call = call
      /\ v.brk = mem_brk /\ v.max = mem_max_addr /\ v.rover = r
      /\ v.sizes = BlockSizes(mem, Live)
  BY <1>1, ViewNow
<1>3. ViewNext(r) = Seen(pc', call', owned', ptr', ret', NULL, r, mem_brk', mem_max_addr',
                         BlockSizes(mem', Live'))
  BY <1>1, ViewThen
<1>4. Fails(v.max, v.brk, size)
  BY <1>2 DEF Fails, SbrkFails
<1>5. Grows(v, a) = SearchesAt(v, "return", NULL)
  BY <1>4 DEF Grows
<1> QED
  BY <1>1, <1>2, <1>3, <1>5 DEF SearchesAt

LEMMA FreedSizes ==
    ASSUME NEW m, NEW brk, NEW L, Heap(m, brk, L), NEW p \in L, NEW f, f = MarkFree(m, p)
    PROVE  SizesKept(m, Coalesce(f, p), L \ {p})
<1>1. /\ Heap(Coalesce(f, p), brk, L \ {p})
      /\ CoalescedBp(f, p) \in BlocksOf(Coalesce(f, p), brk, L \ {p})
      /\ CoalescedBp(f, p) \in Nat
      /\ \A q \in L \ {p} :
           GET_SIZE(Coalesce(f, p), HDRP(q)) = GET_SIZE(m, HDRP(q))
  BY FreeInStep
<1> QED
  BY <1>1 DEF SizesKept

\* The block p of a heap m like that of mem has been freed.
LEMMA FreesView ==
    ASSUME ClientInv, HeapReady, HeapReady', ~InSearch', NEW r, NEW v, v = ViewOf(r),
           NEW p \in Live, NEW m, Heap(m, mem_brk, Live),
           \A q \in Live : GET_SIZE(m, HDRP(q)) = GET_SIZE(mem, HDRP(q)),
           NEW f, f = MarkFree(m, p), mem' = Coalesce(f, p), Live' = Live \ {p},
           NEW c, pc' # "idle" => c = call', pc' = "idle" => c = NoCall,
           ptr' = NULL, UNCHANGED <<ret, mem_brk, mem_max_addr>>
    PROVE  ViewNext(CoalescedBp(f, p)) = Frees(v, pc', c, owned', p)
<1>1. \A q \in Live \ {p} : GET_SIZE(mem', HDRP(q)) = GET_SIZE(m, HDRP(q))
  <2>1. SizesKept(m, mem', Live \ {p})
    BY FreedSizes
  <2> QED
    BY <2>1 DEF SizesKept
<1>2. /\ v.ret = ret /\ v.brk = mem_brk /\ v.max = mem_max_addr
      /\ DOMAIN v.sizes = Live
      /\ \A q \in Live : v.sizes[q] = GET_SIZE(mem, HDRP(q))
      /\ Alike(mem, MemOf(v), mem_brk, Live)
  BY ViewNow
<1> DEFINE sizes == [q \in DOMAIN v.sizes \ {p} |-> v.sizes[q]]
<1>3. sizes = BlockSizes(mem', Live')
  <2>1. \A q \in Live' : sizes[q] = GET_SIZE(mem', HDRP(q))
    BY <1>1, <1>2
  <2>2. DOMAIN sizes = Live' /\ sizes = [q \in Live' |-> sizes[q]]
    BY <1>2
  <2> HIDE DEF sizes
  <2> QED
    BY <2>1, <2>2, SameSizes
<1> HIDE DEF sizes
<1>4. CoalescedBp(f, p) = CoalescedBp(MarkFree(MemOf(v), p), p)
  <2>1. Alike(m, MemOf(v), mem_brk, Live)
    BY <1>2 DEF Alike
  <2> QED
    BY <2>1, SameFree
<1> DEFINE rover == CoalescedBp(f, p)
<1>5. rover = CoalescedBp(MarkFree(MemOf(v), p), p)
  BY <1>4
<1> HIDE DEF rover
<1>6. ViewNext(rover) = Seen(pc', c, owned', ptr', ret', NULL, rover, mem_brk', mem_max_addr',
                             sizes)
  BY <1>3, ViewThen
<1> QED
  BY <1>2, <1>5, <1>6 DEF Frees, sizes, rover

LEMMA CopyView ==
    ASSUME ClientInv, pc = "copy", NEW r, NEW v, v = ViewOf(r),
           NEW n \in Nat, n + 8 <= GET_SIZE(mem, HDRP(ret)),
           NEW m, OnlyWrites(mem, m, ret, n),
           NEW f, f = MarkFree(m, ptr), mem' = Coalesce(f, ptr),
           ptr' = NULL, pc' = "return",
           UNCHANGED <<owned, call, ret, mem_brk, mem_max_addr>>
    PROVE  ViewNext(CoalescedBp(f, ptr)) = Frees(v, "return", v.call, v.owned, v.ptr)
<1>1. HeapReady /\ ptr \in Live /\ ret \in Live /\ ptr # ret
  BY CopyFacts
<1>2. ptr # NULL /\ ret # NULL
  BY DEF ClientInv, CallOK
<1>3. /\ Heap(m, mem_brk, Live)
      /\ \A q \in Live : GET_SIZE(m, HDRP(q)) = GET_SIZE(mem, HDRP(q))
  BY <1>1, WriteStep
<1>4. Live' = Live \ {ptr}
  <2>1. /\ \A i \in Ids : owned[i] # NULL => owned[i] \in Live \ {ptr}
        /\ ret \in Live \ {ptr}
    BY <1>1, <1>2 DEF Live, ClientInv, Distinct
  <2> QED
    BY <2>1 DEF Live
<1>5. v.call = call /\ v.owned = owned /\ v.ptr = ptr
  BY <1>1, ViewNow
<1>6. HeapReady' /\ ~InSearch' /\ call' = call /\ owned' = owned
  BY DEF HeapReady, InSearch
<1>7. ViewNext(CoalescedBp(f, ptr)) = Frees(v, pc', call, owned', ptr)
  BY <1>1, <1>3, <1>4, <1>6, FreesView
<1> QED
  BY <1>5, <1>6, <1>7

LEMMA FreedLive ==
    ASSUME ClientInv, pc = "idle", NEW id \in Ids, owned[id] # NULL,
           owned' = [owned EXCEPT ![id] = NULL], UNCHANGED <<ptr, ret>>
    PROVE  /\ owned[id] \in Live /\ Live' = Live \ {owned[id]}
           /\ HeapReady /\ ptr = NULL /\ ret = NULL
<1> DEFINE p == owned[id]
<1>1. owned \in [Ids -> Nat] /\ ptr = NULL /\ ret = NULL /\ p = owned[id] /\ p # NULL
  BY DEF ClientInv, ClientTypeOK, CallOK
<1> HIDE DEF p
<1>2. p \in Live /\ \A i \in Ids : i # id => owned[i] # p
  BY <1>1 DEF Live, ClientInv, Distinct
<1>3. \A i \in Ids : owned'[i] = (IF i = id THEN NULL ELSE owned[i])
  BY <1>1
<1>4. Live = {owned[i] : i \in Ids} \ {NULL} /\ Live' = {owned'[i] : i \in Ids} \ {NULL}
  BY <1>1 DEF Live
<1>5. Live' = Live \ {p}
  BY <1>1, <1>2, <1>3, <1>4
<1> QED
  BY <1>1, <1>2, <1>5 DEF HeapReady

\* mm_free.
LEMMA FreeView ==
    ASSUME ClientInv, NEW r, NEW v, v = ViewOf(r),
           NEW id \in Ids, pc = "idle", owned[id] # NULL,
           NEW f, f = MarkFree(mem, owned[id]), mem' = Coalesce(f, owned[id]),
           owned' = [owned EXCEPT ![id] = NULL],
           UNCHANGED <<pc, ptr, ret, mem_brk, mem_max_addr>>
    PROVE  ViewNext(CoalescedBp(f, owned[id])) = FreesBlock(v, id)
<1>1. /\ owned[id] \in Live /\ Live' = Live \ {owned[id]}
      /\ HeapReady /\ ptr = NULL /\ ret = NULL
  BY FreedLive
<1>2. HeapReady' /\ ~InSearch' /\ pc' = "idle"
  BY DEF HeapReady, InSearch
<1>3. Heap(mem, mem_brk, Live)
  BY <1>1, HeapFacts
<1>4. v.owned = owned
  BY <1>1, ViewNow
<1> DEFINE p == owned[id]
<1>5. p = owned[id]
  OBVIOUS
<1> HIDE DEF p
<1>6. ViewNext(CoalescedBp(f, p)) = Frees(v, pc', NoCall, owned', p)
  BY <1>1, <1>2, <1>3, <1>5, FreesView
<1> QED
  BY <1>2, <1>4, <1>5, <1>6 DEF FreesBlock, Without

\* mm_realloc for size 0.
LEMMA ReallocFreesView ==
    ASSUME ClientInv, NEW r, NEW v, v = ViewOf(r), NEW id \in Ids, NEW size,
           owned[id] # NULL, CallStarts(id, size, owned[id]),
           NEW f, f = MarkFree(mem, owned[id]), mem' = Coalesce(f, owned[id]),
           pc' = "return", UNCHANGED <<ptr, ret, mem_brk, mem_max_addr>>
    PROVE  ViewNext(CoalescedBp(f, owned[id])) =
              Frees(v, "return", CallOf(id, size), Without(v.owned, id), v.owned[id])
<1>1. /\ pc = "idle" /\ owned' = [owned EXCEPT ![id] = NULL]
      /\ call' = CallOf(id, size)
  BY DEF CallStarts, CallOf
<1>2. /\ owned[id] \in Live /\ Live' = Live \ {owned[id]}
      /\ HeapReady /\ ptr = NULL /\ ret = NULL
  BY <1>1, FreedLive
<1>3. HeapReady' /\ ~InSearch'
  BY DEF HeapReady, InSearch
<1>4. Heap(mem, mem_brk, Live)
  BY <1>2, HeapFacts
<1>5. v.owned = owned
  BY <1>2, ViewNow
<1> DEFINE p == owned[id]
<1>6. p = owned[id]
  OBVIOUS
<1> HIDE DEF p
<1>7. ViewNext(CoalescedBp(f, p)) = Frees(v, pc', CallOf(id, size), owned', p)
  BY <1>1, <1>2, <1>3, <1>4, <1>6, FreesView
<1> QED
  BY <1>1, <1>5, <1>6, <1>7 DEF Without

\* A call has begun that leaves the blocks where they are: as a search, or with
\* its answer, by which the block of id may have grown.
LEMMA CallsView ==
    ASSUME ClientInv, NEW r, NEW v, v = ViewOf(r), NEW id \in Ids, NEW size,
           CallStarts(id, size, owned[id]), HeapReady', pc' # "idle",
           NEW b, InSearch' => b = bp', ~InSearch' => b = NULL,
           NEW sizes, sizes = BlockSizes(mem', Live'),
           UNCHANGED <<mem_brk, mem_max_addr>>
    PROVE  ViewNext(r) = Enters(v, id, size, pc', ptr', ret', b, sizes)
<1>1. /\ pc = "idle" /\ owned' = [owned EXCEPT ![id] = NULL]
      /\ call' = CallOf(id, size)
  BY DEF CallStarts, CallOf
<1>2. HeapReady
  BY <1>1 DEF HeapReady
<1>3. v.owned = owned /\ v.brk = mem_brk /\ v.max = mem_max_addr /\ v.rover = r
  BY <1>2, ViewNow
<1>4. ViewNext(r) = Seen(pc', CallOf(id, size), owned', ptr', ret', b, r, mem_brk',
                         mem_max_addr', sizes)
  BY <1>1, ViewThen
<1> QED
  BY <1>1, <1>3, <1>4 DEF Enters, Without

LEMMA CalledLive ==
    ASSUME ClientInv, NEW id \in Ids, pc = "idle", owned' = [owned EXCEPT ![id] = NULL],
           \/ ptr' = owned[id] /\ ret' = NULL
           \/ ptr' = NULL /\ ret' = owned[id]
    PROVE  Live' = Live
<1> DEFINE p == owned[id]
<1>1. owned \in [Ids -> Nat] /\ ptr = NULL /\ ret = NULL /\ p = owned[id]
  BY DEF ClientInv, ClientTypeOK, CallOK
<1> HIDE DEF p
<1>2. \A i \in Ids : owned'[i] = (IF i = id THEN NULL ELSE owned[i])
  BY <1>1
<1>3. Live = {owned[i] : i \in Ids} \ {NULL}
  BY <1>1 DEF Live
<1>4. Live' = ({owned'[i] : i \in Ids} \cup {p}) \ {NULL}
  BY <1>1 DEF Live, NULL
<1> QED
  BY <1>1, <1>2, <1>3, <1>4

LEMMA EntersView ==
    ASSUME ClientInv, NEW r, NEW v, v = ViewOf(r), NEW id \in Ids, NEW size,
           CallStarts(id, size, owned[id]), HeapReady', pc' # "idle",
           \/ ptr' = owned[id] /\ ret' = NULL
           \/ ptr' = NULL /\ ret' = owned[id],
           NEW b, InSearch' => b = bp', ~InSearch' => b = NULL,
           UNCHANGED <<mem, mem_brk, mem_max_addr>>
    PROVE  ViewNext(r) = Enters(v, id, size, pc', ptr', ret', b, v.sizes)
<1>1. pc = "idle" /\ owned' = [owned EXCEPT ![id] = NULL] /\ HeapReady
  BY DEF CallStarts, HeapReady
<1>2. Live' = Live
  BY <1>1, CalledLive
<1>3. v.sizes = BlockSizes(mem, Live)
  BY <1>1, ViewNow
<1>4. v.sizes = BlockSizes(mem', Live')
  BY <1>2, <1>3
<1> QED
  BY <1>4, CallsView

\* mm_realloc has written the tags of the block of id with the free block after.
Enlarged(sizes, p, total) == [q \in DOMAIN sizes |-> IF q = p THEN total ELSE sizes[q]]

LEMMA AbsorbView ==
    ASSUME ClientInv, NEW r, NEW v, v = ViewOf(r), NEW id \in Ids, NEW size,
           owned[id] # NULL, CallStarts(id, size, owned[id]),
           NEW p, p = owned[id],
           NEW next, next = NEXT_BLKP(mem, p), GET_ALLOC(mem, HDRP(next)) = 0,
           NEW total, total = GET_SIZE(mem, HDRP(p)) + GET_SIZE(mem, HDRP(next)),
           mem' = Mark(mem, p, total, 1),
           ret' = p, pc' = "return", UNCHANGED <<ptr, mem_brk, mem_max_addr>>
    PROVE  ViewNext(r) = Enters(v, id, size, "return", NULL, p, NULL,
                               Enlarged(v.sizes, p, total))
<1>1. /\ pc = "idle" /\ owned' = [owned EXCEPT ![id] = NULL] /\ HeapReady
      /\ HeapReady' /\ ~InSearch' /\ pc' # "idle"
  BY DEF CallStarts, HeapReady, InSearch
<1>2. ptr = NULL /\ ptr' = NULL
  BY <1>1 DEF ClientInv, CallOK
<1>3. p \in Live
  BY DEF Live
<1>4. Heap(mem, mem_brk, Live)
  BY <1>1, HeapFacts
<1>5. /\ GET_SIZE(mem', HDRP(p)) = total
      /\ \A q \in Live \ {p} : GET_SIZE(mem', HDRP(q)) = GET_SIZE(mem, HDRP(q))
  <2>1. PICK m2 : m2 = Mark(mem, p, total, 1)
    OBVIOUS
  <2>2. /\ Heap(m2, mem_brk, Live)
        /\ BlocksOf(m2, mem_brk, Live) = BlocksOf(mem, mem_brk, Live) \ {next}
        /\ GET_SIZE(m2, HDRP(p)) = total /\ total \in Nat
        /\ \A q \in Live \ {p} : GET_SIZE(m2, HDRP(q)) = GET_SIZE(mem, HDRP(q))
    BY <1>3, <1>4, <2>1, AbsorbStep
  <2> QED
    BY <2>1, <2>2
<1>6. Live' = Live
  BY <1>1, <1>2, CalledLive
<1>7. /\ DOMAIN v.sizes = Live
      /\ \A q \in Live : v.sizes[q] = GET_SIZE(mem, HDRP(q))
  BY <1>1, ViewNow
<1> DEFINE sizes == Enlarged(v.sizes, p, total)
<1>8. sizes = BlockSizes(mem', Live')
  <2>1. \A q \in Live' : sizes[q] = GET_SIZE(mem', HDRP(q))
    BY <1>5, <1>6, <1>7 DEF Enlarged
  <2>2. DOMAIN sizes = Live' /\ sizes = [q \in Live' |-> sizes[q]]
    BY <1>6, <1>7 DEF Enlarged
  <2> HIDE DEF sizes
  <2> QED
    BY <2>1, <2>2, SameSizes
<1> HIDE DEF sizes
<1>9. ViewNext(r) = Enters(v, id, size, pc', ptr', ret', NULL, sizes)
  BY <1>1, <1>8, CallsView
<1> QED
  BY <1>2, <1>9 DEF sizes

\* A call of the client returns.
LEMMA ReturnView ==
    ASSUME ClientInv, NEW r, NEW v, v = ViewOf(r), Return \/ Returns(mem)
    PROVE  ViewNext(r) = Answers(v)
<1> DEFINE p == IF ret # NULL THEN ret ELSE ptr
<1>1. /\ pc = "return" /\ pc' = "idle"
      /\ owned' = [owned EXCEPT ![call.id] = p]
      /\ ptr' = NULL /\ ret' = NULL
      /\ UNCHANGED <<mem_brk, mem_max_addr>>
  BY DEF Return, Returns
<1>2. HeapReady /\ HeapReady' /\ ~InSearch' /\ pc # "idle"
  BY <1>1 DEF HeapReady, InSearch
<1>3. Live' = Live /\ SizesKept(mem, mem', Live)
  BY ReturnStep
<1>4. /\ v.owned = owned /\ v.ptr = ptr /\ v.ret = ret /\ v.call = call
      /\ v.brk = mem_brk /\ v.max = mem_max_addr /\ v.rover = r
      /\ DOMAIN v.sizes = Live /\ v.sizes = BlockSizes(mem, Live)
      /\ \A q \in Live : v.sizes[q] = GET_SIZE(mem, HDRP(q))
  BY <1>2, ViewNow
<1>5. v.sizes = BlockSizes(mem', Live')
  <2>1. \A q \in Live' : v.sizes[q] = GET_SIZE(mem', HDRP(q))
    BY <1>3, <1>4 DEF SizesKept
  <2>2. DOMAIN v.sizes = Live' /\ v.sizes = [q \in Live' |-> v.sizes[q]]
    BY <1>3, <1>4 DEF BlockSizes
  <2> QED
    BY <2>1, <2>2, SameSizes
<1>6. ViewNext(r) = Seen(pc', NoCall, owned', ptr', ret', NULL, r, mem_brk', mem_max_addr',
                         v.sizes)
  <2>1. PICK c : c = NoCall
    OBVIOUS
  <2>2. pc' # "idle" => c = call'
    BY <1>1
  <2>3. ViewNext(r) = Seen(pc', c, owned', ptr', ret', NULL, r, mem_brk', mem_max_addr',
                           v.sizes)
    BY <1>2, <1>5, <2>1, <2>2, ViewThen
  <2> QED
    BY <2>1, <2>3
<1> QED
  BY <1>1, <1>4, <1>6 DEF Answers

\* What a trace starts from.
LEMMA FreshView ==
    ASSUME ClientInv, pc = "init", NEW r
    PROVE  ViewOf(r) = Fresh(mem_max_addr)
<1>1. /\ owned \in [Ids -> Nat] /\ \A i \in Ids : owned[i] = NULL
      /\ ptr = NULL /\ ret = NULL /\ mem_brk = mem_start_brk
  BY DEF ClientInv, ClientTypeOK, CallOK, mem_start_brk
<1>2. owned = [id \in Ids |-> NULL]
  BY <1>1
<1>3. ~HeapReady /\ ~InSearch
  BY DEF HeapReady, InSearch
<1> QED
  BY <1>1, <1>2, <1>3 DEF ViewOf, Fresh, CallSeen, BpSeen, SizesSeen

LEMMA NewTraceView ==
    ASSUME ClientInv, NewTrace, NEW r
    PROVE  ViewNext(r) = Fresh(mem_max_addr)
<1>1. /\ pc' = "init" /\ owned' = [id \in Ids |-> NULL] /\ mem_brk' = mem_start_brk
      /\ UNCHANGED <<ptr, ret, mem_max_addr>>
      /\ ptr = NULL /\ ret = NULL
  BY DEF NewTrace, mem_reset_brk, ClientInv, CallOK
<1>2. ~HeapReady' /\ ~InSearch'
  BY <1>1 DEF HeapReady, InSearch
<1>3. CallSeen' = NoCall /\ BpSeen' = NULL /\ SizesSeen' = NoSizes
  BY <1>1, <1>2 DEF CallSeen, BpSeen, SizesSeen, NoCall, NULL, NoSizes
<1> QED
  BY <1>1, <1>2, <1>3 DEF ViewNext, Fresh

\* mm_init, in its three outcomes; rover is where it leaves the rover.
LEMMA InitView ==
    ASSUME ClientInv, pc = "init", NEW r, NEW v, v = ViewOf(r), NEW rover,
           NEW brk, brk = mem_brk + 4 * WSIZE,
           NEW size, size = ExtendBytes(CHUNKSIZE \div WSIZE),
           \/ SbrkFails(mem_brk, 4 * WSIZE) /\ pc' = "failed" /\ mem_brk' = mem_brk
           \/ /\ ~SbrkFails(mem_brk, 4 * WSIZE) /\ SbrkFails(brk, size)
              /\ pc' = "failed" /\ mem_brk' = brk
           \/ /\ ~SbrkFails(mem_brk, 4 * WSIZE) /\ ~SbrkFails(brk, size)
              /\ pc' = "idle" /\ mem_brk' = brk + size,
           UNCHANGED <<owned, ptr, ret, mem_max_addr>>
    PROVE  ViewNext(rover) = Inits(v, rover)
<1>1. ~HeapReady /\ ~InSearch /\ ~InSearch'
  BY DEF HeapReady, InSearch
<1>2. v = Seen(pc, CallSeen, owned, ptr, ret, BpSeen, NULL, mem_brk, mem_max_addr, SizesSeen)
  BY <1>1 DEF ViewOf
<1>3. /\ v.owned = owned /\ v.ptr = ptr /\ v.ret = ret
      /\ v.brk = mem_brk /\ v.max = mem_max_addr
  BY <1>2, SeenFields
<1>4. CallSeen' = NoCall /\ BpSeen' = NULL
  BY <1>1 DEF CallSeen, BpSeen, NoCall, NULL
<1>5. SizesSeen' = NoSizes
  <2>1. Live' = {}
    BY DEF Live, ClientInv, CallOK, NULL
  <2> QED
    BY <2>1 DEF SizesSeen, BlockSizes, NoSizes
<1>6. ViewNext(rover) = Seen(pc', NoCall, owned, ptr, ret, NULL,
                             IF HeapReady' THEN rover ELSE NULL, mem_brk', mem_max_addr,
                             NoSizes)
  BY <1>4, <1>5 DEF ViewNext
<1>7. /\ \A b, n : Fails(v.max, b, n) = SbrkFails(b, n)
      /\ v.brk + 4 * WSIZE = brk
  BY <1>3 DEF Fails, SbrkFails
<1>8. HeapReady' <=> pc' = "idle"
  BY DEF HeapReady
<1> DEFINE Failed(b) == Seen("failed", NoCall, v.owned, v.ptr, v.ret, NULL, NULL, b, v.max,
                             NoSizes)
           Ready == Seen("idle", NoCall, v.owned, v.ptr, v.ret, NULL, rover, brk + size,
                         v.max, NoSizes)
<1>9. Inits(v, rover) = IF SbrkFails(mem_brk, 4 * WSIZE) THEN Failed(mem_brk)
                        ELSE IF SbrkFails(brk, size) THEN Failed(brk) ELSE Ready
  BY <1>3, <1>7 DEF Inits
<1>10. CASE SbrkFails(mem_brk, 4 * WSIZE)
  BY <1>3, <1>6, <1>8, <1>9, <1>10
<1>11. CASE ~SbrkFails(mem_brk, 4 * WSIZE) /\ SbrkFails(brk, size)
  BY <1>3, <1>6, <1>8, <1>9, <1>11
<1>12. CASE ~SbrkFails(mem_brk, 4 * WSIZE) /\ ~SbrkFails(brk, size)
  BY <1>3, <1>6, <1>8, <1>9, <1>12
<1> QED
  BY <1>10, <1>11, <1>12

\* With no block allocated the heap is one free block.
LEMMA LoneBlock ==
    ASSUME NEW m, NEW brk, NEW b, NEW L, L = {}
    PROVE  b \in BlocksOf(m, brk, L) => b = 16
<1>1. ASSUME b \in BlocksOf(m, brk, L) PROVE b = 16
  BY <1>1 DEF BlocksOf, FirstBlock
<1> QED
  BY <1>1

LEMMA StutterView ==
    ASSUME UNCHANGED memVars, UNCHANGED clientVars, NEW r
    PROVE  ViewNext(r) = ViewOf(r)
  BY DEF ViewNext, ViewOf, CallSeen, BpSeen, SizesSeen, HeapReady, InSearch, Live, memVars,
         clientVars
=============================================================================
