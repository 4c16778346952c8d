------------------------- MODULE MdriverPassesProofs ------------------------
(***************************************************************************)
(* The passes over a trace are alike, for every heap, every trace file and *)
(* each of the three allocators.                                           *)
(*                                                                         *)
(* The view of the package (MmClientProofs) leaves out the words of the    *)
(* storage but says where the next block goes; each step takes it to the   *)
(* view that it and the request determine.  The views of one pass form a   *)
(* course, a set that begins with the view of mm_init and is closed under  *)
(* this function; AlikeInv says that every pass over the trace is on the   *)
(* course of the first.                                                    *)
(***************************************************************************)
EXTENDS MdriverProofs

PackageView ==
    CASE author = "donguk" -> DongukProofs!View
      [] author = "sungjoo" -> SungjooProofs!View
      [] author = "sanglim" -> SanglimProofs!View

\* mm_init is to come, of a heap of max bytes.
StartView(a, max) ==
    CASE a = "donguk" -> DongukProofs!Fresh(max)
      [] a = "sungjoo" -> SungjooProofs!Fresh(max)
      [] a = "sanglim" -> SanglimProofs!Fresh(max)

DongukGoes(v, op) ==
    IF v.pc = "idle"
    THEN IF op.type = "ALLOC" THEN DongukProofs!Mallocs(v, op.index, op.size)
         ELSE IF op.type = "REALLOC" THEN DongukProofs!Reallocs(v, op.index, op.size)
         ELSE DongukProofs!FreesBlock(v, op.index)
    ELSE IF v.pc = "return" THEN DongukProofs!Answers(v) ELSE DongukProofs!Runs(v)

SungjooGoes(v, op) ==
    IF v.pc = "idle"
    THEN IF op.type = "ALLOC" THEN SungjooProofs!Mallocs(v, op.index, op.size)
         ELSE IF op.type = "REALLOC" THEN SungjooProofs!Reallocs(v, op.index, op.size)
         ELSE SungjooProofs!FreesBlock(v, op.index)
    ELSE IF v.pc = "return" THEN SungjooProofs!Answers(v) ELSE SungjooProofs!Runs(v)

SanglimGoes(v, op) ==
    IF v.pc = "idle"
    THEN IF op.type = "ALLOC" THEN SanglimProofs!Mallocs(v, op.index, op.size)
         ELSE IF op.type = "REALLOC" THEN SanglimProofs!Reallocs(v, op.index, op.size)
         ELSE SanglimProofs!FreesBlock(v, op.index)
    ELSE IF v.pc = "return" THEN SanglimProofs!Answers(v) ELSE SanglimProofs!Runs(v)

\* The next view of the package of a, which is given the request op if it is idle.
ViewGoes(a, v, op) ==
    CASE a = "donguk" -> DongukGoes(v, op)
      [] a = "sungjoo" -> SungjooGoes(v, op)
      [] a = "sanglim" -> SanglimGoes(v, op)

\* The package serves op (as in Interpret).
PackageServes(op) ==
    \/ author = "donguk" /\ DongukServes(op)
    \/ author = "sungjoo" /\ SungjooServes(op)
    \/ author = "sanglim" /\ SanglimServes(op)

\* What is seen of the package in a state, and after each of its steps.
ViewTrue ==
    /\ PackageView.pc = pc
    /\ PackageView.ret = ret
    /\ pc = "init" => PackageView = StartView(author, mem_max_addr)

ViewFollows ==
    /\ \A op : PackageRuns => PackageView' = ViewGoes(author, PackageView, op)
    /\ \A op \in Requests : PackageServes(op) => PackageView' = ViewGoes(author, PackageView, op)
    /\ \A op : (Return \/ Returns(mem)) /\ UNCHANGED rover =>
                  PackageView' = ViewGoes(author, PackageView, op)
    /\ NewTrace /\ UNCHANGED rover => PackageView' = StartView(author, mem_max_addr)
    /\ Idles /\ UNCHANGED rover => PackageView' = PackageView

LEMMA DongukFollows ==
    ASSUME DongukProofs!IInv, author = "donguk"
    PROVE  ViewTrue /\ (author' = author => ViewFollows)
<1> USE MemlibAssumption, ClientAssumption DEF WSIZE, DSIZE, DongukProofs!WSIZE,
       DongukProofs!DSIZE
<1> DEFINE v == DongukProofs!View
<1>1. /\ v.pc = pc /\ v.ret = ret
      /\ pc = "init" => v = DongukProofs!Fresh(mem_max_addr)
  BY DongukProofs!ViewStart
<1>2. DongukProofs!Determined
  BY DongukProofs!StepDetermined
<1>3. PackageView = v /\ StartView(author, mem_max_addr) = DongukProofs!Fresh(mem_max_addr)
  BY DEF PackageView, StartView
<1>4. ViewTrue
  BY <1>1, <1>3 DEF ViewTrue
<1>5. ASSUME author' = author
      PROVE  ViewFollows
  <2>1. PackageView' = v' /\ \A op : ViewGoes(author, PackageView, op) = DongukGoes(v, op)
    BY <1>3, <1>5 DEF PackageView, ViewGoes
  <2>2. ASSUME NEW op, PackageRuns
        PROVE  v' = DongukGoes(v, op)
    <3>1. Donguk!Run
      BY <2>2 DEF PackageRuns
    <3>2. pc # "idle" /\ pc # "return"
      BY <3>1, DongukKeeps DEF CallGoesOn
    <3>3. v' = DongukProofs!Runs(v)
      BY <1>2, <3>1, DongukSame DEF DongukProofs!Determined
    <3> QED
      BY <1>1, <3>2, <3>3 DEF DongukGoes
  <2>3. ASSUME NEW op \in Requests, PackageServes(op)
        PROVE  v' = DongukGoes(v, op)
    <3>1. /\ DongukServes(op) /\ op.index \in Ids
          /\ op.type \in {"ALLOC", "REALLOC"} => op.size \in Sizes
      BY <2>3 DEF PackageServes, Requests
    <3>2. CASE op.type = "ALLOC" /\ Donguk!mm_malloc(op.index, op.size)
      <4>1. pc = "idle" /\ op.size \in Sizes
        BY <3>1, <3>2, DongukKeeps DEF CallMade
      <4>2. v' = DongukProofs!Mallocs(v, op.index, op.size)
        BY <1>2, <3>1, <3>2, <4>1, DongukSame DEF DongukProofs!Determined
      <4> QED
        BY <1>1, <3>2, <4>1, <4>2 DEF DongukGoes
    <3>3. CASE op.type = "REALLOC" /\ Donguk!mm_realloc(op.index, op.size)
      <4>1. pc = "idle" /\ op.size \in Sizes
        BY <3>1, <3>3, DongukKeeps DEF CallMade
      <4>2. v' = DongukProofs!Reallocs(v, op.index, op.size)
        BY <1>2, <3>1, <3>3, <4>1, DongukSame DEF DongukProofs!Determined
      <4> QED
        BY <1>1, <3>3, <4>1, <4>2 DEF DongukGoes
    <3>4. CASE op.type = "FREE" /\ Donguk!mm_free(op.index)
      <4>1. pc = "idle"
        BY <3>1, <3>4, DongukKeeps DEF Freed
      <4>2. v' = DongukProofs!FreesBlock(v, op.index)
        BY <1>2, <3>1, <3>4, DongukSame DEF DongukProofs!Determined
      <4> QED
        BY <1>1, <3>4, <4>1, <4>2 DEF DongukGoes
    <3> QED
      BY <3>1, <3>2, <3>3, <3>4 DEF DongukServes
  <2>4. ASSUME NEW op, Return \/ Returns(mem), UNCHANGED rover
        PROVE  v' = DongukGoes(v, op)
    <3>1. DongukProofs!Return \/ DongukProofs!Returns(mem)
      BY <2>4 DEF Return, DongukProofs!Return, Returns, DongukProofs!Returns, memset,
                  DongukProofs!memset, NULL, DongukProofs!NULL, NoCall,
                  DongukProofs!NoCall
    <3>2. pc = "return"
      BY <2>4 DEF Return, Returns
    <3>3. v' = DongukProofs!Answers(v)
      BY <1>2, <2>4, <3>1 DEF DongukProofs!Determined
    <3> QED
      BY <1>1, <3>2, <3>3 DEF DongukGoes
  <2>5. ASSUME NewTrace, UNCHANGED rover
        PROVE  v' = DongukProofs!Fresh(mem_max_addr)
    <3>1. DongukProofs!NewTrace
      BY <2>5 DEF NewTrace, DongukProofs!NewTrace, mem_reset_brk,
                  DongukProofs!mem_reset_brk, mem_start_brk, DongukProofs!mem_start_brk,
                  NULL, DongukProofs!NULL
    <3> QED
      BY <1>2, <2>5, <3>1 DEF DongukProofs!Determined
  <2>6. ASSUME Idles, UNCHANGED rover
        PROVE  v' = v
    <3>1. UNCHANGED DongukProofs!vars
      BY <2>6 DEF Idles, memVars, clientVars, DongukProofs!vars,
                  DongukProofs!memVars, DongukProofs!clientVars
    <3> QED
      BY <1>2, <3>1 DEF DongukProofs!Determined
  <2> HIDE DEF v
  <2> QED
    BY <1>3, <2>1, <2>2, <2>3, <2>4, <2>5, <2>6 DEF ViewFollows
<1> QED
  BY <1>4, <1>5

LEMMA SungjooFollows ==
    ASSUME SungjooProofs!IInv, author = "sungjoo"
    PROVE  ViewTrue /\ (author' = author => ViewFollows)
<1> USE MemlibAssumption, ClientAssumption DEF WSIZE, DSIZE, SungjooProofs!WSIZE,
       SungjooProofs!DSIZE
<1> DEFINE v == SungjooProofs!View
<1>1. /\ v.pc = pc /\ v.ret = ret
      /\ pc = "init" => v = SungjooProofs!Fresh(mem_max_addr)
  BY SungjooProofs!ViewStart
<1>2. SungjooProofs!Determined
  BY SungjooProofs!StepDetermined
<1>3. PackageView = v /\ StartView(author, mem_max_addr) = SungjooProofs!Fresh(mem_max_addr)
  BY DEF PackageView, StartView
<1>4. ViewTrue
  BY <1>1, <1>3 DEF ViewTrue
<1>5. ASSUME author' = author
      PROVE  ViewFollows
  <2>1. PackageView' = v' /\ \A op : ViewGoes(author, PackageView, op) = SungjooGoes(v, op)
    BY <1>3, <1>5 DEF PackageView, ViewGoes
  <2>2. ASSUME NEW op, PackageRuns
        PROVE  v' = SungjooGoes(v, op)
    <3>1. Sungjoo!Run
      BY <2>2 DEF PackageRuns
    <3>2. pc # "idle" /\ pc # "return"
      BY <3>1, SungjooKeeps DEF CallGoesOn
    <3>3. v' = SungjooProofs!Runs(v)
      BY <1>2, <3>1, SungjooSame DEF SungjooProofs!Determined
    <3> QED
      BY <1>1, <3>2, <3>3 DEF SungjooGoes
  <2>3. ASSUME NEW op \in Requests, PackageServes(op)
        PROVE  v' = SungjooGoes(v, op)
    <3>1. /\ SungjooServes(op) /\ op.index \in Ids
          /\ op.type \in {"ALLOC", "REALLOC"} => op.size \in Sizes
      BY <2>3 DEF PackageServes, Requests
    <3>2. CASE op.type = "ALLOC" /\ Sungjoo!mm_malloc(op.index, op.size)
      <4>1. pc = "idle" /\ op.size \in Sizes
        BY <3>1, <3>2, SungjooKeeps DEF CallMade
      <4>2. v' = SungjooProofs!Mallocs(v, op.index, op.size)
        BY <1>2, <3>1, <3>2, <4>1, SungjooSame DEF SungjooProofs!Determined
      <4> QED
        BY <1>1, <3>2, <4>1, <4>2 DEF SungjooGoes
    <3>3. CASE op.type = "REALLOC" /\ Sungjoo!mm_realloc(op.index, op.size)
      <4>1. pc = "idle" /\ op.size \in Sizes
        BY <3>1, <3>3, SungjooKeeps DEF CallMade
      <4>2. v' = SungjooProofs!Reallocs(v, op.index, op.size)
        BY <1>2, <3>1, <3>3, <4>1, SungjooSame DEF SungjooProofs!Determined
      <4> QED
        BY <1>1, <3>3, <4>1, <4>2 DEF SungjooGoes
    <3>4. CASE op.type = "FREE" /\ Sungjoo!mm_free(op.index)
      <4>1. pc = "idle"
        BY <3>1, <3>4, SungjooKeeps DEF Freed
      <4>2. v' = SungjooProofs!FreesBlock(v, op.index)
        BY <1>2, <3>1, <3>4, SungjooSame DEF SungjooProofs!Determined
      <4> QED
        BY <1>1, <3>4, <4>1, <4>2 DEF SungjooGoes
    <3> QED
      BY <3>1, <3>2, <3>3, <3>4 DEF SungjooServes
  <2>4. ASSUME NEW op, Return \/ Returns(mem), UNCHANGED rover
        PROVE  v' = SungjooGoes(v, op)
    <3>1. SungjooProofs!Return \/ SungjooProofs!Returns(mem)
      BY <2>4 DEF Return, SungjooProofs!Return, Returns, SungjooProofs!Returns, memset,
                  SungjooProofs!memset, NULL, SungjooProofs!NULL, NoCall,
                  SungjooProofs!NoCall
    <3>2. pc = "return"
      BY <2>4 DEF Return, Returns
    <3>3. v' = SungjooProofs!Answers(v)
      BY <1>2, <2>4, <3>1 DEF SungjooProofs!Determined
    <3> QED
      BY <1>1, <3>2, <3>3 DEF SungjooGoes
  <2>5. ASSUME NewTrace, UNCHANGED rover
        PROVE  v' = SungjooProofs!Fresh(mem_max_addr)
    <3>1. SungjooProofs!NewTrace
      BY <2>5 DEF NewTrace, SungjooProofs!NewTrace, mem_reset_brk,
                  SungjooProofs!mem_reset_brk, mem_start_brk, SungjooProofs!mem_start_brk,
                  NULL, SungjooProofs!NULL
    <3> QED
      BY <1>2, <2>5, <3>1 DEF SungjooProofs!Determined
  <2>6. ASSUME Idles, UNCHANGED rover
        PROVE  v' = v
    <3>1. UNCHANGED SungjooProofs!vars
      BY <2>6 DEF Idles, memVars, clientVars, SungjooProofs!vars,
                  SungjooProofs!memVars, SungjooProofs!clientVars
    <3> QED
      BY <1>2, <3>1 DEF SungjooProofs!Determined
  <2> HIDE DEF v
  <2> QED
    BY <1>3, <2>1, <2>2, <2>3, <2>4, <2>5, <2>6 DEF ViewFollows
<1> QED
  BY <1>4, <1>5

LEMMA SanglimFollows ==
    ASSUME SanglimProofs!IInv, author = "sanglim"
    PROVE  ViewTrue /\ (author' = author => ViewFollows)
<1> USE MemlibAssumption, ClientAssumption DEF WSIZE, DSIZE, SanglimProofs!WSIZE,
       SanglimProofs!DSIZE
<1> DEFINE v == SanglimProofs!View
<1>1. /\ v.pc = pc /\ v.ret = ret
      /\ pc = "init" => v = SanglimProofs!Fresh(mem_max_addr)
  BY SanglimProofs!ViewStart
<1>2. SanglimProofs!Determined
  BY SanglimProofs!StepDetermined
<1>3. PackageView = v /\ StartView(author, mem_max_addr) = SanglimProofs!Fresh(mem_max_addr)
  BY DEF PackageView, StartView
<1>4. ViewTrue
  BY <1>1, <1>3 DEF ViewTrue
<1>5. ASSUME author' = author
      PROVE  ViewFollows
  <2>1. PackageView' = v' /\ \A op : ViewGoes(author, PackageView, op) = SanglimGoes(v, op)
    BY <1>3, <1>5 DEF PackageView, ViewGoes
  <2>2. ASSUME NEW op, PackageRuns
        PROVE  v' = SanglimGoes(v, op)
    <3>1. Sanglim!Run
      BY <2>2 DEF PackageRuns
    <3>2. pc # "idle" /\ pc # "return"
      BY <3>1, SanglimKeeps DEF CallGoesOn
    <3>3. v' = SanglimProofs!Runs(v)
      BY <1>2, <3>1, SanglimSame DEF SanglimProofs!Determined
    <3> QED
      BY <1>1, <3>2, <3>3 DEF SanglimGoes
  <2>3. ASSUME NEW op \in Requests, PackageServes(op)
        PROVE  v' = SanglimGoes(v, op)
    <3>1. /\ SanglimServes(op) /\ op.index \in Ids
          /\ op.type \in {"ALLOC", "REALLOC"} => op.size \in Sizes
      BY <2>3 DEF PackageServes, Requests
    <3>2. CASE op.type = "ALLOC" /\ Sanglim!mm_malloc(op.index, op.size)
      <4>1. pc = "idle" /\ op.size \in Sizes
        BY <3>1, <3>2, SanglimKeeps DEF CallMade
      <4>2. v' = SanglimProofs!Mallocs(v, op.index, op.size)
        BY <1>2, <3>1, <3>2, <4>1, SanglimSame DEF SanglimProofs!Determined
      <4> QED
        BY <1>1, <3>2, <4>1, <4>2 DEF SanglimGoes
    <3>3. CASE /\ op.type = "REALLOC" /\ ~Sanglim!AbsorbsRover(op.index, op.size)
               /\ Sanglim!mm_realloc(op.index, op.size)
      <4>1. pc = "idle" /\ op.size \in Sizes
        BY <3>1, <3>3, SanglimKeeps DEF CallMade
      <4>2. v' = SanglimProofs!Reallocs(v, op.index, op.size)
        BY <1>2, <3>1, <3>3, <4>1, SanglimSame DEF SanglimProofs!Determined
      <4> QED
        BY <1>1, <3>3, <4>1, <4>2 DEF SanglimGoes
    <3>4. CASE op.type = "FREE" /\ Sanglim!mm_free(op.index)
      <4>1. pc = "idle"
        BY <3>1, <3>4, SanglimKeeps DEF Freed
      <4>2. v' = SanglimProofs!FreesBlock(v, op.index)
        BY <1>2, <3>1, <3>4, SanglimSame DEF SanglimProofs!Determined
      <4> QED
        BY <1>1, <3>4, <4>1, <4>2 DEF SanglimGoes
    <3> QED
      BY <3>1, <3>2, <3>3, <3>4 DEF SanglimServes
  <2>4. ASSUME NEW op, Return \/ Returns(mem), UNCHANGED rover
        PROVE  v' = SanglimGoes(v, op)
    <3>1. SanglimProofs!Return \/ SanglimProofs!Returns(mem)
      BY <2>4 DEF Return, SanglimProofs!Return, Returns, SanglimProofs!Returns, memset,
                  SanglimProofs!memset, NULL, SanglimProofs!NULL, NoCall,
                  SanglimProofs!NoCall
    <3>2. pc = "return"
      BY <2>4 DEF Return, Returns
    <3>3. v' = SanglimProofs!Answers(v)
      BY <1>2, <2>4, <3>1 DEF SanglimProofs!Determined
    <3> QED
      BY <1>1, <3>2, <3>3 DEF SanglimGoes
  <2>5. ASSUME NewTrace, UNCHANGED rover
        PROVE  v' = SanglimProofs!Fresh(mem_max_addr)
    <3>1. SanglimProofs!NewTrace
      BY <2>5 DEF NewTrace, SanglimProofs!NewTrace, mem_reset_brk,
                  SanglimProofs!mem_reset_brk, mem_start_brk, SanglimProofs!mem_start_brk,
                  NULL, SanglimProofs!NULL
    <3> QED
      BY <1>2, <2>5, <3>1 DEF SanglimProofs!Determined
  <2>6. ASSUME Idles, UNCHANGED rover
        PROVE  v' = v
    <3>1. UNCHANGED SanglimProofs!vars
      BY <2>6 DEF Idles, memVars, clientVars, SanglimProofs!vars,
                  SanglimProofs!memVars, SanglimProofs!clientVars
    <3> QED
      BY <1>2, <3>1 DEF SanglimProofs!Determined
  <2> HIDE DEF v
  <2> QED
    BY <1>3, <2>1, <2>2, <2>3, <2>4, <2>5, <2>6 DEF ViewFollows
<1> QED
  BY <1>4, <1>5

LEMMA PackageFollows ==
    ASSUME PackageInv
    PROVE  ViewTrue /\ (author' = author => ViewFollows)
  BY DongukFollows, SungjooFollows, SanglimFollows DEF PackageInv

\* The end of the heap stays where mem_init has put it.
LEMMA MaxStays ==
    ASSUME \/ PackageRuns \/ (\E op : PackageServes(op)) \/ Return \/ Returns(mem)
           \/ NewTrace \/ Idles
    PROVE  mem_max_addr' = mem_max_addr
<1>1. CASE PackageRuns
  <2>1. Donguk!Run => mem_max_addr' = mem_max_addr
    BY Zenon DEF Donguk!Run, Donguk!mm_init, Donguk!InitFails, Donguk!Scan, Donguk!Wrap,
                 Donguk!Extend, Donguk!Copy
  <2>2. Sungjoo!Run => mem_max_addr' = mem_max_addr
    BY Zenon DEF Sungjoo!Run, Sungjoo!mm_init, Sungjoo!next_fit, Sungjoo!find_fit,
                 Sungjoo!Step, Sungjoo!extend_heap, Sungjoo!Copy
  <2>3. Sanglim!Run => mem_max_addr' = mem_max_addr
    BY Zenon DEF Sanglim!Run, Sanglim!mm_init, Sanglim!Scan, Sanglim!Wrap,
                 Sanglim!Extend, Sanglim!Copy
  <2> QED
    BY <1>1, <2>1, <2>2, <2>3 DEF PackageRuns
<1>2. ASSUME NEW op, PackageServes(op)
      PROVE  mem_max_addr' = mem_max_addr
  <2>1. DongukServes(op) => mem_max_addr' = mem_max_addr
    BY Zenon DEF DongukServes, Donguk!mm_malloc, Donguk!mm_realloc, Donguk!mm_free,
                 Donguk!memVars
  <2>2. SungjooServes(op) => mem_max_addr' = mem_max_addr
    BY Zenon DEF SungjooServes, Sungjoo!mm_malloc, Sungjoo!mm_realloc, Sungjoo!mm_free,
                 Sungjoo!memVars
  <2>3. SanglimServes(op) => mem_max_addr' = mem_max_addr
    BY Zenon DEF SanglimServes, Sanglim!mm_malloc, Sanglim!mm_realloc, Sanglim!mm_free,
                 Sanglim!memVars
  <2> QED
    BY <1>2, <2>1, <2>2, <2>3 DEF PackageServes
<1>3. CASE Return \/ Returns(mem) \/ NewTrace \/ Idles
  BY <1>3 DEF Return, Returns, NewTrace, mem_reset_brk, Idles, memVars
<1> QED
  BY <1>1, <1>2, <1>3

(***************************************************************************)
(* The course of a pass: the views of the package, each with the number of *)
(* requests interpreted so far.  It is closed under what the package does  *)
(* next, but for its end, and no call on it fails.  A course that leads    *)
(* from mm_init to the last request leaves a later pass nowhere else to    *)
(* go.                                                                     *)
(***************************************************************************)
At == <<PackageView, i>>

Goes(a, o, c) ==
    LET op == o[c[2] + 1]
    IN  <<ViewGoes(a, c[1], op),
          IF c[1].pc = "return" \/ (c[1].pc = "idle" /\ op.type = "FREE")
          THEN c[2] + 1 ELSE c[2]>>

\* No failure at c; what it answers is what p has noted.
Succeeds(p, c) ==
    /\ c[2] \in Nat
    /\ c[1].pc # "failed"
    /\ c[1].pc = "return" => c[1].ret # NULL /\ p[c[2] + 1] = c[1].ret

Course(a, max, o, p, C, end) ==
    /\ <<StartView(a, max), 0>> \in C
    /\ \A c \in C : c = end \/ (Succeeds(p, c) /\ Goes(a, o, c) \in C)

\* The first pass is at the end of its course; the next ones are on it.
AlikeInv ==
    /\ pass # "app_error"
    /\ pass = "valid" =>
         /\ placed \in [1..Len(ops) -> Nat]
         /\ \E C : /\ At \in C /\ Course(author, mem_max_addr, ops, placed, C, At)
                  /\ \A c \in C : c # At /\ c[1].pc = "return" => c[2] < i
    /\ pass \in {"util", "speed", "timed"} =>
         \E C, end : /\ Course(author, mem_max_addr, ops, placed, C, end)
                     /\ end[1].pc = "idle" /\ end[2] = Len(ops)
                     /\ pass # "timed" => At \in C

LEMMA CourseGrows ==
    ASSUME NEW a, NEW max, NEW o, NEW p, NEW C, NEW c \in C, Course(a, max, o, p, C, c),
           Succeeds(p, c), NEW next, next = Goes(a, o, c)
    PROVE  Course(a, max, o, p, C \cup {next}, next)
  BY DEF Course

LEMMA CourseStarts ==
    ASSUME NEW a, NEW max, NEW o, NEW p, NEW start, start = <<StartView(a, max), 0>>
    PROVE  Course(a, max, o, p, {start}, start)
  BY DEF Course

\* A step of the package takes the driver along the course.
LEMMA AlongCourse ==
    ASSUME TraceInv, pass \in Passes, PackageRuns \/ Interpret \/ Answered
    PROVE  At' = Goes(author, ops, At) /\ UNCHANGED <<author, mem_max_addr, ops, pass>>
<1> DEFINE v == PackageView
           op == ops[i + 1]
<1>1. ViewTrue /\ (author' = author => ViewFollows) /\ i \in Nat /\ v.pc = pc
  BY PackageFollows DEF TraceInv, Interpreted, ViewTrue
<1>2. /\ Goes(author, ops, At)[1] = ViewGoes(author, v, op)
      /\ Goes(author, ops, At)[2] = IF pc = "return" \/ (pc = "idle" /\ op.type = "FREE")
                                    THEN i + 1 ELSE i
      /\ Goes(author, ops, At) = <<Goes(author, ops, At)[1], Goes(author, ops, At)[2]>>
  BY <1>1 DEF Goes, At
<1>3. At' = <<v', i'>>
  BY DEF At
<1> HIDE DEF v
<1>4. CASE PackageRuns
  <2>1. UNCHANGED <<author, ops, i, pass>>
    BY <1>4 DEF PackageRuns, passVars, traceVars
  <2>2. mem_max_addr' = mem_max_addr
    BY <1>4, MaxStays
  <2>3. v' = ViewGoes(author, v, op)
    BY <1>1, <1>4, <2>1 DEF ViewFollows, v
  <2>4. pc # "idle" /\ pc # "return"
    BY <1>4, PackageRunsKeeps DEF TraceInv, CallGoesOn
  <2> QED
    BY <1>2, <1>3, <2>1, <2>2, <2>3, <2>4
<1>5. CASE Interpret
  <2>1. /\ PackageServes(op) /\ pc = "idle" /\ i < NumOps
        /\ UNCHANGED <<author, ops, pass>>
        /\ i' = IF op.type = "FREE" THEN i + 1 ELSE i
    BY <1>5 DEF Interpret, PackageServes
  <2>2. op \in Requests
    BY <2>1, RequestAt
  <2>3. mem_max_addr' = mem_max_addr
    BY <2>1, MaxStays
  <2>4. v' = ViewGoes(author, v, op)
    BY <1>1, <2>1, <2>2 DEF ViewFollows, v
  <2> QED
    BY <1>2, <1>3, <2>1, <2>3, <2>4
<1>6. CASE Answered
  <2>1. /\ Return \/ Returns(mem)
        /\ UNCHANGED <<author, rover, ops, pass>> /\ i' = i + 1
    BY <1>6 DEF Answered
  <2>2. pc = "return"
    BY <2>1 DEF Return, Returns
  <2>3. mem_max_addr' = mem_max_addr
    BY <2>1, MaxStays
  <2>4. v' = ViewGoes(author, v, op)
    BY <1>1, <2>1 DEF ViewFollows, v
  <2> QED
    BY <1>2, <1>3, <2>1, <2>2, <2>3, <2>4
<1> QED
  BY <1>4, <1>5, <1>6

\* A step of the first pass makes the course longer.
LEMMA FirstPassKeeps ==
    ASSUME TraceInv, AlikeInv, pass = "valid", PackageRuns \/ Interpret \/ Answered
    PROVE  AlikeInv'
<1>1. At' = Goes(author, ops, At) /\ UNCHANGED <<author, mem_max_addr, ops, pass>>
  BY AlongCourse DEF Passes
<1>2. /\ i \in Nat /\ At[1].pc = pc /\ At[1].ret = ret /\ At[2] = i
      /\ Running => i < Len(ops)
  BY PackageFollows DEF TraceInv, Passes, Interpreted, ViewTrue, At
<1>3. PICK C : /\ At \in C /\ Course(author, mem_max_addr, ops, placed, C, At)
               /\ \A c \in C : c # At /\ c[1].pc = "return" => c[2] < i
  BY DEF AlikeInv
<1>4. placed \in [1..Len(ops) -> Nat]
  BY DEF AlikeInv
<1> DEFINE D == C \cup {At'}
<1>5. SUFFICES /\ placed' \in [1..Len(ops) -> Nat]
               /\ Course(author, mem_max_addr, ops, placed', D, At')
               /\ \A c \in D : c # At' /\ c[1].pc = "return" => c[2] < i'
  <2>1. At' \in D
    OBVIOUS
  <2> HIDE DEF D
  <2> QED
    BY <1>1, <1>5, <2>1 DEF AlikeInv
<1>6. CASE PackageRuns \/ Interpret
  <2>1. placed' = placed /\ (i' = i \/ i' = i + 1)
    BY <1>6 DEF PackageRuns, Interpret, passVars, traceVars
  <2>2. pc # "return" /\ pc # "failed"
    <3>1. CASE PackageRuns
      BY <3>1, PackageRunsKeeps DEF TraceInv, CallGoesOn
    <3>2. CASE Interpret
      BY <3>2 DEF Interpret
    <3> QED
      BY <1>6, <3>1, <3>2
  <2>3. Succeeds(placed, At)
    BY <1>2, <2>2 DEF Succeeds
  <2>4. Course(author, mem_max_addr, ops, placed', D, At')
    BY <1>1, <1>3, <2>1, <2>3, CourseGrows
  <2>5. ASSUME NEW c \in D, c # At', c[1].pc = "return"
        PROVE  c[2] < i'
    <3>1. c \in C /\ c # At
      BY <1>2, <2>2, <2>5
    <3>2. c[2] < i /\ c[2] \in Nat
      BY <1>3, <2>5, <3>1 DEF Course, Succeeds
    <3> QED
      BY <1>2, <2>1, <3>2
  <2> QED
    BY <1>4, <2>1, <2>4, <2>5
<1>7. CASE Answered
  <2>1. /\ ret # NULL /\ pc = "return" /\ i' = i + 1
        /\ placed' = [placed EXCEPT ![i + 1] = ret]
    BY <1>7 DEF Answered, Return, Returns
  <2>2. i < Len(ops) /\ ret \in Nat /\ Len(ops) \in Nat
    <3>1. ret \in Nat
      BY PackageType DEF TraceInv, PackageTrue, ClientTypeOK
    <3>2. ops \in Seq(Requests)
      BY DEF TraceInv
    <3> QED
      BY <1>2, <2>1, <3>1, <3>2 DEF Running
  <2>3. /\ placed' \in [1..Len(ops) -> Nat] /\ placed'[i + 1] = ret
        /\ \A k \in Nat : k # i => placed'[k + 1] = placed[k + 1]
    BY <1>2, <1>4, <2>1, <2>2
  <2>4. \A c \in C : c # At => Succeeds(placed', c)
    <3>1. SUFFICES ASSUME NEW c \in C, c # At
                   PROVE  Succeeds(placed', c)
      OBVIOUS
    <3>2. Succeeds(placed, c) /\ (c[1].pc = "return" => c[2] < i)
      BY <1>3, <3>1 DEF Course
    <3> QED
      BY <1>2, <2>3, <3>2 DEF Succeeds
  <2>5. Course(author, mem_max_addr, ops, placed', C, At)
    BY <1>3, <2>4 DEF Course
  <2>6. Succeeds(placed', At)
    BY <1>2, <2>1, <2>3 DEF Succeeds
  <2>7. Course(author, mem_max_addr, ops, placed', D, At')
    BY <1>1, <1>3, <2>5, <2>6, CourseGrows
  <2>8. ASSUME NEW c \in D, c # At', c[1].pc = "return"
        PROVE  c[2] < i'
    <3>1. c \in C
      BY <2>8
    <3>2. CASE c = At
      BY <1>2, <2>1, <3>2
    <3>3. CASE c # At
      <4>1. c[2] < i /\ c[2] \in Nat
        BY <1>3, <2>8, <3>1, <3>3 DEF Course, Succeeds
      <4> QED
        BY <1>2, <2>1, <4>1
    <3> QED
      BY <3>2, <3>3
  <2> QED
    BY <2>3, <2>7, <2>8
<1> QED
  BY <1>6, <1>7

\* A later pass is not at the end of the course until it has interpreted all.
LEMMA OnCourse ==
    ASSUME TraceInv, AlikeInv, pass \in {"util", "speed"}, pc # "idle" \/ i < NumOps
    PROVE  \E C, end : /\ Course(author, mem_max_addr, ops, placed, C, end)
                       /\ end[1].pc = "idle" /\ end[2] = Len(ops)
                       /\ At \in C /\ Succeeds(placed, At) /\ Goes(author, ops, At) \in C
<1>1. PICK C, end : /\ Course(author, mem_max_addr, ops, placed, C, end)
                    /\ end[1].pc = "idle" /\ end[2] = Len(ops) /\ At \in C
  BY DEF AlikeInv
<1>2. At[1].pc = pc /\ At[2] = i /\ i \in Nat /\ Len(ops) \in Nat
  BY PackageFollows DEF TraceInv, Passes, Interpreted, ViewTrue, At
<1>3. At # end
  BY <1>1, <1>2 DEF NumOps
<1>4. Succeeds(placed, At) /\ Goes(author, ops, At) \in C
  BY <1>1, <1>3 DEF Course
<1> QED
  BY <1>1, <1>4

LEMMA LaterPassKeeps ==
    ASSUME TraceInv, AlikeInv, pass \in {"util", "speed"},
           PackageRuns \/ Interpret \/ Answered
    PROVE  AlikeInv'
<1>1. At' = Goes(author, ops, At) /\ UNCHANGED <<author, mem_max_addr, ops, pass>>
  BY AlongCourse DEF Passes
<1>2. placed' = placed
  BY DEF PackageRuns, Interpret, Answered, passVars, traceVars
<1>3. pc # "idle" \/ i < NumOps
  <2>1. PackageRuns => pc # "idle"
    BY PackageRunsKeeps DEF TraceInv, CallGoesOn
  <2>2. Interpret => i < NumOps
    BY DEF Interpret
  <2>3. Answered => pc # "idle"
    BY DEF Answered, Return, Returns
  <2> QED
    BY <2>1, <2>2, <2>3
<1>4. PICK C, end : /\ Course(author, mem_max_addr, ops, placed, C, end)
                    /\ end[1].pc = "idle" /\ end[2] = Len(ops)
                    /\ Goes(author, ops, At) \in C
  BY <1>3, OnCourse
<1> QED
  BY <1>1, <1>2, <1>4 DEF AlikeInv

\* No call fails in a later pass, and none answers otherwise.
LEMMA LaterPassSucceeds ==
    ASSUME TraceInv, AlikeInv, pass \in {"util", "speed"}, pc \in {"return", "failed"}
    PROVE  pc = "return" /\ ret # NULL /\ ret = placed[i + 1]
<1>1. At[1].pc = pc /\ At[2] = i /\ At[1].ret = ret
  BY PackageFollows DEF TraceInv, ViewTrue, At
<1>2. Succeeds(placed, At)
  BY OnCourse
<1> QED
  BY <1>1, <1>2 DEF Succeeds

LEMMA PassesAreAlike ==
    ASSUME TraceInv, AlikeInv
    PROVE  PassesAlike
  BY LaterPassSucceeds DEF PassesAlike, AlikeInv

\* A pass begins: the package is as it was at the start of the first one.
LEMMA BeginsAtStart ==
    ASSUME TraceInv, Begins
    PROVE  At' = <<StartView(author, mem_max_addr), 0>> /\ UNCHANGED <<author, mem_max_addr>>
<1>1. /\ UNCHANGED <<author, rover>> /\ i' = 0
      /\ NewTrace \/ (pc = "init" /\ Idles)
  BY DEF Begins
<1>2. mem_max_addr' = mem_max_addr
  BY <1>1, MaxStays
<1>3. ViewTrue /\ ViewFollows
  BY <1>1, PackageFollows DEF TraceInv
<1>4. PackageView' = StartView(author, mem_max_addr)
  BY <1>1, <1>3 DEF ViewTrue, ViewFollows
<1>5. At' = <<PackageView', i'>>
  BY DEF At
<1> QED
  BY <1>1, <1>2, <1>4, <1>5

LEMMA RestartKeeps ==
    ASSUME TraceInv, AlikeInv, pass \in {"valid", "util", "speed", "timed"},
           pass \in Passes => pc = "idle" /\ i = NumOps,
           NEW next \in {"util", "speed"}, Restart(next)
    PROVE  AlikeInv'
<1>1. /\ UNCHANGED <<ops, placed>> /\ pass' = next
      /\ Begins
  BY DEF Restart, Begins, Passes
<1>2. At' = <<StartView(author, mem_max_addr), 0>> /\ UNCHANGED <<author, mem_max_addr>>
  BY <1>1, BeginsAtStart
<1>3. \E C, end : /\ Course(author, mem_max_addr, ops, placed, C, end)
                  /\ end[1].pc = "idle" /\ end[2] = Len(ops)
  <2>1. CASE pass = "valid"
    <3>1. At[1].pc = pc /\ At[2] = i
      BY PackageFollows DEF TraceInv, ViewTrue, At
    <3> QED
      BY <2>1, <3>1 DEF AlikeInv, Passes, NumOps
  <2>2. CASE pass # "valid"
    BY <2>2 DEF AlikeInv
  <2> QED
    BY <2>1, <2>2
<1>4. PICK C, end : /\ Course(author, mem_max_addr, ops, placed, C, end)
                    /\ end[1].pc = "idle" /\ end[2] = Len(ops)
  BY <1>3
<1>5. At' \in C
  BY <1>2, <1>4 DEF Course
<1> QED
  BY <1>1, <1>2, <1>4, <1>5 DEF AlikeInv

LEMMA TraceBegins ==
    ASSUME TraceInv, Begins, ops' \in Seq(Requests), pass' = "valid",
           placed' = [k \in 1..Len(ops') |-> NULL]
    PROVE  AlikeInv'
<1>1. At' = <<StartView(author, mem_max_addr), 0>> /\ UNCHANGED <<author, mem_max_addr>>
  BY BeginsAtStart
<1>2. Course(author, mem_max_addr, ops', placed', {At'}, At')
  BY <1>1, CourseStarts
<1>3. placed' \in [1..Len(ops') -> Nat]
  BY DEF NULL
<1> DEFINE C == {At'}
<1>4. At' \in C /\ \A c \in C : c # At' /\ c[1].pc = "return" => c[2] < i'
  OBVIOUS
<1>5. Course(author', mem_max_addr', ops', placed', C, At')
  BY <1>1, <1>2
<1> HIDE DEF C
<1> QED
  BY <1>3, <1>4, <1>5 DEF AlikeInv

\* The driver does something of its own.
LEMMA AlikeIdles ==
    ASSUME TraceInv, AlikeInv, Idles, UNCHANGED <<author, rover>>, pass' # "app_error",
           \/ pass' \notin {"valid", "util", "speed", "timed"}
           \/ UNCHANGED <<ops, placed, i>> /\ pass' \in {pass, "timed"}
              /\ (pass' # pass => pass \in {"util", "speed"})
    PROVE  AlikeInv'
<1>1. mem_max_addr' = mem_max_addr
  BY MaxStays
<1>2. PackageView' = PackageView
  BY PackageFollows DEF TraceInv, ViewFollows
<1>3. CASE pass' \notin {"valid", "util", "speed", "timed"}
  BY <1>3 DEF AlikeInv
<1>4. CASE /\ UNCHANGED <<ops, placed, i>> /\ pass' \in {pass, "timed"}
           /\ pass' # pass => pass \in {"util", "speed"}
  <2>1. At' = At
    BY <1>2, <1>4 DEF At
  <2>2. CASE pass' = "valid"
    <3>1. pass = "valid"
      BY <1>4, <2>2
    <3> QED
      BY <1>1, <1>4, <2>1, <2>2, <3>1 DEF AlikeInv
  <2>3. CASE pass' \in {"util", "speed", "timed"}
    <3>1. pass \in {"util", "speed", "timed"} /\ (pass' # "timed" => pass # "timed")
      BY <1>4, <2>3
    <3> QED
      BY <1>1, <1>4, <2>1, <2>3, <3>1 DEF AlikeInv
  <2> QED
    BY <1>3, <2>2, <2>3
<1> QED
  BY <1>3, <1>4

LEMMA EvaluateAlike ==
    ASSUME TraceInv, AlikeInv, Evaluate
    PROVE  AlikeInv'
<1>1. CASE PackageRuns \/ Interpret \/ Answered
  <2>1. pass = "valid" \/ pass \in {"util", "speed"}
    BY <1>1 DEF PackageRuns, Interpret, Answered, Passes
  <2> QED
    BY <1>1, <2>1, FirstPassKeeps, LaterPassKeeps
<1>2. CASE CallFailed \/ InitFailed
  <2>1. /\ pass \in Passes /\ pass' = IF pass = "valid" THEN "rejected" ELSE "app_error"
    BY <1>2 DEF CallFailed, InitFailed, Outcome
  <2>2. pc \in {"return", "failed"} /\ (pc = "return" => ret = NULL)
    BY <1>2 DEF CallFailed, InitFailed, Returns
  <2>3. pass = "valid"
    BY <2>1, <2>2, LaterPassSucceeds DEF Passes
  <2> QED
    BY <2>1, <2>3 DEF AlikeInv
<1>3. CASE Accepted
  BY <1>3, RestartKeeps DEF Accepted, PassOver
<1>4. CASE UtilOver
  BY <1>4, RestartKeeps DEF UtilOver, PassOver
<1>5. CASE CalledAgain
  BY <1>5, RestartKeeps DEF CalledAgain, Passes
<1>6. CASE SpeedOver
  BY <1>6, AlikeIdles DEF SpeedOver, PassOver, Idles
<1>7. CASE Measured
  BY <1>7, AlikeIdles DEF Measured, Idles
<1> QED
  BY <1>1, <1>2, <1>3, <1>4, <1>5, <1>6, <1>7 DEF Evaluate

LEMMA NextAlike ==
    ASSUME Inv, AlikeInv, [Next]_vars
    PROVE  AlikeInv'
<1>1. TraceInv
  BY DEF Inv
<1>2. CASE MainOnly
  <2>1. Idles /\ UNCHANGED <<author, rover, ops, placed, i, pass>>
    BY <1>2 DEF MainOnly, Idles, passVars, traceVars
  <2> QED
    BY <1>1, <2>1, AlikeIdles DEF AlikeInv
<1>3. CASE read_trace
  <2> DEFINE len == setup.num_ops[file + 1]
  <2>1. PICK t \in Traces(len), header \in Headers(len) :
           IF HeaderAgrees(t, header)
           THEN /\ Begin(t)
                /\ \/ pc = "init" /\ UNCHANGED <<memVars, clientVars>>
                   \/ NewTrace
                /\ UNCHANGED phase
           ELSE /\ phase' = "exit"
                /\ UNCHANGED <<memVars, clientVars, traceVars>>
    BY <1>3, Zenon DEF read_trace
  <2>2. UNCHANGED <<author, rover, fcycVars>>
    BY <1>3 DEF read_trace
  <2>3. CASE HeaderAgrees(t, header)
    <3>1. /\ ops' = t /\ i' = 0 /\ pass' = "valid"
          /\ placed' = [k \in 1..Len(ops') |-> NULL]
      BY <2>1, <2>3 DEF Begin
    <3>2. Begins
      BY <2>1, <2>2, <2>3, <3>1 DEF Begins, Idles, Passes
    <3>3. ops' \in Seq(Requests)
      <4>1. Inv'
        BY <1>3, read_traceKeeps
      <4> QED
        BY <4>1 DEF Inv, TraceInv
    <3> QED
      BY <1>1, <3>1, <3>2, <3>3, TraceBegins
  <2>4. CASE ~HeaderAgrees(t, header)
    <3>1. MainOnly
      BY <2>1, <2>2, <2>4 DEF MainOnly, passVars
    <3> QED
      BY <1>2, <3>1
  <2> QED
    BY <2>3, <2>4
<1>4. CASE EvaluateFile
  BY <1>1, <1>4, EvaluateAlike DEF EvaluateFile
<1>5. CASE free_trace
  <2>1. Idles /\ UNCHANGED <<author, rover>> /\ pass' = "none"
    BY <1>5 DEF free_trace, Idles
  <2> QED
    BY <1>1, <2>1, AlikeIdles
<1>6. Start \/ eval_libc_valid \/ LibcOver \/ Report \/ UNCHANGED vars => MainOnly
  BY DEF Start, eval_libc_valid, LibcOver, Report, vars, MainOnly
<1> QED
  BY <1>2, <1>3, <1>4, <1>5, <1>6 DEF Next

\* The passes over a trace are alike: whatever the storage holds of the passes
\* and traces before, eval_mm_util and eval_mm_speed are given the addresses that
\* eval_mm_valid accepted, and never end in an app_error; for every heap, every
\* trace and each of the three allocators.
THEOREM DriverPassesAlike == Spec => []PassesAlike
<1>1. Init => AlikeInv
  BY DEF Init, PassesInit, AlikeInv
<1>2. Inv /\ AlikeInv /\ [Next]_vars => AlikeInv'
  BY NextAlike
<1>3. Inv /\ AlikeInv => PassesAlike
  BY PassesAreAlike DEF Inv
<1> QED
  BY <1>1, <1>2, <1>3, DriverInvariant, PTL DEF Spec
=============================================================================
