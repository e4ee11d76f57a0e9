--------------------------- MODULE GemBuffersProofs ---------------------------
(***************************************************************************)
(* For any number of threads, objects and mappings, and any sizes: the     *)
(* ranges of the aperture never overlap and are listed as long as their    *)
(* objects have them; the host maps live memory only, at ranges that       *)
(* nobody else is given; a part of video memory belongs to one object or   *)
(* is available; and an object lives as long as anybody holds it.          *)
(***************************************************************************)
EXTENDS GemBuffers, TLAPS, FiniteSetTheorems, SequenceTheorems, WellFoundedInduction

\* Where a thread has an object for itself, has a reference of its own, and
\* takes an object down.
Making  == {"range", "map", "unrange", "scan", "handle", "fbdev"}
Owning  == Making \cup {"put"}
Freeing == {"unmap", "unlist", "free"}

\* What a thread does next, by where it is, and what it knows.
Shaped ==
  /\ \A o \in Objects : ~Live(o) => obj[o] = Unused
  /\ \A t \in Threads :
       /\ at[t].pc = "idle" => at[t] = Quiet
       /\ at[t].pc \in Owning \cup Freeing => at[t].obj # None
       /\ at[t].obj # None => Live(at[t].obj)
       /\ at[t].pc \in Making => at[t].next \in {"handle", "fbdev"}
       /\ at[t].pc \in {"handle", "fbdev", "again", "note"} => at[t].next = at[t].pc
       /\ at[t].pc = "put" => at[t].next \in {"note", "again"}
       /\ at[t].pc \in Freeing => at[t].next \in {"idle", "note", "again"}

\* An object is made by one thread, which nobody else knows, and taken down by one.
Alone ==
  \A t, u \in Threads : at[t].obj # None /\ at[t].obj = at[u].obj /\ t # u =>
    /\ at[t].pc \notin Making
    /\ at[t].pc \notin Owning \cup Freeing \/ at[u].pc \notin Owning \cup Freeing

\* The console's object is made once, before anything else.
Booting ==
  /\ ~loaded => fbdev = None /\ \A t \in Threads : at[t].next # "fbdev"
  /\ \A t \in Threads : at[t].next = "fbdev" =>
       fbdev = None /\ \A u \in Threads : at[u].next = "fbdev" => u = t

\* References.
Mappings(o) == {v \in Vmas : vma[v].obj = o}
Owned(o) == \E t \in Threads : at[t].obj = o /\ at[t].pc \in Owning
One(b) == IF b THEN 1 ELSE 0

Counted(o) ==
  obj[o].refs = One(o \in handles) + One(o \in fbs) + One(fbdev = o) + One(Owned(o))
                  + Cardinality(Mappings(o))
Counting == \A o \in Objects : Counted(o)

\* An object that is made has one reference, and one that is taken down none; a
\* handle that is not noted yet is only closed if that is known.
Ended(t) ==
  /\ at[t].pc \in Making => obj[at[t].obj].refs = 1
  /\ at[t].pc \in Freeing => obj[at[t].obj].refs = 0
  /\ at[t].next = "note" /\ ~at[t].shut => at[t].obj \in handles
Ending == \A t \in Threads : Ended(t)

\* The memory an object has, by where it is made.
Memory ==
  /\ \A o \in Objects :
       /\ obj[o].kptr \/ obj[o].addr # 0 => obj[o].index = 0
  /\ \A t \in Threads :
       LET o == obj[at[t].obj] IN
       /\ at[t].pc \in {"range", "scan"} => o.addr = 0 /\ o.index = 0
       /\ at[t].pc = "scan" => ~o.kptr
       /\ at[t].pc \in {"map", "unrange", "unmap", "unlist"} => o.addr # 0
       /\ at[t].pc \in {"unmap", "unlist"} => o.kptr

\* Objects whose range is on the list.
Lists(o) ==
  /\ Live(o) /\ obj[o].addr # 0
  /\ obj[o].kptr => \A t \in Threads : at[t].obj = o => at[t].pc # "free"

\* The list is ordered and its entries do not overlap.
Sorted ==
  /\ \A i \in DOMAIN ranges : Base <= ranges[i].base
  /\ \A i, j \in DOMAIN ranges : i < j => ranges[i].base + ranges[i].size <= ranges[j].base

On == {ranges[i] : i \in DOMAIN ranges}

\* An entry is of one object or lost, and whoever has a range has an entry.
Listing ==
  /\ Sorted
  /\ \A r \in On : r.base \in lost \/ \E o \in Objects : Lists(o) /\ obj[o].addr = r.base
  /\ \A o \in Objects : Lists(o) =>
       /\ [base |-> obj[o].addr, size |-> obj[o].size] \in On
       /\ obj[o].addr \notin lost
       /\ \A p \in Objects : Lists(p) /\ obj[p].addr = obj[o].addr => p = o
  /\ \A b \in lost : \E r \in On : r.base = b

\* What the host maps.
Mapping ==
  /\ \A r \in mapped \ stray :
       Lists(r.obj) /\ obj[r.obj].kptr /\ obj[r.obj].addr = r.base /\ obj[r.obj].size = r.size
  /\ \A t \in Threads : at[t].pc \in {"map", "unrange", "unlist", "free"} =>
       \A r \in mapped \ stray : r.obj # at[t].obj

\* Memory is misused in the three known ways.
Explained ==
  corrupt =>
    \/ \E t \in Threads : at[t].shut \/ at[t].next = "again"
    \/ \E v \in Vmas : vma[v].obj # None /\ ~vma[v].pages /\ ~obj[vma[v].obj].kptr

Control == TypeOK /\ Shaped /\ Alone /\ Booting
Store   == Memory /\ Listing /\ Mapping /\ BuffersOwned
IInv    == Control /\ Counting /\ Ending /\ Store /\ Explained

-----------------------------------------------------------------------------
(* Types, and what the steps leave.                                        *)

\* What the constants are.
LEMMA Bounds ==
  /\ \A x \in Sizes : x \in Nat /\ x > 0
  /\ MaxRefs \in Nat /\ MaxRefs > 0 /\ MaxFails \in Nat /\ NumBufs \in Nat
  /\ None \notin Objects
BY GemAssumption

\* What a thread that does nothing knows.
LEMMA QuietStep ==
  /\ Quiet \in Steps /\ Quiet.pc = "idle" /\ Quiet.obj = None /\ Quiet.next = "idle"
  /\ Quiet.shut = FALSE
BY GemAssumption DEF Quiet, Steps, PCs, Nexts

\* What memory without an object holds.
LEMMA UnusedGem ==
  /\ Unused \in Gems /\ Unused.size = 0 /\ Unused.refs = 0 /\ Unused.addr = 0
  /\ Unused.index = 0 /\ Unused.kptr = FALSE /\ Unused.uptr = FALSE
BY GemAssumption DEF Unused, New, Gems

\* The first step of taking an object down.
LEMMA First ==
  ASSUME NEW o \in Objects
  PROVE  /\ FirstStep(o) \in Freeing /\ FirstStep(o) \in PCs
         /\ FirstStep(o) = "unmap" => obj[o].kptr /\ obj[o].addr # 0
         /\ FirstStep(o) = "free" => ~obj[o].kptr \/ obj[o].addr = 0
         /\ FirstStep(o) \in {"unmap", "free"}
BY DEF FirstStep, Freeing, PCs

\* A thread goes on.
LEMMA Going ==
  ASSUME at \in [Threads -> Steps], NEW t \in Threads, NEW pc \in PCs, Goto(t, pc)
  PROVE  /\ at' \in [Threads -> Steps]
         /\ \A u \in Threads \ {t} : at'[u] = at[u]
         /\ at'[t].pc = pc /\ at'[t].obj = at[t].obj /\ at'[t].next = at[t].next
         /\ at'[t].shut = at[t].shut
BY DEF Goto, Steps

\* A reference is dropped.
LEMMA Dropping ==
  ASSUME at \in [Threads -> Steps], obj \in [Objects -> Gems],
         NEW t \in Threads, NEW o \in Objects, obj[o].refs > 0,
         NEW next \in {"idle", "note", "again"}, Drop(t, o, next)
  PROVE  /\ at' \in [Threads -> Steps]
         /\ \A u \in Threads \ {t} : at'[u] = at[u]
         /\ obj[o].refs = 1 =>
              /\ at'[t].pc = FirstStep(o) /\ at'[t].obj = o /\ at'[t].next = next
              /\ at'[t].shut = at[t].shut
         /\ obj[o].refs # 1 /\ next = "idle" => at'[t] = Quiet
         /\ obj[o].refs # 1 /\ next # "idle" =>
              /\ at'[t].pc = next /\ at'[t].obj = at[t].obj /\ at'[t].next = at[t].next
              /\ at'[t].shut = at[t].shut
         /\ obj' \in [Objects -> Gems]
         /\ \A p \in Objects \ {o} : obj'[p] = obj[p]
         /\ obj'[o].refs = obj[o].refs - 1 /\ obj'[o].size = obj[o].size
         /\ obj'[o].kptr = obj[o].kptr /\ obj'[o].addr = obj[o].addr
         /\ obj'[o].index = obj[o].index
<1>1. /\ obj' \in [Objects -> Gems]
      /\ \A p \in Objects \ {o} : obj'[p] = obj[p]
      /\ obj'[o].refs = obj[o].refs - 1 /\ obj'[o].size = obj[o].size
      /\ obj'[o].kptr = obj[o].kptr /\ obj'[o].addr = obj[o].addr
      /\ obj'[o].index = obj[o].index
  <2> DEFINE n == [obj[o] EXCEPT !.refs = @ - 1]
  <2>1. /\ n \in Gems /\ n.refs = obj[o].refs - 1 /\ n.size = obj[o].size
        /\ n.kptr = obj[o].kptr /\ n.addr = obj[o].addr /\ n.index = obj[o].index
    BY GemAssumption DEF Gems
  <2>2. obj' = [obj EXCEPT ![o] = n]
    BY DEF Drop
  <2> HIDE DEF n
  <2> QED BY <2>1, <2>2
<1> DEFINE x == IF obj[o].refs = 1 THEN [at[t] EXCEPT !.pc = FirstStep(o), !.obj = o, !.next = next]
                ELSE IF next = "idle" THEN Quiet ELSE [at[t] EXCEPT !.pc = next]
<1>2. at' = [at EXCEPT ![t] = x]
  BY DEF Drop
<1>3. at[t] \in Steps /\ next \in PCs /\ next \in Nexts /\ FirstStep(o) \in PCs
  BY First DEF PCs, Nexts
<1>4. CASE obj[o].refs = 1
  <2> DEFINE y == [at[t] EXCEPT !.pc = FirstStep(o), !.obj = o, !.next = next]
  <2>1. y \in Steps /\ y.pc = FirstStep(o) /\ y.obj = o /\ y.next = next /\ y.shut = at[t].shut
    BY <1>3 DEF Steps
  <2>2. at' = [at EXCEPT ![t] = y]
    BY <1>2, <1>4
  <2> HIDE DEF y
  <2> QED BY <1>1, <1>4, <2>1, <2>2
<1>5. CASE obj[o].refs # 1 /\ next = "idle"
  <2>1. at' = [at EXCEPT ![t] = Quiet]
    BY <1>2, <1>5
  <2> QED BY <1>1, <1>5, <2>1, QuietStep
<1>6. CASE obj[o].refs # 1 /\ next # "idle"
  <2> DEFINE y == [at[t] EXCEPT !.pc = next]
  <2>1. /\ y \in Steps /\ y.pc = next /\ y.obj = at[t].obj /\ y.next = at[t].next
        /\ y.shut = at[t].shut
    BY <1>3 DEF Steps
  <2>2. at' = [at EXCEPT ![t] = y]
    BY <1>2, <1>6
  <2> HIDE DEF y
  <2> QED BY <1>1, <1>6, <2>1, <2>2
<1> QED BY <1>4, <1>5, <1>6

\* An object goes, and every thread forgets it.
LEMMA Leaving ==
  ASSUME at \in [Threads -> Steps], obj \in [Objects -> Gems],
         NEW t \in Threads, NEW o \in Objects, NEW rest \in Steps, Gone(t, o, rest)
  PROVE  /\ at' \in [Threads -> Steps] /\ at'[t] = rest
         /\ \A u \in Threads \ {t} :
              /\ at'[u].pc = at[u].pc /\ at'[u].next = at[u].next /\ at'[u].shut = at[u].shut
              /\ at[u].obj = o => at'[u].obj = None
              /\ at[u].obj # o => at'[u].obj = at[u].obj
         /\ obj' \in [Objects -> Gems] /\ obj'[o] = Unused
         /\ \A p \in Objects \ {o} : obj'[p] = obj[p]
<1>1. obj' \in [Objects -> Gems] /\ obj'[o] = Unused /\ \A p \in Objects \ {o} : obj'[p] = obj[p]
  BY UnusedGem DEF Gone
<1>2. at' \in [Threads -> Steps] /\ at'[t] = rest
  BY DEF Gone, Steps
<1>3. ASSUME NEW u \in Threads \ {t}
      PROVE  /\ at'[u].pc = at[u].pc /\ at'[u].next = at[u].next /\ at'[u].shut = at[u].shut
             /\ at[u].obj = o => at'[u].obj = None
             /\ at[u].obj # o => at'[u].obj = at[u].obj
  <2>1. at'[u] = IF at[u].obj = o THEN [at[u] EXCEPT !.obj = None] ELSE at[u]
    BY DEF Gone
  <2> QED BY <2>1 DEF Steps
<1> QED BY <1>1, <1>2, <1>3

\* A handle is closed by a thread that is idle.
LEMMA Closing ==
  ASSUME at \in [Threads -> Steps], obj \in [Objects -> Gems], NEW t \in Threads,
         NEW o \in Objects, at[t] = Quiet, obj[o].refs > 0, CloseHandle(t, o)
  PROVE  /\ at' \in [Threads -> Steps]
         /\ \A u \in Threads \ {t} :
              /\ at'[u].pc = at[u].pc /\ at'[u].obj = at[u].obj /\ at'[u].next = at[u].next
              /\ at[u].shut => at'[u].shut
              /\ at[u].obj = o /\ at[u].pc \in {"put", "note"} => at'[u].shut
         /\ obj[o].refs = 1 => at'[t].pc = FirstStep(o) /\ at'[t].obj = o /\ at'[t].next = "idle"
         /\ obj[o].refs # 1 => at'[t] = Quiet
         /\ obj' \in [Objects -> Gems]
         /\ \A p \in Objects \ {o} : obj'[p] = obj[p]
         /\ obj'[o].refs = obj[o].refs - 1 /\ obj'[o].size = obj[o].size
         /\ obj'[o].kptr = obj[o].kptr /\ obj'[o].addr = obj[o].addr
         /\ obj'[o].index = obj[o].index
<1>1. /\ obj' \in [Objects -> Gems]
      /\ \A p \in Objects \ {o} : obj'[p] = obj[p]
      /\ obj'[o].refs = obj[o].refs - 1 /\ obj'[o].size = obj[o].size
      /\ obj'[o].kptr = obj[o].kptr /\ obj'[o].addr = obj[o].addr
      /\ obj'[o].index = obj[o].index
  <2> DEFINE n == [obj[o] EXCEPT !.refs = @ - 1]
  <2>1. /\ n \in Gems /\ n.refs = obj[o].refs - 1 /\ n.size = obj[o].size
        /\ n.kptr = obj[o].kptr /\ n.addr = obj[o].addr /\ n.index = obj[o].index
    BY Bounds DEF Gems
  <2>2. obj' = [obj EXCEPT ![o] = n]
    BY DEF CloseHandle
  <2> HIDE DEF n
  <2> QED BY <2>1, <2>2
<1> DEFINE makers == {u \in Threads : at[u].obj = o /\ at[u].pc \in {"put", "note"}}
           last   == obj[o].refs = 1
           new(u) == CASE u \in makers -> [at[u] EXCEPT !.shut = TRUE]
                       [] u = t /\ last -> [Quiet EXCEPT !.pc = FirstStep(o), !.obj = o]
                       [] OTHER -> at[u]
<1>2. at' = [u \in Threads |-> new(u)]
  BY DEF CloseHandle
<1>3. t \notin makers
  BY QuietStep
<1>4. ASSUME NEW u \in makers
      PROVE  /\ new(u) \in Steps /\ new(u).pc = at[u].pc /\ new(u).obj = at[u].obj
             /\ new(u).next = at[u].next /\ new(u).shut
  <2>1. new(u) = [at[u] EXCEPT !.shut = TRUE]
    BY <1>3
  <2> QED BY ZenonT(40), <2>1 DEF Steps
<1>5. ASSUME NEW u \in Threads \ makers, u # t PROVE new(u) = at[u]
  BY <1>5
<1>6. CASE last
  <2>1. new(t) = [Quiet EXCEPT !.pc = FirstStep(o), !.obj = o]
    BY <1>3, <1>6
  <2>2. /\ new(t) \in Steps /\ new(t).pc = FirstStep(o) /\ new(t).obj = o
        /\ new(t).next = "idle"
    BY <2>1, QuietStep, First DEF Steps
  <2> HIDE DEF makers, new
  <2> QED BY <1>1, <1>2, <1>3, <1>4, <1>5, <1>6, <2>2 DEF makers
<1>7. CASE ~last
  <2>1. new(t) = Quiet
    BY <1>3, <1>7
  <2> HIDE DEF makers, new
  <2> QED BY <1>1, <1>2, <1>3, <1>4, <1>5, <1>7, <2>1, QuietStep DEF makers
<1> QED BY <1>6, <1>7

\* A mapping ends.
LEMMA Unmapping ==
  ASSUME at \in [Threads -> Steps], obj \in [Objects -> Gems],
         NEW t \in Threads, NEW v \in Vmas, vma[v].obj \in Objects, obj[vma[v].obj].refs > 0,
         Unmmap(t, v)
  PROVE  LET o == vma[v].obj IN
         /\ at' \in [Threads -> Steps]
         /\ \A u \in Threads \ {t} : at'[u] = at[u]
         /\ obj[o].refs = 1 => at'[t].pc = FirstStep(o) /\ at'[t].obj = o /\ at'[t].next = "idle"
         /\ obj[o].refs # 1 => at'[t] = Quiet
         /\ obj' \in [Objects -> Gems]
         /\ \A p \in Objects \ {o} : obj'[p] = obj[p]
         /\ obj'[o].refs = obj[o].refs - 1 /\ obj'[o].size = obj[o].size
         /\ obj'[o].kptr = obj[o].kptr /\ obj'[o].addr = obj[o].addr
         /\ obj'[o].index = obj[o].index
<1> DEFINE o == vma[v].obj
<1>1. /\ obj' \in [Objects -> Gems]
      /\ \A p \in Objects \ {o} : obj'[p] = obj[p]
      /\ obj'[o].refs = obj[o].refs - 1 /\ obj'[o].size = obj[o].size
      /\ obj'[o].kptr = obj[o].kptr /\ obj'[o].addr = obj[o].addr
      /\ obj'[o].index = obj[o].index
  <2> DEFINE m == [obj[o] EXCEPT !.uptr = FALSE]
             n == [m EXCEPT !.refs = @ - 1]
  <2>0. /\ m \in Gems /\ m.refs = obj[o].refs /\ m.size = obj[o].size
        /\ m.kptr = obj[o].kptr /\ m.addr = obj[o].addr /\ m.index = obj[o].index
    BY DEF Gems
  <2>2. obj' = [obj EXCEPT ![o] = n]
    BY DEF Unmmap
  <2> HIDE DEF m
  <2>1. /\ n \in Gems /\ n.refs = obj[o].refs - 1 /\ n.size = obj[o].size
        /\ n.kptr = obj[o].kptr /\ n.addr = obj[o].addr /\ n.index = obj[o].index
    BY <2>0, Bounds DEF Gems
  <2> HIDE DEF n
  <2> QED BY <2>1, <2>2
<1>2. CASE obj[o].refs = 1
  <2> DEFINE n == [Quiet EXCEPT !.pc = FirstStep(o), !.obj = o]
  <2>1. n \in Steps /\ n.pc = FirstStep(o) /\ n.obj = o /\ n.next = "idle"
    BY QuietStep, First DEF Steps
  <2>2. at' = [at EXCEPT ![t] = n]
    BY <1>2 DEF Unmmap
  <2> HIDE DEF n
  <2> QED BY <1>1, <1>2, <2>1, <2>2
<1>3. CASE obj[o].refs # 1
  <2>1. at' = [at EXCEPT ![t] = Quiet]
    BY <1>3 DEF Unmmap
  <2> QED BY <1>1, <1>3, <2>1, QuietStep
<1> QED BY <1>2, <1>3

\* A reference is taken.
LEMMA Taking ==
  ASSUME obj \in [Objects -> Gems], NEW o \in Objects, Take(o)
  PROVE  /\ obj' \in [Objects -> Gems]
         /\ \A p \in Objects \ {o} : obj'[p] = obj[p]
         /\ obj'[o].refs = obj[o].refs + 1 /\ obj'[o].size = obj[o].size
         /\ obj'[o].kptr = obj[o].kptr /\ obj'[o].addr = obj[o].addr
         /\ obj'[o].index = obj[o].index
BY GemAssumption DEF Take, Gems

-----------------------------------------------------------------------------
(* The aperture's list.                                                    *)

\* A set of numbers that is not empty has a smallest one.
LEMMA Smallest ==
  ASSUME NEW S \in SUBSET Nat, S # {}
  PROVE  \E i \in S : \A j \in S : i <= j
<1>1. PICK i \in S : \A j \in S : <<j, i>> \notin OpToRel(<, Nat)
  BY NatLessThanWellFounded, WFMin
<1>2. \A j \in S : ~(j < i)
  BY <1>1 DEF OpToRel
<1> QED BY <1>2

\* What is where when an entry has been put into a list.
LEMMA Inserted ==
  ASSUME NEW S, NEW s \in Seq(S), NEW x \in S, NEW i \in 1..Len(s) + 1
  PROVE  /\ InsertAt(s, i, x) \in Seq(S) /\ Len(InsertAt(s, i, x)) = Len(s) + 1
         /\ \A j \in 1..Len(s) + 1 :
              /\ j < i => InsertAt(s, i, x)[j] = s[j]
              /\ j = i => InsertAt(s, i, x)[j] = x
              /\ j > i => InsertAt(s, i, x)[j] = s[j-1]
<1> DEFINE a == SubSeq(s, 1, i - 1)
           c == SubSeq(s, i, Len(s))
<1>1. a \in Seq(S) /\ Len(a) = i - 1 /\ \A j \in 1..i - 1 : a[j] = s[j]
  BY SubSeqProperties
<1>2. c \in Seq(S) /\ Len(c) = Len(s) - i + 1 /\ \A j \in 1..Len(s) - i + 1 : c[j] = s[i + j - 1]
  BY SubSeqProperties
<1>3. InsertAt(s, i, x) = (a \o <<x>>) \o c
  BY DEF InsertAt
<1> HIDE DEF a, c
<1> DEFINE b == a \o <<x>>
<1>4. b \in Seq(S) /\ Len(b) = i /\ \A j \in 1..i : b[j] = IF j < i THEN s[j] ELSE x
  BY <1>1
<1> HIDE DEF b
<1>5. InsertAt(s, i, x) = b \o c
  BY <1>3 DEF b
<1>6. /\ b \o c \in Seq(S) /\ Len(b \o c) = Len(b) + Len(c)
      /\ \A j \in 1..Len(b) + Len(c) : (b \o c)[j] = IF j <= Len(b) THEN b[j] ELSE c[j - Len(b)]
  BY <1>2, <1>4, ConcatProperties
<1>7. Len(s) \in Nat
  OBVIOUS
<1>8. ASSUME NEW j \in 1..Len(s) + 1
      PROVE  /\ j < i => (b \o c)[j] = s[j]
             /\ j = i => (b \o c)[j] = x
             /\ j > i => (b \o c)[j] = s[j-1]
  <2>1. CASE j <= i
    BY <1>2, <1>4, <1>6, <1>7, <2>1
  <2>2. CASE j > i
    <3>1. (b \o c)[j] = c[j - i]
      <4>1. j \in 1..Len(b) + Len(c) /\ ~(j <= Len(b)) /\ Len(b) = i
        BY <1>2, <1>4, <1>7, <2>2
      <4> QED BY <1>6, <4>1
    <3>2. c[j - i] = s[i + (j - i) - 1]
      BY <1>2, <1>7, <2>2
    <3> QED BY <1>7, <2>2, <3>1, <3>2
  <2>3. j <= i \/ j > i
    BY <1>7
  <2> QED BY <2>1, <2>2, <2>3
<1> QED BY <1>2, <1>4, <1>5, <1>6, <1>7, <1>8

\* What is where when an entry has been taken out of a list.
LEMMA Removed ==
  ASSUME NEW S, NEW s \in Seq(S), NEW i \in 1..Len(s)
  PROVE  /\ RemoveAt(s, i) \in Seq(S) /\ Len(RemoveAt(s, i)) = Len(s) - 1
         /\ \A j \in 1..Len(s) - 1 :
              RemoveAt(s, i)[j] = IF j < i THEN s[j] ELSE s[j+1]
<1> DEFINE a == SubSeq(s, 1, i - 1)
           c == SubSeq(s, i + 1, Len(s))
<1>1. a \in Seq(S) /\ Len(a) = i - 1 /\ \A j \in 1..i - 1 : a[j] = s[j]
  BY SubSeqProperties
<1>2. c \in Seq(S) /\ Len(c) = Len(s) - i /\ \A j \in 1..Len(s) - i : c[j] = s[i + j]
  BY SubSeqProperties
<1>3. RemoveAt(s, i) = a \o c
  BY DEF RemoveAt
<1> HIDE DEF a, c
<1>4. /\ a \o c \in Seq(S) /\ Len(a \o c) = Len(a) + Len(c)
      /\ \A j \in 1..Len(a) + Len(c) : (a \o c)[j] = IF j <= Len(a) THEN a[j] ELSE c[j - Len(a)]
  BY <1>1, <1>2, ConcatProperties
<1>5. Len(s) \in Nat
  OBVIOUS
<1>6. ASSUME NEW j \in 1..Len(s) - 1
      PROVE  (a \o c)[j] = IF j < i THEN s[j] ELSE s[j+1]
  <2>1. CASE j < i
    BY <1>1, <1>2, <1>4, <1>5, <2>1
  <2>2. CASE j >= i
    <3>1. (a \o c)[j] = c[j - (i - 1)]
      <4>1. j \in 1..Len(a) + Len(c) /\ ~(j <= Len(a)) /\ Len(a) = i - 1
        BY <1>1, <1>2, <1>5, <2>2
      <4> QED BY <1>4, <4>1
    <3>2. c[j - (i - 1)] = s[i + (j - (i - 1))]
      BY <1>2, <1>5, <2>2
    <3> QED BY <1>5, <2>2, <3>1, <3>2
  <2>3. j < i \/ j >= i
    BY <1>5
  <2> QED BY <2>1, <2>2, <2>3, Zenon
<1> QED BY <1>1, <1>2, <1>3, <1>4, <1>5, <1>6

\* The entries of the list.
LEMMA Entries ==
  ASSUME TypeOK
  PROVE  /\ DOMAIN ranges = 1..Len(ranges) /\ Len(ranges) \in Nat
         /\ \A i \in DOMAIN ranges :
              /\ ranges[i] \in Ranges
              /\ ranges[i].base \in Nat /\ ranges[i].size \in Nat /\ ranges[i].size > 0
              /\ ranges[i].size \in Sizes
<1>1. DOMAIN ranges = 1..Len(ranges) /\ Len(ranges) \in Nat /\ \A i \in DOMAIN ranges : ranges[i] \in Ranges
  BY DEF TypeOK
<1>2. \A r \in Ranges : r.base \in Nat /\ r.size \in Sizes
  BY DEF Ranges
<1> QED BY <1>1, <1>2, Bounds

\* Where a gap begins: behind all entries before it.
LEMMA Starts ==
  ASSUME TypeOK, Sorted, NEW i \in 1..Len(ranges) + 1
  PROVE  /\ Start(i) \in Nat /\ Base <= Start(i)
         /\ i \in DOMAIN ranges => Start(i) <= ranges[i].base
         /\ \A j \in DOMAIN ranges : j < i => ranges[j].base + ranges[j].size <= Start(i)
<1>1. CASE i = 1
  BY <1>1, Entries DEF Start, Base, Sorted
<1>2. CASE i # 1
  <2>1. i - 1 \in DOMAIN ranges /\ Start(i) = ranges[i-1].base + ranges[i-1].size
    BY <1>2, Entries DEF Start
  <2>2. Start(i) \in Nat /\ Base <= Start(i)
    BY <2>1, Entries DEF Sorted, Base
  <2>3. i \in DOMAIN ranges => Start(i) <= ranges[i].base
    BY <2>1, Entries DEF Sorted
  <2>4. ASSUME NEW j \in DOMAIN ranges, j < i
        PROVE  ranges[j].base + ranges[j].size <= Start(i)
    <3>1. CASE j = i - 1
      BY <2>1, <3>1, Entries
    <3>2. CASE j < i - 1
      <4>1. ranges[j].base + ranges[j].size <= ranges[i-1].base
        BY <2>1, <3>2 DEF Sorted
      <4> QED BY <2>1, <4>1, Entries
    <3> QED BY <2>4, <3>1, <3>2, Entries
  <2> QED BY <2>2, <2>3, <2>4
<1> QED BY <1>1, <1>2

\* The gap that is taken is at a place of the list, and large enough.
LEMMA GapFits ==
  ASSUME TypeOK, Sorted, NEW size \in Sizes
  PROVE  /\ Gap(size) \in 1..Len(ranges) + 1
         /\ Gap(size) \in DOMAIN ranges => size <= Room(Gap(size))
<1>1. \A i \in DOMAIN ranges : Room(i) \in Int
  BY Entries, Starts DEF Room
<1>2. CASE Fitting(size) = {}
  BY <1>2 DEF Gap, TypeOK
<1>3. CASE Fitting(size) # {}
  <2> DEFINE rooms == {Room(i) : i \in Fitting(size)}
  <2>1. rooms \in SUBSET Nat /\ rooms # {}
    BY <1>1, <1>3, GemAssumption DEF Fitting
  <2>2. PICK r \in rooms : \A q \in rooms : r <= q
    BY <2>1, Smallest
  <2>3. PICK k \in Fitting(size) : \A j \in Fitting(size) : Room(k) <= Room(j)
    BY <2>2
  <2>4. BestFits(size) \in SUBSET Nat /\ BestFits(size) # {}
    BY <2>3 DEF BestFits, Fitting, TypeOK
  <2>5. \E i \in BestFits(size) : \A j \in BestFits(size) : i <= j
    BY <2>4, Smallest
  <2>6. Gap(size) \in BestFits(size)
    BY <1>3, <2>5 DEF Gap
  <2> QED BY <2>6 DEF BestFits, Fitting, TypeOK
<1> QED BY <1>2, <1>3

\* What is left of a list of which an entry is dropped.
LEMMA Dropped ==
  ASSUME TypeOK, NEW base
  PROVE  /\ Without(base) \in Seq(Ranges)
         /\ Listed(base) = {} => Without(base) = ranges
         /\ Listed(base) # {} =>
              \E i \in DOMAIN ranges : ranges[i].base = base /\ Without(base) = RemoveAt(ranges, i)
<1>1. CASE Listed(base) = {}
  BY <1>1 DEF Without, TypeOK
<1>2. CASE Listed(base) # {}
  <2>1. Listed(base) \in SUBSET Nat
    BY DEF Listed, TypeOK
  <2>2. \E i \in Listed(base) : \A j \in Listed(base) : i <= j
    BY <1>2, <2>1, Smallest
  <2>3. PICK i \in Listed(base) : Without(base) = RemoveAt(ranges, i)
    BY <1>2, <2>2 DEF Without
  <2>4. i \in 1..Len(ranges) /\ ranges[i].base = base
    BY DEF Listed, TypeOK
  <2> QED BY <1>2, <2>3, <2>4, Removed DEF TypeOK
<1> QED BY <1>1, <1>2

-----------------------------------------------------------------------------
(* References.                                                             *)

\* How often an object is mapped is a number.
LEMMA Counts ==
  ASSUME NEW o
  PROVE  /\ IsFiniteSet(Mappings(o)) /\ Cardinality(Mappings(o)) \in Nat
         /\ Cardinality(Mappings(o)) = 0 => Mappings(o) = {}
         /\ Mappings(o) = {} => Cardinality(Mappings(o)) = 0
BY GemAssumption, FS_Subset, FS_CardinalityType, FS_EmptySet DEF Mappings

\* Whoever holds an object is counted, and alone if it counts one.
LEMMA Referred ==
  ASSUME TypeOK, Counting, NEW o \in Objects
  PROVE  /\ o \in handles \/ o \in fbs \/ fbdev = o \/ Owned(o) \/ Mappings(o) # {} => obj[o].refs > 0
         /\ obj[o].refs <= 1 =>
              /\ o \in handles => o \notin fbs /\ fbdev # o /\ ~Owned(o) /\ Mappings(o) = {}
              /\ o \in fbs => fbdev # o /\ ~Owned(o) /\ Mappings(o) = {}
              /\ fbdev = o => ~Owned(o) /\ Mappings(o) = {}
              /\ Owned(o) => Mappings(o) = {}
         /\ obj[o].refs \in 0..MaxRefs /\ obj[o].refs \in Nat
<1> DEFINE c == Cardinality(Mappings(o))
<1>1. c \in Nat /\ (c = 0 => Mappings(o) = {}) /\ (Mappings(o) = {} => c = 0)
  BY Counts
<1>2. obj[o].refs = One(o \in handles) + One(o \in fbs) + One(fbdev = o) + One(Owned(o)) + c
  BY DEF Counting, Counted
<1>3. obj[o] \in Gems
  BY DEF TypeOK
<1>4. obj[o].refs \in 0..MaxRefs /\ obj[o].refs \in Nat
  BY <1>3, GemAssumption DEF Gems
<1> HIDE DEF c
<1> DEFINE O == Owned(o)
<1> HIDE DEF O
<1>5. obj[o].refs = One(o \in handles) + One(o \in fbs) + One(fbdev = o) + One(O) + c
  BY <1>2 DEF O
<1>6. /\ o \in handles \/ o \in fbs \/ fbdev = o \/ O \/ c > 0 => obj[o].refs > 0
      /\ obj[o].refs <= 1 =>
           /\ o \in handles => o \notin fbs /\ fbdev # o /\ ~O /\ c = 0
           /\ o \in fbs => fbdev # o /\ ~O /\ c = 0
           /\ fbdev = o => ~O /\ c = 0
           /\ O => c = 0
  BY <1>1, <1>5 DEF One
<1> QED BY <1>1, <1>4, <1>6 DEF O

\* The one that owns, or frees, an object is the only one to do so.
LEMMA Owner ==
  ASSUME TypeOK, Shaped, Counting, NEW t \in Threads
  PROVE  /\ at[t] \in Steps
         /\ at[t].pc \in Owning => /\ at[t].obj \in Objects /\ Owned(at[t].obj)
                                   /\ obj[at[t].obj].refs > 0
         /\ at[t].pc \in Freeing => at[t].obj \in Objects
<1>1. at[t] \in Steps
  BY DEF TypeOK
<1>2. at[t].obj \in Objects \cup {None}
  BY <1>1 DEF Steps
<1>3. at[t].pc \in Owning \cup Freeing => at[t].obj \in Objects
  BY <1>2 DEF Shaped
<1> QED BY <1>1, <1>3, Referred DEF Owned

\* Every step of prldrm.c's calls leaves values of the right types.
LEMMA TypeNext == TypeOK /\ Shaped /\ Counting /\ Sorted /\ [Next]_vars => TypeOK'
<1> SUFFICES ASSUME TypeOK, Shaped, Counting, Sorted, [Next]_vars PROVE TypeOK'
  OBVIOUS
<1>0. /\ at \in [Threads -> Steps] /\ obj \in [Objects -> Gems] /\ ranges \in Seq(Ranges)
      /\ vma \in [Vmas -> [obj : Objects \cup {None}, pages : BOOLEAN]]
      /\ Quiet \in Steps /\ Unused \in Gems /\ fails \in 0..MaxFails
      /\ loaded \in BOOLEAN /\ corrupt \in BOOLEAN
  BY QuietStep, UnusedGem DEF TypeOK
<1> USE DEF TypeOK, store, holders
<1>1. ASSUME LoadWithout PROVE TypeOK'
  BY <1>1 DEF LoadWithout
<1>2. ASSUME NEW t \in Threads, NEW size \in Sizes, NEW next \in {"handle", "fbdev"},
             Create(t, size, next), loaded' \in BOOLEAN
      PROVE  TypeOK'
  <2>1. PICK o \in Objects, kptr \in BOOLEAN, pc \in {next, "range", "scan"} :
          /\ obj' = [obj EXCEPT ![o] = New(size, 1, kptr)]
          /\ at' = [at EXCEPT ![t] = [Quiet EXCEPT !.pc = pc, !.obj = o, !.next = next]]
          /\ fails' \in 0..MaxFails
    <3>1. fails' \in 0..MaxFails
      BY <1>0, <1>2, Bounds DEF Create, Fails
    <3> QED BY <1>2, <3>1 DEF Create
  <2>2. New(size, 1, kptr) \in Gems
    BY Bounds DEF Gems, New
  <2>3. [Quiet EXCEPT !.pc = pc, !.obj = o, !.next = next] \in Steps
    BY <1>0 DEF Steps, PCs, Nexts
  <2>4. obj' \in [Objects -> Gems] /\ at' \in [Threads -> Steps]
    BY <1>0, <2>1, <2>2, <2>3
  <2> QED BY <1>2, <2>1, <2>4 DEF Create
<1>3. ASSUME NEW t \in Threads, AllocRange(t) PROVE TypeOK'
  <2> DEFINE o == at[t].obj
             i == Gap(obj[o].size)
             x == [base |-> Start(i), size |-> obj[o].size]
  <2>1. o \in Objects /\ obj[o].size \in Sizes
    <3>1. o \in Objects /\ Live(o)
      BY <1>3, Owner DEF AllocRange, At, Owning, Making, Shaped
    <3> QED BY <3>1 DEF Live, Gems
  <2>2. i \in 1..Len(ranges) + 1 /\ Start(i) \in Nat
    BY <2>1, GapFits, Starts
  <2> HIDE DEF i
  <2>3. CASE ranges' = InsertAt(ranges, i, x) /\ obj' = [obj EXCEPT ![o].addr = Start(i)]
             /\ Goto(t, "map") /\ UNCHANGED fails
    <3>1. ranges' \in Seq(Ranges)
      <4>1. x \in Ranges
        BY <2>1, <2>2 DEF Ranges
      <4> QED BY <2>2, <2>3, <4>1, Inserted
    <3>2. obj' \in [Objects -> Gems]
      BY <1>0, <2>1, <2>2, <2>3 DEF Gems
    <3>3. at' \in [Threads -> Steps]
      BY <1>0, <2>3, Going DEF PCs
    <3> QED BY <1>3, <2>3, <3>1, <3>2, <3>3 DEF AllocRange
  <2>4. CASE Gone(t, o, Quiet) /\ Fails /\ UNCHANGED ranges
    <3>1. obj' \in [Objects -> Gems] /\ at' \in [Threads -> Steps]
      BY <1>0, <2>1, <2>4, Leaving
    <3> QED BY <1>3, <2>4, <3>1, Bounds DEF AllocRange, Fails
  <2> QED BY <1>3, <2>3, <2>4 DEF AllocRange, i
<1>4. ASSUME NEW t \in Threads, MapRange(t) PROVE TypeOK'
  <2> DEFINE o == at[t].obj
             new == [base |-> obj[o].addr, size |-> obj[o].size, obj |-> o]
             old == {r \in mapped : r.base < new.base + new.size /\ new.base < r.base + r.size}
  <2>1. o \in Objects /\ obj[o].size \in Sizes /\ obj[o].addr \in Nat /\ at[t].next \in PCs
    <3>1. o \in Objects /\ Live(o) /\ obj[o] \in Gems /\ at[t].next \in {"handle", "fbdev"}
      BY <1>4, Owner DEF MapRange, At, Owning, Making, Shaped
    <3> QED BY <3>1 DEF Live, Gems, PCs
  <2>2. new \in [base : Nat, size : Sizes, obj : Objects]
    BY <2>1
  <2> HIDE DEF new
  <2>3. mapped' \subseteq mapped \cup {new} /\ stray' \subseteq mapped'
    BY <1>4 DEF MapRange, new
  <2>4. \E pc \in PCs : Goto(t, pc)
    <3>1. "unrange" \in PCs
      BY DEF PCs
    <3> QED BY <1>4, <2>1, <3>1 DEF MapRange
  <2>5. at' \in [Threads -> Steps]
    BY <1>0, <2>4, Going
  <2>6. fails' \in 0..MaxFails
    BY <1>0, <1>4, Bounds DEF MapRange, Fails
  <2> QED BY <1>4, <2>2, <2>3, <2>5, <2>6 DEF MapRange
<1>5. ASSUME NEW t \in Threads, Unrange(t) PROVE TypeOK'
  <2>1. at[t].obj \in Objects
    BY <1>5, Owner DEF Unrange, At, Owning, Making
  <2>2. obj' \in [Objects -> Gems] /\ at' \in [Threads -> Steps]
    BY <1>0, <1>5, <2>1, Leaving DEF Unrange
  <2> QED BY <1>5, <2>2, Dropped DEF Unrange
<1>6. ASSUME NEW t \in Threads, Scan(t) PROVE TypeOK'
  <2> DEFINE o == at[t].obj
             i == at[t].bit + 1
  <2>1. /\ o \in Objects /\ i \in Nat /\ at[t].next \in PCs
        /\ at[t] \in Steps
    <3>1. o \in Objects /\ at[t].next \in {"handle", "fbdev"} /\ at[t] \in Steps
      BY <1>6, Owner DEF Scan, At, Owning, Making, Shaped
    <3> QED BY <3>1, Bounds DEF Steps, PCs
  <2> HIDE DEF i
  <2>2. CASE i \in avail /\ avail' = avail \ {i} /\ obj' = [obj EXCEPT ![o].index = i]
             /\ Goto(t, at[t].next)
    <3>1. obj' \in [Objects -> Gems]
      BY <1>0, <2>1, <2>2 DEF Gems
    <3>2. at' \in [Threads -> Steps]
      BY <1>0, <2>1, <2>2, Going
    <3> QED BY <1>6, <2>2, <3>1, <3>2 DEF Scan
  <2>3. CASE i \in Bits \ avail /\ at' = [at EXCEPT ![t].bit = i] /\ UNCHANGED <<obj, avail>>
    <3>1. at' \in [Threads -> Steps]
      <4> DEFINE n == [at[t] EXCEPT !.bit = i]
      <4>1. i \in 0..NumBufs
        BY <2>3, Bounds DEF Bits
      <4>2. n \in Steps
        BY <2>1, <4>1 DEF Steps
      <4>3. at' = [at EXCEPT ![t] = n]
        BY <2>3
      <4> HIDE DEF n
      <4> QED BY <1>0, <4>2, <4>3
    <3> QED BY <1>6, <2>3, <3>1 DEF Scan
  <2>4. CASE i \notin Bits /\ Gone(t, o, Quiet) /\ UNCHANGED avail
    <3>1. obj' \in [Objects -> Gems] /\ at' \in [Threads -> Steps]
      BY <1>0, <2>1, <2>4, Leaving
    <3> QED BY <1>6, <2>4, <3>1 DEF Scan
  <2> QED BY <1>6, <2>2, <2>3, <2>4 DEF Scan, i
<1>7. ASSUME NEW t \in Threads, MakeHandle(t) PROVE TypeOK'
  <2>1. at[t].obj \in Objects /\ at[t] \in Steps
    BY <1>7, Owner DEF MakeHandle, At, Owning, Making
  <2>2. PICK next \in {"note", "again"} : at' = [at EXCEPT ![t].pc = "put", ![t].next = next]
    BY <1>7 DEF MakeHandle
  <2>3. at' \in [Threads -> Steps]
    <3> DEFINE n == [at[t] EXCEPT !.pc = "put", !.next = next]
    <3>1. n \in Steps
      BY <2>1 DEF Steps, PCs, Nexts
    <3>2. at' = [at EXCEPT ![t] = n]
      BY <2>2
    <3> HIDE DEF n
    <3> QED BY <1>0, <3>1, <3>2
  <2>4. obj' \in [Objects -> Gems]
    BY <1>0, <1>7, <2>1, Taking DEF MakeHandle
  <2> QED BY <1>7, <2>1, <2>3, <2>4 DEF MakeHandle
<1>8. ASSUME NEW t \in Threads, PutOwn(t) PROVE TypeOK'
  <2>1. at[t].obj \in Objects /\ obj[at[t].obj].refs > 0 /\ at[t].next \in {"note", "again"}
    BY <1>8, Owner DEF PutOwn, At, Owning, Making, Shaped
  <2>2. obj' \in [Objects -> Gems] /\ at' \in [Threads -> Steps]
    BY <1>0, <1>8, <2>1, Dropping DEF PutOwn
  <2> QED BY <1>8, <2>2 DEF PutOwn
<1>9. ASSUME NEW t \in Threads, Note(t) PROVE TypeOK'
  <2>1. corrupt' \in BOOLEAN
    BY <1>9 DEF Note
  <2>2. at' = at \/ at' = [at EXCEPT ![t] = Quiet]
    BY <1>0, <1>9 DEF Note
  <2>3. at' \in [Threads -> Steps]
    BY <1>0, <2>2
  <2> QED BY <1>9, <2>1, <2>3 DEF Note
<1>10. ASSUME NEW t \in Threads, FreeAgain(t) PROVE TypeOK'
  BY <1>10 DEF FreeAgain
<1>11. ASSUME NEW t \in Threads, Console(t) PROVE TypeOK'
  <2>1. at[t].obj \in Objects /\ obj[at[t].obj].refs > 0
    BY <1>11, Owner DEF Console, At, Owning, Making, Shaped
  <2>2. CASE fbdev' = at[t].obj /\ at' = [at EXCEPT ![t] = Quiet] /\ UNCHANGED obj
    BY <1>0, <1>11, <2>1, <2>2 DEF Console
  <2>3. CASE Drop(t, at[t].obj, "idle") /\ UNCHANGED fbdev
    <3>1. obj' \in [Objects -> Gems] /\ at' \in [Threads -> Steps]
      BY <1>0, <2>1, <2>3, Dropping
    <3> QED BY <1>11, <2>3, <3>1 DEF Console
  <2> QED BY <1>11, <2>2, <2>3 DEF Console
<1>12. ASSUME NEW t \in Threads, Unmap(t) PROVE TypeOK'
  <2>1. at' \in [Threads -> Steps]
    BY <1>0, <1>12, Going DEF Unmap, PCs
  <2>2. fails' \in 0..MaxFails
    BY <1>0, <1>12, Bounds DEF Unmap, Fails
  <2>3. mapped' \subseteq mapped /\ stray' \subseteq mapped'
    BY <1>12 DEF Unmap
  <2> QED BY <1>12, <2>1, <2>2, <2>3 DEF Unmap
<1>13. ASSUME NEW t \in Threads, Unlist(t) PROVE TypeOK'
  <2>1. at' \in [Threads -> Steps]
    BY <1>0, <1>13, Going DEF Unlist, PCs
  <2> QED BY <1>13, <2>1, Dropped DEF Unlist
<1>14. ASSUME NEW t \in Threads, Free(t) PROVE TypeOK'
  <2> DEFINE rest == IF at[t].next = "idle" THEN Quiet
                     ELSE [at[t] EXCEPT !.pc = at[t].next, !.obj = None]
  <2>1. at[t].obj \in Objects /\ at[t] \in Steps /\ at[t].next \in {"idle", "note", "again"}
    BY <1>14, Owner DEF Free, At, Freeing, Shaped
  <2>2. rest \in Steps
    BY <1>0, <2>1 DEF Steps, PCs
  <2> HIDE DEF rest
  <2>3. Gone(t, at[t].obj, rest)
    BY <1>14 DEF Free, rest
  <2>4. obj' \in [Objects -> Gems] /\ at' \in [Threads -> Steps]
    BY <1>0, <2>1, <2>2, <2>3, Leaving
  <2>5. avail' \subseteq Bits /\ lost' \subseteq Nat
    <3>1. obj[at[t].obj].addr \in Nat
      BY <1>0, <2>1 DEF Gems
    <3> QED BY <1>14, <3>1 DEF Free
  <2> QED BY <1>14, <2>4, <2>5 DEF Free
<1>15. ASSUME NEW t \in Threads, NEW o \in Objects, CloseHandle(t, o) PROVE TypeOK'
  <2>1. obj[o].refs > 0 /\ at[t] = Quiet
    BY <1>15, Referred DEF CloseHandle, Idle, At, Shaped
  <2>2. obj' \in [Objects -> Gems] /\ at' \in [Threads -> Steps]
    BY <1>0, <1>15, <2>1, Closing
  <2> QED BY <1>15, <2>2 DEF CloseHandle
<1>16. ASSUME NEW t \in Threads, NEW o \in Objects, DestroyFb(t, o) PROVE TypeOK'
  <2>1. obj[o].refs > 0
    BY <1>16, Referred DEF DestroyFb
  <2>2. obj' \in [Objects -> Gems] /\ at' \in [Threads -> Steps]
    BY <1>0, <1>16, <2>1, Dropping DEF DestroyFb
  <2> QED BY <1>16, <2>2 DEF DestroyFb
<1>17. ASSUME NEW t \in Threads, NEW v \in Vmas, Unmmap(t, v) PROVE TypeOK'
  <2>1. vma[v].obj \in Objects
    BY <1>0, <1>17 DEF Unmmap
  <2>2. obj[vma[v].obj].refs > 0
    BY <2>1, Referred DEF Mappings
  <2>3. obj' \in [Objects -> Gems] /\ at' \in [Threads -> Steps]
    BY <1>0, <1>17, <2>1, <2>2, Unmapping
  <2>4. vma' \in [Vmas -> [obj : Objects \cup {None}, pages : BOOLEAN]]
    BY <1>0, <1>17 DEF Unmmap, NoPages
  <2> QED BY <1>17, <2>3, <2>4 DEF Unmmap
<1>18. ASSUME NEW o \in Objects, CreateFb(o) PROVE TypeOK'
  BY <1>0, <1>18, Taking DEF CreateFb
<1>19. ASSUME NEW o \in Objects, HandleOfFb(o) PROVE TypeOK'
  BY <1>0, <1>19, Taking DEF HandleOfFb
<1>20. ASSUME NEW o \in Objects, NEW v \in Vmas, Mmap(v, o) PROVE TypeOK'
  <2>1. obj' \in [Objects -> Gems]
    BY <1>0, <1>20, Taking DEF Mmap
  <2>2. vma' \in [Vmas -> [obj : Objects \cup {None}, pages : BOOLEAN]]
    BY <1>0, <1>20 DEF Mmap
  <2> QED BY <1>20, <2>1, <2>2 DEF Mmap
<1>21. ASSUME NEW v \in Vmas, NEW w \in Vmas, Fork(v, w) PROVE TypeOK'
  <2>1. vma[v].obj \in Objects
    BY <1>0, <1>21 DEF Fork
  <2>2. obj' \in [Objects -> Gems]
    BY <1>0, <1>21, <2>1, Taking DEF Fork
  <2>3. vma' \in [Vmas -> [obj : Objects \cup {None}, pages : BOOLEAN]]
    BY <1>0, <1>21 DEF Fork
  <2> QED BY <1>21, <2>2, <2>3 DEF Fork
<1>22. ASSUME NEW v \in Vmas, Fault(v) PROVE TypeOK'
  <2>1. CASE vma' = [vma EXCEPT ![v].pages = TRUE] /\ obj' = [obj EXCEPT ![vma[v].obj].uptr = TRUE]
             /\ UNCHANGED corrupt
    <3>1. vma' \in [Vmas -> [obj : Objects \cup {None}, pages : BOOLEAN]]
      BY <1>0, <2>1
    <3>2. obj' \in [Objects -> Gems]
      BY <1>0, <2>1 DEF Gems
    <3> QED BY <1>22, <2>1, <3>1, <3>2 DEF Fault
  <2>2. CASE corrupt' = TRUE /\ UNCHANGED <<vma, obj>>
    BY <1>22, <2>2 DEF Fault
  <2> QED BY <1>22, <2>1, <2>2 DEF Fault
<1>23. CASE UNCHANGED vars
  BY <1>23 DEF vars
<1>24. ASSUME NEW t \in Threads, NEW size \in Sizes, LoadConsole(t, size) \/ Dumb(t, size) PROVE TypeOK'
  BY <1>0, <1>2, <1>24 DEF LoadConsole, Dumb
<1> QED BY <1>1, <1>3, <1>4, <1>5, <1>6, <1>7, <1>8, <1>9, <1>10, <1>11, <1>12, <1>13, <1>14, <1>15,
           <1>16, <1>17, <1>18, <1>19, <1>20, <1>21, <1>22, <1>23, <1>24 DEF Next

-----------------------------------------------------------------------------
(* What each step leaves, for the proofs of the layers.                    *)

\* A buffer is begun.
Created(t, o, size, pc, next) ==
  /\ ~Live(o)
  /\ obj'[o].size = size /\ obj'[o].refs = 1 /\ obj'[o].addr = 0 /\ obj'[o].index = 0
  /\ pc = "scan" => ~obj'[o].kptr
  /\ \A p \in Objects \ {o} : obj'[p] = obj[p]
  /\ \A u \in Threads \ {t} : at'[u] = at[u]
  /\ at'[t].pc = pc /\ at'[t].obj = o /\ at'[t].next = next /\ at'[t].shut = FALSE
  /\ UNCHANGED <<store, holders, corrupt, fbdev>>

\* prl_drm_gem_dumb_create_helper makes an object where there was none.
LEMMA Creating ==
  ASSUME TypeOK, NEW t \in Threads, NEW size \in Sizes, NEW next \in {"handle", "fbdev"},
         Create(t, size, next)
  PROVE  \E o \in Objects, pc \in {next, "range", "scan"} : Created(t, o, size, pc, next)
<1>1. PICK o \in Objects, kptr \in BOOLEAN, pc \in {next, "range", "scan"} :
        /\ ~Live(o) /\ (pc = "scan" => ~kptr)
        /\ obj' = [obj EXCEPT ![o] = New(size, 1, kptr)]
        /\ at' = [at EXCEPT ![t] = [Quiet EXCEPT !.pc = pc, !.obj = o, !.next = next]]
        /\ UNCHANGED <<store, holders, corrupt>>
  BY DEF Create
<1>2. New(size, 1, kptr) \in Gems
  BY Bounds DEF Gems, New
<1> DEFINE n == [Quiet EXCEPT !.pc = pc, !.obj = o, !.next = next]
<1>3. n \in Steps /\ n.pc = pc /\ n.obj = o /\ n.next = next /\ n.shut = FALSE
  BY QuietStep DEF Steps, PCs, Nexts
<1>4. at' = [at EXCEPT ![t] = n]
  BY <1>1
<1> HIDE DEF n
<1>5. /\ obj'[o].size = size /\ obj'[o].refs = 1 /\ obj'[o].addr = 0 /\ obj'[o].index = 0
      /\ pc = "scan" => ~obj'[o].kptr
      /\ \A p \in Objects \ {o} : obj'[p] = obj[p]
  BY <1>1, <1>2 DEF TypeOK, New
<1>6. /\ \A u \in Threads \ {t} : at'[u] = at[u]
      /\ at'[t].pc = pc /\ at'[t].obj = o /\ at'[t].next = next /\ at'[t].shut = FALSE
  BY <1>3, <1>4 DEF TypeOK
<1>7. UNCHANGED fbdev
  BY <1>1 DEF holders
<1> QED BY <1>1, <1>5, <1>6, <1>7 DEF Created

\* The steps of a thread after which nobody else knows more or less.
LEMMA Steering ==
  ASSUME TypeOK, Shaped, NEW t \in Threads
  PROVE  /\ MakeHandle(t) =>
              /\ at'[t].pc = "put" /\ at'[t].obj = at[t].obj /\ at'[t].shut = at[t].shut
              /\ at'[t].next \in {"note", "again"}
              /\ at'[t].next = "note" => at[t].obj \in handles' /\ Take(at[t].obj)
              /\ at'[t].next = "again" => UNCHANGED <<handles, obj>>
              /\ \A u \in Threads \ {t} : at'[u] = at[u]
         /\ Note(t) => (at' = at \/ at' = [at EXCEPT ![t] = Quiet])
         /\ Free(t) =>
              \E rest \in Steps :
                /\ Gone(t, at[t].obj, rest)
                /\ rest.obj = None
                /\ at[t].next = "idle" => rest = Quiet
                /\ at[t].next # "idle" =>
                     rest.pc = at[t].next /\ rest.next = at[t].next /\ rest.shut = at[t].shut
<1>0. at[t] \in Steps /\ at \in [Threads -> Steps]
  BY DEF TypeOK
<1>1. ASSUME MakeHandle(t)
      PROVE  /\ at'[t].pc = "put" /\ at'[t].obj = at[t].obj /\ at'[t].shut = at[t].shut
             /\ at'[t].next \in {"note", "again"}
             /\ at'[t].next = "note" => at[t].obj \in handles' /\ Take(at[t].obj)
             /\ at'[t].next = "again" => UNCHANGED <<handles, obj>>
             /\ \A u \in Threads \ {t} : at'[u] = at[u]
  <2>1. PICK next \in {"note", "again"} :
          /\ at' = [at EXCEPT ![t].pc = "put", ![t].next = next]
          /\ next = "note" => at[t].obj \in handles' /\ Take(at[t].obj)
          /\ next = "again" => UNCHANGED <<handles, obj>>
    BY <1>1 DEF MakeHandle
  <2> DEFINE n == [at[t] EXCEPT !.pc = "put", !.next = next]
  <2>2. n.pc = "put" /\ n.next = next /\ n.obj = at[t].obj /\ n.shut = at[t].shut
    BY <1>0 DEF Steps
  <2>3. at' = [at EXCEPT ![t] = n]
    BY <2>1
  <2> HIDE DEF n
  <2> QED BY <1>0, <2>1, <2>2, <2>3
<1>2. Note(t) => (at' = at \/ at' = [at EXCEPT ![t] = Quiet])
  BY <1>0 DEF Note
<1>3. ASSUME Free(t)
      PROVE  \E rest \in Steps :
                /\ Gone(t, at[t].obj, rest)
                /\ rest.obj = None
                /\ at[t].next = "idle" => rest = Quiet
                /\ at[t].next # "idle" =>
                     rest.pc = at[t].next /\ rest.next = at[t].next /\ rest.shut = at[t].shut
  <2>1. CASE at[t].next = "idle"
    BY <1>3, <2>1, QuietStep DEF Free
  <2>2. CASE at[t].next # "idle"
    <3> DEFINE n == [at[t] EXCEPT !.pc = at[t].next, !.obj = None]
    <3>1. at[t].next \in {"note", "again"}
      BY <1>3, <2>2 DEF Free, At, Freeing, Shaped
    <3>2. n \in Steps /\ n.obj = None /\ n.pc = at[t].next /\ n.next = at[t].next /\ n.shut = at[t].shut
      BY <1>0, <3>1 DEF Steps, PCs
    <3>3. Gone(t, at[t].obj, n)
      BY <1>3, <2>2 DEF Free
    <3> HIDE DEF n
    <3> QED BY <2>2, <3>2, <3>3
  <2> QED BY <2>1, <2>2
<1> QED BY <1>1, <1>2, <1>3

-----------------------------------------------------------------------------
(* Control.                                                                *)

\* Every step leaves each thread where its call goes on, with its object for itself
\* as long as the code relies on that (prldrm.c:1675-1803).
LEMMA ControlNext ==
  Control /\ Counting /\ Ending /\ Sorted /\ [Next]_vars => Shaped' /\ Alone' /\ Booting'
<1> SUFFICES ASSUME Control, Counting, Ending, Sorted, [Next]_vars
             PROVE  Shaped' /\ Alone' /\ Booting'
  OBVIOUS
<1>0. /\ at \in [Threads -> Steps] /\ obj \in [Objects -> Gems]
      /\ None \notin Objects /\ \A t \in Threads : at[t].obj \in Objects \cup {None}
  BY Bounds DEF Control, TypeOK, Steps
<1> USE DEF Control, Shaped, Alone, Booting, Owning, Making, Freeing, Live
<1>1. ASSUME LoadWithout PROVE Shaped' /\ Alone' /\ Booting'
  BY <1>0, <1>1 DEF LoadWithout, store, holders
<1>2. ASSUME NEW t \in Threads, NEW size \in Sizes, LoadConsole(t, size) \/ Dumb(t, size)
      PROVE  Shaped' /\ Alone' /\ Booting'
  <2>1. PICK next \in {"handle", "fbdev"} :
           /\ Create(t, size, next) /\ loaded'
           /\ \A u \in Threads : at[u].next # "fbdev"
           /\ next = "fbdev" => fbdev = None
    BY <1>2 DEF LoadConsole, Dumb, Idle
  <2>2. PICK o \in Objects, pc \in {next, "range", "scan"} : Created(t, o, size, pc, next)
    BY <2>1, Creating
  <2> USE DEF Created
  <2>3. obj'[o].size > 0
    BY <2>2, Bounds
  <2>4. \A u \in Threads : at[u].obj # o
    BY <1>0, <2>2
  <2>5. Shaped'
    BY <1>0, <2>2, <2>3
  <2>6. Alone'
    BY <1>0, <2>2, <2>4
  <2> QED BY <2>1, <2>2, <2>5, <2>6
<1>3. ASSUME NEW t \in Threads, NEW pc \in {"map", "unrange", "handle", "fbdev", "unlist", "free"},
             Goto(t, pc), \A o \in Objects : obj'[o].size = obj[o].size,
             \A o \in Objects : ~Live(o) => obj'[o] = obj[o], at[t].pc \in Making \cup Freeing,
             pc \in Making <=> at[t].pc \in Making, pc \in {"handle", "fbdev"} => at[t].next = pc,
             UNCHANGED <<fbdev, loaded>>
      PROVE  Shaped' /\ Alone' /\ Booting'
  <2>1. /\ \A u \in Threads \ {t} : at'[u] = at[u]
        /\ at'[t].pc = pc /\ at'[t].obj = at[t].obj /\ at'[t].next = at[t].next
    BY <1>0, <1>3, Going DEF PCs
  <2>2. Shaped'
    BY <1>0, <1>3, <2>1
  <2>3. Alone'
    BY <1>0, <1>3, <2>1
  <2> QED BY <1>3, <2>1, <2>2, <2>3
<1>4. ASSUME NEW t \in Threads, NEW o \in Objects, at[t].obj = o, NEW rest \in Steps,
             Gone(t, o, rest), rest.obj = None, at[t].pc \in Owning \cup Freeing,
             \/ rest = Quiet
             \/ rest.pc \in {"note", "again"} /\ rest.next = rest.pc,
             UNCHANGED <<fbdev, loaded>>
      PROVE  Shaped' /\ Alone' /\ Booting'
  <2>1. /\ at'[t] = rest
        /\ \A u \in Threads \ {t} :
             /\ at'[u].pc = at[u].pc /\ at'[u].next = at[u].next /\ at'[u].shut = at[u].shut
             /\ at[u].obj = o => at'[u].obj = None
             /\ at[u].obj # o => at'[u] = at[u]
        /\ obj'[o] = Unused
        /\ \A p \in Objects \ {o} : obj'[p] = obj[p]
    <3>1. \A u \in Threads \ {t} : at[u].obj # o => at'[u] = at[u]
      BY <1>4 DEF Gone
    <3> QED BY <1>0, <1>4, <3>1, Leaving
  <2>2. Shaped'
    <3>1. \A p \in Objects : obj'[p].size > 0 <=> obj[p].size > 0 /\ p # o
      BY <2>1, UnusedGem
    <3>2. \A u \in Threads \ {t} : at[u].obj = o => at[u].pc \notin Owning \cup Freeing /\ at[u].pc # "idle"
      BY <1>0, <1>4, QuietStep
    <3> QED BY <1>0, <1>4, <2>1, <3>1, <3>2, QuietStep
  <2>3. Alone'
    BY <1>0, <1>4, <2>1
  <2>4. Booting'
    BY <1>0, <1>4, <2>1, QuietStep
  <2> QED BY <2>2, <2>3, <2>4
<1>5. ASSUME NEW t \in Threads, NEW o \in Objects, NEW next \in {"idle", "note", "again"},
             obj[o].refs > 0, Drop(t, o, next), at[t].obj = o,
             \/ at[t].pc = "put" /\ at[t].next = next /\ UNCHANGED fbdev
             \/ at[t].pc = "fbdev" /\ next = "idle" /\ UNCHANGED fbdev,
             UNCHANGED loaded
      PROVE  Shaped' /\ Alone' /\ Booting'
  <2>1. /\ \A u \in Threads \ {t} : at'[u] = at[u]
        /\ \/ at'[t] = Quiet
           \/ /\ at'[t].obj = o /\ at'[t].next = next
              /\ at'[t].pc \in Freeing \/ (at'[t].pc = next /\ next # "idle")
        /\ \A p \in Objects : obj'[p].size = obj[p].size
        /\ \A p \in Objects \ {o} : obj'[p] = obj[p]
    BY <1>0, <1>5, Dropping, First
  <2>2. Live(o)
    BY <1>5, UnusedGem
  <2>3. Shaped'
    BY <1>0, <1>5, <2>1, <2>2, QuietStep
  <2>4. Alone'
    BY <1>0, <1>5, <2>1, QuietStep
  <2>5. Booting'
    BY <1>0, <1>5, <2>1, QuietStep
  <2> QED BY <2>3, <2>4, <2>5
<1>6. ASSUME NEW t \in Threads, NEW o \in Objects, obj[o].refs > 0, at[t] = Quiet,
             obj[o].refs = 1 => /\ at'[t].pc = FirstStep(o) /\ at'[t].obj = o /\ at'[t].next = "idle"
                                /\ ~Owned(o),
             obj[o].refs # 1 => at'[t] = Quiet,
             \A u \in Threads \ {t} :
               at'[u].pc = at[u].pc /\ at'[u].obj = at[u].obj /\ at'[u].next = at[u].next,
             \A u \in Threads \ {t} : at[u].pc = "idle" => at'[u] = at[u],
             \A p \in Objects \ {o} : obj'[p] = obj[p], obj'[o].size = obj[o].size,
             UNCHANGED <<fbdev, loaded>>
      PROVE  Shaped' /\ Alone' /\ Booting'
  <2>1. Live(o)
    BY <1>6, UnusedGem
  <2>2. \/ at'[t] = Quiet
        \/ /\ at'[t].obj = o /\ at'[t].next = "idle" /\ at'[t].pc \in Freeing
           /\ \A u \in Threads : at[u].obj = o => at[u].pc \notin Owning \cup Freeing
    BY <1>6, First DEF Owned, Ending, Ended
  <2>3. Shaped'
    BY <1>0, <1>6, <2>1, <2>2, QuietStep
  <2>4. Alone'
    BY <1>0, <1>6, <2>2, QuietStep
  <2>5. Booting'
    BY <1>0, <1>6, <2>2, QuietStep
  <2> QED BY <2>3, <2>4, <2>5
<1>7. ASSUME UNCHANGED <<at, fbdev, loaded>>, \A o \in Objects : obj'[o].size = obj[o].size,
             \A o \in Objects : ~Live(o) => obj'[o] = obj[o]
      PROVE  Shaped' /\ Alone' /\ Booting'
  BY <1>0, <1>7
<1> USE DEF store, holders
<1>11. ASSUME NEW t \in Threads, AllocRange(t) PROVE Shaped' /\ Alone' /\ Booting'
  <2> DEFINE o == at[t].obj
  <2>1. o \in Objects /\ at[t].pc = "range" /\ Live(o) /\ UNCHANGED <<fbdev, loaded>>
    BY <1>0, <1>11 DEF AllocRange, At
  <2>2. CASE obj' = [obj EXCEPT ![o].addr = Start(Gap(obj[o].size))] /\ Goto(t, "map")
    <3>1. \A p \in Objects : obj'[p].size = obj[p].size
      BY <1>0, <2>1, <2>2 DEF Gems
    <3>2. \A p \in Objects : ~Live(p) => obj'[p] = obj[p]
      BY <1>0, <2>1, <2>2
    <3> QED BY <1>3, <2>1, <2>2, <3>1, <3>2
  <2>3. CASE Gone(t, o, Quiet)
    BY <1>4, <2>1, <2>3, QuietStep
  <2> QED BY <1>11, <2>2, <2>3 DEF AllocRange
<1>12. ASSUME NEW t \in Threads, MapRange(t) PROVE Shaped' /\ Alone' /\ Booting'
  <2>1. at[t].pc = "map" /\ UNCHANGED <<fbdev, loaded, obj>>
    BY <1>0, <1>12 DEF MapRange, At
  <2>2. PICK pc \in {at[t].next, "unrange"} : Goto(t, pc)
    BY <1>12 DEF MapRange
  <2> QED BY <1>3, <2>1, <2>2
<1>13. ASSUME NEW t \in Threads, Unrange(t) PROVE Shaped' /\ Alone' /\ Booting'
  <2>1. at[t].obj \in Objects /\ at[t].pc = "unrange"
    BY <1>0, <1>13 DEF Unrange, At
  <2> QED BY <1>4, <1>13, <2>1, QuietStep DEF Unrange
<1>14. ASSUME NEW t \in Threads, Scan(t) PROVE Shaped' /\ Alone' /\ Booting'
  <2> DEFINE o == at[t].obj
             i == at[t].bit + 1
  <2>1. o \in Objects /\ at[t].pc = "scan" /\ Live(o) /\ UNCHANGED <<fbdev, loaded>>
    BY <1>0, <1>14 DEF Scan, At
  <2>2. CASE obj' = [obj EXCEPT ![o].index = i] /\ Goto(t, at[t].next)
    <3>1. \A p \in Objects : obj'[p].size = obj[p].size
      BY <1>0, <2>1, <2>2 DEF Gems
    <3>2. \A p \in Objects : ~Live(p) => obj'[p] = obj[p]
      BY <1>0, <2>1, <2>2
    <3> QED BY <1>3, <2>1, <2>2, <3>1, <3>2
  <2>3. CASE at' = [at EXCEPT ![t].bit = i] /\ UNCHANGED obj
    <3>1. /\ \A u \in Threads \ {t} : at'[u] = at[u]
          /\ at'[t].pc = "scan" /\ at'[t].obj = o /\ at'[t].next = at[t].next
      BY <1>0, <2>1, <2>3 DEF Steps
    <3> QED BY <1>0, <2>1, <2>3, <3>1
  <2>4. CASE Gone(t, o, Quiet)
    BY <1>4, <2>1, <2>4, QuietStep
  <2> QED BY <1>14, <2>2, <2>3, <2>4 DEF Scan
<1>15. ASSUME NEW t \in Threads, MakeHandle(t) PROVE Shaped' /\ Alone' /\ Booting'
  <2>1. at[t].obj \in Objects /\ at[t].pc = "handle" /\ Live(at[t].obj) /\ UNCHANGED <<fbdev, loaded>>
    BY <1>0, <1>15 DEF MakeHandle, At
  <2>2. /\ at'[t].pc = "put" /\ at'[t].obj = at[t].obj /\ at'[t].next \in {"note", "again"}
        /\ \A u \in Threads \ {t} : at'[u] = at[u]
        /\ UNCHANGED obj \/ Take(at[t].obj)
    BY <1>15, Steering
  <2>3. /\ \A p \in Objects : obj'[p].size = obj[p].size
        /\ \A p \in Objects : ~Live(p) => obj'[p] = obj[p]
    BY <1>0, <2>1, <2>2, Taking
  <2> QED BY <1>0, <2>1, <2>2, <2>3
<1>16. ASSUME NEW t \in Threads, PutOwn(t) PROVE Shaped' /\ Alone' /\ Booting'
  <2>1. at[t].obj \in Objects /\ at[t].pc = "put" /\ obj[at[t].obj].refs > 0
    BY <1>0, <1>16, Owner DEF PutOwn, At
  <2> QED BY <1>5, <1>16, <2>1 DEF PutOwn
<1>17. ASSUME NEW t \in Threads, Note(t) PROVE Shaped' /\ Alone' /\ Booting'
  <2>1. at' = at \/ at' = [at EXCEPT ![t] = Quiet]
    BY <1>17, Steering
  <2> QED BY <1>0, <1>17, <2>1, QuietStep DEF Note
<1>18. ASSUME NEW t \in Threads, Console(t) PROVE Shaped' /\ Alone' /\ Booting'
  <2>1. /\ at[t].obj \in Objects /\ at[t].pc = "fbdev" /\ obj[at[t].obj].refs > 0
        /\ at[t].next = "fbdev" /\ UNCHANGED loaded
    BY <1>0, <1>18, Owner DEF Console, At
  <2>2. CASE Drop(t, at[t].obj, "idle") /\ UNCHANGED fbdev
    BY <1>5, <2>1, <2>2
  <2>3. CASE fbdev' = at[t].obj /\ at' = [at EXCEPT ![t] = Quiet] /\ UNCHANGED obj
    BY <1>0, <2>1, <2>3, QuietStep
  <2> QED BY <1>18, <2>2, <2>3 DEF Console
<1>19. ASSUME NEW t \in Threads, Unmap(t) \/ Unlist(t) PROVE Shaped' /\ Alone' /\ Booting'
  <2>1. /\ at[t].pc \in Freeing /\ UNCHANGED <<fbdev, loaded, obj>>
        /\ Goto(t, "unlist") \/ Goto(t, "free")
    BY <1>19 DEF Unmap, Unlist, At
  <2> QED BY <1>3, <2>1
<1>20. ASSUME NEW t \in Threads, Free(t) PROVE Shaped' /\ Alone' /\ Booting'
  <2>1. /\ at[t].obj \in Objects /\ at[t].pc = "free" /\ at[t].next \in {"idle", "note", "again"}
        /\ UNCHANGED <<fbdev, loaded>>
    BY <1>0, <1>20 DEF Free, At
  <2>2. PICK rest \in Steps :
          /\ Gone(t, at[t].obj, rest) /\ rest.obj = None
          /\ at[t].next = "idle" => rest = Quiet
          /\ at[t].next # "idle" => rest.pc = at[t].next /\ rest.next = at[t].next
    BY <1>20, Steering
  <2> QED BY <1>4, <2>1, <2>2
<1>21. ASSUME NEW t \in Threads, NEW o \in Objects, CloseHandle(t, o)
       PROVE  Shaped' /\ Alone' /\ Booting'
  <2>1. /\ at[t] = Quiet /\ obj[o].refs > 0 /\ (obj[o].refs = 1 => ~Owned(o))
        /\ UNCHANGED <<fbdev, loaded>>
    BY <1>21, Referred DEF CloseHandle, Idle, At
  <2>2. \A u \in Threads \ {t} : at[u].pc = "idle" => at'[u] = at[u]
    BY <1>21, QuietStep DEF CloseHandle
  <2> QED BY <1>0, <1>6, <1>21, <2>1, <2>2, Closing
<1>22. ASSUME NEW t \in Threads, NEW o \in Objects, DestroyFb(t, o)
       PROVE  Shaped' /\ Alone' /\ Booting'
  <2>1. /\ at[t] = Quiet /\ obj[o].refs > 0 /\ (obj[o].refs = 1 => ~Owned(o))
        /\ UNCHANGED <<fbdev, loaded>> /\ Drop(t, o, "idle")
    BY <1>22, Referred DEF DestroyFb, Idle, At
  <2> QED BY <1>0, <1>6, <2>1, Dropping
<1>23. ASSUME NEW t \in Threads, NEW v \in Vmas, Unmmap(t, v)
       PROVE  Shaped' /\ Alone' /\ Booting'
  <2>1. vma[v].obj \in Objects
    BY <1>23 DEF TypeOK, Unmmap
  <2>2. /\ at[t] = Quiet /\ obj[vma[v].obj].refs > 0 /\ (obj[vma[v].obj].refs = 1 => ~Owned(vma[v].obj))
        /\ UNCHANGED <<fbdev, loaded>>
    BY <1>23, <2>1, Referred DEF Unmmap, Idle, At, Mappings
  <2> QED BY <1>0, <1>6, <1>23, <2>1, <2>2, Unmapping
<1>24. ASSUME NEW o \in Objects, obj[o].refs > 0, Take(o), UNCHANGED <<at, fbdev, loaded>>
       PROVE  Shaped' /\ Alone' /\ Booting'
  <2>1. Live(o)
    BY <1>24, UnusedGem
  <2> QED BY <1>0, <1>7, <1>24, <2>1, Taking
<1>25. ASSUME NEW o \in Objects, CreateFb(o) \/ HandleOfFb(o) \/ \E v \in Vmas : Mmap(v, o)
       PROVE  Shaped' /\ Alone' /\ Booting'
  <2>1. (o \in handles \/ o \in fbs) /\ Take(o) /\ UNCHANGED <<at, fbdev, loaded>>
    BY <1>25 DEF CreateFb, HandleOfFb, Mmap
  <2>2. obj[o].refs > 0
    BY <2>1, Referred
  <2> QED BY <1>24, <2>1, <2>2
<1>26. ASSUME NEW v \in Vmas, NEW w \in Vmas, Fork(v, w) PROVE Shaped' /\ Alone' /\ Booting'
  <2>1. vma[v].obj \in Objects /\ Take(vma[v].obj) /\ UNCHANGED <<at, fbdev, loaded>>
    BY <1>26 DEF TypeOK, Fork
  <2>2. obj[vma[v].obj].refs > 0
    BY <2>1, Referred DEF Mappings
  <2> QED BY <1>24, <2>1, <2>2
<1>27. ASSUME NEW v \in Vmas, Fault(v) PROVE Shaped' /\ Alone' /\ Booting'
  <2>1. vma[v].obj \in Objects /\ UNCHANGED <<at, fbdev, loaded>>
    BY <1>27 DEF TypeOK, Fault
  <2>2. Live(vma[v].obj)
    BY <2>1, Referred, UnusedGem DEF Mappings
  <2>3. obj' = obj \/ obj' = [obj EXCEPT ![vma[v].obj].uptr = TRUE]
    BY <1>27 DEF Fault
  <2>4. /\ \A p \in Objects : obj'[p].size = obj[p].size
        /\ \A p \in Objects : ~Live(p) => obj'[p] = obj[p]
    BY <1>0, <2>1, <2>2, <2>3 DEF Gems
  <2> QED BY <1>7, <2>1, <2>4
<1>28. CASE UNCHANGED vars
  BY <1>7, <1>28 DEF vars
<1>29. ASSUME NEW t \in Threads, FreeAgain(t) PROVE Shaped' /\ Alone' /\ Booting'
  BY <1>7, <1>29 DEF FreeAgain
<1> QED BY <1>1, <1>2, <1>11, <1>12, <1>13, <1>14, <1>15, <1>16, <1>17, <1>18, <1>19, <1>20,
           <1>21, <1>22, <1>23, <1>25, <1>26, <1>27, <1>28, <1>29 DEF Next

-----------------------------------------------------------------------------
(* References.                                                             *)

Holds(t, o) == at[t].obj = o /\ at[t].pc \in Owning

\* Who still holds an object, and who still does not.
SameHandle(o)  == o \in handles' <=> o \in handles
SameFb(o)      == o \in fbs' <=> o \in fbs
SameConsole(o) == fbdev' = o <=> fbdev = o
SameOwner(o)   == Owned(o)' <=> Owned(o)
SameMaps(o)    == Mappings(o)' = Mappings(o)
SameHolders(o) == /\ SameHandle(o) /\ SameFb(o) /\ SameConsole(o) /\ SameOwner(o) /\ SameMaps(o)
                  /\ obj'[o].refs = obj[o].refs

\* One of them begins to hold the object, or ceases to.
Begins(o, was, is) == ~was /\ is /\ obj'[o].refs = obj[o].refs + 1
Ends(o, was, is)   == was /\ ~is /\ obj'[o].refs = obj[o].refs - 1

\* An object whose count follows its holders stays counted.
LEMMA Recounted ==
  ASSUME NEW o, Counted(o), obj[o].refs \in Nat,
         \/ SameHolders(o)
         \/ /\ SameFb(o) /\ SameConsole(o) /\ SameOwner(o) /\ SameMaps(o)
            /\ Begins(o, o \in handles, o \in handles') \/ Ends(o, o \in handles, o \in handles')
         \/ /\ SameHandle(o) /\ SameConsole(o) /\ SameOwner(o) /\ SameMaps(o)
            /\ Begins(o, o \in fbs, o \in fbs') \/ Ends(o, o \in fbs, o \in fbs')
         \/ /\ SameHandle(o) /\ SameFb(o) /\ SameConsole(o) /\ SameMaps(o)
            /\ Ends(o, Owned(o), Owned(o)')
         \/ /\ SameHandle(o) /\ SameFb(o) /\ SameMaps(o)
            /\ fbdev # o /\ fbdev' = o /\ Owned(o) /\ ~Owned(o)' /\ obj'[o].refs = obj[o].refs
         \/ /\ SameHandle(o) /\ SameFb(o) /\ SameConsole(o) /\ SameOwner(o)
            /\ \E v \in Vmas :
                 \/ /\ Begins(o, v \in Mappings(o), v \in Mappings(o)')
                    /\ Mappings(o)' = Mappings(o) \cup {v}
                 \/ /\ Ends(o, v \in Mappings(o), v \in Mappings(o)')
                    /\ Mappings(o)' = Mappings(o) \ {v}
  PROVE  Counted(o)'
<1> DEFINE c == Cardinality(Mappings(o))
           w == One(Owned(o))
           h == One(o \in handles)
           f == One(o \in fbs)
           d == One(fbdev = o)
<1>1. c \in Nat /\ IsFiniteSet(Mappings(o)) /\ (SameMaps(o) => c' = c)
  BY Counts DEF SameMaps
<1>2. /\ SameOwner(o) => w' = w
      /\ Owned(o) => w = 1
      /\ ~Owned(o)' => w' = 0
  BY DEF SameOwner, One
<1>3. /\ SameHandle(o) => h' = h
      /\ o \in handles => h = 1
      /\ o \notin handles => h = 0
      /\ o \in handles' => h' = 1
      /\ o \notin handles' => h' = 0
  BY DEF SameHandle, One
<1>4. /\ SameFb(o) => f' = f
      /\ o \in fbs => f = 1
      /\ o \notin fbs => f = 0
      /\ o \in fbs' => f' = 1
      /\ o \notin fbs' => f' = 0
  BY DEF SameFb, One
<1>5. /\ SameConsole(o) => d' = d
      /\ fbdev # o => d = 0
      /\ fbdev' = o => d' = 1
  BY DEF SameConsole, One
<1>6. /\ obj[o].refs = h + f + d + w + c
      /\ Counted(o)' <=> obj'[o].refs = h' + f' + d' + w' + c'
  BY DEF Counted
<1>7. h \in Nat /\ f \in Nat /\ d \in Nat /\ w \in Nat
  BY DEF One
<1>8. ASSUME NEW v \in Vmas
      PROVE  /\ v \notin Mappings(o) /\ Mappings(o)' = Mappings(o) \cup {v} => c' = c + 1
             /\ v \in Mappings(o) /\ Mappings(o)' = Mappings(o) \ {v} => c' = c - 1
  BY <1>1, FS_AddElement, FS_RemoveElement
<1> HIDE DEF c, w, h, f, d
<1>9. CASE SameHolders(o)
  BY <1>1, <1>2, <1>3, <1>4, <1>5, <1>6, <1>9 DEF SameHolders
<1>10. CASE SameFb(o) /\ SameConsole(o) /\ SameOwner(o) /\ SameMaps(o)
            /\ (Begins(o, o \in handles, o \in handles') \/ Ends(o, o \in handles, o \in handles'))
  BY <1>1, <1>2, <1>3, <1>4, <1>5, <1>6, <1>7, <1>10 DEF Begins, Ends
<1>11. CASE SameHandle(o) /\ SameConsole(o) /\ SameOwner(o) /\ SameMaps(o)
            /\ (Begins(o, o \in fbs, o \in fbs') \/ Ends(o, o \in fbs, o \in fbs'))
  BY <1>1, <1>2, <1>3, <1>4, <1>5, <1>6, <1>7, <1>11 DEF Begins, Ends
<1>12. CASE SameHandle(o) /\ SameFb(o) /\ SameConsole(o) /\ SameMaps(o) /\ Ends(o, Owned(o), Owned(o)')
  BY <1>1, <1>2, <1>3, <1>4, <1>5, <1>6, <1>7, <1>12 DEF Ends
<1>13. CASE SameHandle(o) /\ SameFb(o) /\ SameMaps(o)
            /\ fbdev # o /\ fbdev' = o /\ Owned(o) /\ ~Owned(o)' /\ obj'[o].refs = obj[o].refs
  BY <1>1, <1>2, <1>3, <1>4, <1>5, <1>6, <1>7, <1>13
<1>14. CASE SameHandle(o) /\ SameFb(o) /\ SameConsole(o) /\ SameOwner(o)
            /\ \E v \in Vmas :
                 \/ /\ Begins(o, v \in Mappings(o), v \in Mappings(o)')
                    /\ Mappings(o)' = Mappings(o) \cup {v}
                 \/ /\ Ends(o, v \in Mappings(o), v \in Mappings(o)')
                    /\ Mappings(o)' = Mappings(o) \ {v}
  <2>1. \/ c' = c + 1 /\ obj'[o].refs = obj[o].refs + 1
        \/ c' = c - 1 /\ obj'[o].refs = obj[o].refs - 1
    <3>1. PICK v \in Vmas :
             \/ v \notin Mappings(o) /\ obj'[o].refs = obj[o].refs + 1 /\ Mappings(o)' = Mappings(o) \cup {v}
             \/ v \in Mappings(o) /\ obj'[o].refs = obj[o].refs - 1 /\ Mappings(o)' = Mappings(o) \ {v}
      BY <1>14 DEF Begins, Ends
    <3> QED BY <1>8, <3>1
  <2> QED BY <1>1, <1>2, <1>3, <1>4, <1>5, <1>6, <1>7, <1>14, <2>1
<1> QED BY <1>9, <1>10, <1>11, <1>12, <1>13, <1>14

\* An object that nobody holds.
LEMMA CountingNext ==
  Control /\ Control' /\ Counting /\ Ending /\ [Next]_vars => Counting'
<1> SUFFICES ASSUME Control, Control', Counting, Ending, [Next]_vars PROVE Counting'
  OBVIOUS
<1>0. /\ at \in [Threads -> Steps] /\ obj \in [Objects -> Gems]
      /\ None \notin Objects /\ \A t \in Threads : at[t].obj \in Objects \cup {None}
      /\ \A o \in Objects : Counted(o) /\ obj[o].refs \in Nat
      /\ \A o \in Objects : ~Live(o) => obj[o].refs = 0
  BY Bounds, UnusedGem DEF Control, TypeOK, Steps, Counting, Gems, Shaped
<1>a. ASSUME \A o \in Objects : obj'[o].refs = obj[o].refs,
             \A t \in Threads, o \in Objects : Holds(t, o)' <=> Holds(t, o),
             UNCHANGED <<handles, fbs, fbdev>>,
             \A v \in Vmas : vma'[v].obj = vma[v].obj
      PROVE  Counting'
  <2>1. ASSUME NEW o \in Objects PROVE SameHolders(o)
    BY <1>a DEF SameHolders, SameHandle, SameFb, SameConsole, SameOwner, SameMaps, Owned, Holds, Mappings
  <2> QED BY <1>0, <2>1, Recounted DEF Counting
<1>b. ASSUME NEW t \in Threads, NEW pc \in PCs, Goto(t, pc), pc \in Owning <=> at[t].pc \in Owning
      PROVE  \A u \in Threads, o \in Objects : Holds(u, o)' <=> Holds(u, o)
  BY <1>0, <1>b, Going DEF Holds
\* An object goes that nobody holds, or its maker alone.
<1>c. ASSUME NEW t \in Threads, NEW o \in Objects, at[t].obj = o, NEW rest \in Steps, Gone(t, o, rest),
             rest.obj = None, obj[o].refs <= 1, obj[o].refs = 1 => Owned(o), UNCHANGED holders
      PROVE  Counting'
  <2>1. /\ at'[t].obj = None /\ obj'[o] = Unused
        /\ \A u \in Threads \ {t} :
             /\ at'[u].pc = at[u].pc
             /\ at[u].obj = o => at'[u].obj = None
             /\ at[u].obj # o => at'[u].obj = at[u].obj
        /\ \A p \in Objects \ {o} : obj'[p] = obj[p]
    BY <1>0, <1>c, Leaving
  <2>2. o \notin handles /\ o \notin fbs /\ fbdev # o /\ Mappings(o) = {}
    <3>1. obj[o].refs = 0 \/ obj[o].refs = 1
      BY <1>0, <1>c
    <3> QED BY <1>c, <3>1, Referred DEF Control
  <2>3. ASSUME NEW p \in Objects \ {o} PROVE Counted(p)'
    <3>1. SameOwner(p)
      BY <1>0, <1>c, <2>1 DEF SameOwner, Owned
    <3>2. SameHolders(p)
      BY <1>c, <2>1, <3>1 DEF SameHolders, SameHandle, SameFb, SameConsole, SameMaps, Mappings, holders
    <3> QED BY <1>0, <3>2, Recounted
  <2>4. Counted(o)'
    <3>1. ~Owned(o)'
      BY <1>0, <2>1 DEF Owned
    <3>2. obj'[o].refs = 0
      BY <2>1, UnusedGem
    <3>3. Mappings(o)' = {}
      BY <1>c, <2>2 DEF Mappings, holders
    <3>4. Cardinality(Mappings(o)') = 0
      BY <3>3, FS_EmptySet
    <3> QED BY <1>c, <2>2, <3>1, <3>2, <3>4 DEF Counted, One, holders
  <2> QED BY <2>3, <2>4 DEF Counting
\* Nothing changes for the other objects.
<1>d. ASSUME NEW o \in Objects, Counted(o)',
             \A p \in Objects \ {o} :
               /\ obj'[p].refs = obj[p].refs
               /\ p \in handles' <=> p \in handles
               /\ p \in fbs' <=> p \in fbs
               /\ fbdev' = p <=> fbdev = p
               /\ \A t \in Threads : Holds(t, p)' <=> Holds(t, p)
               /\ \A v \in Vmas : vma'[v].obj = p <=> vma[v].obj = p
      PROVE  Counting'
  <2>1. ASSUME NEW p \in Objects \ {o} PROVE SameHolders(p)
    BY <1>d DEF SameHolders, SameHandle, SameFb, SameConsole, SameOwner, SameMaps, Owned, Holds, Mappings
  <2> QED BY <1>0, <1>d, <2>1, Recounted DEF Counting
<1> USE DEF Control, store, holders
<1>1. ASSUME LoadWithout PROVE Counting'
  BY <1>a, <1>1 DEF LoadWithout, Holds
<1>2. ASSUME NEW t \in Threads, NEW size \in Sizes, LoadConsole(t, size) \/ Dumb(t, size)
      PROVE  Counting'
  <2>1. PICK next \in {"handle", "fbdev"} : Create(t, size, next) /\ at[t].pc = "idle"
    BY <1>2 DEF LoadConsole, Dumb, Idle, At
  <2>2. PICK o \in Objects, pc \in {next, "range", "scan"} : Created(t, o, size, pc, next)
    BY <2>1, Creating
  <2>3. o \notin handles /\ o \notin fbs /\ fbdev # o /\ ~Owned(o) /\ Mappings(o) = {}
    <3>1. obj[o].refs = 0
      BY <1>0, <2>2 DEF Created
    <3> QED BY <3>1, Referred
  <2>4. Counted(o)'
    <3>1. Owned(o)'
      BY <2>2 DEF Created, Owned, Owning, Making
    <3>2. Mappings(o)' = {}
      BY <2>2, <2>3 DEF Created, Mappings
    <3>3. Cardinality(Mappings(o)') = 0
      BY <3>2, FS_EmptySet
    <3>4. One(Owned(o))' = 1
      BY <3>1 DEF One
    <3> HIDE DEF Control
    <3> QED BY <2>2, <2>3, <3>3, <3>4 DEF Created, Counted, One
  <2>5. \A p \in Objects \ {o}, u \in Threads : Holds(u, p)' <=> Holds(u, p)
    BY <2>1, <2>2 DEF Created, Holds, Owning, Making
  <2> QED BY <1>d, <2>2, <2>4, <2>5 DEF Created
<1>3. ASSUME NEW t \in Threads, AllocRange(t) PROVE Counting'
  <2> DEFINE o == at[t].obj
  <2>1. o \in Objects /\ at[t].pc = "range" /\ Owned(o) /\ obj[o].refs = 1
    BY <1>3, Owner DEF AllocRange, At, Ending, Ended, Owning, Making
  <2>2. CASE obj' = [obj EXCEPT ![o].addr = Start(Gap(obj[o].size))] /\ Goto(t, "map")
    <3>1. \A p \in Objects : obj'[p].refs = obj[p].refs
      BY <1>0, <2>1, <2>2 DEF Gems
    <3>2. \A u \in Threads, p \in Objects : Holds(u, p)' <=> Holds(u, p)
      BY <1>b, <2>1, <2>2 DEF PCs, Owning, Making
    <3> QED BY <1>3, <1>a, <3>1, <3>2 DEF AllocRange
  <2>3. CASE Gone(t, o, Quiet)
    BY <1>3, <1>c, <2>1, <2>3, QuietStep DEF AllocRange
  <2> QED BY <1>3, <2>2, <2>3 DEF AllocRange
<1>4. ASSUME NEW t \in Threads, MapRange(t) PROVE Counting'
  <2>1. at[t].pc = "map" /\ at[t].next \in {"handle", "fbdev"}
    BY <1>4 DEF MapRange, At, Shaped, Making
  <2>2. PICK pc \in {at[t].next, "unrange"} : Goto(t, pc)
    BY <1>4 DEF MapRange
  <2>3. \A u \in Threads, p \in Objects : Holds(u, p)' <=> Holds(u, p)
    BY <1>b, <2>1, <2>2 DEF PCs, Owning, Making
  <2> QED BY <1>4, <1>a, <2>3 DEF MapRange
<1>5. ASSUME NEW t \in Threads, Unrange(t) PROVE Counting'
  <2>1. at[t].obj \in Objects /\ Owned(at[t].obj) /\ obj[at[t].obj].refs = 1
    BY <1>5, Owner DEF Unrange, At, Ending, Ended, Owning, Making
  <2> QED BY <1>5, <1>c, <2>1, QuietStep DEF Unrange
<1>6. ASSUME NEW t \in Threads, Scan(t) PROVE Counting'
  <2> DEFINE o == at[t].obj
             i == at[t].bit + 1
  <2>1. /\ o \in Objects /\ at[t].pc = "scan" /\ Owned(o) /\ obj[o].refs = 1
        /\ at[t].next \in {"handle", "fbdev"} /\ at[t] \in Steps
    BY <1>6, Owner DEF Scan, At, Ending, Ended, Owning, Making, Shaped
  <2>2. CASE obj' = [obj EXCEPT ![o].index = i] /\ Goto(t, at[t].next)
    <3>1. \A p \in Objects : obj'[p].refs = obj[p].refs
      BY <1>0, <2>1, <2>2 DEF Gems
    <3>2. \A u \in Threads, p \in Objects : Holds(u, p)' <=> Holds(u, p)
      BY <1>b, <2>1, <2>2 DEF PCs, Owning, Making
    <3> QED BY <1>6, <1>a, <3>1, <3>2 DEF Scan
  <2>3. CASE at' = [at EXCEPT ![t].bit = i] /\ UNCHANGED obj
    <3>1. /\ \A u \in Threads \ {t} : at'[u] = at[u]
          /\ at'[t].pc = "scan" /\ at'[t].obj = o
      BY <1>0, <2>1, <2>3 DEF Steps
    <3>2. \A u \in Threads, p \in Objects : Holds(u, p)' <=> Holds(u, p)
      BY <2>1, <3>1 DEF Holds
    <3> QED BY <1>6, <1>a, <2>3, <3>2 DEF Scan
  <2>4. CASE Gone(t, o, Quiet)
    BY <1>6, <1>c, <2>1, <2>4, QuietStep DEF Scan
  <2> QED BY <1>6, <2>2, <2>3, <2>4 DEF Scan
<1>7. ASSUME NEW t \in Threads, MakeHandle(t) PROVE Counting'
  <2>0. PICK o \in Objects : at[t].obj = o
    BY <1>7, Owner DEF MakeHandle, At, Owning, Making
  <2>1. at[t].pc = "handle" /\ Owned(o) /\ obj[o].refs = 1 /\ o \notin handles
    <3>1. at[t].pc = "handle" /\ Owned(o) /\ obj[o].refs = 1
      BY <1>7, <2>0, Owner DEF MakeHandle, At, Ending, Ended, Owning, Making
    <3> QED BY <3>1, Referred
  <2>2. /\ at'[t].pc = "put" /\ at'[t].obj = o
        /\ \A u \in Threads \ {t} : at'[u] = at[u]
    BY <1>7, <2>0, Steering
  <2>3. \A u \in Threads, p \in Objects : Holds(u, p)' <=> Holds(u, p)
    BY <2>0, <2>1, <2>2 DEF Holds, Owning, Making
  <2>4. CASE handles' = handles \cup {o} /\ Take(o)
    <3>1. SameOwner(o)
      BY <2>1, <2>3 DEF SameOwner, Owned, Holds
    <3>2. obj'[o].refs = obj[o].refs + 1 /\ \A p \in Objects \ {o} : obj'[p] = obj[p]
      BY <1>0, <2>1, <2>4, Taking
    <3>3. Begins(o, o \in handles, o \in handles')
      BY <2>1, <2>4, <3>2 DEF Begins
    <3>4. SameFb(o) /\ SameConsole(o) /\ SameMaps(o)
      BY <1>7 DEF SameFb, SameConsole, SameMaps, Mappings, MakeHandle
    <3>5. Counted(o)'
      BY <1>0, <2>1, <3>1, <3>3, <3>4, Recounted
    <3> QED BY <1>7, <1>d, <2>1, <2>3, <2>4, <3>2, <3>5 DEF MakeHandle
  <2>5. CASE UNCHANGED <<handles, obj>>
    BY <1>7, <1>a, <2>3, <2>5 DEF MakeHandle
  <2> QED BY <1>7, <2>0, <2>4, <2>5 DEF MakeHandle
\* A reference of its own that a thread drops.
<1>e. ASSUME NEW t \in Threads, NEW o \in Objects, NEW next \in {"idle", "note", "again"},
             at[t].obj = o, at[t].pc \in {"put", "fbdev"}, Drop(t, o, next), UNCHANGED holders
      PROVE  Counting'
  <2>1. Owned(o) /\ obj[o].refs > 0 /\ \A u \in Threads \ {t} : ~Holds(u, o)
    BY <1>0, <1>e, Owner DEF Alone, Holds, Owning, Making
  <2>2. /\ \A u \in Threads \ {t} : at'[u] = at[u]
        /\ at'[t].obj # o \/ at'[t].pc \notin Owning
        /\ at'[t].obj \in {o, None}
        /\ \A p \in Objects \ {o} : obj'[p] = obj[p]
        /\ obj'[o].refs = obj[o].refs - 1
    BY <1>0, <1>e, <2>1, Dropping, First, QuietStep DEF Owning, Making, Freeing
  <2>3. ~Owned(o)'
    BY <1>0, <2>1, <2>2 DEF Owned, Holds
  <2>4. Counted(o)'
    <3>1. SameHandle(o) /\ SameFb(o) /\ SameConsole(o) /\ SameMaps(o)
      BY <1>e DEF SameHandle, SameFb, SameConsole, SameMaps, Mappings
    <3>2. Ends(o, Owned(o), Owned(o)')
      BY <2>1, <2>2, <2>3 DEF Ends
    <3> QED BY <1>0, <3>1, <3>2, Recounted
  <2>5. \A u \in Threads, p \in Objects \ {o} : Holds(u, p)' <=> Holds(u, p)
    BY <1>0, <1>e, <2>2 DEF Holds
  <2> QED BY <1>d, <1>e, <2>2, <2>4, <2>5
<1>8. ASSUME NEW t \in Threads, PutOwn(t) PROVE Counting'
  <2>1. at[t].obj \in Objects /\ at[t].pc = "put" /\ at[t].next \in {"note", "again"}
    BY <1>8, Owner DEF PutOwn, At, Shaped, Owning
  <2> QED BY <1>8, <1>e, <2>1 DEF PutOwn
<1>9. ASSUME NEW t \in Threads, Note(t) PROVE Counting'
  <2>1. at' = at \/ at' = [at EXCEPT ![t] = Quiet]
    BY <1>9, Steering
  <2>2. \A u \in Threads, p \in Objects : Holds(u, p)' <=> Holds(u, p)
    BY <1>0, <1>9, <2>1, QuietStep DEF Holds, Note, At, Owning, Making
  <2> QED BY <1>9, <1>a, <2>2 DEF Note
<1>10. ASSUME NEW t \in Threads, FreeAgain(t) PROVE Counting'
  BY <1>a, <1>10 DEF FreeAgain, Holds
<1>11. ASSUME NEW t \in Threads, Console(t) PROVE Counting'
  <2>0. PICK o \in Objects : at[t].obj = o
    BY <1>11, Owner DEF Console, At, Owning, Making
  <2>1. /\ at[t].pc = "fbdev" /\ Owned(o) /\ fbdev = None
        /\ \A u \in Threads \ {t} : ~Holds(u, o)
    BY <1>0, <1>11, <2>0, Owner DEF Console, At, Shaped, Owning, Making, Booting, Alone, Holds
  <2>2. CASE Drop(t, o, "idle") /\ UNCHANGED fbdev
    BY <1>11, <1>e, <2>0, <2>1, <2>2 DEF Console
  <2>3. CASE fbdev' = o /\ at' = [at EXCEPT ![t] = Quiet] /\ UNCHANGED obj
    <3>1. ~Owned(o)'
      BY <1>0, <2>0, <2>1, <2>3, QuietStep DEF Owned, Holds
    <3>2. SameHandle(o) /\ SameFb(o) /\ SameMaps(o)
      BY <1>11 DEF Console, SameHandle, SameFb, SameMaps, Mappings
    <3>3. Counted(o)'
      BY <1>0, <2>1, <2>3, <3>1, <3>2, Recounted
    <3>4. \A u \in Threads, p \in Objects \ {o} : Holds(u, p)' <=> Holds(u, p)
      BY <1>0, <2>0, <2>1, <2>3, QuietStep DEF Holds
    <3> QED BY <1>0, <1>11, <2>0, <1>d, <2>1, <2>3, <3>3, <3>4 DEF Console
  <2> QED BY <1>11, <2>0, <2>2, <2>3 DEF Console
<1>12. ASSUME NEW t \in Threads, Unmap(t) \/ Unlist(t) PROVE Counting'
  <2>1. /\ at[t].pc \in Freeing /\ UNCHANGED <<holders, obj>>
        /\ Goto(t, "unlist") \/ Goto(t, "free")
    BY <1>12 DEF Unmap, Unlist, At, Freeing
  <2>2. \A u \in Threads, p \in Objects : Holds(u, p)' <=> Holds(u, p)
    BY <1>b, <2>1 DEF PCs, Owning, Making, Freeing
  <2> QED BY <1>a, <2>1, <2>2
<1>13. ASSUME NEW t \in Threads, Free(t) PROVE Counting'
  <2>1. at[t].obj \in Objects /\ obj[at[t].obj].refs = 0 /\ UNCHANGED holders
    BY <1>13, Owner DEF Free, At, Ending, Ended, Freeing
  <2>2. PICK rest \in Steps : Gone(t, at[t].obj, rest) /\ rest.obj = None
    BY <1>13, Steering
  <2> QED BY <1>c, <2>1, <2>2
\* A reference that was somebody's goes, by an idle thread.
<1>f. ASSUME NEW t \in Threads, NEW o \in Objects, at[t] = Quiet,
             at'[t] = Quiet \/ at'[t].pc \in Freeing,
             \A u \in Threads \ {t} : at'[u].pc = at[u].pc /\ at'[u].obj = at[u].obj
      PROVE  /\ \A u \in Threads, p \in Objects : Holds(u, p)' <=> Holds(u, p)
             /\ SameOwner(o)
  <2>1. \A u \in Threads, p \in Objects : Holds(u, p)' <=> Holds(u, p)
    BY <1>0, <1>f, QuietStep DEF Holds, Owning, Making, Freeing
  <2> QED BY <2>1 DEF SameOwner, Owned, Holds
<1>14. ASSUME NEW t \in Threads, NEW o \in Objects, CloseHandle(t, o) PROVE Counting'
  <2>1. at[t] = Quiet /\ o \in handles /\ obj[o].refs > 0
    BY <1>14, Referred DEF CloseHandle, Idle, At, Shaped
  <2>2. /\ at'[t] = Quiet \/ at'[t].pc \in Freeing
        /\ \A u \in Threads \ {t} : at'[u].pc = at[u].pc /\ at'[u].obj = at[u].obj
        /\ obj'[o].refs = obj[o].refs - 1
        /\ \A p \in Objects \ {o} : obj'[p] = obj[p]
    BY <1>0, <1>14, <2>1, Closing, First
  <2>3. /\ \A u \in Threads, p \in Objects : Holds(u, p)' <=> Holds(u, p)
        /\ SameOwner(o)
    BY <1>f, <2>1, <2>2
  <2>4. handles' = handles \ {o} /\ UNCHANGED <<fbs, fbdev, vma>>
    BY <1>14 DEF CloseHandle
  <2>5. Counted(o)'
    <3>1. SameFb(o) /\ SameConsole(o) /\ SameMaps(o)
      BY <2>4 DEF SameFb, SameConsole, SameMaps, Mappings
    <3>2. Ends(o, o \in handles, o \in handles')
      BY <2>1, <2>2, <2>4 DEF Ends
    <3> QED BY <1>0, <2>3, <3>1, <3>2, Recounted
  <2> QED BY <1>d, <2>2, <2>3, <2>4, <2>5
<1>15. ASSUME NEW t \in Threads, NEW o \in Objects, DestroyFb(t, o) PROVE Counting'
  <2>1. at[t] = Quiet /\ o \in fbs /\ obj[o].refs > 0
    BY <1>15, Referred DEF DestroyFb, Idle, At, Shaped
  <2>2. /\ at'[t] = Quiet \/ at'[t].pc \in Freeing
        /\ \A u \in Threads \ {t} : at'[u].pc = at[u].pc /\ at'[u].obj = at[u].obj
        /\ obj'[o].refs = obj[o].refs - 1
        /\ \A p \in Objects \ {o} : obj'[p] = obj[p]
    BY <1>0, <1>15, <2>1, Dropping, First DEF DestroyFb
  <2>3. /\ \A u \in Threads, p \in Objects : Holds(u, p)' <=> Holds(u, p)
        /\ SameOwner(o)
    BY <1>f, <2>1, <2>2
  <2>4. fbs' = fbs \ {o} /\ UNCHANGED <<handles, fbdev, vma>>
    BY <1>15 DEF DestroyFb
  <2>5. Counted(o)'
    <3>1. SameHandle(o) /\ SameConsole(o) /\ SameMaps(o)
      BY <2>4 DEF SameHandle, SameConsole, SameMaps, Mappings
    <3>2. Ends(o, o \in fbs, o \in fbs')
      BY <2>1, <2>2, <2>4 DEF Ends
    <3> QED BY <1>0, <2>3, <3>1, <3>2, Recounted
  <2> QED BY <1>d, <2>2, <2>3, <2>4, <2>5
<1>16. ASSUME NEW t \in Threads, NEW v \in Vmas, Unmmap(t, v) PROVE Counting'
  <2>1. PICK o \in Objects : vma[v].obj = o
    BY <1>16 DEF TypeOK, Unmmap
  <2>2. at[t] = Quiet /\ v \in Mappings(o) /\ obj[o].refs > 0
    BY <1>16, <2>1, Referred DEF Unmmap, Idle, At, Shaped, Mappings
  <2>3. /\ at'[t] = Quiet \/ at'[t].pc \in Freeing
        /\ \A u \in Threads \ {t} : at'[u].pc = at[u].pc /\ at'[u].obj = at[u].obj
        /\ obj'[o].refs = obj[o].refs - 1
        /\ \A p \in Objects \ {o} : obj'[p] = obj[p]
    BY <1>0, <1>16, <2>1, <2>2, Unmapping, First
  <2>4. /\ \A u \in Threads, p \in Objects : Holds(u, p)' <=> Holds(u, p)
        /\ SameOwner(o)
    BY <1>f, <2>2, <2>3
  <2>5. /\ vma'[v].obj = None /\ \A w \in Vmas \ {v} : vma'[w] = vma[w]
        /\ UNCHANGED <<handles, fbs, fbdev>>
    BY <1>16 DEF Unmmap, NoPages, TypeOK
  <2>6. Counted(o)'
    <3>1. SameHandle(o) /\ SameFb(o) /\ SameConsole(o)
      BY <2>5 DEF SameHandle, SameFb, SameConsole
    <3>2. Mappings(o)' = Mappings(o) \ {v}
      BY <1>0, <2>5 DEF Mappings
    <3>3. Ends(o, v \in Mappings(o), v \in Mappings(o)')
      BY <2>2, <2>3, <3>2 DEF Ends
    <3> QED BY <1>0, <2>4, <3>1, <3>2, <3>3, Recounted
  <2>7. \A p \in Objects \ {o}, w \in Vmas : vma'[w].obj = p <=> vma[w].obj = p
    BY <1>0, <2>1, <2>5
  <2> QED BY <1>d, <2>3, <2>4, <2>5, <2>6, <2>7
<1>17. ASSUME NEW o \in Objects, CreateFb(o) \/ HandleOfFb(o) PROVE Counting'
  <2>1. /\ obj'[o].refs = obj[o].refs + 1 /\ \A p \in Objects \ {o} : obj'[p] = obj[p]
        /\ UNCHANGED <<at, fbdev, vma>>
    BY <1>0, <1>17, Taking DEF CreateFb, HandleOfFb
  <2>2. SameConsole(o) /\ SameMaps(o) /\ SameOwner(o)
        /\ \A u \in Threads, p \in Objects : Holds(u, p)' <=> Holds(u, p)
    BY <2>1 DEF SameConsole, SameMaps, SameOwner, Mappings, Owned, Holds
  <2>3. CASE CreateFb(o)
    <3>1. SameHandle(o) /\ Begins(o, o \in fbs, o \in fbs')
      BY <2>1, <2>3 DEF SameHandle, Begins, CreateFb
    <3>2. Counted(o)'
      BY <1>0, <2>2, <3>1, Recounted
    <3> QED BY <1>d, <2>1, <2>2, <2>3, <3>2 DEF CreateFb
  <2>4. CASE HandleOfFb(o)
    <3>1. SameFb(o) /\ Begins(o, o \in handles, o \in handles')
      BY <2>1, <2>4 DEF SameFb, Begins, HandleOfFb
    <3>2. Counted(o)'
      BY <1>0, <2>2, <3>1, Recounted
    <3> QED BY <1>d, <2>1, <2>2, <2>4, <3>2 DEF HandleOfFb
  <2> QED BY <1>17, <2>3, <2>4
<1>18. ASSUME NEW o \in Objects, NEW v \in Vmas, vma[v].obj = None, vma'[v].obj = o,
              \A w \in Vmas \ {v} : vma'[w] = vma[w], Take(o), UNCHANGED <<at, handles, fbs, fbdev>>
       PROVE  Counting'
  <2>1. obj'[o].refs = obj[o].refs + 1 /\ \A p \in Objects \ {o} : obj'[p] = obj[p]
    BY <1>0, <1>18, Taking
  <2>2. SameConsole(o) /\ SameHandle(o) /\ SameFb(o) /\ SameOwner(o)
        /\ \A u \in Threads, p \in Objects : Holds(u, p)' <=> Holds(u, p)
    BY <1>18 DEF SameConsole, SameHandle, SameFb, SameOwner, Owned, Holds
  <2>3. Mappings(o)' = Mappings(o) \cup {v} /\ v \notin Mappings(o)
    BY <1>0, <1>18 DEF Mappings
  <2>4. Begins(o, v \in Mappings(o), v \in Mappings(o)')
    BY <2>1, <2>3 DEF Begins
  <2>5. Counted(o)'
    BY <1>0, <2>2, <2>3, <2>4, Recounted
  <2>6. \A p \in Objects \ {o}, w \in Vmas : vma'[w].obj = p <=> vma[w].obj = p
    BY <1>0, <1>18
  <2> QED BY <1>d, <1>18, <2>1, <2>2, <2>5, <2>6
<1>19. ASSUME NEW o \in Objects, NEW v \in Vmas, Mmap(v, o) PROVE Counting'
  <2>1. vma'[v].obj = o /\ \A w \in Vmas \ {v} : vma'[w] = vma[w]
    BY <1>19 DEF Mmap, TypeOK
  <2> QED BY <1>18, <1>19, <2>1 DEF Mmap
<1>20. ASSUME NEW v \in Vmas, NEW w \in Vmas, Fork(v, w) PROVE Counting'
  <2>1. PICK o \in Objects : vma[v].obj = o
    BY <1>20 DEF TypeOK, Fork
  <2>2. vma'[w].obj = o /\ \A x \in Vmas \ {w} : vma'[x] = vma[x]
    BY <1>20, <2>1 DEF Fork, TypeOK
  <2> QED BY <1>18, <1>20, <2>1, <2>2 DEF Fork
<1>21. ASSUME NEW v \in Vmas, Fault(v) PROVE Counting'
  <2>1. \A x \in Vmas : vma'[x].obj = vma[x].obj
    BY <1>21 DEF Fault, TypeOK
  <2>2. vma[v].obj \in Objects /\ (obj' = obj \/ obj' = [obj EXCEPT ![vma[v].obj].uptr = TRUE])
    BY <1>21 DEF Fault, TypeOK
  <2>3. \A p \in Objects : obj'[p].refs = obj[p].refs
    BY <1>0, <2>2 DEF Gems
  <2> QED BY <1>21, <1>a, <2>1, <2>3 DEF Fault, Holds
<1>22. CASE UNCHANGED vars
  BY <1>22, <1>a DEF vars, Holds
<1> QED BY <1>1, <1>2, <1>3, <1>4, <1>5, <1>6, <1>7, <1>8, <1>9, <1>10, <1>11, <1>12, <1>13, <1>14,
           <1>15, <1>16, <1>17, <1>19, <1>20, <1>21, <1>22 DEF Next

-----------------------------------------------------------------------------
(* The end of an object.                                                   *)

\* An object that is made has one reference, one that is taken down has none, and
\* an unnoted handle is closed only if that is known, after every step.
LEMMA EndingNext ==
  Control /\ Control' /\ Counting /\ Ending /\ [Next]_vars => Ending'
<1> SUFFICES ASSUME Control, Control', Counting, Ending, [Next]_vars PROVE Ending'
  OBVIOUS
<1>0. /\ at \in [Threads -> Steps] /\ obj \in [Objects -> Gems]
      /\ None \notin Objects /\ \A t \in Threads : at[t].obj \in Objects \cup {None}
      /\ \A o \in Objects : obj[o].refs \in Nat
      /\ \A t \in Threads : Ended(t)
      /\ \A o \in Objects : ~Live(o) => obj[o].refs = 0
  BY Bounds, UnusedGem DEF Control, TypeOK, Steps, Gems, Ending, Shaped
<1> USE DEF Control, store, holders
\* A thread that has an object for itself, or takes it down, has all references.
<1>1. ASSUME NEW u \in Threads, NEW o \in Objects, at[u].obj = o
      PROVE  /\ o \in handles \/ o \in fbs \/ fbdev = o \/ Mappings(o) # {} =>
                  at[u].pc \notin Making \cup Freeing
             /\ at[u].pc \in Freeing => obj[o].refs = 0
             /\ \A t \in Threads \ {u} : at[t].obj = o => at[u].pc \notin Making
             /\ at[u].next = "note" => at[u].pc \in {"put", "note"} \cup Freeing
  <2>1. at[u].pc \in Making => Owned(o) /\ obj[o].refs = 1
    BY <1>0, <1>1 DEF Owned, Ended, Owning
  <2>2. at[u].pc \in Freeing => obj[o].refs = 0
    BY <1>0, <1>1 DEF Ended
  <2>3. \A t \in Threads \ {u} : at[t].obj = o => at[u].pc \notin Making
    BY <1>0, <1>1 DEF Alone
  <2>4. at[u].next = "note" => at[u].pc \in {"put", "note"} \cup Freeing
    BY <1>0, <1>1, QuietStep DEF Shaped, Making, Freeing, Steps, PCs
  <2> QED BY <2>1, <2>2, <2>3, <2>4, Referred
\* The references to one object change, which somebody else holds as well.
<1>a. ASSUME NEW t \in Threads, NEW o \in Objects, \A p \in Objects \ {o} : obj'[p].refs = obj[p].refs,
             \A u \in Threads \ {t} :
               /\ at'[u].pc = at[u].pc /\ at'[u].obj = at[u].obj /\ at'[u].next = at[u].next
               /\ at[u].shut => at'[u].shut
               /\ at[u].next = "note" /\ at[u].obj \in handles => at[u].obj \in handles' \/ at'[u].shut
               /\ at[u].obj = o => obj'[o].refs = obj[o].refs \/ at[u].pc \notin Making \cup Freeing,
             Ended(t)'
      PROVE  Ending'
  <2>1. ASSUME NEW u \in Threads \ {t} PROVE Ended(u)'
    <3>1. at[u].pc \in Making \cup Freeing => at[u].obj \in Objects
      BY <1>0 DEF Shaped, Making, Owning, Freeing
    <3> QED BY <1>0, <1>a, <3>1 DEF Ended
  <2> QED BY <1>a, <2>1 DEF Ending
\* An object goes that nobody holds, or its maker alone.
<1>b. ASSUME NEW t \in Threads, NEW o \in Objects, at[t].obj = o, NEW rest \in Steps, Gone(t, o, rest),
             at[t].pc \in Making \cup Freeing, rest = Quiet \/ Ended(t)', UNCHANGED handles
      PROVE  Ending'
  <2>1. /\ at'[t] = rest
        /\ \A u \in Threads \ {t} :
             /\ at'[u].pc = at[u].pc /\ at'[u].next = at[u].next /\ at'[u].shut = at[u].shut
             /\ at[u].obj = o => at'[u].obj = None
             /\ at[u].obj # o => at'[u].obj = at[u].obj
        /\ \A p \in Objects \ {o} : obj'[p] = obj[p]
    BY <1>0, <1>b, Leaving
  <2>2. o \notin handles
    BY <1>1, <1>b
  <2>3. ASSUME NEW u \in Threads \ {t} PROVE Ended(u)'
    <3>1. CASE at[u].obj = o
      <4>1. at[u].pc \notin Making \cup Freeing
        BY <1>0, <1>b, <3>1 DEF Alone, Owning, Making
      <4> QED BY <1>0, <1>b, <2>1, <2>2, <3>1, <4>1 DEF Ended
    <3>2. CASE at[u].obj # o
      <4>1. at[u].pc \in Making \cup Freeing => at[u].obj \in Objects \ {o}
        BY <1>0, <3>2 DEF Shaped, Making, Owning, Freeing
      <4> QED BY <1>0, <1>b, <2>1, <3>2, <4>1 DEF Ended
    <3> QED BY <3>1, <3>2
  <2>4. Ended(t)'
    BY <1>b, <2>1, QuietStep DEF Ended, Making, Freeing
  <2> QED BY <2>3, <2>4 DEF Ending
\* No reference changes.
<1>d. ASSUME NEW t \in Threads, \A p \in Objects : obj'[p].refs = obj[p].refs,
             \A u \in Threads \ {t} : at'[u] = at[u], handles \subseteq handles', Ended(t)'
      PROVE  Ending'
  <2>1. ASSUME NEW u \in Threads \ {t} PROVE Ended(u)'
    <3>1. at[u].pc \in Making \cup Freeing => at[u].obj \in Objects
      BY <1>0 DEF Shaped, Owning
    <3> QED BY <1>0, <1>d, <3>1 DEF Ended
  <2> QED BY <1>d, <2>1 DEF Ending
<1>e. ASSUME \A p \in Objects : obj'[p].refs = obj[p].refs, UNCHANGED at, handles \subseteq handles'
      PROVE  Ending'
  <2>1. ASSUME NEW u \in Threads PROVE Ended(u)'
    <3>1. at[u].pc \in Making \cup Freeing => at[u].obj \in Objects
      BY <1>0 DEF Shaped, Owning
    <3> QED BY <1>0, <1>e, <3>1 DEF Ended
  <2> QED BY <2>1 DEF Ending
\* A reference is taken to an object that somebody holds.
<1>f. ASSUME NEW o \in Objects, Take(o), UNCHANGED at, handles \subseteq handles',
             o \in handles \/ o \in fbs \/ Mappings(o) # {}
      PROVE  Ending'
  <2>1. \A p \in Objects \ {o} : obj'[p] = obj[p]
    BY <1>0, <1>f, Taking
  <2>2. ASSUME NEW u \in Threads PROVE Ended(u)'
    <3>1. at[u].pc \in Making \cup Freeing => at[u].obj \in Objects \ {o}
      BY <1>0, <1>1, <1>f DEF Shaped, Owning
    <3> QED BY <1>0, <1>f, <2>1, <3>1 DEF Ended
  <2> QED BY <2>2 DEF Ending
\* A thread goes on with its object.
<1>c. ASSUME NEW t \in Threads, NEW pc \in PCs, Goto(t, pc), UNCHANGED handles,
             \A p \in Objects : obj'[p].refs = obj[p].refs,
             \/ at[t].pc \in Making /\ pc \in Making
             \/ at[t].pc \in Freeing /\ pc \in Freeing
      PROVE  Ending'
  <2>1. /\ \A u \in Threads \ {t} : at'[u] = at[u]
        /\ at'[t].pc = pc /\ at'[t].obj = at[t].obj /\ at'[t].next = at[t].next
        /\ at'[t].shut = at[t].shut
    BY <1>0, <1>c, Going
  <2>2. Ended(t)'
    <3>1. at[t].obj \in Objects
      BY <1>0, <1>c DEF Shaped, Owning
    <3>2. Making \cap Freeing = {}
      BY DEF Making, Freeing
    <3> QED BY <1>0, <1>c, <2>1, <3>1, <3>2 DEF Ended
  <2> QED BY <1>d, <1>c, <2>1, <2>2
<1>2. ASSUME LoadWithout PROVE Ending'
  BY <1>e, <1>2 DEF LoadWithout
<1>3. ASSUME NEW t \in Threads, NEW size \in Sizes, LoadConsole(t, size) \/ Dumb(t, size)
      PROVE  Ending'
  <2>1. PICK next \in {"handle", "fbdev"} : Create(t, size, next)
    BY <1>3 DEF LoadConsole, Dumb
  <2>2. PICK o \in Objects, pc \in {next, "range", "scan"} : Created(t, o, size, pc, next)
    BY <2>1, Creating
  <2>3. \A u \in Threads : at[u].obj # o
    BY <1>0, <2>2 DEF Created, Shaped
  <2>4. Ended(t)'
    BY <2>2 DEF Created, Ended, Making, Freeing
  <2> QED BY <1>a, <2>2, <2>3, <2>4 DEF Created
<1>4. ASSUME NEW t \in Threads, AllocRange(t) PROVE Ending'
  <2> DEFINE o == at[t].obj
  <2>1. o \in Objects /\ at[t].pc = "range"
    BY <1>4, Owner DEF AllocRange, At, Owning, Making
  <2>2. CASE obj' = [obj EXCEPT ![o].addr = Start(Gap(obj[o].size))] /\ Goto(t, "map")
    <3>1. \A p \in Objects : obj'[p].refs = obj[p].refs
      BY <1>0, <2>1, <2>2 DEF Gems
    <3>2. at[t].pc \in Making /\ "map" \in Making /\ "map" \in PCs
      BY <2>1 DEF Making, PCs
    <3>3. UNCHANGED handles
      BY <1>4 DEF AllocRange
    <3> QED BY <1>c, <2>2, <3>1, <3>2, <3>3
  <2>3. CASE Gone(t, o, Quiet)
    BY <1>4, <1>b, <2>1, <2>3, QuietStep DEF AllocRange, Making
  <2> QED BY <1>4, <2>2, <2>3 DEF AllocRange
<1>5. ASSUME NEW t \in Threads, MapRange(t) PROVE Ending'
  <2>1. at[t].pc = "map" /\ at[t].next \in {"handle", "fbdev"}
    BY <1>5 DEF MapRange, At, Shaped, Making
  <2>2. PICK pc \in {at[t].next, "unrange"} : Goto(t, pc)
    BY <1>5 DEF MapRange
  <2>3. at[t].pc \in Making /\ pc \in Making /\ pc \in PCs
    BY <2>1 DEF Making, PCs
  <2>4. UNCHANGED <<handles, obj>>
    BY <1>5 DEF MapRange
  <2> QED BY <1>c, <2>2, <2>3, <2>4
<1>6. ASSUME NEW t \in Threads, Unrange(t) PROVE Ending'
  <2>1. at[t].obj \in Objects /\ at[t].pc = "unrange"
    BY <1>6, Owner DEF Unrange, At, Owning, Making
  <2> QED BY <1>6, <1>b, <2>1, QuietStep DEF Unrange, Making
<1>7. ASSUME NEW t \in Threads, Scan(t) PROVE Ending'
  <2> DEFINE o == at[t].obj
             i == at[t].bit + 1
  <2>1. o \in Objects /\ at[t].pc = "scan" /\ at[t].next \in {"handle", "fbdev"} /\ at[t] \in Steps
    BY <1>7, Owner DEF Scan, At, Owning, Making, Shaped
  <2>2. CASE obj' = [obj EXCEPT ![o].index = i] /\ Goto(t, at[t].next)
    <3>1. \A p \in Objects : obj'[p].refs = obj[p].refs
      BY <1>0, <2>1, <2>2 DEF Gems
    <3>2. at[t].pc \in Making /\ at[t].next \in Making /\ at[t].next \in PCs
      BY <2>1 DEF Making, PCs
    <3>3. UNCHANGED handles
      BY <1>7 DEF Scan
    <3> QED BY <1>c, <2>2, <3>1, <3>2, <3>3
  <2>3. CASE at' = [at EXCEPT ![t].bit = i] /\ UNCHANGED obj
    <3>1. /\ \A u \in Threads \ {t} : at'[u] = at[u]
          /\ at'[t].pc = "scan" /\ at'[t].obj = o /\ at'[t].next = at[t].next
      BY <1>0, <2>1, <2>3 DEF Steps
    <3>2. Ended(t)'
      BY <1>0, <2>1, <2>3, <3>1 DEF Ended, Making, Freeing
    <3> QED BY <1>7, <1>d, <2>3, <3>1, <3>2 DEF Scan
  <2>4. CASE Gone(t, o, Quiet)
    BY <1>7, <1>b, <2>1, <2>4, QuietStep DEF Scan, Making
  <2> QED BY <1>7, <2>2, <2>3, <2>4 DEF Scan
<1>8. ASSUME NEW t \in Threads, MakeHandle(t) PROVE Ending'
  <2>1. at[t].obj \in Objects /\ at[t].pc = "handle"
    BY <1>8, Owner DEF MakeHandle, At, Owning, Making
  <2>2. /\ at'[t].pc = "put" /\ at'[t].obj = at[t].obj /\ at'[t].next \in {"note", "again"}
        /\ at'[t].next = "note" => at[t].obj \in handles' /\ Take(at[t].obj)
        /\ at'[t].next = "again" => UNCHANGED <<handles, obj>>
        /\ \A u \in Threads \ {t} : at'[u] = at[u]
        /\ handles \subseteq handles'
    <3>1. handles \subseteq handles'
      BY <1>8 DEF MakeHandle
    <3> QED BY <1>8, <3>1, Steering
  <2>3. Ended(t)'
    BY <2>1, <2>2 DEF Ended, Making, Freeing
  <2>4. \A p \in Objects \ {at[t].obj} : obj'[p] = obj[p]
    BY <1>0, <2>1, <2>2, Taking
  <2>5. \A u \in Threads \ {t} : at[u].obj = at[t].obj => at[u].pc \notin Making \cup Freeing
    BY <1>0, <2>1 DEF Alone, Owning, Making
  <2> QED BY <1>a, <2>1, <2>2, <2>3, <2>4, <2>5
<1>9. ASSUME NEW t \in Threads, NEW o \in Objects, NEW next \in {"idle", "note", "again"},
             at[t].obj = o, at[t].pc \in {"put", "fbdev"}, Drop(t, o, next), UNCHANGED handles,
             next = "idle" \/ next = at[t].next
      PROVE  Ending'
  <2>1. obj[o].refs > 0
    BY <1>9, Owner DEF Owning, Making
  <2>2. /\ \A u \in Threads \ {t} : at'[u] = at[u]
        /\ obj[o].refs = 1 =>
             /\ at'[t].pc \in Freeing /\ at'[t].obj = o /\ at'[t].next = next
             /\ at'[t].shut = at[t].shut
        /\ obj[o].refs # 1 /\ next = "idle" => at'[t] = Quiet
        /\ obj[o].refs # 1 /\ next # "idle" =>
             /\ at'[t].pc = next /\ at'[t].obj = at[t].obj /\ at'[t].next = at[t].next
             /\ at'[t].shut = at[t].shut
        /\ \A p \in Objects \ {o} : obj'[p] = obj[p]
        /\ obj'[o].refs = obj[o].refs - 1
    BY <1>0, <1>9, <2>1, Dropping, First
  <2>3. Ended(t)'
    <3>1. obj[o].refs = 1 => obj'[o].refs = 0
      BY <2>2
    <3> QED BY <1>0, <1>9, <2>2, <3>1, QuietStep DEF Ended, Making, Freeing
  <2>4. \A u \in Threads \ {t} : at[u].obj = o => at[u].pc \notin Making \cup Freeing
    BY <1>0, <1>9 DEF Alone, Owning, Making
  <2> QED BY <1>a, <1>9, <2>2, <2>3, <2>4
<1>10. ASSUME NEW t \in Threads, PutOwn(t) PROVE Ending'
  <2>1. at[t].obj \in Objects /\ at[t].pc = "put" /\ at[t].next \in {"note", "again"}
    BY <1>10, Owner DEF PutOwn, At, Shaped, Owning
  <2> QED BY <1>9, <1>10, <2>1 DEF PutOwn
<1>11. ASSUME NEW t \in Threads, Note(t) PROVE Ending'
  <2>1. at' = at \/ at' = [at EXCEPT ![t] = Quiet]
    BY <1>11, Steering
  <2>2. CASE at' = at
    BY <1>11, <1>e, <2>2 DEF Note
  <2>3. CASE at' = [at EXCEPT ![t] = Quiet]
    <3>1. Ended(t)'
      BY <1>0, <2>3, QuietStep DEF Ended, Making, Freeing
    <3> QED BY <1>0, <1>11, <1>d, <2>3, <3>1 DEF Note
  <2> QED BY <2>1, <2>2, <2>3
<1>12. ASSUME NEW t \in Threads, FreeAgain(t) PROVE Ending'
  BY <1>e, <1>12 DEF FreeAgain
<1>13. ASSUME NEW t \in Threads, Console(t) PROVE Ending'
  <2>1. at[t].obj \in Objects /\ at[t].pc = "fbdev"
    BY <1>13, Owner DEF Console, At, Owning, Making
  <2>2. CASE Drop(t, at[t].obj, "idle")
    BY <1>9, <1>13, <2>1, <2>2 DEF Console
  <2>3. CASE at' = [at EXCEPT ![t] = Quiet] /\ UNCHANGED obj
    <3>1. Ended(t)'
      BY <1>0, <2>3, QuietStep DEF Ended, Making, Freeing
    <3> QED BY <1>0, <1>13, <1>d, <2>3, <3>1 DEF Console
  <2> QED BY <1>13, <2>2, <2>3 DEF Console
<1>14. ASSUME NEW t \in Threads, Unmap(t) \/ Unlist(t) PROVE Ending'
  <2>1. /\ at[t].pc \in Freeing /\ UNCHANGED <<handles, obj>>
        /\ Goto(t, "unlist") \/ Goto(t, "free")
    BY <1>14 DEF Unmap, Unlist, At, Freeing
  <2> QED BY <1>c, <2>1 DEF PCs, Freeing
<1>15. ASSUME NEW t \in Threads, Free(t) PROVE Ending'
  <2>1. at[t].obj \in Objects /\ at[t].pc = "free" /\ obj[at[t].obj].refs = 0 /\ UNCHANGED handles
    BY <1>15, Owner DEF Free, At, Ending, Ended, Freeing
  <2>2. PICK rest \in Steps :
          /\ Gone(t, at[t].obj, rest) /\ rest.obj = None
          /\ at[t].next = "idle" => rest = Quiet
          /\ at[t].next # "idle" => /\ rest.pc = at[t].next /\ rest.next = at[t].next
                                    /\ rest.shut = at[t].shut
    BY <1>15, Steering
  <2>3. rest = Quiet \/ Ended(t)'
    <3>1. at'[t] = rest
      BY <1>0, <2>1, <2>2, Leaving
    <3>2. at[t].obj \notin handles
      BY <1>1, <2>1 DEF Freeing
    <3>3. at[t].next = "note" => at[t].shut
      BY <1>0, <3>2 DEF Ended
    <3> QED BY <2>1, <2>2, <3>1, <3>3 DEF Ended, Shaped, Making, Freeing
  <2> QED BY <1>b, <2>1, <2>2, <2>3 DEF Freeing
\* An idle thread drops a reference that was somebody's.
<1>16. ASSUME NEW t \in Threads, NEW o \in Objects, at[t] = Quiet,
              o \in handles \/ o \in fbs \/ Mappings(o) # {}, obj'[o].refs = obj[o].refs - 1,
              \A p \in Objects \ {o} : obj'[p] = obj[p],
              obj[o].refs = 1 => at'[t].pc = FirstStep(o) /\ at'[t].obj = o /\ at'[t].next = "idle",
              obj[o].refs # 1 => at'[t] = Quiet,
              \A u \in Threads \ {t} :
                /\ at'[u].pc = at[u].pc /\ at'[u].obj = at[u].obj /\ at'[u].next = at[u].next
                /\ at[u].shut => at'[u].shut
                /\ at[u].next = "note" /\ at[u].obj \in handles => at[u].obj \in handles' \/ at'[u].shut
       PROVE  Ending'
  <2>1. Ended(t)'
    <3>1. obj[o].refs = 1 => obj'[o].refs = 0
      BY <1>16
    <3> QED BY <1>16, <3>1, First, QuietStep DEF Ended, Making, Freeing
  <2>2. \A u \in Threads \ {t} : at[u].obj = o => at[u].pc \notin Making \cup Freeing
    BY <1>1, <1>16
  <2> QED BY <1>a, <1>16, <2>1, <2>2
<1>17. ASSUME NEW t \in Threads, NEW o \in Objects, CloseHandle(t, o) PROVE Ending'
  <2>1. at[t] = Quiet /\ o \in handles /\ obj[o].refs > 0 /\ handles' = handles \ {o}
    BY <1>17, Referred DEF CloseHandle, Idle, At, Shaped
  <2>2. \A u \in Threads \ {t} :
          /\ at'[u].pc = at[u].pc /\ at'[u].obj = at[u].obj /\ at'[u].next = at[u].next
          /\ at[u].shut => at'[u].shut
          /\ at[u].obj = o /\ at[u].pc \in {"put", "note"} => at'[u].shut
    BY <1>0, <1>17, <2>1, Closing
  <2>3. \A u \in Threads \ {t} :
          at[u].next = "note" /\ at[u].obj \in handles => at[u].obj \in handles' \/ at'[u].shut
    <3>1. ASSUME NEW u \in Threads \ {t}, at[u].next = "note", at[u].obj = o PROVE at'[u].shut
      <4>1. at[u].pc \in {"put", "note"}
        BY <1>1, <2>1, <3>1
      <4> QED BY <2>2, <3>1, <4>1
    <3> QED BY <2>1, <3>1
  <2>4. /\ obj[o].refs = 1 => at'[t].pc = FirstStep(o) /\ at'[t].obj = o /\ at'[t].next = "idle"
        /\ obj[o].refs # 1 => at'[t] = Quiet
        /\ obj'[o].refs = obj[o].refs - 1
        /\ \A p \in Objects \ {o} : obj'[p] = obj[p]
    BY <1>0, <1>17, <2>1, Closing
  <2> QED BY <1>16, <2>1, <2>2, <2>3, <2>4
<1>18. ASSUME NEW t \in Threads, NEW o \in Objects, DestroyFb(t, o) PROVE Ending'
  <2>1. at[t] = Quiet /\ o \in fbs /\ obj[o].refs > 0 /\ UNCHANGED handles /\ Drop(t, o, "idle")
    BY <1>18, Referred DEF DestroyFb, Idle, At, Shaped
  <2> QED BY <1>0, <1>16, <2>1, Dropping
<1>19. ASSUME NEW t \in Threads, NEW v \in Vmas, Unmmap(t, v) PROVE Ending'
  <2>1. PICK o \in Objects : vma[v].obj = o
    BY <1>19 DEF TypeOK, Unmmap
  <2>2. at[t] = Quiet /\ Mappings(o) # {} /\ obj[o].refs > 0 /\ UNCHANGED handles
    BY <1>19, <2>1, Referred DEF Unmmap, Idle, At, Shaped, Mappings
  <2> QED BY <1>0, <1>16, <1>19, <2>1, <2>2, Unmapping
<1>20. ASSUME NEW o \in Objects, CreateFb(o) \/ HandleOfFb(o) \/ \E v \in Vmas : Mmap(v, o)
       PROVE  Ending'
  <2>1. (o \in handles \/ o \in fbs) /\ Take(o) /\ UNCHANGED at /\ handles \subseteq handles'
    BY <1>20 DEF CreateFb, HandleOfFb, Mmap
  <2> QED BY <1>f, <2>1
<1>21. ASSUME NEW v \in Vmas, NEW w \in Vmas, Fork(v, w) PROVE Ending'
  <2>1. vma[v].obj \in Objects /\ Take(vma[v].obj) /\ UNCHANGED <<at, handles>>
    BY <1>21 DEF TypeOK, Fork
  <2> QED BY <1>f, <2>1 DEF Mappings
<1>22. ASSUME NEW v \in Vmas, Fault(v) PROVE Ending'
  <2>1. vma[v].obj \in Objects /\ (obj' = obj \/ obj' = [obj EXCEPT ![vma[v].obj].uptr = TRUE])
    BY <1>22 DEF Fault, TypeOK
  <2>2. \A p \in Objects : obj'[p].refs = obj[p].refs
    BY <1>0, <2>1 DEF Gems
  <2> QED BY <1>22, <1>e, <2>2 DEF Fault
<1>23. CASE UNCHANGED vars
  BY <1>23, <1>e DEF vars
<1> QED BY <1>2, <1>3, <1>4, <1>5, <1>6, <1>7, <1>8, <1>10, <1>11, <1>12, <1>13, <1>14,
           <1>15, <1>17, <1>18, <1>19, <1>20, <1>21, <1>22, <1>23 DEF Next

-----------------------------------------------------------------------------
(* The list after a step.                                                  *)

\* Entries have different bases.
LEMMA Distinct ==
  ASSUME TypeOK, Sorted
  PROVE  /\ \A r \in On : r \in Ranges /\ r.base \in Nat /\ r.size \in Nat /\ Base <= r.base
         /\ \A r, s \in On : r.base = s.base => r = s
<1>1. \A r \in On : r \in Ranges /\ r.base \in Nat /\ r.size \in Nat /\ Base <= r.base
  BY Entries DEF On, Sorted
<1>2. ASSUME NEW i \in DOMAIN ranges, NEW j \in DOMAIN ranges, ranges[i].base = ranges[j].base
      PROVE  i = j
  <2>1. ~(i < j)
    BY <1>2, Entries DEF Sorted
  <2>2. ~(j < i)
    BY <1>2, Entries DEF Sorted
  <2> QED BY <2>1, <2>2, Entries
<1> QED BY <1>1, <1>2 DEF On

\* An entry between those before and those behind it.
LEMMA Inserting ==
  ASSUME TypeOK, Sorted, NEW i \in 1..Len(ranges) + 1, NEW x \in Ranges, Base <= x.base,
         \A j \in DOMAIN ranges :
           /\ j < i => ranges[j].base + ranges[j].size <= x.base
           /\ j >= i => x.base + x.size <= ranges[j].base,
         ranges' = InsertAt(ranges, i, x)
  PROVE  Sorted' /\ On' = On \cup {x}
<1> DEFINE n == Len(ranges)
<1>1. /\ ranges \in Seq(Ranges) /\ n \in Nat /\ DOMAIN ranges = 1..n
      /\ \A j \in 1..n : /\ ranges[j] \in Ranges /\ ranges[j].base \in Nat /\ ranges[j].size \in Nat
                        /\ Base <= ranges[j].base
      /\ \A j, k \in 1..n : j < k => ranges[j].base + ranges[j].size <= ranges[k].base
  BY Entries DEF TypeOK, Sorted
<1>2. x.base \in Nat /\ x.size \in Nat
  BY Bounds DEF Ranges
<1>3. /\ DOMAIN ranges' = 1..n + 1
      /\ \A j \in 1..n + 1 :
           /\ j < i => ranges'[j] = ranges[j]
           /\ j = i => ranges'[j] = x
           /\ j > i => ranges'[j] = ranges[j-1]
  <2>1. ranges' \in Seq(Ranges) /\ Len(ranges') = n + 1
    BY <1>1, Inserted
  <2>2. ASSUME NEW j \in 1..n + 1
        PROVE  /\ j < i => ranges'[j] = ranges[j]
               /\ j = i => ranges'[j] = x
               /\ j > i => ranges'[j] = ranges[j-1]
    <3>1. j \in 1..Len(ranges) + 1 /\ i \in 1..Len(ranges) + 1 /\ ranges \in Seq(Ranges) /\ x \in Ranges
      BY <1>1
    <3>2. /\ j < i => InsertAt(ranges, i, x)[j] = ranges[j]
          /\ j = i => InsertAt(ranges, i, x)[j] = x
          /\ j > i => InsertAt(ranges, i, x)[j] = ranges[j-1]
      BY ONLY <3>1, Inserted
    <3> QED BY <3>2
  <2> QED BY <2>1, <2>2
<1> HIDE DEF n
<1>4. ASSUME NEW j \in 1..n + 1
      PROVE  Base <= ranges'[j].base /\ ranges'[j] \in On \cup {x}
  <2>1. CASE j < i
    <3>1. j \in 1..n /\ ranges'[j] = ranges[j]
      BY <1>1, <1>3, <2>1
    <3> QED BY <1>1, <3>1 DEF On
  <2>2. CASE j = i
    BY <1>1, <1>3, <2>2
  <2>3. CASE j > i
    <3>1. j - 1 \in 1..n /\ ranges'[j] = ranges[j-1]
      BY <1>1, <1>3, <2>3
    <3> QED BY <1>1, <3>1 DEF On
  <2> QED BY <1>1, <2>1, <2>2, <2>3
<1>5. ASSUME NEW j \in 1..n + 1, NEW k \in 1..n + 1, j < k
      PROVE  ranges'[j].base + ranges'[j].size <= ranges'[k].base
  <2>1. CASE k < i
    <3>1. j \in 1..n /\ k \in 1..n /\ ranges'[j] = ranges[j] /\ ranges'[k] = ranges[k]
      BY <1>1, <1>3, <1>5, <2>1
    <3> QED BY <1>1, <1>5, <3>1
  <2>2. CASE k = i
    <3>1. j \in 1..n /\ ranges'[j] = ranges[j] /\ ranges'[k] = x
      BY <1>1, <1>3, <1>5, <2>2
    <3> QED BY <1>1, <1>5, <2>2, <3>1
  <2>3. CASE k > i /\ j < i
    <3>1. j \in 1..n /\ k - 1 \in 1..n /\ ranges'[j] = ranges[j] /\ ranges'[k] = ranges[k-1]
      BY <1>1, <1>3, <1>5, <2>3
    <3>2. j < k - 1
      BY <1>1, <1>5, <2>3
    <3> QED BY <1>1, <3>1, <3>2 
  <2>4. CASE k > i /\ j = i
    <3>1. k - 1 \in 1..n /\ ranges'[j] = x /\ ranges'[k] = ranges[k-1] /\ k - 1 >= i
      BY <1>1, <1>3, <1>5, <2>4
    <3> QED BY <1>1, <3>1
  <2>5. CASE k > i /\ j > i
    <3>1. /\ j - 1 \in 1..n /\ k - 1 \in 1..n /\ j - 1 < k - 1
          /\ ranges'[j] = ranges[j-1] /\ ranges'[k] = ranges[k-1]
      BY <1>1, <1>3, <1>5, <2>5
    <3> QED BY <1>1, <3>1
  <2> QED BY <1>1, <2>1, <2>2, <2>3, <2>4, <2>5
<1>6. Sorted'
  BY <1>3, <1>4, <1>5 DEF Sorted
<1>8. ASSUME NEW r \in On \cup {x} PROVE \E j \in 1..n + 1 : ranges'[j] = r
  <2>1. CASE r = x
    BY <1>1, <1>3, <2>1
  <2>2. CASE r \in On
    <3>1. PICK j \in 1..n : ranges[j] = r
      BY <1>1, <2>2 DEF On
    <3>2. CASE j < i
      BY <1>1, <1>3, <3>1, <3>2
    <3>3. CASE j >= i
      <4>1. j + 1 \in 1..n + 1 /\ ranges'[j+1] = ranges[(j+1)-1] /\ (j+1)-1 = j
        BY <1>1, <1>3, <3>3
      <4> QED BY <3>1, <4>1
    <3> QED BY <1>1, <3>2, <3>3
  <2> QED BY <2>1, <2>2
<1>9. \A r : r \in On' <=> \E j \in 1..n + 1 : ranges'[j] = r
  BY <1>3 DEF On
<1>10. On' = On \cup {x}
  BY <1>4, <1>8, <1>9
<1> QED BY <1>6, <1>10

\* A range is entered at the gap that fits best: at a new base.
LEMMA Placed ==
  ASSUME TypeOK, Sorted, NEW size \in Sizes,
         ranges' = InsertAt(ranges, Gap(size), [base |-> Start(Gap(size)), size |-> size])
  PROVE  /\ Sorted'
         /\ On' = On \cup {[base |-> Start(Gap(size)), size |-> size]}
         /\ \A r \in On : r.base # Start(Gap(size))
         /\ Start(Gap(size)) \in Nat /\ Base <= Start(Gap(size))
<1> DEFINE i == Gap(size)
           x == [base |-> Start(i), size |-> size]
<1>1. i \in 1..Len(ranges) + 1 /\ (i \in DOMAIN ranges => size <= Room(i))
  BY GapFits
<1> HIDE DEF i
<1>2. /\ Start(i) \in Nat /\ Base <= Start(i)
      /\ \A j \in DOMAIN ranges : j < i => ranges[j].base + ranges[j].size <= Start(i)
  BY <1>1, Starts
<1>3. x \in Ranges /\ x.base = Start(i) /\ x.size = size /\ size \in Nat /\ size > 0
  BY <1>2, Bounds DEF Ranges
<1>4. ASSUME NEW j \in DOMAIN ranges, j >= i PROVE Start(i) + size <= ranges[j].base
  <2>1. i \in DOMAIN ranges
    BY <1>1, <1>4, Entries
  <2>2. Start(i) + size <= ranges[i].base
    BY <1>1, <1>2, <1>3, <2>1, Entries DEF Room
  <2>3. i = j \/ ranges[i].base + ranges[i].size <= ranges[j].base
    BY <1>4, <2>1, Entries DEF Sorted
  <2> QED BY <1>2, <1>3, <2>1, <2>2, <2>3, Entries
<1>5. ranges' = InsertAt(ranges, i, x)
  BY DEF i
<1>6. ASSUME NEW j \in DOMAIN ranges PROVE ranges[j].base # Start(i)
  <2>1. CASE j < i
    BY <1>2, <2>1, Entries
  <2>2. CASE j >= i
    BY <1>2, <1>3, <1>4, <2>2, Entries
  <2> QED BY <1>1, <2>1, <2>2, Entries
<1>7. Sorted' /\ On' = On \cup {x}
  <2> HIDE DEF x
  <2>1. \A j \in DOMAIN ranges :
          /\ j < i => ranges[j].base + ranges[j].size <= x.base
          /\ j >= i => x.base + x.size <= ranges[j].base
    BY <1>2, <1>3, <1>4
  <2>2. Base <= x.base
    BY <1>2, <1>3
  <2> QED BY <1>1, <1>3, <1>5, <2>1, <2>2, Inserting
<1> QED BY <1>2, <1>6, <1>7 DEF On, x, i

\* A base is taken from the list.
LEMMA Removing ==
  ASSUME TypeOK, Sorted, NEW base, ranges' = Without(base)
  PROVE  Sorted' /\ On' = {r \in On : r.base # base}
<1> DEFINE n == Len(ranges)
<1>1. /\ ranges \in Seq(Ranges) /\ n \in Nat /\ DOMAIN ranges = 1..n
      /\ \A j \in 1..n : /\ ranges[j] \in Ranges /\ ranges[j].base \in Nat /\ ranges[j].size \in Nat
                        /\ Base <= ranges[j].base /\ ranges[j].size > 0
      /\ \A j, k \in 1..n : j < k => ranges[j].base + ranges[j].size <= ranges[k].base
  BY Entries DEF TypeOK, Sorted
<1>2. CASE Listed(base) = {}
  BY <1>2, Dropped DEF Listed, On, Sorted
<1>3. CASE Listed(base) # {}
  <2>1. PICK i \in 1..n : ranges[i].base = base /\ ranges' = RemoveAt(ranges, i)
    BY <1>1, <1>3, Dropped
  <2>2. /\ DOMAIN ranges' = 1..n - 1
        /\ \A j \in 1..n - 1 : ranges'[j] = IF j < i THEN ranges[j] ELSE ranges[j+1]
    <3>1. /\ RemoveAt(ranges, i) \in Seq(Ranges) /\ Len(RemoveAt(ranges, i)) = Len(ranges) - 1
          /\ \A j \in 1..Len(ranges) - 1 :
               RemoveAt(ranges, i)[j] = IF j < i THEN ranges[j] ELSE ranges[j+1]
      BY <1>1, <2>1, Removed, Zenon
    <3> QED BY <1>1, <2>1, <3>1
  <2> HIDE DEF n
  <2>3. ASSUME NEW j \in 1..n - 1 
        PROVE  ranges'[j] \in On /\ ranges'[j].base # base /\ Base <= ranges'[j].base
    <3>1. PICK a \in 1..n : a # i /\ ranges'[j] = ranges[a]
      <4>1. CASE j < i
        BY <1>1, <2>2, <4>1
      <4>2. CASE j >= i
        <5>1. j + 1 \in 1..n /\ j + 1 # i /\ ranges'[j] = ranges[j+1]
          BY <1>1, <2>2, <4>2
        <5> QED BY <5>1
      <4> QED BY <1>1, <4>1, <4>2
    <3>2. ranges[a].base # base
      <4>1. a < i \/ i < a
        BY <1>1, <3>1
      <4>2. CASE a < i
        BY <1>1, <2>1, <4>2
      <4>3. CASE i < a
        BY <1>1, <2>1, <4>3
      <4> QED BY <4>1, <4>2, <4>3
    <3> QED BY <1>1, <3>1, <3>2 DEF On
  <2>4. ASSUME NEW j \in 1..n - 1, NEW k \in 1..n - 1, j < k
        PROVE  ranges'[j].base + ranges'[j].size <= ranges'[k].base
    <3>1. PICK a \in 1..n, b \in 1..n : a < b /\ ranges'[j] = ranges[a] /\ ranges'[k] = ranges[b]
      <4>1. CASE k < i
        BY <1>1, <2>2, <2>4, <4>1
      <4>2. CASE k >= i /\ j < i
        <5>1. j \in 1..n /\ k + 1 \in 1..n /\ j < k + 1 /\ ranges'[j] = ranges[j] /\ ranges'[k] = ranges[k+1]
          BY <1>1, <2>2, <2>4, <4>2
        <5> QED BY <5>1
      <4>3. CASE k >= i /\ j >= i
        <5>1. /\ j + 1 \in 1..n /\ k + 1 \in 1..n /\ j + 1 < k + 1
              /\ ranges'[j] = ranges[j+1] /\ ranges'[k] = ranges[k+1]
          BY <1>1, <2>2, <2>4, <4>3
        <5> QED BY <5>1
      <4> QED BY <1>1, <4>1, <4>2, <4>3
    <3> QED BY <1>1, <3>1
  <2>5. Sorted'
    BY <1>1, <2>2, <2>3, <2>4 DEF Sorted
  <2>7. ASSUME NEW r \in On, r.base # base PROVE \E j \in 1..n - 1 : ranges'[j] = r
    <3>1. PICK a \in 1..n : ranges[a] = r /\ a # i
      BY <1>1, <2>1, <2>7 DEF On
    <3>2. CASE a < i
      BY <1>1, <2>2, <3>1, <3>2
    <3>3. CASE a > i
      <4>1. a - 1 \in 1..n - 1 /\ ranges'[a-1] = ranges[(a-1)+1] /\ (a-1)+1 = a
        BY <1>1, <2>2, <3>1, <3>3
      <4> QED BY <3>1, <4>1
    <3> QED BY <1>1, <3>1, <3>2, <3>3
  <2>8. \A r : r \in On' <=> \E j \in 1..n - 1 : ranges'[j] = r
    BY <2>2 DEF On
  <2>9. On' = {r \in On : r.base # base}
    BY <2>3, <2>7, <2>8
  <2> QED BY <2>5, <2>9
<1> QED BY <1>2, <1>3

-----------------------------------------------------------------------------
(* Memory, the list and the host.                                          *)

Storing == {"range", "scan", "map", "unrange", "unmap", "unlist", "free"}

\* What an object has of the store.
SameMemory(o) ==
  /\ obj'[o].size = obj[o].size /\ obj'[o].kptr = obj[o].kptr
  /\ obj'[o].addr = obj[o].addr /\ obj'[o].index = obj[o].index

\* A thread does not get to the store, but to take an object down.
SamePlace(t) ==
  \/ at'[t].pc = at[t].pc /\ at'[t].obj = at[t].obj
  \/ at'[t].pc \notin Storing
  \/ at[t].pc \notin Storing /\ at'[t].obj \in Objects /\ at'[t].pc = FirstStep(at'[t].obj)

\* A step leaves the store alone, but for objects that go or come without memory.
LEMMA StoreKept ==
  ASSUME Control, Control', Store, UNCHANGED store, \A o \in Objects : SameMemory(o),
         \A t \in Threads : SamePlace(t),
         \A t \in Threads : at[t].pc = "free" => at'[t].pc = "free" /\ at'[t].obj = at[t].obj
  PROVE  Store'
<1>0. /\ at \in [Threads -> Steps] /\ obj \in [Objects -> Gems]
      /\ \A t \in Threads : at'[t].pc \in Storing => at'[t].obj \in Objects
      /\ \A r \in mapped : r.obj \in Objects
      /\ UNCHANGED <<ranges, avail, mapped, stray, lost>>
  BY DEF Control, TypeOK, Shaped, Storing, Owning, Making, Freeing, store, Steps
<1>1. \A o \in Objects : Live(o)' <=> Live(o)
  BY DEF SameMemory, Live
<1>2. ASSUME NEW t \in Threads, at'[t].pc \in Storing
      PROVE  \/ at'[t].pc = at[t].pc /\ at'[t].obj = at[t].obj
             \/ at'[t].pc = "unmap" /\ obj[at'[t].obj].kptr /\ obj[at'[t].obj].addr # 0
             \/ at'[t].pc = "free" /\ (~obj[at'[t].obj].kptr \/ obj[at'[t].obj].addr = 0)
  BY <1>2, First DEF SamePlace
<1>3. \A o \in Objects : Lists(o)' <=> Lists(o)
  <2>1. ASSUME NEW o \in Objects, Lists(o) PROVE Lists(o)'
    BY <1>0, <1>1, <1>2, <2>1 DEF Lists, SameMemory, Storing
  <2>2. ASSUME NEW o \in Objects, Lists(o)' PROVE Lists(o)
    BY <1>0, <1>1, <2>2 DEF Lists, SameMemory
  <2> QED BY <2>1, <2>2
<1>4. Memory'
  <2>1. ASSUME NEW t \in Threads
        PROVE  LET o == obj[at[t].obj]' IN
               /\ at'[t].pc \in {"range", "scan"} => o.addr = 0 /\ o.index = 0
               /\ at'[t].pc = "scan" => ~o.kptr
               /\ at'[t].pc \in {"map", "unrange", "unmap", "unlist"} => o.addr # 0
               /\ at'[t].pc \in {"unmap", "unlist"} => o.kptr
    BY <1>0, <1>2 DEF Store, Memory, SameMemory, Storing
  <2> QED BY <2>1 DEF Store, Memory, SameMemory
<1>5. Listing'
  <2>1. Sorted' /\ On' = On
    BY <1>0 DEF Store, Listing, Sorted, On
  <2> QED BY <1>0, <1>3, <2>1 DEF Store, Listing, SameMemory
<1>6. Mapping'
  <2>1. \A r \in mapped \ stray :
          /\ r.obj \in Objects
          /\ Lists(r.obj) /\ obj[r.obj].kptr /\ obj[r.obj].addr = r.base /\ obj[r.obj].size = r.size
    BY <1>0 DEF Store, Mapping
  <2>2. \A r \in mapped' \ stray' :
          Lists(r.obj)' /\ obj'[r.obj].kptr /\ obj'[r.obj].addr = r.base /\ obj'[r.obj].size = r.size
    BY <1>0, <1>3, <2>1 DEF SameMemory
  <2>3. ASSUME NEW t \in Threads, at'[t].pc \in {"map", "unrange", "unlist", "free"},
               NEW r \in mapped \ stray
        PROVE  r.obj # at'[t].obj
    <3>1. obj[r.obj].kptr /\ obj[r.obj].addr # 0
      BY <1>0, <2>1 DEF Lists
    <3> QED BY <1>0, <1>2, <2>3, <3>1 DEF Store, Mapping, Storing
  <2> QED BY <1>0, <2>2, <2>3 DEF Mapping
<1>7. BuffersOwned'
  <2>1. Used' = Used
    BY <1>1 DEF Used
  <2>2. {obj[o].index : o \in Used}' = {obj[o].index : o \in Used}
    BY <2>1 DEF SameMemory, Used
  <2> QED BY <1>0, <2>1, <2>2 DEF Store, BuffersOwned, SameMemory, Used
<1> QED BY <1>4, <1>5, <1>6, <1>7 DEF Store

\* An object goes that nobody else knows of.
LEMMA StoreLeaving ==
  ASSUME Control, Store, NEW t \in Threads, NEW o \in Objects, at[t].obj = o, NEW rest \in Steps,
         rest.obj = None, rest.pc \notin Storing, at[t].pc \in Making \cup Freeing, Gone(t, o, rest)
  PROVE  /\ obj'[o] = Unused /\ ~Lists(o)'
         /\ \A p \in Objects \ {o} : obj'[p] = obj[p] /\ (Lists(p)' <=> Lists(p))
         /\ \A u \in Threads : at'[u].pc \in Storing =>
              at'[u].pc = at[u].pc /\ at'[u].obj = at[u].obj /\ at[u].obj \in Objects \ {o}
         /\ Used' = Used \ {o}
         /\ Memory'
<1>0. /\ at \in [Threads -> Steps] /\ obj \in [Objects -> Gems] /\ None \notin Objects
      /\ \A u \in Threads : at[u].obj \in Objects \cup {None}
      /\ \A u \in Threads : at[u].pc \in Storing => at[u].obj \in Objects
  BY Bounds DEF Control, TypeOK, Shaped, Storing, Owning, Making, Freeing, Steps
<1>1. /\ at'[t] = rest
      /\ \A u \in Threads \ {t} :
           /\ at'[u].pc = at[u].pc
           /\ at[u].obj = o => at'[u].obj = None
           /\ at[u].obj # o => at'[u].obj = at[u].obj
      /\ obj'[o] = Unused
      /\ \A p \in Objects \ {o} : obj'[p] = obj[p]
  BY <1>0, Leaving
<1>2. \A u \in Threads : at'[u].pc \in Storing =>
        at'[u].pc = at[u].pc /\ at'[u].obj = at[u].obj /\ at[u].obj \in Objects \ {o}
  <2>1. \A u \in Threads \ {t} : at[u].obj = o => at[u].pc \notin Storing
    BY <1>0 DEF Control, Alone, Storing, Owning, Making, Freeing
  <2> QED BY <1>0, <1>1, <2>1
<1>3. ~Lists(o)'
  BY <1>1, UnusedGem DEF Lists, Live
<1>4. \A p \in Objects \ {o}, u \in Threads : at'[u].obj = p /\ at'[u].pc = "free" <=>
                                              at[u].obj = p /\ at[u].pc = "free"
  BY <1>0, <1>1, <1>2 DEF Storing
<1>5. ASSUME NEW p \in Objects \ {o} PROVE Lists(p)' <=> Lists(p)
  BY <1>1, <1>4 DEF Lists, Live
<1>6. Used' = Used \ {o}
  BY <1>1, UnusedGem DEF Used, Live
<1>7. Memory'
  <2>1. ASSUME NEW p \in Objects PROVE obj'[p].kptr \/ obj'[p].addr # 0 => obj'[p].index = 0
    BY <1>1, UnusedGem DEF Store, Memory
  <2>2. ASSUME NEW u \in Threads
        PROVE  LET q == obj[at[u].obj]' IN
               /\ at'[u].pc \in {"range", "scan"} => q.addr = 0 /\ q.index = 0
               /\ at'[u].pc = "scan" => ~q.kptr
               /\ at'[u].pc \in {"map", "unrange", "unmap", "unlist"} => q.addr # 0
               /\ at'[u].pc \in {"unmap", "unlist"} => q.kptr
    BY <1>1, <1>2 DEF Store, Memory, Storing
  <2> QED BY <2>1, <2>2 DEF Memory
<1> QED BY <1>1, <1>2, <1>3, <1>5, <1>6, <1>7

\* It had no range and no part of video memory.
LEMMA StoreNever ==
  ASSUME Control, Store, NEW t \in Threads, NEW o \in Objects, at[t].obj = o,
         at[t].pc \in {"range", "scan"}, Gone(t, o, Quiet), UNCHANGED store
  PROVE  Store'
<1>0. /\ \A p \in Objects \ {o} : obj'[p] = obj[p] /\ (Lists(p)' <=> Lists(p))
      /\ ~Lists(o)' /\ Used' = Used \ {o} /\ Memory'
      /\ \A u \in Threads : at'[u].pc \in Storing =>
           at'[u].pc = at[u].pc /\ at'[u].obj = at[u].obj /\ at[u].obj \in Objects \ {o}
  BY StoreLeaving, QuietStep DEF Storing, Making
<1>1. obj[o].addr = 0 /\ obj[o].index = 0 /\ ~Lists(o)
  BY DEF Store, Memory, Lists
<1>2. \A r \in mapped : r.obj \in Objects
  BY DEF Control, TypeOK
<1>3. UNCHANGED <<ranges, avail, mapped, stray, lost>>
  BY DEF store
<1>4. Listing'
  <2>1. Sorted' /\ On' = On
    BY <1>3 DEF Store, Listing, Sorted, On
  <2>2. \A p \in Objects : Lists(p)' => p # o /\ Lists(p) /\ obj'[p] = obj[p]
    BY <1>0
  <2>3. \A p \in Objects : Lists(p) => Lists(p)' /\ obj'[p] = obj[p]
    BY <1>0, <1>1
  <2> QED BY <1>3, <2>1, <2>2, <2>3 DEF Store, Listing
<1>5. Mapping'
  <2>1. \A r \in mapped' \ stray' :
          Lists(r.obj)' /\ obj'[r.obj].kptr /\ obj'[r.obj].addr = r.base /\ obj'[r.obj].size = r.size
    BY <1>0, <1>1, <1>2, <1>3 DEF Store, Mapping
  <2> QED BY <1>0, <1>3, <2>1 DEF Store, Mapping, Storing
<1>6. BuffersOwned'
  <2>1. {obj[p].index : p \in Used}' = {obj[p].index : p \in Used \ {o}}
    BY <1>0 DEF Used
  <2>2. Bits \ {obj[p].index : p \in Used \ {o}} = Bits \ {obj[p].index : p \in Used}
    BY <1>1, Bounds DEF Bits
  <2> QED BY <1>0, <1>3, <2>1, <2>2 DEF Store, BuffersOwned, Used
<1> QED BY <1>0, <1>4, <1>5, <1>6 DEF Store

\* An object is begun.
LEMMA StoreBegun ==
  ASSUME Control, Store, NEW t \in Threads, NEW size \in Sizes, NEW next \in {"handle", "fbdev"},
         Create(t, size, next), at[t].pc = "idle"
  PROVE  Store'
<1>1. PICK o \in Objects, pc \in {next, "range", "scan"} : Created(t, o, size, pc, next)
  BY Creating DEF Control
<1>2. /\ UNCHANGED <<ranges, avail, mapped, stray, lost>> /\ ~Live(o) /\ obj'[o].addr = 0
      /\ obj'[o].index = 0 /\ (pc = "scan" => ~obj'[o].kptr) /\ obj'[o].size = size
      /\ \A p \in Objects \ {o} : obj'[p] = obj[p]
      /\ \A u \in Threads \ {t} : at'[u] = at[u]
      /\ at'[t].pc = pc /\ at'[t].obj = o
  BY <1>1 DEF Created, store
<1>3. /\ \A u \in Threads : at[u].pc \in Storing => at[u].obj \in Objects \ {o} /\ u # t
      /\ \A r \in mapped : r.obj \in Objects
      /\ \A u \in Threads : at[u].obj \in Objects \cup {None}
  BY <1>2 DEF Control, TypeOK, Shaped, Storing, Owning, Making, Freeing, Steps
<1>4. ~Lists(o) /\ ~Lists(o)'
  BY <1>2 DEF Lists
<1>5. ASSUME NEW p \in Objects \ {o} PROVE Lists(p)' <=> Lists(p)
  <2>1. \A u \in Threads : at'[u].obj = p /\ at'[u].pc = "free" <=> at[u].obj = p /\ at[u].pc = "free"
    BY <1>2
  <2> QED BY <1>2, <2>1 DEF Lists, Live
<1>6. Memory'
  <2>1. ASSUME NEW p \in Objects PROVE obj'[p].kptr \/ obj'[p].addr # 0 => obj'[p].index = 0
    BY <1>2 DEF Store, Memory
  <2>2. ASSUME NEW u \in Threads
        PROVE  LET q == obj[at[u].obj]' IN
               /\ at'[u].pc \in {"range", "scan"} => q.addr = 0 /\ q.index = 0
               /\ at'[u].pc = "scan" => ~q.kptr
               /\ at'[u].pc \in {"map", "unrange", "unmap", "unlist"} => q.addr # 0
               /\ at'[u].pc \in {"unmap", "unlist"} => q.kptr
    <3>1. CASE u = t
      BY <1>2, <3>1
    <3>2. CASE u # t
      BY <1>2, <1>3, <3>2 DEF Store, Memory, Storing
    <3> QED BY <3>1, <3>2
  <2> QED BY <2>1, <2>2 DEF Memory
<1>7. Listing'
  <2>1. Sorted' /\ On' = On
    BY <1>2 DEF Store, Listing, Sorted, On
  <2>2. \A p \in Objects : Lists(p)' => p # o /\ Lists(p) /\ obj'[p] = obj[p]
    BY <1>2, <1>4, <1>5
  <2>3. \A p \in Objects : Lists(p) => Lists(p)' /\ obj'[p] = obj[p]
    BY <1>2, <1>4, <1>5
  <2> QED BY <1>2, <2>1, <2>2, <2>3 DEF Store, Listing
<1>8. Mapping'
  <2>1. \A r \in mapped' \ stray' :
          Lists(r.obj)' /\ obj'[r.obj].kptr /\ obj'[r.obj].addr = r.base /\ obj'[r.obj].size = r.size
    BY <1>2, <1>3, <1>4, <1>5 DEF Store, Mapping
  <2>2. \A u \in Threads : at'[u].pc \in {"map", "unrange", "unlist", "free"} => at'[u] = at[u]
    BY <1>2
  <2> QED BY <1>2, <2>1, <2>2 DEF Store, Mapping
<1>9. BuffersOwned'
  <2>1. Used' = Used \cup {o}
    BY <1>2, Bounds DEF Used, Live
  <2>2. \A p \in Used : p # o /\ obj'[p] = obj[p]
    BY <1>2 DEF Used
  <2>3. {obj[p].index : p \in Used}' = {obj[p].index : p \in Used} \cup {0}
    BY <1>2, <2>1, <2>2
  <2>4. Bits \ {obj[p].index : p \in Used}' = Bits \ {obj[p].index : p \in Used}
    <3>1. 0 \notin Bits
      BY Bounds DEF Bits
    <3> QED BY <2>3, <3>1
  <2>5. avail' = Bits \ {obj[p].index : p \in Used}'
    BY <1>2, <2>4 DEF Store, BuffersOwned
  <2>6. ASSUME NEW p \in Used', NEW q \in Used', obj'[p].index # 0, obj'[p].index = obj'[q].index
        PROVE  p = q
    BY <1>2, <2>1, <2>2, <2>6 DEF Store, BuffersOwned
  <2> QED BY <2>5, <2>6 DEF BuffersOwned
<1> QED BY <1>6, <1>7, <1>8, <1>9 DEF Store

\* The range of an object is entered.
LEMMA StorePlaced ==
  ASSUME Control, Control', Store, NEW t \in Threads, NEW o \in Objects, at[t].obj = o, at[t].pc = "range",
         ranges' = InsertAt(ranges, Gap(obj[o].size),
                            [base |-> Start(Gap(obj[o].size)), size |-> obj[o].size]),
         obj' = [obj EXCEPT ![o].addr = Start(Gap(obj[o].size))], Goto(t, "map"),
         UNCHANGED <<avail, mapped, stray, lost>>
  PROVE  Store'
<1>0. /\ at \in [Threads -> Steps] /\ obj \in [Objects -> Gems] /\ None \notin Objects
      /\ \A r \in mapped : r.obj \in Objects
  BY Bounds DEF Control, TypeOK
<1>1. Live(o) /\ obj[o].size \in Sizes /\ obj[o].addr = 0 /\ obj[o].index = 0 /\ ~Lists(o)
  <2>1. Live(o) /\ obj[o] \in Gems
    BY <1>0 DEF Control, Shaped
  <2> QED BY <2>1 DEF Store, Memory, Lists, Live, Gems
<1> DEFINE new == [base |-> Start(Gap(obj[o].size)), size |-> obj[o].size]
<1>2. /\ Sorted' /\ On' = On \cup {new} /\ \A r \in On : r.base # new.base
      /\ new.base \in Nat /\ new.base >= Base
  BY <1>1, Placed DEF Control, Store, Listing
<1>3. /\ obj'[o].addr = new.base /\ obj'[o].size = obj[o].size /\ obj'[o].kptr = obj[o].kptr
      /\ obj'[o].index = 0 /\ new = [base |-> obj'[o].addr, size |-> obj'[o].size]
      /\ \A p \in Objects \ {o} : obj'[p] = obj[p]
  <2> DEFINE b == Start(Gap(obj[o].size))
  <2>1. obj' = [obj EXCEPT ![o].addr = b]
    OBVIOUS
  <2> HIDE DEF b
  <2>2. /\ obj'[o].addr = b /\ obj'[o].size = obj[o].size /\ obj'[o].kptr = obj[o].kptr
        /\ obj'[o].index = obj[o].index /\ \A p \in Objects \ {o} : obj'[p] = obj[p]
    BY <1>0, <2>1 DEF Gems
  <2> QED BY <1>1, <2>2 DEF b
<1> HIDE DEF new
<1>4. /\ at'[t].pc = "map" /\ at'[t].obj = o
      /\ \A u \in Threads \ {t} : at'[u] = at[u]
      /\ \A u \in Threads \ {t} : at[u].pc \in Storing => at[u].obj \in Objects \ {o}
  <2>1. \A u \in Threads \ {t} : at[u].pc \in Storing => at[u].obj \in Objects
    BY <1>0 DEF Control, TypeOK, Steps, Shaped, Storing, Owning, Making, Freeing
  <2>2. \A u \in Threads \ {t} : at[u].obj # o \/ at[u].pc \notin Storing
    BY <1>0 DEF Control, Alone, Storing, Owning, Making, Freeing
  <2> QED BY <1>0, <2>1, <2>2, Going DEF PCs
<1>5. Lists(o)'
  BY <1>1, <1>2, <1>3, <1>4 DEF Lists, Live, Base, Storing
<1>6. ASSUME NEW p \in Objects \ {o} PROVE Lists(p)' <=> Lists(p)
  <2>1. \A u \in Threads : at'[u].obj = p /\ at'[u].pc = "free" <=> at[u].obj = p /\ at[u].pc = "free"
    BY <1>4
  <2> QED BY <1>3, <2>1 DEF Lists, Live
<1>7. Memory'
  <2>1. ASSUME NEW p \in Objects PROVE obj'[p].kptr \/ obj'[p].addr # 0 => obj'[p].index = 0
    BY <1>3 DEF Store, Memory
  <2>2. ASSUME NEW u \in Threads
        PROVE  LET q == obj[at[u].obj]' IN
               /\ at'[u].pc \in {"range", "scan"} => q.addr = 0 /\ q.index = 0
               /\ at'[u].pc = "scan" => ~q.kptr
               /\ at'[u].pc \in {"map", "unrange", "unmap", "unlist"} => q.addr # 0
               /\ at'[u].pc \in {"unmap", "unlist"} => q.kptr
    <3>1. CASE u = t
      BY <1>2, <1>3, <1>4, <3>1 DEF Base
    <3>2. CASE u # t
      BY <1>3, <1>4, <3>2 DEF Store, Memory, Storing
    <3> QED BY <3>1, <3>2
  <2> QED BY <2>1, <2>2 DEF Memory
<1>8. Listing'
  <2>0. /\ lost' = lost
        /\ \A c \in lost : \E r \in On : r.base = c
        /\ \A q \in Objects : Lists(q) =>
             /\ obj[q].addr \notin lost
             /\ \A x \in Objects : Lists(x) /\ obj[x].addr = obj[q].addr => x = q
    BY DEF Store, Listing
  <2>1. \A r \in On' : r.base \in lost' \/ \E p \in Objects : Lists(p)' /\ obj'[p].addr = r.base
    <3>1. ASSUME NEW r \in On PROVE r.base \in lost' \/ \E p \in Objects : Lists(p)' /\ obj'[p].addr = r.base
      BY <1>1, <1>3, <1>6 DEF Store, Listing
    <3> QED BY <1>2, <1>3, <1>5, <3>1
  <2>2. ASSUME NEW p \in Objects, Lists(p)'
        PROVE  /\ [base |-> obj'[p].addr, size |-> obj'[p].size] \in On'
               /\ obj'[p].addr \notin lost'
               /\ \A q \in Objects : Lists(q)' /\ obj'[q].addr = obj'[p].addr => q = p
    <3>1. ASSUME NEW q \in Objects \ {o}, Lists(q)'
          PROVE  /\ [base |-> obj'[q].addr, size |-> obj'[q].size] \in On
                 /\ obj'[q].addr # new.base
      <4>1. [base |-> obj'[q].addr, size |-> obj'[q].size] \in On
        BY <1>3, <1>6, <3>1 DEF Store, Listing
      <4> QED BY <1>2, <4>1
    <3>2. CASE p = o
      <4>1. new.base \notin lost'
        BY <1>2, <2>0
      <4>2. ASSUME NEW q \in Objects, Lists(q)', obj'[q].addr = new.base PROVE q = o
        BY <3>1, <4>2
      <4>3. obj'[p].addr = new.base /\ [base |-> obj'[p].addr, size |-> obj'[p].size] = new
        BY <1>3, <3>2
      <4> QED BY <1>2, <3>2, <4>1, <4>2, <4>3
    <3>3. CASE p # o
      <4>1. Lists(p) /\ obj'[p] = obj[p]
        BY <1>3, <1>6, <2>2, <3>3
      <4>2. obj'[p].addr \notin lost'
        BY <2>0, <4>1
      <4>3. \A q \in Objects : Lists(q)' /\ obj'[q].addr = obj'[p].addr => q = p
        <5>1. ASSUME NEW q \in Objects, Lists(q)', obj'[q].addr = obj'[p].addr PROVE q = p
          <6>1. q # o
            BY <1>3, <2>2, <3>1, <3>3, <5>1
          <6>2. Lists(q) /\ obj'[q] = obj[q]
            BY <1>3, <1>6, <5>1, <6>1
          <6> QED BY <2>0, <4>1, <5>1, <6>2
        <5> QED BY <5>1
      <4> QED BY <1>2, <2>2, <3>1, <3>3, <4>2, <4>3
    <3> QED BY <3>2, <3>3
  <2>3. \A b \in lost' : \E r \in On' : r.base = b
    BY <1>2 DEF Store, Listing
  <2> QED BY <1>2, <2>1, <2>2, <2>3 DEF Listing
<1>9. Mapping'
  <2>1. \A r \in mapped \ stray : r.obj # o
    BY <1>1 DEF Store, Mapping
  <2>2. \A r \in mapped' \ stray' :
          Lists(r.obj)' /\ obj'[r.obj].kptr /\ obj'[r.obj].addr = r.base /\ obj'[r.obj].size = r.size
    BY <1>0, <1>3, <1>6, <2>1 DEF Store, Mapping
  <2>3. \A u \in Threads : at'[u].pc \in {"map", "unrange", "unlist", "free"} => at'[u] = at[u] \/ at'[u].obj = o
    BY <1>4
  <2> QED BY <2>1, <2>2, <2>3 DEF Store, Mapping
<1>10. BuffersOwned'
  <2>1. Used' = Used /\ \A p \in Used : obj'[p].index = obj[p].index
    BY <1>1, <1>3 DEF Used, Live
  <2>2. {obj[p].index : p \in Used}' = {obj[p].index : p \in Used}
    BY <2>1
  <2> QED BY <2>1, <2>2 DEF Store, BuffersOwned
<1> QED BY <1>7, <1>8, <1>9, <1>10 DEF Store

\* The host maps a range, or does not.
LEMMA StoreMapped ==
  ASSUME Control, Control', Store, NEW t \in Threads, MapRange(t)
  PROVE  Store'
<1>1. PICK o \in Objects : at[t].obj = o
  BY Bounds DEF MapRange, At, Control, TypeOK, Steps, Shaped, Owning, Making
<1>2. /\ at \in [Threads -> Steps] /\ at[t].pc = "map" /\ UNCHANGED <<obj, ranges, avail, lost>>
      /\ at[t].next \in {"handle", "fbdev"} /\ None \notin Objects
  BY Bounds DEF MapRange, At, Control, TypeOK, Shaped, Making
<1>3. PICK pc \in {"handle", "fbdev", "unrange"} :
        Goto(t, pc) /\ (pc = "unrange" => UNCHANGED <<mapped, stray>>)
  BY <1>2 DEF MapRange
<1>4. /\ at'[t].pc = pc /\ at'[t].obj = o
      /\ \A u \in Threads \ {t} : at'[u] = at[u]
      /\ \A u \in Threads \ {t} : at[u].obj # o \/ at[u].pc \notin Storing
  <2>1. \A u \in Threads \ {t} : at[u].obj # o \/ at[u].pc \notin Storing
    BY <1>1, <1>2 DEF Control, Alone, Storing, Owning, Making, Freeing
  <2> QED BY <1>1, <1>2, <1>3, <2>1, Going DEF PCs
<1>5. ASSUME NEW p \in Objects PROVE Lists(p)' <=> Lists(p)
  <2>1. \A u \in Threads : at'[u].obj = p /\ at'[u].pc = "free" <=> at[u].obj = p /\ at[u].pc = "free"
    BY <1>2, <1>4
  <2> QED BY <1>2, <2>1 DEF Lists, Live
<1>6. Memory'
  BY <1>1, <1>2, <1>3, <1>4 DEF Store, Memory
<1>7. Listing'
  <2>1. Sorted' /\ On' = On
    BY <1>2 DEF Store, Listing, Sorted, On
  <2> QED BY <1>2, <1>5, <2>1 DEF Store, Listing
<1>8. Lists(o)
  <2>1. Live(o) /\ obj[o].addr # 0
    BY <1>1, <1>2, Bounds DEF Control, Shaped, Store, Memory
  <2> QED BY <1>1, <1>2, <1>4, <2>1 DEF Lists, Storing
<1>9. Mapping'
  <2> DEFINE new == [base |-> obj[o].addr, size |-> obj[o].size, obj |-> o]
             old == {r \in mapped : r.base < new.base + new.size /\ new.base < r.base + r.size}
  <2>1. CASE UNCHANGED <<mapped, stray>>
    <3>1. \A r \in mapped : r.obj \in Objects
      BY DEF Control, TypeOK
    <3>2. \A u \in Threads : at'[u].pc \in {"map", "unrange", "unlist", "free"} =>
            at'[u].obj = at[u].obj /\ at[u].pc \in {"map", "unrange", "unlist", "free"}
      BY <1>1, <1>2, <1>4
    <3>3. \A r \in mapped' \ stray' :
            Lists(r.obj)' /\ obj'[r.obj].kptr /\ obj'[r.obj].addr = r.base /\ obj'[r.obj].size = r.size
      BY <1>2, <1>5, <2>1, <3>1 DEF Store, Mapping
    <3> QED BY <2>1, <3>2, <3>3 DEF Store, Mapping
  <2>2. CASE /\ mapped' = (mapped \ old) \cup {new}
             /\ stray' = (stray \ old) \cup (IF obj[o].kptr THEN {} ELSE {new})
             /\ pc # "unrange"
    <3>1. /\ \A r \in mapped : r.obj \in Objects
          /\ new.obj = o /\ new.base = obj[o].addr /\ new.size = obj[o].size
      BY DEF Control, TypeOK
    <3>2. \A r \in mapped' \ stray' : r \in mapped \ stray \/ (r = new /\ obj[o].kptr)
      BY <2>2
    <3> HIDE DEF new, old
    <3>3. \A r \in mapped' \ stray' :
            Lists(r.obj)' /\ obj'[r.obj].kptr /\ obj'[r.obj].addr = r.base /\ obj'[r.obj].size = r.size
      BY <1>2, <1>5, <1>8, <3>1, <3>2 DEF Store, Mapping
    <3>4. ASSUME NEW u \in Threads, at'[u].pc \in {"map", "unrange", "unlist", "free"},
                 NEW r \in mapped' \ stray'
          PROVE  r.obj # at'[u].obj
      <4>1. u # t /\ at'[u] = at[u] /\ at[u].obj # o
        BY <1>3, <1>4, <2>2, <3>4 DEF Storing
      <4> QED BY <3>1, <3>2, <3>4, <4>1 DEF Store, Mapping
    <3> QED BY <3>3, <3>4 DEF Mapping
  <2>3. \/ UNCHANGED <<mapped, stray>>
        \/ /\ mapped' = (mapped \ old) \cup {new}
           /\ stray' = (stray \ old) \cup (IF obj[o].kptr THEN {} ELSE {new})
           /\ Goto(t, at[t].next)
    BY <1>1 DEF MapRange
  <2>4. Goto(t, at[t].next) => pc # "unrange"
    BY <1>2, <1>4, Going DEF PCs
  <2> QED BY <2>1, <2>2, <2>3, <2>4
<1>10. BuffersOwned'
  <2>1. Used' = Used
    BY <1>2 DEF Used, Live
  <2> QED BY <1>2, <2>1 DEF Store, BuffersOwned
<1> QED BY <1>6, <1>7, <1>9, <1>10 DEF Store

\* A range that its object gives up.
LEMMA StoreUnranged ==
  ASSUME Control, Store, NEW t \in Threads, NEW o \in Objects, at[t].obj = o, Unrange(t)
  PROVE  Store'
<1>0. /\ \A p \in Objects \ {o} : obj'[p] = obj[p] /\ (Lists(p)' <=> Lists(p))
      /\ ~Lists(o)' /\ Used' = Used \ {o} /\ Memory'
      /\ \A u \in Threads : at'[u].pc \in Storing =>
           at'[u].pc = at[u].pc /\ at'[u].obj = at[u].obj /\ at[u].obj \in Objects \ {o}
  BY StoreLeaving, QuietStep DEF Unrange, At, Storing, Making
<1>1. obj[o].addr # 0 /\ obj[o].index = 0
  BY DEF Store, Memory, Unrange, At
<1>2. Lists(o)
  <2>1. Live(o)
    BY Bounds DEF Control, Shaped
  <2>2. \A u \in Threads : at[u].obj = o => at[u].pc # "free"
    BY Bounds DEF Control, Alone, Unrange, At, Making, Freeing
  <2> QED BY <1>1, <2>1, <2>2 DEF Lists
<1>3. UNCHANGED <<avail, mapped, stray, lost>>
  BY DEF Unrange
<1>4. Sorted' /\ On' = {r \in On : r.base # obj[o].addr}
  BY Removing DEF Control, Store, Listing, Unrange
<1>5. \A r \in mapped \ stray : r.obj # o /\ r.obj \in Objects
  BY DEF Store, Mapping, Unrange, At, Control, TypeOK
<1>6. Listing'
  <2>1. /\ lost' = lost /\ obj[o].addr \notin lost
        /\ \A p \in Objects \ {o} : Lists(p) => obj[p].addr # obj[o].addr
    BY <1>2, <1>3 DEF Store, Listing
  <2>2. \A r \in On' : r.base \in lost' \/ \E p \in Objects : Lists(p)' /\ obj'[p].addr = r.base
    BY <1>0, <1>4, <2>1 DEF Store, Listing
  <2>3. ASSUME NEW p \in Objects, Lists(p)'
        PROVE  /\ [base |-> obj'[p].addr, size |-> obj'[p].size] \in On'
               /\ obj'[p].addr \notin lost'
               /\ \A q \in Objects : Lists(q)' /\ obj'[q].addr = obj'[p].addr => q = p
    <3>1. p # o /\ Lists(p) /\ obj'[p] = obj[p]
      BY <1>0, <2>3
    <3>2. [base |-> obj'[p].addr, size |-> obj'[p].size] \in On'
      BY <1>4, <2>1, <3>1 DEF Store, Listing
    <3> QED BY <1>0, <2>1, <3>1, <3>2 DEF Store, Listing
  <2>4. \A b \in lost' : \E r \in On' : r.base = b
    BY <1>4, <2>1 DEF Store, Listing
  <2> QED BY <1>4, <2>2, <2>3, <2>4 DEF Listing
<1>7. Mapping'
  <2>1. \A r \in mapped' \ stray' :
          Lists(r.obj)' /\ obj'[r.obj].kptr /\ obj'[r.obj].addr = r.base /\ obj'[r.obj].size = r.size
    BY <1>0, <1>3, <1>5 DEF Store, Mapping
  <2> QED BY <1>0, <1>3, <2>1 DEF Store, Mapping, Storing
<1>8. BuffersOwned'
  <2>1. {obj[p].index : p \in Used}' = {obj[p].index : p \in Used \ {o}}
    BY <1>0 DEF Used
  <2>2. Bits \ {obj[p].index : p \in Used \ {o}} = Bits \ {obj[p].index : p \in Used}
    BY <1>1, Bounds DEF Bits
  <2> QED BY <1>0, <1>3, <2>1, <2>2 DEF Store, BuffersOwned, Used
<1> QED BY <1>0, <1>6, <1>7, <1>8 DEF Store

\* The range of an object that is taken down goes from the list.
LEMMA StoreUnlisted ==
  ASSUME Control, Store, NEW t \in Threads, NEW o \in Objects, at[t].obj = o, Unlist(t)
  PROVE  Store'
<1>1. /\ at \in [Threads -> Steps] /\ at[t].pc = "unlist" /\ ranges' = Without(obj[o].addr) /\ Goto(t, "free")
      /\ UNCHANGED <<obj, avail, mapped, stray, lost>> /\ None \notin Objects
  BY Bounds DEF Unlist, At, Control, TypeOK
<1>2. /\ at'[t].pc = "free" /\ at'[t].obj = o
      /\ \A u \in Threads \ {t} : at'[u] = at[u]
      /\ \A u \in Threads \ {t} : at[u].obj # o \/ at[u].pc \notin Storing
  <2>1. \A u \in Threads \ {t} : at[u].obj # o \/ at[u].pc \notin Storing
    BY <1>1 DEF Control, Alone, Storing, Owning, Making, Freeing
  <2> QED BY <1>1, <2>1, Going DEF PCs
<1>3. obj[o].addr # 0 /\ obj[o].kptr /\ Live(o)
  BY <1>1 DEF Store, Memory, Control, Shaped
<1>4. Lists(o) /\ ~Lists(o)'
  BY <1>1, <1>2, <1>3 DEF Lists, Storing
<1>5. ASSUME NEW p \in Objects \ {o} PROVE Lists(p)' <=> Lists(p)
  <2>1. \A u \in Threads : at'[u].obj = p /\ at'[u].pc = "free" <=> at[u].obj = p /\ at[u].pc = "free"
    BY <1>1, <1>2
  <2> QED BY <1>1, <2>1 DEF Lists, Live
<1>6. Memory'
  BY <1>1, <1>2, <1>3 DEF Store, Memory
<1>7. Sorted' /\ On' = {r \in On : r.base # obj[o].addr}
  BY <1>1, Removing DEF Control, Store, Listing
<1>8. \A r \in mapped \ stray : r.obj # o /\ r.obj \in Objects
  BY <1>1 DEF Store, Mapping, Control, TypeOK
<1>9. Listing'
  <2>1. /\ lost' = lost /\ obj[o].addr \notin lost
        /\ \A p \in Objects \ {o} : Lists(p) => obj[p].addr # obj[o].addr
    BY <1>1, <1>4 DEF Store, Listing
  <2>2. \A r \in On' : r.base \in lost' \/ \E p \in Objects : Lists(p)' /\ obj'[p].addr = r.base
    BY <1>1, <1>5, <1>7, <2>1 DEF Store, Listing
  <2>3. ASSUME NEW p \in Objects, Lists(p)'
        PROVE  /\ [base |-> obj'[p].addr, size |-> obj'[p].size] \in On'
               /\ obj'[p].addr \notin lost'
               /\ \A q \in Objects : Lists(q)' /\ obj'[q].addr = obj'[p].addr => q = p
    <3>1. p # o /\ Lists(p) /\ obj' = obj
      BY <1>1, <1>4, <1>5, <2>3
    <3>2. [base |-> obj'[p].addr, size |-> obj'[p].size] \in On'
      BY <1>7, <2>1, <3>1 DEF Store, Listing
    <3> QED BY <1>4, <1>5, <2>1, <3>1, <3>2 DEF Store, Listing
  <2>4. \A b \in lost' : \E r \in On' : r.base = b
    BY <1>7, <2>1 DEF Store, Listing
  <2> QED BY <1>7, <2>2, <2>3, <2>4 DEF Listing
<1>10. Mapping'
  <2>1. \A r \in mapped' \ stray' :
          Lists(r.obj)' /\ obj'[r.obj].kptr /\ obj'[r.obj].addr = r.base /\ obj'[r.obj].size = r.size
    BY <1>1, <1>5, <1>8 DEF Store, Mapping
  <2>2. \A u \in Threads : at'[u] = at[u] \/ at'[u].obj = o
    BY <1>2
  <2> QED BY <1>1, <1>8, <2>1, <2>2 DEF Store, Mapping
<1>11. BuffersOwned'
  <2>1. Used' = Used
    BY <1>1 DEF Used, Live
  <2> QED BY <1>1, <2>1 DEF Store, BuffersOwned
<1> QED BY <1>6, <1>9, <1>10, <1>11 DEF Store

\* The host unmaps a range, or does not.
LEMMA StoreUnmapped ==
  ASSUME Control, Store, NEW t \in Threads, NEW o \in Objects, at[t].obj = o, Unmap(t)
  PROVE  Store'
<1>1. /\ at \in [Threads -> Steps] /\ at[t].pc = "unmap" /\ Goto(t, "unlist")
      /\ UNCHANGED <<obj, ranges, avail, lost>> /\ None \notin Objects
  BY Bounds DEF Unmap, At, Control, TypeOK
<1>2. /\ at'[t].pc = "unlist" /\ at'[t].obj = o
      /\ \A u \in Threads \ {t} : at'[u] = at[u]
  BY <1>1, Going DEF PCs
<1>3. ASSUME NEW p \in Objects PROVE Lists(p)' <=> Lists(p)
  <2>1. \A u \in Threads : at'[u].obj = p /\ at'[u].pc = "free" <=> at[u].obj = p /\ at[u].pc = "free"
    BY <1>1, <1>2
  <2> QED BY <1>1, <2>1 DEF Lists, Live
<1>4. Memory'
  BY <1>1, <1>2 DEF Store, Memory
<1>5. Listing'
  <2>1. Sorted' /\ On' = On
    BY <1>1 DEF Store, Listing, Sorted, On
  <2> QED BY <1>1, <1>3, <2>1 DEF Store, Listing
<1>6. \A r \in mapped' \ stray' : r \in mapped \ stray /\ r.obj # o /\ r.obj \in Objects
  <2> DEFINE own == {r \in mapped : r.obj = o /\ r.base = obj[o].addr}
  <2>1. \/ mapped' = mapped \ own /\ stray' = stray \ own
        \/ stray' = stray \cup own /\ mapped' = mapped
    BY DEF Unmap
  <2>2. \A r \in mapped \ stray : r.obj = o => r \in own
    BY DEF Store, Mapping
  <2> QED BY <2>1, <2>2 DEF Control, TypeOK
<1>7. Mapping'
  <2>1. \A r \in mapped' \ stray' :
          Lists(r.obj)' /\ obj'[r.obj].kptr /\ obj'[r.obj].addr = r.base /\ obj'[r.obj].size = r.size
    BY <1>1, <1>3, <1>6 DEF Store, Mapping
  <2>2. \A u \in Threads : at'[u] = at[u] \/ at'[u].obj = o
    BY <1>2
  <2> QED BY <1>6, <2>1, <2>2 DEF Store, Mapping
<1>8. BuffersOwned'
  <2>1. Used' = Used
    BY <1>1 DEF Used, Live
  <2> QED BY <1>1, <2>1 DEF Store, BuffersOwned
<1> QED BY <1>4, <1>5, <1>7, <1>8 DEF Store

\* An object that is taken down gives its part of video memory back, and its
\* range is lost if there was no memory for it.
LEMMA StoreFreed ==
  ASSUME Control, Store, NEW t \in Threads, NEW o \in Objects, at[t].obj = o, Free(t)
  PROVE  Store'
<1>0. /\ \A p \in Objects \ {o} : obj'[p] = obj[p] /\ (Lists(p)' <=> Lists(p))
      /\ ~Lists(o)' /\ Used' = Used \ {o} /\ Memory'
      /\ \A u \in Threads : at'[u].pc \in Storing =>
           at'[u].pc = at[u].pc /\ at'[u].obj = at[u].obj /\ at[u].obj \in Objects \ {o}
  <2>1. PICK rest \in Steps :
          /\ Gone(t, o, rest) /\ rest.obj = None
          /\ at[t].next = "idle" => rest = Quiet
          /\ at[t].next # "idle" => rest.pc = at[t].next
    BY Steering DEF Control
  <2>2. at[t].pc = "free" /\ at[t].next \in {"idle", "note", "again"}
    BY DEF Control, Shaped, Free, At, Freeing
  <2>3. rest.pc \notin Storing
    BY <2>1, <2>2, QuietStep DEF Storing
  <2> QED BY <2>1, <2>2, <2>3, StoreLeaving DEF Freeing
<1>1. /\ at[t].pc = "free" /\ Live(o) /\ UNCHANGED <<ranges, mapped, stray>>
      /\ avail' = avail \cup (IF ~obj[o].kptr THEN {obj[o].index} \cap Bits ELSE {})
      /\ lost' = lost \cup (IF ~obj[o].kptr THEN {obj[o].addr} \ {0} ELSE {})
  BY Bounds DEF Free, At, Control, Shaped
<1>2. \A r \in mapped \ stray : r.obj # o /\ r.obj \in Objects
  BY <1>1 DEF Store, Mapping, Control, TypeOK
<1>3. /\ ~obj[o].kptr /\ obj[o].addr # 0 => Lists(o)
      /\ obj[o].kptr => ~Lists(o) /\ obj[o].index = 0
      /\ obj[o].addr = 0 => ~Lists(o)
  BY <1>1 DEF Lists, Store, Memory
<1>4. Sorted' /\ On' = On
  BY <1>1 DEF Store, Listing, Sorted, On
<1>5. Listing'
  <2>1. /\ \A b \in lost' : b \in lost \/ (b = obj[o].addr /\ Lists(o))
        /\ lost \subseteq lost'
        /\ Lists(o) => obj[o].addr \in lost'
    BY <1>1, <1>3 DEF Lists
  <2>2. \A r \in On' : r.base \in lost' \/ \E p \in Objects : Lists(p)' /\ obj'[p].addr = r.base
    BY <1>0, <1>4, <2>1 DEF Store, Listing
  <2>3. ASSUME NEW p \in Objects, Lists(p)'
        PROVE  /\ [base |-> obj'[p].addr, size |-> obj'[p].size] \in On'
               /\ obj'[p].addr \notin lost'
               /\ \A q \in Objects : Lists(q)' /\ obj'[q].addr = obj'[p].addr => q = p
    <3>1. p # o /\ Lists(p) /\ obj'[p] = obj[p]
      BY <1>0, <2>3
    <3>2. obj'[p].addr \notin lost'
      BY <2>1, <3>1 DEF Store, Listing
    <3> QED BY <1>0, <1>4, <3>1, <3>2 DEF Store, Listing
  <2>4. \A b \in lost' : \E r \in On' : r.base = b
    BY <1>4, <2>1 DEF Store, Listing
  <2> QED BY <1>4, <2>2, <2>3, <2>4 DEF Listing
<1>6. Mapping'
  <2>1. \A r \in mapped' \ stray' :
          Lists(r.obj)' /\ obj'[r.obj].kptr /\ obj'[r.obj].addr = r.base /\ obj'[r.obj].size = r.size
    BY <1>0, <1>1, <1>2 DEF Store, Mapping
  <2> QED BY <1>0, <1>1, <2>1 DEF Store, Mapping, Storing
<1>7. BuffersOwned'
  <2>1. \A p \in Used' : p \in Used /\ p # o /\ obj'[p] = obj[p]
    BY <1>0 DEF Used
  <2>2. 0 \notin Bits
    BY Bounds DEF Bits
  <2>3. /\ avail = Bits \ {obj[p].index : p \in Used} /\ o \in Used
        /\ \A p, q \in Used : obj[p].index # 0 /\ obj[p].index = obj[q].index => p = q
    BY <1>1 DEF Store, BuffersOwned, Used
  <2>4. ASSUME NEW i \in Bits PROVE i \in avail' <=> \A p \in Used' : obj'[p].index # i
    <3>1. CASE obj[o].index = i
      <4>1. ~obj[o].kptr
        BY <1>3, <2>2, <3>1
      <4>2. \A p \in Used' : obj'[p].index # i
        BY <2>1, <2>2, <2>3, <3>1
      <4> QED BY <1>1, <3>1, <4>1, <4>2
    <3>2. CASE obj[o].index # i
      <4>1. i \in avail' <=> i \in avail
        BY <1>1, <3>2
      <4>2. \A p \in Used' : obj'[p].index = obj[p].index
        BY <2>1
      <4>3. (\A p \in Used' : obj'[p].index # i) <=> \A p \in Used : obj[p].index # i
        BY <1>0, <3>2, <4>2
      <4> QED BY <2>3, <4>1, <4>3
    <3> QED BY <3>1, <3>2
  <2>5. avail' \subseteq Bits
    BY <1>1, <2>3
  <2>6. avail' = Bits \ {obj[p].index : p \in Used}'
    BY <2>4, <2>5
  <2>7. ASSUME NEW p \in Used', NEW q \in Used', obj'[p].index # 0, obj'[p].index = obj'[q].index
        PROVE  p = q
    BY <2>1, <2>3, <2>7
  <2> QED BY <2>6, <2>7 DEF BuffersOwned
<1> QED BY <1>0, <1>5, <1>6, <1>7 DEF Store

\* A part of video memory is taken.
LEMMA StoreScanned ==
  ASSUME Control, Store, NEW t \in Threads, NEW o \in Objects, at[t].obj = o, at[t].pc = "scan",
         NEW i \in avail, avail' = avail \ {i}, obj' = [obj EXCEPT ![o].index = i],
         Goto(t, at[t].next), UNCHANGED <<ranges, mapped, stray, lost>>
  PROVE  Store'
<1>1. /\ at \in [Threads -> Steps] /\ obj \in [Objects -> Gems] /\ None \notin Objects /\ i \in Bits
      /\ at[t].next \in {"handle", "fbdev"} /\ Live(o)
  BY Bounds DEF Control, TypeOK, Shaped, Making
<1>2. /\ at'[t].pc \notin Storing /\ at'[t].obj = o
      /\ \A u \in Threads \ {t} : at'[u] = at[u]
      /\ \A u \in Threads \ {t} : at[u].obj # o \/ at[u].pc \notin Storing
  <2>1. \A u \in Threads \ {t} : at[u].obj # o \/ at[u].pc \notin Storing
    BY <1>1 DEF Control, Alone, Storing, Owning, Making, Freeing
  <2>2. at[t].next \in PCs /\ at[t].next \notin Storing
    BY <1>1 DEF PCs, Storing
  <2> QED BY <1>1, <2>1, <2>2, Going
<1>3. /\ obj'[o].index = i /\ obj'[o].size = obj[o].size /\ obj'[o].kptr = FALSE /\ obj'[o].addr = 0
      /\ obj[o].kptr = FALSE /\ obj[o].addr = 0 /\ obj[o].index = 0
      /\ \A p \in Objects \ {o} : obj'[p] = obj[p]
  <2>1. obj[o] \in Gems /\ ~obj[o].kptr /\ obj[o].addr = 0 /\ obj[o].index = 0
    BY <1>1 DEF Store, Memory
  <2> QED BY <1>1, <2>1 DEF Gems
<1>4. ~Lists(o) /\ ~Lists(o)'
  BY <1>3 DEF Lists
<1>5. ASSUME NEW p \in Objects \ {o} PROVE Lists(p)' <=> Lists(p)
  <2>1. \A u \in Threads : at'[u].obj = p /\ at'[u].pc = "free" <=> at[u].obj = p /\ at[u].pc = "free"
    BY <1>1, <1>2
  <2> QED BY <1>3, <2>1 DEF Lists, Live
<1>6. Memory'
  <2>1. ASSUME NEW p \in Objects PROVE obj'[p].kptr \/ obj'[p].addr # 0 => obj'[p].index = 0
    BY <1>3 DEF Store, Memory
  <2>2. ASSUME NEW u \in Threads, at'[u].pc \in Storing
        PROVE  u # t /\ at'[u] = at[u] /\ at[u].obj \in Objects /\ obj'[at[u].obj] = obj[at[u].obj]
    <3>1. u # t /\ at'[u] = at[u] /\ at[u].obj # o
      BY <1>2, <2>2
    <3>2. at[u].obj \in Objects
      BY <1>1, <2>2, <3>1 DEF Control, Shaped, Storing, Owning, Making, Freeing, Steps
    <3> QED BY <1>3, <3>1, <3>2
  <2>3. ASSUME NEW u \in Threads
        PROVE  LET q == obj[at[u].obj]' IN
               /\ at'[u].pc \in {"range", "scan"} => q.addr = 0 /\ q.index = 0
               /\ at'[u].pc = "scan" => ~q.kptr
               /\ at'[u].pc \in {"map", "unrange", "unmap", "unlist"} => q.addr # 0
               /\ at'[u].pc \in {"unmap", "unlist"} => q.kptr
    BY ZenonT(40), <2>2 DEF Store, Memory, Storing
  <2> QED BY <2>1, <2>3 DEF Memory
<1>7. Listing'
  <2>1. Sorted' /\ On' = On /\ lost' = lost
    BY DEF Store, Listing, Sorted, On
  <2>2. \A p \in Objects : Lists(p)' => p # o /\ Lists(p) /\ obj'[p] = obj[p]
    BY <1>3, <1>4, <1>5
  <2>3. \A p \in Objects : Lists(p) => Lists(p)' /\ obj'[p] = obj[p]
    BY <1>3, <1>4, <1>5
  <2> QED BY <2>1, <2>2, <2>3 DEF Store, Listing
<1>8. Mapping'
  <2>1. \A r \in mapped \ stray : r.obj \in Objects \ {o}
    BY <1>4 DEF Store, Mapping, Control, TypeOK
  <2>2. \A r \in mapped' \ stray' :
          Lists(r.obj)' /\ obj'[r.obj].kptr /\ obj'[r.obj].addr = r.base /\ obj'[r.obj].size = r.size
    BY <1>3, <1>5, <2>1 DEF Store, Mapping
  <2>3. \A u \in Threads : at'[u] = at[u] \/ at'[u].obj = o
    BY <1>2
  <2> QED BY <2>1, <2>2, <2>3 DEF Store, Mapping
<1>9. BuffersOwned'
  <2>1. Used' = Used /\ \A p \in Used \ {o} : obj'[p].index = obj[p].index
    BY <1>1, <1>3 DEF Used, Live
  <2>2. 0 \notin Bits
    BY Bounds DEF Bits
  <2>3. /\ avail = Bits \ {obj[p].index : p \in Used} /\ o \in Used
        /\ \A p, q \in Used : obj[p].index # 0 /\ obj[p].index = obj[q].index => p = q
    BY <1>1 DEF Store, BuffersOwned, Used
  <2>4. \A p \in Used : obj[p].index # i
    BY <2>3
  <2>5. {obj[p].index : p \in Used}' = ({obj[p].index : p \in Used} \ {0}) \cup {i}
           \/ {obj[p].index : p \in Used}' = {obj[p].index : p \in Used} \cup {i}
    <3>1. ASSUME NEW x, x # 0
          PROVE  (\E p \in Used' : obj'[p].index = x) <=> x = i \/ \E p \in Used : obj[p].index = x
      BY <1>3, <2>1, <2>3, <3>1
    <3> QED BY <1>3, <2>1, <2>3, <3>1
  <2>6. avail' = Bits \ {obj[p].index : p \in Used}'
    BY <2>2, <2>3, <2>5
  <2>7. ASSUME NEW p \in Used', NEW q \in Used', obj'[p].index # 0, obj'[p].index = obj'[q].index
        PROVE  p = q
    BY <1>3, <2>1, <2>3, <2>4, <2>7
  <2> QED BY <2>6, <2>7 DEF BuffersOwned
<1> QED BY <1>6, <1>7, <1>8, <1>9 DEF Store

\* Every step leaves memory, the list and what the host maps in agreement.
LEMMA StoreNext ==
  Control /\ Control' /\ Counting /\ Ending /\ Store /\ [Next]_vars => Store'
<1> SUFFICES ASSUME Control, Control', Counting, Ending, Store, [Next]_vars PROVE Store'
  OBVIOUS
<1>0. /\ at \in [Threads -> Steps] /\ obj \in [Objects -> Gems]
      /\ None \notin Objects /\ \A t \in Threads : at[t].obj \in Objects \cup {None}
  BY Bounds DEF Control, TypeOK, Steps
<1>1. ASSUME UNCHANGED at, UNCHANGED store, \A o \in Objects : SameMemory(o) PROVE Store'
  BY <1>1, StoreKept DEF SamePlace
\* Only a thread that does not get to the store moves.
<1>2. ASSUME NEW t \in Threads, \A u \in Threads \ {t} : at'[u].pc = at[u].pc /\ at'[u].obj = at[u].obj,
             SamePlace(t), at[t].pc # "free", UNCHANGED store, \A o \in Objects : SameMemory(o)
      PROVE  Store'
  <2>1. \A u \in Threads : SamePlace(u)
    BY <1>2 DEF SamePlace
  <2> QED BY <1>2, <2>1, StoreKept
<1>3. (\A o \in Objects : obj'[o] = obj[o]) => \A o \in Objects : SameMemory(o)
  BY DEF SameMemory
<1>4. ASSUME NEW o \in Objects, Take(o) PROVE \A p \in Objects : SameMemory(p)
  BY <1>0, <1>4, Taking DEF SameMemory
<1>5. ASSUME LoadWithout PROVE Store'
  BY <1>1, <1>3, <1>5 DEF LoadWithout
<1>6. ASSUME NEW t \in Threads, NEW size \in Sizes, LoadConsole(t, size) \/ Dumb(t, size)
      PROVE  Store'
  BY <1>6, StoreBegun DEF LoadConsole, Dumb, Idle, At
<1>7. ASSUME NEW t \in Threads, AllocRange(t) PROVE Store'
  <2>1. PICK o \in Objects : at[t].obj = o
    BY <1>7, Owner DEF AllocRange, At, Owning, Making, Control
  <2>2. at[t].pc = "range" /\ UNCHANGED <<avail, mapped, stray, lost>>
    BY <1>7 DEF AllocRange, At
  <2>3. CASE /\ ranges' = InsertAt(ranges, Gap(obj[o].size),
                                   [base |-> Start(Gap(obj[o].size)), size |-> obj[o].size])
             /\ obj' = [obj EXCEPT ![o].addr = Start(Gap(obj[o].size))]
             /\ Goto(t, "map")
    BY <2>1, <2>2, <2>3, StorePlaced
  <2>4. CASE Gone(t, o, Quiet) /\ UNCHANGED ranges
    BY <2>1, <2>2, <2>4, StoreNever DEF store
  <2> QED BY <1>7, <2>1, <2>3, <2>4 DEF AllocRange
<1>8. ASSUME NEW t \in Threads, MapRange(t) PROVE Store'
  BY <1>8, StoreMapped
<1>9. ASSUME NEW t \in Threads, Unrange(t) PROVE Store'
  <2>1. at[t].obj \in Objects
    BY <1>9, Owner DEF Unrange, At, Owning, Making, Control
  <2> QED BY <1>9, <2>1, StoreUnranged
<1>10. ASSUME NEW t \in Threads, Scan(t) PROVE Store'
  <2>1. PICK o \in Objects : at[t].obj = o
    BY <1>10, Owner DEF Scan, At, Owning, Making, Control
  <2>2. at[t].pc = "scan" /\ UNCHANGED <<ranges, mapped, stray, lost>>
    BY <1>10 DEF Scan, At
  <2> DEFINE i == at[t].bit + 1
  <2>3. CASE i \in avail /\ avail' = avail \ {i} /\ obj' = [obj EXCEPT ![o].index = i]
             /\ Goto(t, at[t].next)
    <3> HIDE DEF i
    <3> QED BY <2>1, <2>2, <2>3, StoreScanned
  <2>4. CASE at' = [at EXCEPT ![t].bit = i] /\ UNCHANGED <<obj, avail>>
    <3>1. /\ \A u \in Threads \ {t} : at'[u] = at[u]
          /\ at'[t].pc = at[t].pc /\ at'[t].obj = at[t].obj
      BY <1>0, <2>4 DEF Steps
    <3>2. \A p \in Objects : SameMemory(p)
      BY <1>3, <2>4
    <3>3. UNCHANGED store
      BY <2>2, <2>4 DEF store
    <3> QED BY <1>2, <2>2, <3>1, <3>2, <3>3 DEF SamePlace
  <2>5. CASE Gone(t, o, Quiet) /\ UNCHANGED avail
    BY <2>1, <2>2, <2>5, StoreNever DEF store
  <2> QED BY <1>10, <2>1, <2>3, <2>4, <2>5 DEF Scan
<1>11. ASSUME NEW t \in Threads, MakeHandle(t) PROVE Store'
  <2>1. at[t].obj \in Objects /\ at[t].pc = "handle" /\ UNCHANGED store
    BY <1>11, Owner DEF MakeHandle, At, Owning, Making, Control
  <2>2. /\ at'[t].pc = "put"
        /\ \A u \in Threads \ {t} : at'[u] = at[u]
        /\ Take(at[t].obj) \/ UNCHANGED obj
    BY <1>11, Steering DEF Control
  <2>3. \A p \in Objects : SameMemory(p)
    BY <1>3, <1>4, <2>1, <2>2
  <2> QED BY <1>2, <2>1, <2>2, <2>3 DEF SamePlace, Storing
\* A reference is dropped by a thread that does not get to the store.
<1>12. ASSUME NEW t \in Threads, NEW o \in Objects, NEW next \in {"idle", "note", "again"},
              obj[o].refs > 0, Drop(t, o, next), at[t].pc \notin Storing, UNCHANGED store
       PROVE  Store'
  <2>1. /\ \A u \in Threads \ {t} : at'[u] = at[u]
        /\ \/ at'[t].pc = FirstStep(o) /\ at'[t].obj = o
           \/ at'[t].pc = "idle"
           \/ at'[t].pc = next
        /\ \A p \in Objects : SameMemory(p)
    BY <1>0, <1>12, Dropping, QuietStep DEF SameMemory
  <2>2. SamePlace(t)
    BY <1>12, <2>1 DEF SamePlace, Storing
  <2> QED BY <1>2, <1>12, <2>1, <2>2 DEF Storing
<1>13. ASSUME NEW t \in Threads, PutOwn(t) PROVE Store'
  <2>1. /\ at[t].obj \in Objects /\ at[t].pc = "put" /\ at[t].next \in {"note", "again"}
        /\ obj[at[t].obj].refs > 0
    BY <1>13, Owner DEF PutOwn, At, Control, Shaped, Owning
  <2> QED BY <1>12, <1>13, <2>1 DEF PutOwn, Storing
<1>14. ASSUME NEW t \in Threads, Note(t) PROVE Store'
  <2>1. at' = at \/ at' = [at EXCEPT ![t] = Quiet]
    BY <1>14, Steering DEF Control
  <2>2. UNCHANGED store /\ at[t].pc = "note" /\ \A p \in Objects : SameMemory(p)
    BY <1>3, <1>14 DEF Note, At
  <2>3. \A u \in Threads \ {t} : at'[u] = at[u]
    BY <1>0, <2>1
  <2>4. at'[t] = at[t] \/ at'[t].pc = "idle"
    BY <1>0, <2>1, QuietStep
  <2> QED BY <1>2, <2>2, <2>3, <2>4 DEF SamePlace, Storing
<1>15. ASSUME NEW t \in Threads, FreeAgain(t) PROVE Store'
  BY <1>1, <1>3, <1>15 DEF FreeAgain
<1>16. ASSUME NEW t \in Threads, Console(t) PROVE Store'
  <2>1. at[t].obj \in Objects /\ at[t].pc = "fbdev" /\ obj[at[t].obj].refs > 0 /\ UNCHANGED store
    BY <1>16, Owner DEF Console, At, Control, Owning, Making
  <2>2. CASE Drop(t, at[t].obj, "idle")
    BY <1>12, <2>1, <2>2 DEF Storing
  <2>3. CASE at' = [at EXCEPT ![t] = Quiet] /\ UNCHANGED obj
    <3>1. /\ \A u \in Threads \ {t} : at'[u] = at[u]
          /\ at'[t].pc = "idle"
      BY <1>0, <2>3, QuietStep
    <3>2. \A p \in Objects : SameMemory(p)
      BY <1>3, <2>3
    <3> QED BY <1>2, <2>1, <3>1, <3>2 DEF SamePlace, Storing
  <2> QED BY <1>16, <2>2, <2>3 DEF Console
<1>17. ASSUME NEW t \in Threads, Unmap(t) \/ Unlist(t) \/ Free(t) PROVE Store'
  <2>1. at[t].obj \in Objects
    BY <1>17, Owner DEF Unmap, Unlist, Free, At, Freeing, Control
  <2> QED BY <1>17, <2>1, StoreUnmapped, StoreUnlisted, StoreFreed
\* An idle thread drops a reference that was somebody's.
<1>18. ASSUME NEW t \in Threads, NEW o \in Objects, at[t] = Quiet, UNCHANGED store,
              \A p \in Objects : SameMemory(p),
              at'[t] = Quiet \/ (at'[t].pc = FirstStep(o) /\ at'[t].obj = o),
              \A u \in Threads \ {t} : at'[u].pc = at[u].pc /\ at'[u].obj = at[u].obj
       PROVE  Store'
  <2>1. SamePlace(t) /\ at[t].pc # "free"
    BY <1>18, QuietStep DEF SamePlace, Storing
  <2> QED BY <1>2, <1>18, <2>1
<1>19. ASSUME NEW t \in Threads, NEW o \in Objects, CloseHandle(t, o) PROVE Store'
  <2>1. at[t] = Quiet /\ obj[o].refs > 0 /\ UNCHANGED store
    BY <1>19, Referred DEF CloseHandle, Idle, At, Control, Shaped
  <2>2. /\ \A p \in Objects : SameMemory(p)
        /\ \A u \in Threads \ {t} : at'[u].pc = at[u].pc /\ at'[u].obj = at[u].obj
        /\ at'[t] = Quiet \/ (at'[t].pc = FirstStep(o) /\ at'[t].obj = o)
    BY <1>0, <1>19, <2>1, Closing DEF SameMemory
  <2> QED BY <1>18, <2>1, <2>2
<1>20. ASSUME NEW t \in Threads, NEW o \in Objects, DestroyFb(t, o) PROVE Store'
  <2>1. at[t] = Quiet /\ obj[o].refs > 0 /\ UNCHANGED store /\ Drop(t, o, "idle")
    BY <1>20, Referred DEF DestroyFb, Idle, At, Control, Shaped
  <2> QED BY <1>12, <2>1, QuietStep DEF Storing
<1>21. ASSUME NEW t \in Threads, NEW v \in Vmas, Unmmap(t, v) PROVE Store'
  <2>1. PICK o \in Objects : vma[v].obj = o
    BY <1>21 DEF Control, TypeOK, Unmmap
  <2>2. at[t] = Quiet /\ obj[o].refs > 0 /\ UNCHANGED store
    BY <1>21, <2>1, Referred DEF Unmmap, Idle, At, Control, Shaped, Mappings
  <2>3. /\ \A p \in Objects : SameMemory(p)
        /\ \A u \in Threads \ {t} : at'[u].pc = at[u].pc /\ at'[u].obj = at[u].obj
        /\ at'[t] = Quiet \/ (at'[t].pc = FirstStep(o) /\ at'[t].obj = o)
    BY <1>0, <1>21, <2>1, <2>2, Unmapping DEF SameMemory
  <2> QED BY <1>18, <2>2, <2>3
<1>22. ASSUME NEW o \in Objects, CreateFb(o) \/ HandleOfFb(o) \/ \E v \in Vmas : Mmap(v, o)
       PROVE  Store'
  <2>1. Take(o) /\ UNCHANGED <<at, store>>
    BY <1>22 DEF CreateFb, HandleOfFb, Mmap
  <2> QED BY <1>1, <1>4, <2>1
<1>23. ASSUME NEW v \in Vmas, NEW w \in Vmas, Fork(v, w) PROVE Store'
  <2>1. vma[v].obj \in Objects /\ Take(vma[v].obj) /\ UNCHANGED <<at, store>>
    BY <1>23 DEF Control, TypeOK, Fork
  <2> QED BY <1>1, <1>4, <2>1
<1>24. ASSUME NEW v \in Vmas, Fault(v) PROVE Store'
  <2>1. vma[v].obj \in Objects /\ (obj' = obj \/ obj' = [obj EXCEPT ![vma[v].obj].uptr = TRUE])
    BY <1>24 DEF Fault, Control, TypeOK
  <2>2. \A p \in Objects : SameMemory(p)
    BY <1>0, <2>1 DEF Gems, SameMemory
  <2> QED BY <1>1, <1>24, <2>2 DEF Fault
<1>25. CASE UNCHANGED vars
  BY <1>1, <1>3, <1>25 DEF vars, store
<1> QED BY <1>5, <1>6, <1>7, <1>8, <1>9, <1>10, <1>11, <1>13, <1>14, <1>15, <1>16, <1>17, <1>19,
           <1>20, <1>21, <1>22, <1>23, <1>24, <1>25 DEF Next

-----------------------------------------------------------------------------
(* The theorems.                                                           *)

\* Memory is misused only by the steps that are known to.
LEMMA ExplainedNext ==
  Control /\ Control' /\ Ending /\ Explained /\ [Next]_vars => Explained'
<1> SUFFICES ASSUME Control, Control', Ending, Explained, [Next]_vars PROVE Explained'
  OBVIOUS
<1>1. ASSUME UNCHANGED <<at, vma, obj>>, corrupt PROVE Explained'
  BY <1>1 DEF Explained
<1>2. CASE corrupt
  <2>1. LoadWithout \/ UNCHANGED vars
    BY <1>2 DEF Next, LoadConsole, Dumb, Idle, At, AllocRange, MapRange, Unrange, Scan, MakeHandle,
       PutOwn, Note, FreeAgain, Console, Unmap, Unlist, Free, CloseHandle, DestroyFb, Unmmap, CreateFb,
       HandleOfFb, Mmap, Fork, Fault
  <2> QED BY <1>1, <1>2, <2>1 DEF LoadWithout, vars, holders
<1>3. CASE ~corrupt /\ corrupt'
  <2>1. ASSUME NEW t \in Threads, Note(t) PROVE Explained'
    <3>1. at[t].obj = None /\ at[t].next = "note"
      BY <1>3, <2>1 DEF Note, At, Control, Shaped
    <3>2. at'[t] = at[t]
      <4>1. at' = [at EXCEPT ![t] = at[t]]
        BY <1>3, <2>1 DEF Note
      <4> QED BY <4>1 DEF Control, TypeOK
    <3>3. at[t].shut
      BY <3>1, Bounds DEF Ending, Ended, Control, TypeOK
    <3> QED BY <3>2, <3>3 DEF Explained
  <2>2. ASSUME NEW t \in Threads, FreeAgain(t) PROVE Explained'
    BY <2>2 DEF FreeAgain, At, Control, Shaped, Explained
  <2>3. ASSUME NEW v \in Vmas, Fault(v) PROVE Explained'
    BY <1>3, <2>3 DEF Fault, Explained, Control, TypeOK
  <2>4. corrupt' # corrupt
    BY <1>3
  <2>5. ~LoadWithout /\ ~UNCHANGED vars
    BY <2>4 DEF LoadWithout, vars
  <2>6. ASSUME NEW t \in Threads
        PROVE  /\ \A size \in Sizes : ~LoadConsole(t, size) /\ ~Dumb(t, size)
               /\ ~AllocRange(t) /\ ~MapRange(t) /\ ~Unrange(t) /\ ~Scan(t)
               /\ ~MakeHandle(t) /\ ~PutOwn(t) /\ ~Console(t)
               /\ ~Unmap(t) /\ ~Unlist(t) /\ ~Free(t)
    BY <2>4 DEF LoadConsole, Dumb, Create, AllocRange, MapRange, Unrange, Scan, MakeHandle, PutOwn,
       Console, Unmap, Unlist, Free
  <2>7. ASSUME NEW t \in Threads
        PROVE  /\ \A o \in Objects : ~CloseHandle(t, o) /\ ~DestroyFb(t, o)
               /\ \A v \in Vmas : ~Unmmap(t, v)
    BY <2>4 DEF CloseHandle, DestroyFb, Unmmap
  <2>8. /\ \A o \in Objects : ~CreateFb(o) /\ ~HandleOfFb(o) /\ \A v \in Vmas : ~Mmap(v, o)
        /\ \A v, w \in Vmas : ~Fork(v, w)
    BY <2>4 DEF CreateFb, HandleOfFb, Mmap, Fork
  <2>9. (\E t \in Threads : Note(t) \/ FreeAgain(t)) \/ \E v \in Vmas : Fault(v)
    BY <2>5, <2>6, <2>7, <2>8 DEF Next
  <2> QED BY <2>1, <2>2, <2>3, <2>9
<1>4. CASE ~corrupt'
  BY <1>4 DEF Explained
<1> QED BY <1>2, <1>3, <1>4

\* The driver starts with the invariant.
LEMMA InitInv == Init => IInv
<1> SUFFICES ASSUME Init PROVE IInv
  OBVIOUS
<1> USE DEF Init
<1>1. /\ \A o \in Objects : obj[o] = Unused /\ ~Live(o)
      /\ \A t \in Threads : at[t] = Quiet
      /\ \A v \in Vmas : vma[v] = NoPages
  BY UnusedGem DEF Live
<1>2. TypeOK
  <2>1. /\ obj \in [Objects -> Gems] /\ at \in [Threads -> Steps]
        /\ vma \in [Vmas -> [obj : Objects \cup {None}, pages : BOOLEAN]]
    BY QuietStep, UnusedGem DEF NoPages
  <2>2. ranges \in Seq(Ranges) /\ fails \in 0..MaxFails
    BY Bounds
  <2> QED BY <2>1, <2>2 DEF TypeOK
<1>3. Shaped /\ Alone /\ Booting
  BY <1>1, QuietStep DEF Shaped, Alone, Booting, Making, Owning, Freeing
<1>4. Counting
  <2> SUFFICES ASSUME NEW o \in Objects PROVE Counted(o)
    BY DEF Counting
  <2>1. Mappings(o) = {}
    BY <1>1, Bounds DEF Mappings, NoPages
  <2>2. ~Owned(o) /\ fbdev # o /\ o \notin handles /\ o \notin fbs
    BY <1>1, QuietStep, Bounds DEF Owned, Owning, Making
  <2> QED BY <1>1, <2>1, <2>2, UnusedGem, FS_EmptySet DEF Counted, One
<1>5. Ending
  BY <1>1, QuietStep DEF Ending, Ended, Making, Freeing
<1>6. Store
  <2>1. Memory
    BY <1>1, QuietStep, UnusedGem DEF Memory
  <2>2. Listing
    BY <1>1 DEF Listing, Sorted, On, Lists
  <2>3. Mapping
    BY DEF Mapping
  <2>4. BuffersOwned
    BY <1>1 DEF BuffersOwned, Used
  <2> QED BY <2>1, <2>2, <2>3, <2>4 DEF Store
<1> QED BY <1>2, <1>3, <1>4, <1>5, <1>6 DEF IInv, Control, Explained

\* Every step keeps the invariant.
LEMMA Inductive == Spec => []IInv
<1>1. IInv /\ [Next]_vars => IInv'
  <2> SUFFICES ASSUME IInv, [Next]_vars PROVE IInv'
    OBVIOUS
  <2>1. Control /\ Counting /\ Ending /\ Store /\ Explained /\ Sorted
    BY DEF IInv, Store, Listing
  <2>2. TypeOK'
    BY <2>1, TypeNext DEF Control
  <2>3. Control'
    BY <2>1, <2>2, ControlNext DEF Control
  <2>4. Counting'
    BY <2>1, <2>3, CountingNext
  <2>5. Ending'
    BY <2>1, <2>3, <2>4, EndingNext
  <2>6. Store'
    BY <2>1, <2>3, StoreNext
  <2>7. Explained'
    BY <2>1, <2>3, ExplainedNext
  <2> QED BY <2>3, <2>4, <2>5, <2>6, <2>7 DEF IInv
<1> QED BY InitInv, <1>1, PTL DEF Spec

\* However objects come and go, the ranges of the aperture do not overlap, and
\* whoever has a range finds it on the list (prldrm.c:646-702, 1649-1673,
\* 1726-1738, 1766-1768).
THEOREM RangesAreSound == Spec => []RangesSound
<1>1. IInv => RangesSound
  <2> SUFFICES ASSUME IInv PROVE RangesSound
    OBVIOUS
  <2>1. TypeOK /\ Listing /\ \A o \in Objects : Live(o) => o \in Used
    BY DEF IInv, Control, Store, Used
  <2>2. \A i, j \in DOMAIN ranges : i < j => ranges[i].base + ranges[i].size <= ranges[j].base
    BY <2>1 DEF Listing, Sorted
  <2>3. ASSUME NEW i \in DOMAIN ranges, ranges[i].base \notin lost
        PROVE  \E o \in Used : obj[o].addr = ranges[i].base /\ obj[o].size = ranges[i].size
    <3>1. PICK o \in Objects : Lists(o) /\ obj[o].addr = ranges[i].base
      BY <2>1, <2>3 DEF Listing, On
    <3>2. o \in Used /\ [base |-> obj[o].addr, size |-> obj[o].size] \in On
      BY <2>1, <3>1 DEF Listing, Lists
    <3>3. ranges[i] = [base |-> obj[o].addr, size |-> obj[o].size]
      BY <2>1, <3>1, <3>2, Distinct DEF Listing, On
    <3> QED BY <3>1, <3>2, <3>3
  <2>4. ASSUME NEW o \in Used, obj[o].addr # 0,
               \A t \in Threads : at[t].obj = o => at[t].pc # "free"
        PROVE  \E i \in DOMAIN ranges : ranges[i].base = obj[o].addr
    <3>1. o \in Objects /\ Lists(o)
      BY <2>4 DEF Used, Lists
    <3>2. [base |-> obj[o].addr, size |-> obj[o].size] \in On
      BY <2>1, <3>1 DEF Listing
    <3> QED BY <3>2 DEF On
  <2> QED BY <2>1, <2>2, <2>3, <2>4 DEF RangesSound
<1> QED BY <1>1, Inductive, PTL

\* What the host maps is the memory of an object that has it, unless the host
\* was not told (prldrm.c:1655-1665).
THEOREM HostMapsLiveMemory == Spec => []HostMapsLive
<1>1. IInv => HostMapsLive
  <2> SUFFICES ASSUME IInv, NEW r \in mapped \ stray
               PROVE  /\ Live(r.obj) /\ obj[r.obj].addr = r.base
                      /\ \E i \in DOMAIN ranges : ranges[i] = [base |-> r.base, size |-> r.size]
    BY DEF HostMapsLive
  <2>1. r.obj \in Objects /\ Lists(r.obj) /\ obj[r.obj].addr = r.base /\ obj[r.obj].size = r.size
    BY DEF IInv, Control, TypeOK, Store, Mapping
  <2>2. [base |-> r.base, size |-> r.size] \in On
    BY <2>1 DEF IInv, Store, Listing
  <2> QED BY <2>1, <2>2 DEF On, Lists
<1> QED BY <1>1, Inductive, PTL

\* No two objects share a part of video memory, and none is lost, however many
\* threads look for one at once (prldrm.c:1670, 1744-1748).
THEOREM BuffersAreOwned == Spec => []BuffersOwned
<1>1. IInv => BuffersOwned
  BY DEF IInv, Store
<1> QED BY <1>1, Inductive, PTL

\* Whatever somebody holds is alive and nobody takes it down; memory is misused
\* only when a handle is closed before dumb_create has returned it or cannot be
\* made, or when memory could not be had (prldrm.c:768-793, 855-893, 1340-1395,
\* 1716, 1727, 1782-1802, 1995).
THEOREM HeldOnesLive == Spec => []HeldLives
<1>1. IInv => HeldLives
  <2> SUFFICES ASSUME IInv PROVE HeldLives
    OBVIOUS
  <2>1. Control /\ Counting /\ Ending /\ Explained
    BY DEF IInv
  <2>2. CASE corrupt
    BY <2>1, <2>2 DEF HeldLives, Explained
  <2>3. CASE ~corrupt
    <3> SUFFICES ASSUME NEW o \in (handles \cup fbs \cup {fbdev} \cup {vma[v].obj : v \in Vmas}) \ {None}
                 PROVE  /\ Live(o) /\ obj[o].refs > 0
                        /\ \A t \in Threads : at[t].obj = o => at[t].pc \notin {"unmap", "unlist", "free"}
      BY <2>3 DEF HeldLives
    <3>1. o \in Objects
      BY <2>1 DEF Control, TypeOK
    <3>2. o \in handles \/ o \in fbs \/ fbdev = o \/ \E v \in Vmas : vma[v].obj = o
      OBVIOUS
    <3>3. obj[o].refs > 0
      BY <2>1, <3>1, <3>2, Referred DEF Mappings, Control
    <3>4. Live(o)
      BY <2>1, <3>1, <3>3, UnusedGem DEF Control, Shaped
    <3>5. ASSUME NEW t \in Threads, at[t].obj = o PROVE at[t].pc \notin {"unmap", "unlist", "free"}
      BY <2>1, <3>3, <3>5 DEF Ending, Ended, Freeing
    <3> QED BY <3>3, <3>4, <3>5
  <2> QED BY <2>2, <2>3
<1> QED BY <1>1, Inductive, PTL
=============================================================================
