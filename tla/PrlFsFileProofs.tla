-------------------------- MODULE PrlFsFileProofs --------------------------
(***************************************************************************)
(* For any number of processes, truncations and attribute requests: the    *)
(* inode's counter, handle and cached size agree with the open files and   *)
(* with the host, and waiting calls do not wait in a circle but the known  *)
(* one.                                                                    *)
(*                                                                         *)
(* The argument, in five layers, each inductive given those before it.     *)
(* Control: the places where a call holds the inode lock or the page lock, *)
(* and that a dirty or locked page has a process that will still look at   *)
(* it before it closes.  Counting: the counter is the number of open       *)
(* files, 0 while the host is asked to open and 1 while it is asked to     *)
(* close.  Handling: a counter above 0 keeps the handle open and fixed, so *)
(* every request carries it.  SizeType: the types of what is left.         *)
(* Sizing: no size that is on its way to the cache, an answer, an append   *)
(* or the size a page-out has read, is above the host's, unless a          *)
(* truncation has overtaken it.                                            *)
(***************************************************************************)
EXTENDS PrlFsFile, TLAPS, FiniteSetTheorems

Cutting == {"cutting", "cut", "dropping"}
Locking == {"asking", "writing", "written", "flushing", "releasing"} \cup Cutting
Paging  == {"faulting", "syncing", "flushing"}
Keeping == {"open", "reading", "write", "writing", "written", "faulting",
            "sync", "syncing", "flushing"}

\* Control: who is where, with which lock.
Control ==
  /\ pc \in [Actors -> Places]
  /\ want \in [Procs -> Modes]
  /\ lock \in Actors \cup {None} /\ page \in Actors \cup {None}
  /\ dirty \in BOOLEAN
  /\ pc[Flusher] \in {"idle", "syncing", "flushing"}
  /\ \A t \in Truncators : pc[t] \in {"idle"} \cup Cutting
  /\ \A p \in Procs : pc[p] \notin Cutting
  /\ \A x \in Actors : pc[x] \in Locking <=> lock = x
  /\ \A x \in Actors : pc[x] \in Paging <=> page = x
  /\ \A x \in Actors : pc[x] \in {"syncing", "flushing"} => ~dirty
  /\ dirty \/ page # None => \E p \in Procs : pc[p] \in Keeping

LEMMA ControlInit == Init => Control
<1> SUFFICES ASSUME Init PROVE Control
  OBVIOUS
<1>1. /\ pc \in [Actors -> Places] /\ want \in [Procs -> Modes]
      /\ dirty \in BOOLEAN
  BY DEF Init, Places, Modes
<1>2. \A x \in Actors : x # None
  BY FileAssumption DEF Actors
<1> QED BY <1>1, <1>2 DEF Init, Control, Locking, Cutting, Paging, Actors

LEMMA ControlNext == Control /\ [Next]_vars => Control'
<1> SUFFICES ASSUME Control, [Next]_vars PROVE Control'
  OBVIOUS
<1> USE FileAssumption DEF Control, Locking, Cutting, Paging, Keeping, Goto, Actors, Places, pfd, size, cached, mapped, Modes
<1>1. ASSUME NEW p \in Procs, OpenShared(p) PROVE Control'
  BY <1>1 DEF OpenShared
<1>2. ASSUME NEW p \in Procs, OpenFirst(p) PROVE Control'
  BY <1>2 DEF OpenFirst
<1>3. ASSUME NEW p \in Procs, OpenRetry(p) PROVE Control'
  BY <1>3 DEF OpenRetry
<1>4. ASSUME NEW p \in Procs, OpenFails(p) PROVE Control'
  BY <1>4 DEF OpenFails, Shuts
<1>5. ASSUME NEW p \in Procs, OpenDone(p) PROVE Control'
  BY <1>5 DEF OpenDone
<1>6. ASSUME NEW p \in Procs, Read(p) PROVE Control'
  BY <1>6 DEF Read
<1>7. ASSUME NEW p \in Procs, ReadDone(p) PROVE Control'
  BY <1>7 DEF ReadDone
<1>8. ASSUME NEW p \in Procs, Write(p) PROVE Control'
  BY <1>8 DEF Write
<1>9. ASSUME NEW p \in Procs, WriteLocks(p) PROVE Control'
  BY <1>9 DEF WriteLocks
<1>10. ASSUME NEW p \in Procs, WriteServed(p) PROVE Control'
  BY <1>10 DEF WriteServed
<1>11. ASSUME NEW p \in Procs, WriteFails(p) PROVE Control'
  BY <1>11 DEF WriteFails
<1>12. ASSUME NEW p \in Procs, WriteDone(p) PROVE Control'
  BY <1>12 DEF WriteDone
<1>13. ASSUME NEW p \in Procs, Fault(p) PROVE Control'
  BY <1>13 DEF Fault
<1>14. ASSUME NEW p \in Procs, FaultDone(p) PROVE Control'
  <2>1. dirty' \in BOOLEAN
    BY <1>14, Zenon DEF FaultDone, mapped
  <2> QED BY <1>14, <2>1 DEF FaultDone
<1>15. ASSUME NEW p \in Procs, Release(p) PROVE Control'
  BY <1>15 DEF Release
<1>16. ASSUME NEW p \in Procs, NothingDirty(p) PROVE Control'
  BY <1>16 DEF NothingDirty
<1>17. ASSUME NEW p \in Procs, ReleaseShared(p) PROVE Control'
  BY <1>17 DEF ReleaseShared, Shuts
<1>18. ASSUME NEW p \in Procs, ReleaseLast(p) PROVE Control'
  BY <1>18 DEF ReleaseLast
<1>19. ASSUME NEW p \in Procs, ReleaseDone(p) PROVE Control'
  BY <1>19 DEF ReleaseDone, Shuts
<1>20. ASSUME NEW t \in Truncators, Truncate(t) PROVE Control'
  BY <1>20 DEF Truncate
<1>21. ASSUME NEW t \in Truncators, TruncateServed(t) PROVE Control'
  BY <1>21 DEF TruncateServed
<1>22. ASSUME NEW t \in Truncators, TruncateFails(t) PROVE Control'
  BY <1>22 DEF TruncateFails
<1>23. ASSUME NEW t \in Truncators, TruncateSame(t) PROVE Control'
  <2>1. dirty' \in BOOLEAN
    BY <1>23, Zenon DEF TruncateSame, mapped
  <2> QED BY <1>23, <2>1 DEF TruncateSame
<1>24. ASSUME NEW t \in Truncators, TruncateSets(t) PROVE Control'
  BY <1>24 DEF TruncateSets
<1>25. ASSUME NEW t \in Truncators, TruncateDone(t) PROVE Control'
  <2>1. dirty' \in BOOLEAN
    BY <1>25, Zenon DEF TruncateDone, mapped
  <2> QED BY <1>25, <2>1 DEF TruncateDone
<1>26. ASSUME NEW x \in Procs \cup {Flusher}, WritebackBegin(x) PROVE Control'
  BY <1>26 DEF WritebackBegin
<1>27. ASSUME NEW x \in Procs \cup {Flusher}, WritepageLocks(x) PROVE Control'
  BY <1>27 DEF WritepageLocks
<1>28. ASSUME NEW x \in Procs \cup {Flusher}, WritepageEmpty(x) PROVE Control'
  BY <1>28 DEF WritepageEmpty, After
<1>29. ASSUME NEW x \in Procs \cup {Flusher}, WritepageDone(x) PROVE Control'
  BY <1>29 DEF WritepageDone, After
<1>30. ASSUME NEW s \in Statters, StatServed(s) PROVE Control'
  BY <1>30 DEF StatServed
<1>31. ASSUME NEW s \in Statters, StatDone(s) PROVE Control'
  BY <1>31 DEF StatDone
<1>32. ASSUME UNCHANGED vars PROVE Control'
  BY <1>32 DEF vars
<1> QED
  BY <1>1, <1>2, <1>3, <1>4, <1>5, <1>6, <1>7, <1>8, <1>9, <1>10, <1>11, <1>12,
     <1>13, <1>14, <1>15, <1>16, <1>17, <1>18, <1>19, <1>20, <1>21, <1>22, <1>23, <1>24,
     <1>25, <1>26, <1>27, <1>28, <1>29, <1>30, <1>31, <1>32
  DEF Next, File, Truncation, Writeback

-----------------------------------------------------------------------------
\* The counter: it is 0 while the host is asked to open and 1 while it is
\* asked to close, because both happen under the lock.
Counting ==
  /\ Counted
  /\ \A p \in Procs : pc[p] = "asking" => counter = 0
  /\ \A p \in Procs : pc[p] = "releasing" => counter = 1

LEMMA OpenedFinite == IsFiniteSet(Opened)
BY FS_Subset, FileAssumption DEF Opened

LEMMA CounterType == Counted => counter \in 0..Cardinality(Procs)
BY OpenedFinite, FS_CardinalityType, FS_Subset, FileAssumption DEF Counted, Opened

\* While somebody uses the file the counter is not 0.
LEMMA InUse ==
  ASSUME Counted, NEW p \in Procs, p \in Opened
  PROVE  counter > 0
BY OpenedFinite, FS_EmptySet, FS_CardinalityType DEF Counted

\* Only these change the counter.
Counts(p) == OpenShared(p) \/ OpenDone(p) \/ ReleaseShared(p) \/ ReleaseDone(p)

LEMMA CountingNext == Control /\ Counting /\ [Next]_vars => Counting'
<1> SUFFICES ASSUME Control, Counting, [Next]_vars PROVE Counting'
  OBVIOUS
<1> USE FileAssumption DEF Goto, Actors, pfd, size, cached, mapped
<1>1. ASSUME NEW p \in Procs, OpenShared(p) PROVE Counting'
  <2>1. p \notin Opened /\ Opened' = Opened \cup {p}
    BY <1>1 DEF OpenShared, Opened, Control
  <2>2. Cardinality(Opened') = Cardinality(Opened) + 1
    BY <2>1, OpenedFinite, FS_AddElement
  <2>3. Counted'
    BY <1>1, <2>2 DEF OpenShared, Counted, Counting
  <2> QED BY <1>1, <2>3 DEF OpenShared, Counting, Control, Locking
<1>2. ASSUME NEW p \in Procs, OpenDone(p) PROVE Counting'
  <2>1. Opened = {}
    BY <1>2, OpenedFinite, FS_EmptySet DEF OpenDone, Counting, Counted
  <2>2. Opened' = {p}
    BY <1>2, <2>1 DEF OpenDone, Opened, Control
  <2>3. Counted'
    BY <1>2, <2>2, FS_Singleton DEF OpenDone, Counted
  <2> QED BY <1>2, <2>3 DEF OpenDone, Counting, Control, Locking
<1>3. ASSUME NEW p \in Procs, ReleaseShared(p) PROVE Counting'
  <2>1. p \in Opened /\ Opened' = Opened \ {p}
    BY <1>3 DEF ReleaseShared, Shuts, Opened, Control
  <2>2. Cardinality(Opened') = Cardinality(Opened) - 1
    BY <2>1, OpenedFinite, FS_RemoveElement
  <2>3. Counted'
    BY <1>3, <2>2 DEF ReleaseShared, Counted, Counting
  <2> QED BY <1>3, <2>3 DEF ReleaseShared, Shuts, Counting, Control, Locking
<1>4. ASSUME NEW p \in Procs, ReleaseDone(p) PROVE Counting'
  <2>1. p \in Opened /\ Opened' = Opened \ {p}
    BY <1>4 DEF ReleaseDone, Shuts, Opened, Control
  <2>2. Cardinality(Opened') = Cardinality(Opened) - 1
    BY <2>1, OpenedFinite, FS_RemoveElement
  <2>3. Counted'
    BY <1>4, <2>2 DEF ReleaseDone, Counted, Counting
  <2> QED BY <1>4, <2>3 DEF ReleaseDone, Shuts, Counting, Control, Locking
<1>5. ASSUME ~ \E p \in Procs : Counts(p) PROVE Counting'
  <2> DEFINE Still ==
        /\ counter' = counter /\ Opened' = Opened
        /\ \A p \in Procs : pc'[p] = "releasing" => pc[p] = "releasing" \/ counter = 1
        /\ \A p \in Procs : pc'[p] = "asking" => pc[p] = "asking" \/ counter = 0
  <2> USE DEF Opened, Control
  <2>1. ASSUME NEW p \in Procs,
               Read(p) \/ Write(p) \/ Fault(p) \/ Release(p)
        PROVE  Still
    BY <2>1 DEF Read, Write, Fault, Release
  <2>2. ASSUME NEW p \in Procs,
               OpenFirst(p) \/ OpenRetry(p) \/ OpenFails(p) \/ ReleaseLast(p)
        PROVE  Still
    BY <2>2 DEF OpenFirst, OpenRetry, OpenFails, Shuts, ReleaseLast
  <2>3. ASSUME NEW p \in Procs,
               \/ ReadDone(p) \/ WriteLocks(p) \/ WriteServed(p) \/ WriteFails(p)
               \/ WriteDone(p) \/ FaultDone(p) \/ NothingDirty(p)
        PROVE  Still
    BY <2>3 DEF ReadDone, WriteLocks, WriteServed, WriteFails, WriteDone, FaultDone,
                NothingDirty
  <2>4. ASSUME NEW x \in Procs \cup {Flusher}, Writeback(x) PROVE Still
    BY <2>4 DEF Writeback, WritebackBegin, WritepageLocks, WritepageEmpty, WritepageDone, After
  <2>5. ASSUME NEW t \in Truncators, Truncation(t) PROVE Still
    BY <2>5 DEF Truncation, Truncate, TruncateServed, TruncateFails, TruncateSame, TruncateSets,
                TruncateDone
  <2>6. ASSUME (\E s \in Statters : StatServed(s) \/ StatDone(s)) \/ UNCHANGED vars
        PROVE  Still
    BY <2>6 DEF StatServed, StatDone, vars
  <2>7. Still
    BY <1>5, <2>1, <2>2, <2>3, <2>4, <2>5, <2>6 DEF Next, File, Counts
  <2> QED BY <2>7 DEF Counting, Counted
<1> QED BY <1>1, <1>2, <1>3, <1>4, <1>5 DEF Counts

-----------------------------------------------------------------------------
\* The handle: while the counter is above 0 it is the inode's, open at the
\* host, and the one that every request carries.
Carrying == {"reading", "writing", "written", "faulting", "flushing", "releasing"}

Handling ==
  /\ last \in 0..MaxHandle /\ fd \in 0..last
  /\ mode \in Modes
  /\ io \in [Actors -> 0..MaxHandle]
  /\ handles \subseteq 1..last /\ leaked \subseteq handles
  /\ \A p \in Procs : pc[p] = "asking" => last < MaxHandle
  /\ counter > 0 => fd \in handles \ leaked
  /\ NoneForgotten
  /\ \A x \in Actors : pc[x] \in Carrying => io[x] = fd

\* Whoever carries a handle finds the counter above 0; so does who finds
\* the page dirty or locked.
LEMMA CarryingCounts ==
  ASSUME Control, Counting
  PROVE  /\ \A x \in Actors : pc[x] \in Carrying => counter > 0
         /\ dirty \/ page # None => counter > 0
<1>1. dirty \/ page # None => counter > 0
  BY InUse DEF Control, Keeping, Counting, Opened
<1>2. ASSUME NEW x \in Actors, pc[x] \in Carrying PROVE counter > 0
  <2>1. CASE x \in Procs
    BY <1>2, <2>1, InUse DEF Carrying, Counting, Opened
  <2>2. CASE x = Flusher
    <3>1. page = x /\ x # None
      BY <1>2, <2>2, FileAssumption DEF Control, Carrying, Paging
    <3> QED BY <1>1, <3>1
  <2>3. CASE x \in Truncators
    BY <1>2, <2>3 DEF Carrying, Control, Cutting
  <2> QED BY <2>1, <2>2, <2>3 DEF Actors
<1> QED BY <1>1, <1>2

LEMMA HandlingNext ==
  Control /\ Counting /\ Handling /\ [Next]_vars => Handling'
<1> SUFFICES ASSUME Control, Counting, Handling, [Next]_vars PROVE Handling'
  OBVIOUS
<1> USE FileAssumption DEF Goto, Actors, pfd, size, cached, mapped, Handling, NoneForgotten, Modes
<1>0. counter \in Nat
  BY CounterType, OpenedFinite, FS_CardinalityType DEF Counting, Counted
<1> USE <1>0
<1>1. ASSUME NEW p \in Procs, OpenShared(p) PROVE Handling'
  BY <1>1, CarryingCounts DEF OpenShared, Carrying, Control
<1>2. ASSUME NEW p \in Procs, OpenFirst(p) PROVE Handling'
  BY <1>2 DEF OpenFirst, Carrying, Control
<1>3. ASSUME NEW p \in Procs, OpenRetry(p) PROVE Handling'
  BY <1>3 DEF OpenRetry
<1>4. ASSUME NEW p \in Procs, OpenFails(p) PROVE Handling'
  BY <1>4 DEF OpenFails, Shuts, Carrying, Control
<1>5. ASSUME NEW p \in Procs, OpenDone(p) PROVE Handling'
  <2>1. counter = 0 /\ last < MaxHandle
    BY <1>5 DEF OpenDone, Counting
  <2>2. \A x \in Actors : pc[x] \notin Carrying
    BY <2>1, CarryingCounts
  <2>3. handles = leaked
    <3>1. handles \ leaked \subseteq {}
      BY <2>1
    <3>2. leaked \subseteq handles
      OBVIOUS
    <3> QED BY <3>1, <3>2, Zenon
  <2>4. \A q \in Procs : pc'[q] # "asking"
    BY <1>5 DEF OpenDone, Control, Locking
  <2>5. last' \in 0..MaxHandle /\ fd' = last' /\ counter' = 1
    BY <1>5, <2>1 DEF OpenDone
  <2>6. /\ handles' = handles \cup {fd'} /\ leaked' = leaked /\ last' = last + 1
        /\ io' = io /\ mode' = mode
    BY <1>5 DEF OpenDone
  <2>7. handles' \subseteq 1..last' /\ leaked' \subseteq handles' /\ NoneForgotten'
    BY <2>3, <2>5, <2>6
  <2>8. \A x \in Actors : pc'[x] \notin Carrying
    BY <1>5, <2>2 DEF OpenDone, Carrying, Control
  <2> QED BY <2>4, <2>5, <2>6, <2>7, <2>8
<1>6. ASSUME NEW p \in Procs, ReleaseShared(p) PROVE Handling'
  <2>1. counter > 0
    BY <1>6, InUse DEF ReleaseShared, Opened, Counting
  <2> QED BY <1>6, <2>1 DEF ReleaseShared, Shuts, Carrying, Control
<1>7. ASSUME NEW p \in Procs, ReleaseDone(p) PROVE Handling'
  <2>1. counter = 1 /\ io[p] = fd
    BY <1>7 DEF ReleaseDone, Counting, Carrying
  <2>2. \A q \in Procs : pc'[q] # "asking"
    BY <1>7 DEF ReleaseDone, Shuts, Control, Locking
  <2>3. counter' = 0 /\ fd' = fd /\ last' = last /\ mode' = mode
    BY <1>7, <2>1 DEF ReleaseDone
  <2>4. handles' \subseteq 1..last' /\ leaked' \subseteq handles' /\ NoneForgotten'
    <3>1. handles \ leaked \subseteq {fd} /\ fd \in handles
      BY <2>1
    <3>2. CASE handles' = handles \ {io[p]} /\ leaked' = leaked
      \* A handle that is released for good has not been given up before.
      <4>1. fd \notin leaked
        BY <2>1
      <4> QED BY <3>1, <3>2, <4>1, <2>1, <2>3
    <3>3. CASE leaked' = leaked \cup {io[p]} /\ handles' = handles
      BY <3>1, <3>3, <2>1, <2>3
    <3> QED BY <1>7, <3>2, <3>3 DEF ReleaseDone
  <2>5. /\ io' \in [Actors -> 0..MaxHandle]
        /\ \A x \in Actors : pc'[x] \in Carrying => io'[x] = fd'
    BY <1>7, <2>3 DEF ReleaseDone, Shuts, Ends, Carrying, Control
  <2> QED BY <2>2, <2>3, <2>4, <2>5
<1>8. ASSUME NEW p \in Procs, Write(p) \/ Release(p) \/ NothingDirty(p)
      PROVE  Handling'
  BY ZenonT(40), <1>8 DEF Write, Release, NothingDirty, Carrying, Control
<1>9. ASSUME NEW p \in Procs, Read(p) \/ WriteLocks(p) \/ Fault(p) \/ ReleaseLast(p)
      PROVE  Handling'
  <2>1. CASE Read(p)
    BY <2>1 DEF Read, Sends, Carrying, Control
  <2>2. CASE WriteLocks(p)
    BY <2>2 DEF WriteLocks, Sends, Carrying, Control
  <2>3. CASE Fault(p)
    BY <2>3 DEF Fault, Sends, Carrying, Control
  <2>4. CASE ReleaseLast(p)
    BY <2>4 DEF ReleaseLast, Sends, Carrying, Control
  <2> QED BY <1>9, <2>1, <2>2, <2>3, <2>4
<1>10. ASSUME NEW p \in Procs,
              ReadDone(p) \/ WriteFails(p) \/ WriteDone(p) \/ FaultDone(p)
      PROVE  Handling'
  <2>1. CASE ReadDone(p)
    BY <2>1 DEF ReadDone, Ends, Carrying, Control
  <2>2. CASE WriteFails(p)
    BY <2>2 DEF WriteFails, Ends, Carrying, Control
  <2>3. CASE WriteDone(p)
    BY <2>3 DEF WriteDone, Ends, Carrying, Control
  <2>4. CASE FaultDone(p)
    BY <2>4 DEF FaultDone, Ends, Carrying, Control
  <2> QED BY <1>10, <2>1, <2>2, <2>3, <2>4
<1>11. ASSUME NEW p \in Procs, WriteServed(p) PROVE Handling'
  BY <1>11 DEF WriteServed, Carrying, Control
<1>12. ASSUME NEW x \in Procs \cup {Flusher}, Writeback(x) PROVE Handling'
  <2>1. CASE WritebackBegin(x)
    BY <2>1 DEF WritebackBegin, Carrying, Control
  <2>2. CASE WritepageLocks(x)
    BY <2>2 DEF WritepageLocks, Sends, Carrying, Control
  <2>3. CASE WritepageEmpty(x)
    BY <2>3 DEF WritepageEmpty, After, Carrying, Control
  <2>4. CASE WritepageDone(x)
    BY <2>4 DEF WritepageDone, After, Ends, Carrying, Control
  <2> QED BY <1>12, <2>1, <2>2, <2>3, <2>4 DEF Writeback
<1>13. ASSUME NEW t \in Truncators, Truncation(t) PROVE Handling'
  BY ZenonT(40), <1>13 DEF Truncation, Truncate, TruncateServed, TruncateFails, TruncateSame, TruncateSets,
               TruncateDone, Carrying, Control
<1>14. ASSUME (\E s \in Statters : StatServed(s) \/ StatDone(s)) \/ UNCHANGED vars
       PROVE  Handling'
  BY <1>14 DEF StatServed, StatDone, vars
<1> QED
  BY <1>1, <1>2, <1>3, <1>4, <1>5, <1>6, <1>7, <1>8, <1>9, <1>10, <1>11, <1>12, <1>13, <1>14
  DEF Next, File

-----------------------------------------------------------------------------
\* The sizes.  What a call knows of the host's size is not above it, unless a
\* truncation came between; a page that may be dirty is inside the host's file,
\* unless it was kept or a truncation is about to drop it.
Coming == \E t \in Truncators : pc[t] \in {"cut", "dropping"} /\ cut[t] <= Page

SizeType ==
  /\ isize \in 0..MaxSize /\ hsize \in 0..MaxSize /\ seen \in 0..MaxSize
  /\ stat \in [Statters -> -1..MaxSize]
  /\ off \in [Procs -> 0..MaxSize]
  /\ cut \in [Truncators -> 0..MaxSize]
  /\ late \subseteq Statters \cup Procs
  /\ parted \in BOOLEAN /\ kept \in BOOLEAN
  /\ \A p \in Procs : pc[p] \in {"write", "writing", "written"} => off[p] < MaxSize

Sizing ==
  /\ isize <= hsize \/ parted \/ Ahead
  /\ \A s \in Statters : stat[s] <= hsize \/ s \in late
  /\ \A p \in Procs : pc[p] = "written" => off[p] + 1 <= hsize
  /\ \A p \in Procs : pc[p] \in {"write", "writing"} => off[p] <= hsize \/ p \in late
  /\ \A t \in Truncators : pc[t] \in {"cut", "dropping"} => hsize = cut[t]
  /\ dirty => Page < hsize \/ kept \/ Coming
  /\ \A x \in Actors : pc[x] = "syncing" => Page < hsize \/ kept \/ Coming
  /\ \A x \in Actors : pc[x] = "flushing" => Page < hsize \/ kept

LEMMA SizeTypeNext == Control /\ SizeType /\ [Next]_vars => SizeType'
<1> SUFFICES ASSUME Control, SizeType, [Next]_vars PROVE SizeType'
  OBVIOUS
<1> USE FileAssumption DEF Goto, Actors, pfd, size, cached, mapped, SizeType, Control
<1>1. ASSUME NEW p \in Procs, OpenShared(p) PROVE SizeType'
  BY <1>1 DEF OpenShared
<1>2. ASSUME NEW p \in Procs, OpenFirst(p) PROVE SizeType'
  BY <1>2 DEF OpenFirst
<1>3. ASSUME NEW p \in Procs, OpenRetry(p) PROVE SizeType'
  BY <1>3 DEF OpenRetry
<1>4. ASSUME NEW p \in Procs, OpenFails(p) PROVE SizeType'
  BY <1>4 DEF OpenFails, Shuts
<1>5. ASSUME NEW p \in Procs, OpenDone(p) PROVE SizeType'
  <2>1. parted' \in BOOLEAN /\ kept' \in BOOLEAN
    BY <1>5, Zenon DEF OpenDone, cached, mapped, size
  <2> QED BY <1>5, <2>1 DEF OpenDone, HostCuts
<1>6. ASSUME NEW p \in Procs, Read(p) PROVE SizeType'
  BY <1>6 DEF Read
<1>7. ASSUME NEW p \in Procs, ReadDone(p) PROVE SizeType'
  BY <1>7 DEF ReadDone
<1>8. ASSUME NEW p \in Procs, Write(p) PROVE SizeType'
  <2>1. parted' \in BOOLEAN /\ kept' \in BOOLEAN
    BY <1>8, Zenon DEF Write, cached, mapped, size
  <2> QED BY <1>8, <2>1 DEF Write
<1>9. ASSUME NEW p \in Procs, WriteLocks(p) PROVE SizeType'
  BY <1>9 DEF WriteLocks
<1>10. ASSUME NEW p \in Procs, WriteServed(p) PROVE SizeType'
  BY <1>10 DEF WriteServed, Larger
<1>11. ASSUME NEW p \in Procs, WriteFails(p) PROVE SizeType'
  <2>1. parted' \in BOOLEAN /\ kept' \in BOOLEAN
    BY <1>11, Zenon DEF WriteFails, cached, mapped, size
  <2> QED BY <1>11, <2>1 DEF WriteFails
<1>12. ASSUME NEW p \in Procs, WriteDone(p) PROVE SizeType'
  <2>1. parted' \in BOOLEAN /\ kept' \in BOOLEAN
    BY <1>12, Zenon DEF WriteDone, cached, mapped, size
  <2> QED BY <1>12, <2>1 DEF WriteDone, Larger
<1>13. ASSUME NEW p \in Procs, Fault(p) PROVE SizeType'
  BY <1>13 DEF Fault
<1>14. ASSUME NEW p \in Procs, FaultDone(p) PROVE SizeType'
  <2>1. parted' \in BOOLEAN /\ kept' \in BOOLEAN
    BY <1>14, Zenon DEF FaultDone, cached, mapped, size
  <2> QED BY <1>14, <2>1 DEF FaultDone
<1>15. ASSUME NEW p \in Procs, Release(p) PROVE SizeType'
  BY <1>15 DEF Release
<1>16. ASSUME NEW p \in Procs, NothingDirty(p) PROVE SizeType'
  BY <1>16 DEF NothingDirty
<1>17. ASSUME NEW p \in Procs, ReleaseShared(p) PROVE SizeType'
  BY <1>17 DEF ReleaseShared, Shuts
<1>18. ASSUME NEW p \in Procs, ReleaseLast(p) PROVE SizeType'
  BY <1>18 DEF ReleaseLast
<1>19. ASSUME NEW p \in Procs, ReleaseDone(p) PROVE SizeType'
  BY <1>19 DEF ReleaseDone, Shuts
<1>20. ASSUME NEW t \in Truncators, Truncate(t) PROVE SizeType'
  BY <1>20 DEF Truncate
<1>21. ASSUME NEW t \in Truncators, TruncateServed(t) PROVE SizeType'
  BY <1>21 DEF TruncateServed, HostCuts
<1>22. ASSUME NEW t \in Truncators, TruncateFails(t) PROVE SizeType'
  BY <1>22 DEF TruncateFails
<1>23. ASSUME NEW t \in Truncators, TruncateSame(t) PROVE SizeType'
  <2>1. parted' \in BOOLEAN /\ kept' \in BOOLEAN
    BY <1>23, Zenon DEF TruncateSame, cached, mapped, size
  <2> QED BY <1>23, <2>1 DEF TruncateSame
<1>24. ASSUME NEW t \in Truncators, TruncateSets(t) PROVE SizeType'
  <2>1. parted' \in BOOLEAN /\ kept' \in BOOLEAN
    BY <1>24, Zenon DEF TruncateSets, cached, mapped, size
  <2> QED BY <1>24, <2>1 DEF TruncateSets
<1>25. ASSUME NEW t \in Truncators, TruncateDone(t) PROVE SizeType'
  <2>1. parted' \in BOOLEAN /\ kept' \in BOOLEAN
    BY <1>25, Zenon DEF TruncateDone, cached, mapped, size
  <2> QED BY <1>25, <2>1 DEF TruncateDone
<1>26. ASSUME NEW x \in Procs \cup {Flusher}, WritebackBegin(x) PROVE SizeType'
  BY <1>26 DEF WritebackBegin
<1>27. ASSUME NEW x \in Procs \cup {Flusher}, WritepageLocks(x) PROVE SizeType'
  BY <1>27 DEF WritepageLocks
<1>28. ASSUME NEW x \in Procs \cup {Flusher}, WritepageEmpty(x) PROVE SizeType'
  <2>1. parted' \in BOOLEAN /\ kept' \in BOOLEAN
    BY <1>28, Zenon DEF WritepageEmpty, cached, mapped, size
  <2> QED BY <1>28, <2>1 DEF WritepageEmpty, After
<1>29. ASSUME NEW x \in Procs \cup {Flusher}, WritepageDone(x) PROVE SizeType'
  <2>1. parted' \in BOOLEAN /\ kept' \in BOOLEAN
    BY <1>29, Zenon DEF WritepageDone, cached, mapped, size
  <2> QED BY <1>29, <2>1 DEF WritepageDone, After, Larger
<1>30. ASSUME NEW s \in Statters, StatServed(s) PROVE SizeType'
  BY <1>30 DEF StatServed
<1>31. ASSUME NEW s \in Statters, StatDone(s) PROVE SizeType'
  <2>1. CASE s \in late
    <3>1. parted' = TRUE
      BY <1>31, <2>1, Zenon DEF StatDone
    <3> QED BY <1>31, <3>1 DEF StatDone
  <2>2. CASE s \notin late
    <3>1. (s \in late) = FALSE
      BY <2>2
    <3>2. parted' = (s \in late)
      BY <1>31 DEF StatDone
    <3>3. parted' = FALSE
      BY <3>1, <3>2, Zenon
    <3> QED BY <1>31, <3>3 DEF StatDone
  <2> QED BY <2>1, <2>2
<1>32. ASSUME UNCHANGED vars PROVE SizeType'
  BY <1>32 DEF vars
<1> QED
  BY <1>1, <1>2, <1>3, <1>4, <1>5, <1>6, <1>7, <1>8, <1>9, <1>10, <1>11, <1>12,
     <1>13, <1>14, <1>15, <1>16, <1>17, <1>18, <1>19, <1>20, <1>21, <1>22, <1>23, <1>24,
     <1>25, <1>26, <1>27, <1>28, <1>29, <1>30, <1>31, <1>32
  DEF Next, File, Truncation, Writeback

LEMMA SizingNext == Control /\ Counting /\ SizeType /\ Sizing /\ [Next]_vars => Sizing'
<1> SUFFICES ASSUME Control, Counting, SizeType, Sizing, [Next]_vars PROVE Sizing'
  OBVIOUS
<1> USE FileAssumption DEF Goto, Actors, pfd, size, cached, mapped, SizeType, Sizing, Control, Locking, Cutting, Paging, Ahead, Coming
<1>1. ASSUME NEW p \in Procs, OpenShared(p) PROVE Sizing'
  BY <1>1 DEF OpenShared
<1>2. ASSUME NEW p \in Procs, OpenFirst(p) PROVE Sizing'
  BY <1>2 DEF OpenFirst
<1>3. ASSUME NEW p \in Procs, OpenRetry(p) PROVE Sizing'
  BY <1>3 DEF OpenRetry
<1>4. ASSUME NEW p \in Procs, OpenFails(p) PROVE Sizing'
  BY <1>4 DEF OpenFails, Shuts
<1>5. ASSUME NEW p \in Procs, OpenDone(p) PROVE Sizing'
  <2>1. counter = 0
    BY <1>5 DEF OpenDone, Counting
  <2>2. ~dirty /\ page = None
    BY <2>1, CarryingCounts
  <2> QED BY <1>5, <2>2 DEF OpenDone, HostCuts
<1>6. ASSUME NEW p \in Procs, Read(p) PROVE Sizing'
  BY <1>6 DEF Read
<1>7. ASSUME NEW p \in Procs, ReadDone(p) PROVE Sizing'
  BY <1>7 DEF ReadDone
<1>8. ASSUME NEW p \in Procs, Write(p) PROVE Sizing'
  BY <1>8 DEF Write
<1>9. ASSUME NEW p \in Procs, WriteLocks(p) PROVE Sizing'
  BY <1>9 DEF WriteLocks
<1>10. ASSUME NEW p \in Procs, WriteServed(p) PROVE Sizing'
  BY <1>10 DEF WriteServed, Larger
<1>11. ASSUME NEW p \in Procs, WriteFails(p) PROVE Sizing'
  BY <1>11 DEF WriteFails
<1>12. ASSUME NEW p \in Procs, WriteDone(p) PROVE Sizing'
  BY <1>12 DEF WriteDone, Larger
<1>13. ASSUME NEW p \in Procs, Fault(p) PROVE Sizing'
  BY <1>13 DEF Fault
<1>14. ASSUME NEW p \in Procs, FaultDone(p) PROVE Sizing'
  BY <1>14 DEF FaultDone
<1>15. ASSUME NEW p \in Procs, Release(p) PROVE Sizing'
  BY <1>15 DEF Release
<1>16. ASSUME NEW p \in Procs, NothingDirty(p) PROVE Sizing'
  BY <1>16 DEF NothingDirty
<1>17. ASSUME NEW p \in Procs, ReleaseShared(p) PROVE Sizing'
  BY <1>17 DEF ReleaseShared, Shuts
<1>18. ASSUME NEW p \in Procs, ReleaseLast(p) PROVE Sizing'
  BY <1>18 DEF ReleaseLast
<1>19. ASSUME NEW p \in Procs, ReleaseDone(p) PROVE Sizing'
  BY <1>19 DEF ReleaseDone, Shuts
<1>20. ASSUME NEW t \in Truncators, Truncate(t) PROVE Sizing'
  BY <1>20 DEF Truncate
<1>21. ASSUME NEW t \in Truncators, TruncateServed(t) PROVE Sizing'
  BY <1>21 DEF TruncateServed, HostCuts
<1>22. ASSUME NEW t \in Truncators, TruncateFails(t) PROVE Sizing'
  BY <1>22 DEF TruncateFails
<1>23. ASSUME NEW t \in Truncators, TruncateSame(t) PROVE Sizing'
  BY ZenonT(40), <1>23 DEF TruncateSame
<1>24. ASSUME NEW t \in Truncators, TruncateSets(t) PROVE Sizing'
  BY <1>24 DEF TruncateSets
<1>25. ASSUME NEW t \in Truncators, TruncateDone(t) PROVE Sizing'
  BY <1>25 DEF TruncateDone
<1>26. ASSUME NEW x \in Procs \cup {Flusher}, WritebackBegin(x) PROVE Sizing'
  BY <1>26 DEF WritebackBegin
<1>27. ASSUME NEW x \in Procs \cup {Flusher}, WritepageLocks(x) PROVE Sizing'
  BY <1>27 DEF WritepageLocks
<1>28. ASSUME NEW x \in Procs \cup {Flusher}, WritepageEmpty(x) PROVE Sizing'
  BY <1>28 DEF WritepageEmpty, After
<1>29. ASSUME NEW x \in Procs \cup {Flusher}, WritepageDone(x) PROVE Sizing'
  BY <1>29 DEF WritepageDone, After, Larger
<1>30. ASSUME NEW s \in Statters, StatServed(s) PROVE Sizing'
  BY <1>30 DEF StatServed
<1>31. ASSUME NEW s \in Statters, StatDone(s) PROVE Sizing'
  <2>1. isize' <= hsize' \/ parted'
    BY <1>31 DEF StatDone
  <2>2. \A q \in Procs : q \in late => q \in late'
    BY <1>31 DEF StatDone
  <2>3. \A u \in Statters : stat'[u] <= hsize' \/ u \in late'
    BY <1>31 DEF StatDone
  <2> QED BY <1>31, <2>1, <2>2, <2>3 DEF StatDone
<1>32. ASSUME UNCHANGED vars PROVE Sizing'
  BY <1>32 DEF vars
<1> QED
  BY <1>1, <1>2, <1>3, <1>4, <1>5, <1>6, <1>7, <1>8, <1>9, <1>10, <1>11, <1>12,
     <1>13, <1>14, <1>15, <1>16, <1>17, <1>18, <1>19, <1>20, <1>21, <1>22, <1>23, <1>24,
     <1>25, <1>26, <1>27, <1>28, <1>29, <1>30, <1>31, <1>32
  DEF Next, File, Truncation, Writeback

-----------------------------------------------------------------------------
IInv == Control /\ Counting /\ Handling /\ SizeType /\ Sizing

LEMMA InitInv == Init => IInv
<1> SUFFICES ASSUME Init PROVE IInv
  OBVIOUS
<1>1. Control
  BY ControlInit
<1>2. Counting
  <2>1. Opened = {}
    BY DEF Init, Opened, Actors
  <2> QED BY <2>1, FS_EmptySet DEF Init, Counting, Counted, Actors
<1>3. Handling
  BY FileAssumption DEF Init, Handling, NoneForgotten, Carrying, Actors, Modes
<1>4. SizeType
  <2>1. parted \in BOOLEAN /\ kept \in BOOLEAN
    BY Zenon DEF Init
  <2> QED BY <2>1, FileAssumption DEF Init, SizeType, Actors
<1>5. Sizing
  BY FileAssumption DEF Init, Sizing, Actors
<1> QED BY <1>1, <1>2, <1>3, <1>4, <1>5 DEF IInv

LEMMA Inductive == Spec => []IInv
<1>1. IInv /\ [Next]_vars => IInv'
  BY ControlNext, CountingNext, HandlingNext, SizeTypeNext, SizingNext DEF IInv
<1> QED BY InitInv, <1>1, PTL DEF Spec

\* Every variable keeps its type: no handle or offset is invented, and the
\* counter stays between 0 and the number of processes.
THEOREM TypeCorrect == Spec => []TypeOK
<1>1. IInv => TypeOK
  BY CounterType DEF IInv, Control, Counting, Handling, SizeType, TypeOK
<1> QED BY Inductive, <1>1, PTL

\* f_counter is the number of open files (file.c:142, 229).
THEOREM CounterCounts == Spec => []Counted
<1>1. IInv => Counted
  BY DEF IInv, Counting
<1> QED BY Inductive, <1>1, PTL

\* No request of prl_fs uses a handle that the host has closed.
THEOREM HandleStaysOpen == Spec => []HandleIsOpen
<1>1. IInv => HandleIsOpen
  BY CarryingCounts DEF IInv, Handling, HandleIsOpen, Carrying
<1> QED BY Inductive, <1>1, PTL

\* The host keeps no handle for an inode that nobody has open.
THEOREM NoHandleForgotten == Spec => []NoneForgotten
<1>1. IInv => NoneForgotten
  BY DEF IInv, Handling
<1> QED BY Inductive, <1>1, PTL

\* A dirty page can be written back.
THEOREM DirtyCanBeWritten == Spec => []DirtyHasFile
<1>1. IInv => DirtyHasFile
  <2> SUFFICES ASSUME IInv, dirty \/ pc[Flusher] # "idle" PROVE counter > 0
    BY DEF DirtyHasFile
  <2>1. pc[Flusher] # "idle" => page # None
    BY FileAssumption DEF IInv, Control, Paging, Actors
  <2> QED BY <2>1, CarryingCounts DEF IInv
<1> QED BY Inductive, <1>1, PTL

\* The cached size is not above the host's, no write starts behind its end and
\* no page-out lengthens the file, but where a truncation came between.
THEOREM AppendsLeaveNoHole == Spec => []NoHole
<1>1. IInv => NoHole
  BY DEF IInv, Sizing, NoHole
<1> QED BY Inductive, <1>1, PTL

\* Locks: a chain of waiting calls ends at one that goes on.
LEMMA ChainsEnd == Control => WaitsEnd
<1> SUFFICES ASSUME Control, ~Stuck, NEW x \in Actors, Blocker(x) # None
             PROVE  \/ Goes(Blocker(x))
                    \/ Blocker(Blocker(x)) # None /\ Goes(Blocker(Blocker(x)))
  BY DEF WaitsEnd
<1> USE FileAssumption DEF Control, Locking, Cutting, Paging, Actors
\* Whoever holds the inode lock waits for nobody, or drops a page.
<1>1. ASSUME lock # None
      PROVE  Goes(lock) \/ (pc[lock] = "dropping" /\ Blocker(lock) = page /\ page # None)
  BY <1>1 DEF Blocker, Goes
\* Whoever holds the page waits for nobody, or for the inode lock.
<1>2. ASSUME page # None
      PROVE  Goes(page) \/ (pc[page] = "syncing" /\ Blocker(page) = lock /\ lock # None)
  BY <1>2 DEF Blocker, Goes
<1>3. ASSUME lock # None, page # None, pc[page] = "syncing"
      PROVE  Goes(lock)
  BY <1>1, <1>3 DEF Stuck, Blocker, Goes
<1>4. CASE Blocker(x) = lock
  BY <1>1, <1>2, <1>3, <1>4
<1>5. CASE Blocker(x) = page
  BY <1>1, <1>2, <1>3, <1>5
<1> QED BY <1>4, <1>5 DEF Blocker

\* Whoever waits for the inode or the page waits for a call that goes on, but in
\* the deadlock of page-out and truncation.
THEOREM WaitsComeToAnEnd == Spec => []WaitsEnd
<1>1. IInv => WaitsEnd
  BY ChainsEnd DEF IInv
<1> QED BY Inductive, <1>1, PTL
=============================================================================
