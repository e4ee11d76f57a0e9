----------------------------- MODULE GemBuffers -----------------------------
(***************************************************************************)
(* prldrm.c: the buffers user space draws into.  A GEM object is backed by *)
(* guest memory, if it is small enough for a cursor; by guest memory that  *)
(* the host maps into a range of its video aperture, if the device has     *)
(* one; or else by one of the equal parts of video memory.  Ranges are     *)
(* found by best fit in a list ordered by address; parts by a mask of      *)
(* atomic bits.                                                            *)
(*                                                                         *)
(* Nothing serialises the calls but the lock of the list, so a thread can  *)
(* be between any two of its steps while others run.  Reference counts,    *)
(* handles, framebuffers and mappings are the DRM core's (external); they  *)
(* say when an object is freed.  Sizes are counted in pages.               *)
(***************************************************************************)
EXTENDS Integers, FiniteSets, SequencesExt

CONSTANTS
  Threads,
  Objects,   \* GEM objects in memory
  Vmas,      \* mappings in user space
  Sizes,     \* sizes asked for
  MaxSmall,  \* PRL_DRM_CURSOR_BUF_MAX_SIZE
  BufSize,   \* prl_shared_buf_size
  NumBufs,   \* how many of these the video memory has
  MaxRefs,   \* bound on the references to an object
  MaxFails,  \* bound on how often memory cannot be had, or the host refuses
  None       \* no object

ASSUME GemAssumption ==
  /\ Sizes \subseteq Nat \ {0}
  /\ MaxSmall \in Nat /\ BufSize \in Nat /\ NumBufs \in Nat /\ MaxFails \in Nat
  /\ MaxRefs \in Nat \ {0}
  /\ None \notin Objects
  /\ IsFiniteSet(Vmas)

VARIABLES
  aperture,  \* PRLVID_CAPABILITY_APERTURE_ONLY
  obj,       \* struct prl_gem_object
  ranges,    \* prl_drm_aperture_list
  avail,     \* prl_shared_buf_avail_mask
  mapped,    \* the ranges the host maps to an object's memory
  handles,   \* the objects that have a handle
  fbs,       \* the objects that have a framebuffer
  fbdev,     \* the one of the driver's console
  vma,       \* what each mapping is of, and whether it has pages
  loaded,    \* prl_drm_driver_load has got to the console
  at,        \* what each thread is doing
  stray,     \* mapped ranges that the host did not unmap, or is not told to
  lost,      \* ranges whose object is gone
  fails,     \* how often memory could not be had, or the host refused
  corrupt    \* freed or missing memory was used

holders == <<handles, fbs, fbdev, vma>>
store   == <<ranges, avail, mapped, stray, lost>>
vars    == <<aperture, obj, store, holders, loaded, at, fails, corrupt>>

Base    == 1   \* PRLVID_APERTURE_BASE
New(size, refs, kptr) ==
  [size |-> size, refs |-> refs, kptr |-> kptr, addr |-> 0, index |-> 0, uptr |-> FALSE]
Unused  == New(0, 0, FALSE)
Quiet   == [pc |-> "idle", obj |-> None, bit |-> 0, next |-> "idle", shut |-> FALSE]
NoPages == [obj |-> None, pages |-> FALSE]
Live(o) == obj[o].size > 0
Bits    == 1..NumBufs

Gems    == [size : Sizes \cup {0}, refs : 0..MaxRefs, kptr : BOOLEAN,
            addr : Nat, index : Bits \cup {0}, uptr : BOOLEAN]
Ranges  == [base : Nat, size : Sizes]
PCs     == {"idle", "range", "map", "unrange", "scan", "handle", "fbdev", "put",
            "note", "unmap", "unlist", "free", "again"}
Nexts   == {"idle", "handle", "fbdev", "note", "again"}
Steps   == [pc : PCs, obj : Objects \cup {None}, bit : 0..NumBufs, next : Nexts, shut : BOOLEAN]

TypeOK ==
  /\ aperture \in BOOLEAN /\ loaded \in BOOLEAN /\ corrupt \in BOOLEAN
  /\ obj \in [Objects -> Gems]
  /\ ranges \in Seq(Ranges)
  /\ avail \subseteq Bits
  /\ \A r \in mapped : r \in [base : Nat, size : Sizes, obj : Objects]
  /\ stray \subseteq mapped
  /\ handles \subseteq Objects /\ fbs \subseteq Objects
  /\ fbdev \in Objects \cup {None}
  /\ vma \in [Vmas -> [obj : Objects \cup {None}, pages : BOOLEAN]]
  /\ at \in [Threads -> Steps]
  /\ lost \subseteq Nat /\ fails \in 0..MaxFails

\* prl_drm_init_module, and prl_drm_driver_load up to the console.
Init ==
  /\ aperture \in BOOLEAN /\ loaded = FALSE
  /\ obj = [o \in Objects |-> Unused]
  /\ ranges = <<>> /\ avail = Bits
  /\ mapped = {} /\ stray = {} /\ lost = {}
  /\ handles = {} /\ fbs = {} /\ fbdev = None
  /\ vma = [v \in Vmas |-> NoPages]
  /\ at = [t \in Threads |-> Quiet]
  /\ fails = 0 /\ corrupt = FALSE

-----------------------------------------------------------------------------
(* The aperture's list.                                                    *)

\* Where the gap before the i-th range begins; the last gap has no end.
Start(i) == IF i = 1 THEN Base ELSE ranges[i-1].base + ranges[i-1].size
Room(i)  == ranges[i].base - Start(i)

\* The gaps that fit best, of which the first is taken.
Fitting(size) == {i \in DOMAIN ranges : size <= Room(i)}
BestFits(size) == {i \in Fitting(size) : \A j \in Fitting(size) : Room(i) <= Room(j)}

\* Seeded fault: a page less is enough.
Gap_Short(size) ==
  LET fit == {i \in DOMAIN ranges : size <= Room(i) + 1} IN
  IF fit = {} THEN Len(ranges) + 1
  ELSE CHOOSE i \in fit : \A j \in fit : Room(i) < Room(j) \/ (Room(i) = Room(j) /\ i <= j)

\* prl_drm_aperture_alloc: the gap taken.
Gap(size) ==
  IF Fitting(size) = {} THEN Len(ranges) + 1
  ELSE CHOOSE i \in BestFits(size) : \A j \in BestFits(size) : i <= j

\* prl_drm_aperture_free: the first entry with this base goes.
Listed(base) == {i \in DOMAIN ranges : ranges[i].base = base}
Without(base) ==
  IF Listed(base) = {} THEN ranges
  ELSE RemoveAt(ranges, CHOOSE i \in Listed(base) : \A j \in Listed(base) : i <= j)

-----------------------------------------------------------------------------
(* Objects and threads.                                                    *)

At(t, pc) == at[t].pc = pc /\ ~corrupt
Idle(t)   == At(t, "idle") /\ loaded /\ \A u \in Threads : at[u].next # "fbdev"
Goto(t, pc) == at' = [at EXCEPT ![t].pc = pc]

\* prl_drm_gem_free_object unmaps at the host what it has memory for.
FirstStep(o) == IF obj[o].kptr /\ obj[o].addr # 0 THEN "unmap" ELSE "free"

\* The reference a thread holds is dropped, with the object if it is the last.
Drop(t, o, next) ==
  /\ obj' = [obj EXCEPT ![o].refs = @ - 1]
  /\ at' = [at EXCEPT ![t] =
              IF obj[o].refs = 1 THEN [@ EXCEPT !.pc = FirstStep(o), !.obj = o, !.next = next]
              ELSE IF next = "idle" THEN Quiet ELSE [@ EXCEPT !.pc = next]]

Fails == fails < MaxFails /\ fails' = fails + 1

Take(o) == obj[o].refs < MaxRefs /\ obj' = [obj EXCEPT ![o].refs = @ + 1]

\* The object goes, for other threads that still know it as well.
Gone(t, o, rest) ==
  /\ obj' = [obj EXCEPT ![o] = Unused]
  /\ at' = [u \in Threads |-> IF u = t THEN rest
                              ELSE IF at[u].obj = o THEN [at[u] EXCEPT !.obj = None] ELSE at[u]]

-----------------------------------------------------------------------------
(* prl_drm_gem_dumb_create_helper, which goes on with `next'.              *)

\* The kind of memory is chosen by size; kmalloc and vmalloc_user return NULL
\* when they fail, which IS_ERR does not tell.
Create(t, size, next) ==
  \E o \in Objects, kptr \in BOOLEAN :
    LET small == size <= MaxSmall
        pc == IF small THEN next ELSE IF aperture THEN "range" ELSE "scan"
    IN /\ ~Live(o)
       /\ kptr => small \/ aperture
       /\ IF ~kptr /\ pc # "scan" THEN Fails ELSE UNCHANGED fails
       /\ small \/ aperture \/ size <= BufSize
       /\ obj' = [obj EXCEPT ![o] = New(size, 1, kptr)]
       /\ at' = [at EXCEPT ![t] = [Quiet EXCEPT !.pc = pc, !.obj = o, !.next = next]]
       /\ UNCHANGED <<aperture, store, holders, corrupt>>

\* Without memory for the entry the object is given up.
AllocRange(t) ==
  LET o == at[t].obj
      i == Gap(obj[o].size)
  IN /\ At(t, "range")
     /\ \/ /\ ranges' = InsertAt(ranges, i, [base |-> Start(i), size |-> obj[o].size])
           /\ obj' = [obj EXCEPT ![o].addr = Start(i)]
           /\ Goto(t, "map")
           /\ UNCHANGED fails
        \/ Gone(t, o, Quiet) /\ Fails /\ UNCHANGED ranges
     /\ UNCHANGED <<aperture, avail, mapped, stray, lost, holders, loaded, corrupt>>

\* The host maps the range, in the place of what is there; of a refusal, or a
\* cancellation, call_tg_sync does not tell.  It fails without memory for the
\* request; a range without memory is never unmapped.
MapRange(t) ==
  LET o == at[t].obj
      new == [base |-> obj[o].addr, size |-> obj[o].size, obj |-> o]
      old == {r \in mapped : r.base < new.base + new.size /\ new.base < r.base + r.size}
  IN /\ At(t, "map")
     /\ \/ /\ mapped' = (mapped \ old) \cup {new}
           /\ stray' = (stray \ old) \cup (IF obj[o].kptr THEN {} ELSE {new})
           /\ Goto(t, at[t].next)
           /\ UNCHANGED fails
        \/ /\ \E pc \in {at[t].next, "unrange"} : Goto(t, pc)
           /\ Fails
           /\ UNCHANGED <<mapped, stray>>
     /\ UNCHANGED <<aperture, obj, ranges, avail, lost, holders, loaded, corrupt>>

Unrange(t) ==
  LET o == at[t].obj IN
  /\ At(t, "unrange")
  /\ ranges' = Without(obj[o].addr)
  /\ Gone(t, o, Quiet)
  /\ UNCHANGED <<aperture, avail, mapped, stray, lost, holders, loaded, fails, corrupt>>

\* Seeded fault: the bit is tested and cleared in two steps.
Scan_Unclaimed(t) ==
  LET o == at[t].obj
      i == at[t].bit + 1
  IN /\ At(t, "scan") /\ i \in avail
     /\ obj' = [obj EXCEPT ![o].index = i]
     /\ Goto(t, at[t].next)
     /\ UNCHANGED <<aperture, store, holders, loaded, fails, corrupt>>

\* test_and_clear_bit of one bit after the other.  When none is left the
\* object is freed and its error pointer is NULL, of which the caller dies.
Scan(t) ==
  LET o == at[t].obj
      i == at[t].bit + 1
  IN /\ At(t, "scan")
     /\ \/ /\ i \in avail
           /\ avail' = avail \ {i}
           /\ obj' = [obj EXCEPT ![o].index = i]
           /\ Goto(t, at[t].next)
        \/ /\ i \in Bits \ avail
           /\ at' = [at EXCEPT ![t].bit = i]
           /\ UNCHANGED <<obj, avail>>
        \/ /\ i \notin Bits
           /\ Gone(t, o, Quiet)
           /\ UNCHANGED avail
     /\ UNCHANGED <<aperture, ranges, mapped, stray, lost, holders, loaded, fails, corrupt>>

-----------------------------------------------------------------------------
(* prl_drm_gem_dumb_create.                                                *)

Dumb(t, size) == Idle(t) /\ Create(t, size, "handle") /\ UNCHANGED loaded

\* With the handle others can use the object.  Without it the object is freed
\* by its last reference, and then once more.
MakeHandle(t) ==
  LET o == at[t].obj IN
  /\ At(t, "handle")
  /\ \/ /\ handles' = handles \cup {o} /\ Take(o)
        /\ at' = [at EXCEPT ![t].pc = "put", ![t].next = "note"]
     \/ /\ at' = [at EXCEPT ![t].pc = "put", ![t].next = "again"]
        /\ UNCHANGED <<handles, obj>>
  /\ UNCHANGED <<aperture, store, fbs, fbdev, vma, loaded, fails, corrupt>>

PutOwn(t) ==
  /\ At(t, "put")
  /\ Drop(t, at[t].obj, at[t].next)
  /\ UNCHANGED <<aperture, store, holders, loaded, fails, corrupt>>

\* The handle is noted in the object, which may be gone by now.
Note(t) ==
  /\ At(t, "note")
  /\ corrupt' = (at[t].obj = None)
  /\ at' = [at EXCEPT ![t] = IF corrupt' THEN @ ELSE Quiet]
  /\ UNCHANGED <<aperture, obj, store, holders, loaded, fails>>

FreeAgain(t) ==
  /\ At(t, "again")
  /\ corrupt' = TRUE
  /\ UNCHANGED <<aperture, obj, store, holders, loaded, at, fails>>

-----------------------------------------------------------------------------
(* prl_fbdev_probe, once, while the driver is loaded.                      *)

LoadConsole(t, size) ==
  /\ At(t, "idle") /\ ~loaded /\ loaded' = TRUE
  /\ Create(t, size, "fbdev")

LoadWithout ==
  /\ ~loaded /\ loaded' = TRUE
  /\ UNCHANGED <<aperture, obj, store, holders, at, fails, corrupt>>

\* The console keeps the object, or frees it.
Console(t) ==
  LET o == at[t].obj IN
  /\ At(t, "fbdev")
  /\ \/ fbdev' = o /\ at' = [at EXCEPT ![t] = Quiet] /\ UNCHANGED obj
     \/ Drop(t, o, "idle") /\ UNCHANGED fbdev
  /\ UNCHANGED <<aperture, store, handles, fbs, vma, loaded, fails, corrupt>>

-----------------------------------------------------------------------------
(* prl_drm_gem_free_object.                                                *)

\* Seeded fault: the range is free while the host still maps it.
Unmap_Later(t) ==
  /\ At(t, "unmap")
  /\ ranges' = Without(obj[at[t].obj].addr)
  /\ Goto(t, "free")
  /\ UNCHANGED <<aperture, obj, avail, mapped, stray, lost, holders, loaded, fails, corrupt>>

\* The host may not get to know, or refuse: call_tg_sync does not tell.
Unmap(t) ==
  LET own == {r \in mapped : r.obj = at[t].obj /\ r.base = obj[at[t].obj].addr} IN
  /\ At(t, "unmap")
  /\ \/ mapped' = mapped \ own /\ stray' = stray \ own /\ UNCHANGED fails
     \/ stray' = stray \cup own /\ Fails /\ UNCHANGED mapped
  /\ Goto(t, "unlist")
  /\ UNCHANGED <<aperture, obj, ranges, avail, lost, holders, loaded, corrupt>>

Unlist(t) ==
  /\ At(t, "unlist")
  /\ ranges' = Without(obj[at[t].obj].addr)
  /\ Goto(t, "free")
  /\ UNCHANGED <<aperture, obj, avail, mapped, stray, lost, holders, loaded, fails, corrupt>>

\* A range is forgotten when there is no memory it was mapped to.
Free(t) ==
  LET o == at[t].obj IN
  /\ At(t, "free")
  /\ avail' = avail \cup (IF ~obj[o].kptr THEN {obj[o].index} \cap Bits ELSE {})
  /\ lost' = lost \cup (IF ~obj[o].kptr THEN {obj[o].addr} \ {0} ELSE {})
  /\ Gone(t, o, IF at[t].next = "idle" THEN Quiet
                ELSE [at[t] EXCEPT !.pc = at[t].next, !.obj = None])
  /\ UNCHANGED <<aperture, ranges, mapped, stray, holders, loaded, fails, corrupt>>

-----------------------------------------------------------------------------
(* Holders of an object.                                                   *)

\* A handle is a number that can be guessed: it may be closed at once, before
\* the thread that made it has noted it.
CloseHandle(t, o) ==
  LET makers == {u \in Threads : at[u].obj = o /\ at[u].pc \in {"put", "note"}}
      last   == obj[o].refs = 1
  IN /\ Idle(t) /\ o \in handles
     /\ handles' = handles \ {o}
     /\ obj' = [obj EXCEPT ![o].refs = @ - 1]
     /\ at' = [u \in Threads |->
                 CASE u \in makers -> [at[u] EXCEPT !.shut = TRUE]
                   [] u = t /\ last -> [Quiet EXCEPT !.pc = FirstStep(o), !.obj = o]
                   [] OTHER -> at[u]]
     /\ UNCHANGED <<aperture, store, fbs, fbdev, vma, loaded, fails, corrupt>>

\* Seeded fault: the framebuffer does not hold the object.
CreateFb_Unheld(o) ==
  /\ o \in handles \ fbs /\ ~corrupt
  /\ fbs' = fbs \cup {o}
  /\ UNCHANGED <<aperture, obj, store, handles, fbdev, vma, loaded, at, fails, corrupt>>

\* prl_kms_fb_create_modeset; its failures put the object again.
CreateFb(o) ==
  /\ o \in handles \ fbs /\ ~corrupt
  /\ fbs' = fbs \cup {o} /\ Take(o)
  /\ UNCHANGED <<aperture, store, handles, fbdev, vma, loaded, at, fails, corrupt>>

\* prl_fb_create_handle.
HandleOfFb(o) ==
  /\ o \in fbs \ handles /\ ~corrupt
  /\ handles' = handles \cup {o} /\ Take(o)
  /\ UNCHANGED <<aperture, store, fbs, fbdev, vma, loaded, at, fails, corrupt>>

\* prl_fb_destroy.
DestroyFb(t, o) ==
  /\ Idle(t) /\ o \in fbs
  /\ fbs' = fbs \ {o}
  /\ Drop(t, o, "idle")
  /\ UNCHANGED <<aperture, store, handles, fbdev, vma, loaded, fails, corrupt>>

Mmap(v, o) ==
  /\ vma[v].obj = None /\ o \in handles /\ ~corrupt
  /\ vma' = [vma EXCEPT ![v].obj = o] /\ Take(o)
  /\ UNCHANGED <<aperture, store, handles, fbs, fbdev, loaded, at, fails, corrupt>>

\* prl_drm_gem_vm_open, of a process that forks.
Fork(v, w) ==
  /\ vma[v].obj # None /\ vma[w].obj = None /\ ~corrupt
  /\ vma' = [vma EXCEPT ![w] = vma[v]] /\ Take(vma[v].obj)
  /\ UNCHANGED <<aperture, store, handles, fbs, fbdev, loaded, at, fails, corrupt>>

\* prl_drm_gem_vm_fault.  A part of video memory is mapped once, as a whole;
\* the size may not fit.
Fault(v) ==
  LET o == vma[v].obj IN
  /\ o # None /\ ~vma[v].pages /\ ~corrupt
  /\ obj[o].index # 0 => ~obj[o].uptr
  /\ \/ /\ obj[o].index # 0 \/ obj[o].kptr
        /\ vma' = [vma EXCEPT ![v].pages = TRUE]
        /\ obj' = [obj EXCEPT ![o].uptr = TRUE]
        /\ UNCHANGED corrupt
     \/ /\ obj[o].index = 0 /\ ~obj[o].kptr
        /\ corrupt' = TRUE
        /\ UNCHANGED <<vma, obj>>
  /\ UNCHANGED <<aperture, store, handles, fbs, fbdev, loaded, at, fails>>

\* prl_drm_gem_vm_close: whatever mapping is closed, uptr is cleared.
Unmmap(t, v) ==
  LET o == vma[v].obj
      last == obj[o].refs = 1
  IN /\ Idle(t) /\ o # None
     /\ vma' = [vma EXCEPT ![v] = NoPages]
     /\ obj' = [obj EXCEPT ![o].uptr = FALSE, ![o].refs = @ - 1]
     /\ at' = [at EXCEPT ![t] =
                 IF last THEN [Quiet EXCEPT !.pc = FirstStep(o), !.obj = o] ELSE Quiet]
     /\ UNCHANGED <<aperture, store, handles, fbs, fbdev, loaded, fails, corrupt>>

-----------------------------------------------------------------------------
Next ==
  \/ LoadWithout
  \/ \E t \in Threads :
       \/ \E size \in Sizes : LoadConsole(t, size) \/ Dumb(t, size)
       \/ AllocRange(t) \/ MapRange(t) \/ Unrange(t) \/ Scan(t)
       \/ MakeHandle(t) \/ PutOwn(t) \/ Note(t) \/ FreeAgain(t) \/ Console(t)
       \/ Unmap(t) \/ Unlist(t) \/ Free(t)
       \/ \E o \in Objects : CloseHandle(t, o) \/ DestroyFb(t, o)
       \/ \E v \in Vmas : Unmmap(t, v)
  \/ \E o \in Objects : CreateFb(o) \/ HandleOfFb(o) \/ \E v \in Vmas : Mmap(v, o)
  \/ \E v, w \in Vmas : Fork(v, w)
  \/ \E v \in Vmas : Fault(v)

Spec == Init /\ [][Next]_vars

-----------------------------------------------------------------------------
(* Properties.                                                             *)

Used == {o \in Objects : Live(o)}

\* The aperture's ranges are in the order of their addresses and do not
\* overlap, whichever gap is taken and whichever is freed, and a range is on
\* the list exactly as long as its object has it; only an object whose memory
\* could not be had leaves its range there (prldrm.c:646-702, 1649-1673,
\* 1726-1738, 1766-1768).
RangesSound ==
  /\ TypeOK
  /\ \A i, j \in DOMAIN ranges : i < j => ranges[i].base + ranges[i].size <= ranges[j].base
  /\ \A i \in DOMAIN ranges :
       \/ ranges[i].base \in lost
       \/ \E o \in Used : obj[o].addr = ranges[i].base /\ obj[o].size = ranges[i].size
  /\ \A o \in Used :
       obj[o].addr # 0 /\ (\A t \in Threads : at[t].obj = o => at[t].pc # "free") =>
         \E i \in DOMAIN ranges : ranges[i].base = obj[o].addr

\* What the host maps is the memory of an object that has it, at a range that
\* nobody else is given, unless the host did not unmap it (prldrm.c:1655-1665).
HostMapsLive ==
  \A r \in mapped \ stray :
    /\ Live(r.obj) /\ obj[r.obj].addr = r.base
    /\ \E i \in DOMAIN ranges : ranges[i] = [base |-> r.base, size |-> r.size]

\* A part of video memory belongs to one object or is available, however many
\* threads look for one at once (prldrm.c:1670, 1744-1748).
BuffersOwned ==
  /\ \A o, p \in Used : obj[o].index # 0 /\ obj[o].index = obj[p].index => o = p
  /\ avail = Bits \ {obj[o].index : o \in Used}

\* An object lives as long as it has a handle, a framebuffer, a mapping or the
\* console.  Freed memory is used only when a handle is closed before
\* dumb_create has returned it, or cannot be made, and missing memory only when
\* it could not be had (prldrm.c:768-793, 855-893, 1340-1395, 1716, 1727,
\* 1782-1802, 1995).
HeldLives ==
  IF corrupt
  THEN \/ \E t \in Threads : at[t].shut \/ at[t].next = "again"
       \/ \E v \in Vmas : vma[v].obj # None /\ ~vma[v].pages /\ ~obj[vma[v].obj].kptr
  ELSE \A o \in (handles \cup fbs \cup {fbdev} \cup {vma[v].obj : v \in Vmas}) \ {None} :
         /\ Live(o) /\ obj[o].refs > 0
         /\ \A t \in Threads : at[t].obj = o => at[t].pc \notin {"unmap", "unlist", "free"}
=============================================================================
