----------------------------- MODULE PrlFsFile -----------------------------
(***************************************************************************)
(* prl_fs: the files open on one inode of a shared folder.  All of them    *)
(* share one handle of the host, which the first open creates and the last *)
(* release closes (file.c); the inode caches the size the host has         *)
(* (inode.c); a mapped page is read and written back through the handle;   *)
(* a truncation names the file by its path and cuts the host's file, the   *)
(* cached size and the cached pages one after the other.                   *)
(*                                                                         *)
(* A request to the host takes two steps of its caller, what happens until *)
(* the host has served it and the rest, so that others run meanwhile.  The *)
(* inode lock is held across requests.  Sizes and offsets are counted in   *)
(* pages; every write is one long.                                         *)
(***************************************************************************)
EXTENDS Integers, FiniteSets

CONSTANTS
  Procs,      \* processes, each with at most one open file
  Statters,   \* lookups and stats of the file
  Truncators, \* callers of truncate, ftruncate, or of open with O_TRUNC
  Flusher,    \* the kernel's writeback
  None,       \* no process
  Page,       \* the index of the mapped page
  MaxSize,    \* bound: the file grows no longer
  MaxHandle   \* bound: the host is asked for no more handles

ASSUME FileAssumption ==
  /\ IsFiniteSet(Procs) /\ (Truncators \cup Statters) \cap Procs = {}
  /\ Flusher \notin Procs \cup Truncators
  /\ None \notin Procs \cup Truncators \cup {Flusher}
  /\ MaxSize \in Nat /\ Page \in 0..(MaxSize - 1) /\ MaxHandle \in Nat

Modes == {"rw", "ro", "wo"}
Actors == Procs \cup Truncators \cup {Flusher}

VARIABLES
  pc,       \* where each process, truncation, and the writeback, is
  want,     \* the mode each process opens with
  off,      \* the offset of its write
  io,       \* the handle its request to the host carries
  lock,     \* holder of the inode lock
  counter,  \* pfd->f_counter
  fd,       \* pfd->fd
  mode,     \* pfd->f_flags; while the lock is held by an open, what it tries
  handles,  \* the handles the host has open
  leaked,   \* those whose release has failed
  last,     \* the last handle the host gave out
  isize,    \* inode->i_size
  hsize,    \* the size the host has
  stat,     \* the size an attribute request brought, or -1
  cut,      \* the size each truncation asks for
  dirty,    \* the page is dirty
  page,     \* holder of the page lock
  seen,     \* the size prlfs_writepage has read
  late,     \* the answers, and the writes, that a truncation overtook
  parted,   \* the cached size is from before a truncation
  kept      \* the page is dirty though the file was cut before it

vars == <<pc, want, off, io, lock, counter, fd, mode, handles, leaked, last,
          isize, hsize, stat, cut, dirty, page, seen, late, parted, kept>>
pfd  == <<counter, fd, mode, handles, leaked, last>>
cached == <<isize, parted>>
size == <<cached, hsize, stat, cut, late>>
mapped == <<dirty, page, seen, kept>>

Places ==
  {"idle", "asking", "open", "reading", "write", "writing", "written",
   "faulting", "sync", "syncing", "flushing", "closing", "releasing",
   "cutting", "cut", "dropping"}

TypeOK ==
  /\ pc \in [Actors -> Places]
  /\ want \in [Procs -> Modes]
  /\ off \in [Procs -> 0..MaxSize]
  /\ io \in [Actors -> 0..MaxHandle]
  /\ lock \in Actors \cup {None} /\ page \in Actors \cup {None}
  /\ counter \in 0..Cardinality(Procs)
  /\ mode \in Modes
  /\ last \in 0..MaxHandle /\ fd \in 0..last
  /\ handles \subseteq 1..last /\ leaked \subseteq handles
  /\ isize \in 0..MaxSize /\ hsize \in 0..MaxSize
  /\ stat \in [Statters -> -1..MaxSize]
  /\ cut \in [Truncators -> 0..MaxSize] /\ seen \in 0..MaxSize
  /\ late \subseteq Statters \cup Procs
  /\ dirty \in BOOLEAN /\ parted \in BOOLEAN /\ kept \in BOOLEAN

Init ==
  /\ pc = [x \in Actors |-> "idle"]
  /\ want = [p \in Procs |-> "rw"]
  /\ off = [p \in Procs |-> 0]
  /\ io = [x \in Actors |-> 0]
  /\ lock = None /\ page = None
  /\ counter = 0 /\ fd = 0 /\ mode = "rw"
  /\ handles = {} /\ leaked = {} /\ last = 0
  /\ isize = 0 /\ hsize = 0
  /\ stat = [s \in Statters |-> -1]
  /\ cut = [t \in Truncators |-> 0] /\ late = {} /\ parted = FALSE
  /\ dirty = FALSE /\ seen = 0 /\ kept = FALSE

Larger(m, n) == IF m > n THEN m ELSE n
Goto(x, place) == pc' = [pc EXCEPT ![x] = place]

Shuts(p) == Goto(p, "idle") /\ want' = [want EXCEPT ![p] = "rw"]   \* no file is open

Sends(x) == io' = [io EXCEPT ![x] = fd]   \* a request carries the handle
Ends(x) == io' = [io EXCEPT ![x] = 0]

\* The host truncates its file, overtaking what was read of it before.
HostCuts(n) ==
  /\ hsize' = n
  /\ late' = late \cup {s \in Statters : stat[s] # -1}
                  \cup {p \in Procs : pc[p] = "write"}

\* The host has truncated the file and the inode has not.
Ahead == \E t \in Truncators : pc[t] = "cut"

-----------------------------------------------------------------------------
(* prlfs_open.                                                             *)

\* Seeded fault: a later open is not counted.
OpenShared_Uncounted(p) ==
  /\ pc[p] = "idle" /\ lock = None /\ counter > 0
  /\ \E m \in Modes : mode \in {"rw", m} /\ want' = [want EXCEPT ![p] = m]
  /\ Goto(p, "open")
  /\ UNCHANGED <<off, io, lock, pfd, size, mapped>>

\* The handle is shared, if it can do what is wanted.
OpenShared(p) ==
  /\ pc[p] = "idle" /\ lock = None /\ counter > 0
  /\ \E m \in Modes : mode \in {"rw", m} /\ want' = [want EXCEPT ![p] = m]
  /\ counter' = counter + 1
  /\ Goto(p, "open")
  /\ UNCHANGED <<off, io, lock, fd, mode, handles, leaked, last, size, mapped>>

\* Seeded fault: an open does not look for the handle there is.
OpenFirst_Always(p) ==
  /\ pc[p] = "idle" /\ lock = None /\ last < MaxHandle
  /\ \E m \in Modes : want' = [want EXCEPT ![p] = m]
  /\ lock' = p
  /\ mode' = "rw"
  /\ Goto(p, "asking")
  /\ UNCHANGED <<off, io, counter, fd, handles, leaked, last, size, mapped>>

\* The first open asks the host, with the lock held, for both accesses.
OpenFirst(p) ==
  /\ pc[p] = "idle" /\ lock = None /\ counter = 0 /\ last < MaxHandle
  /\ \E m \in Modes : want' = [want EXCEPT ![p] = m]
  /\ lock' = p
  /\ mode' = "rw"
  /\ Goto(p, "asking")
  /\ UNCHANGED <<off, io, counter, fd, handles, leaked, last, size, mapped>>

\* -EPERM: the next mode is tried, reading alone, then writing alone.
OpenRetry(p) ==
  /\ pc[p] = "asking"
  /\ \/ mode = "rw" /\ mode' = "ro"
     \/ mode = "ro" /\ mode' = "wo"
  /\ UNCHANGED <<pc, want, off, io, lock, counter, fd, handles, leaked, last, size, mapped>>

OpenFails(p) ==
  /\ pc[p] = "asking"
  /\ Shuts(p)
  /\ lock' = None
  /\ UNCHANGED <<off, io, pfd, size, mapped>>

\* The host opens the file, and truncates it if O_TRUNC is among the flags;
\* the kernel's own truncation comes later.
OpenDone(p) ==
  /\ pc[p] = "asking"
  /\ last' = last + 1
  /\ handles' = handles \cup {last'}
  /\ fd' = last'
  /\ counter' = 1
  /\ \/ UNCHANGED <<hsize, late, parted>>
     \/ want[p] # "ro" /\ HostCuts(0) /\ parted' = TRUE
  /\ lock' = None
  /\ Goto(p, "open")
  /\ UNCHANGED <<want, off, io, mode, leaked, isize, stat, cut, mapped>>

-----------------------------------------------------------------------------
(* Reads and writes.                                                       *)

\* prlfs_read takes no lock.
Read(p) ==
  /\ pc[p] = "open" /\ want[p] # "wo"
  /\ Sends(p)
  /\ Goto(p, "reading")
  /\ UNCHANGED <<want, off, lock, pfd, size, mapped>>

ReadDone(p) ==
  /\ pc[p] = "reading"
  /\ Goto(p, "open")
  /\ Ends(p)
  /\ UNCHANGED <<want, off, lock, pfd, size, mapped>>

\* prlfs_write: an append takes i_size for its offset, before the lock.  Other
\* writes start anywhere in the file or right behind it.
Write(p) ==
  /\ pc[p] = "open" /\ want[p] # "ro"
  /\ \/ /\ isize < MaxSize /\ off' = [off EXCEPT ![p] = isize]
        /\ late' = IF parted \/ Ahead THEN late \cup {p} ELSE late
     \/ /\ \E n \in 0..hsize : n < MaxSize /\ off' = [off EXCEPT ![p] = n]
        /\ UNCHANGED late
  /\ Goto(p, "write")
  /\ UNCHANGED <<want, io, lock, pfd, cached, hsize, stat, cut, mapped>>

WriteLocks(p) ==
  /\ pc[p] = "write" /\ lock = None
  /\ lock' = p
  /\ Sends(p)
  /\ Goto(p, "writing")
  /\ UNCHANGED <<want, off, pfd, size, mapped>>

WriteServed(p) ==
  /\ pc[p] = "writing"
  /\ mode # "ro"
  /\ hsize' = Larger(hsize, off[p] + 1)
  /\ Goto(p, "written")
  /\ UNCHANGED <<want, off, io, lock, pfd, cached, stat, cut, late, mapped>>

\* Seeded fault: i_size grows before the result is looked at.
WriteFails_Grows(p) ==
  /\ pc[p] = "writing"
  /\ isize' = Larger(isize, off[p] + 1)
  /\ lock' = None
  /\ Goto(p, "open")
  /\ Ends(p) /\ off' = [off EXCEPT ![p] = 0] /\ late' = late \ {p}
  /\ UNCHANGED <<want, pfd, parted, hsize, stat, cut, mapped>>

WriteFails(p) ==
  /\ pc[p] = "writing"
  /\ lock' = None
  /\ Goto(p, "open")
  /\ Ends(p) /\ off' = [off EXCEPT ![p] = 0] /\ late' = late \ {p}
  /\ UNCHANGED <<want, pfd, isize, parted, hsize, stat, cut, mapped>>

WriteDone(p) ==
  /\ pc[p] = "written"
  /\ isize' = Larger(isize, off[p] + 1)
  /\ lock' = None
  /\ Goto(p, "open")
  /\ Ends(p) /\ off' = [off EXCEPT ![p] = 0] /\ late' = late \ {p}
  /\ UNCHANGED <<want, pfd, parted, hsize, stat, cut, mapped>>

-----------------------------------------------------------------------------
(* prlfs_i_revalidate, without any lock of the inode.                      *)

StatServed(s) ==
  /\ stat[s] = -1
  /\ stat' = [stat EXCEPT ![s] = hsize]
  /\ UNCHANGED <<pc, want, off, io, lock, pfd, cached, hsize, cut, late, mapped>>

\* prlfs_change_attributes; d_time becomes now.  Cached pages stay.
StatDone(s) ==
  /\ stat[s] # -1
  /\ isize' = stat[s]
  /\ stat' = [stat EXCEPT ![s] = -1]
  /\ parted' = (s \in late)
  /\ late' = late \ {s}
  /\ UNCHANGED <<pc, want, off, io, lock, pfd, hsize, cut, mapped>>

-----------------------------------------------------------------------------
(* prlfs_setattr with a size; the caller holds the inode lock.             *)

Truncate(t) ==
  /\ pc[t] = "idle" /\ lock = None
  /\ lock' = t
  /\ \E n \in 0..MaxSize : cut' = [cut EXCEPT ![t] = n]
  /\ Goto(t, "cutting")
  /\ UNCHANGED <<want, off, io, pfd, cached, hsize, stat, late, mapped>>

TruncateServed(t) ==
  /\ pc[t] = "cutting"
  /\ HostCuts(cut[t])
  /\ Goto(t, "cut")
  /\ UNCHANGED <<want, off, io, lock, pfd, cached, stat, cut, mapped>>

TruncateFails(t) ==
  /\ pc[t] = "cutting"
  /\ lock' = None
  /\ Goto(t, "idle") /\ cut' = [cut EXCEPT ![t] = 0]
  /\ UNCHANGED <<want, off, io, pfd, isize, parted, hsize, stat, late, mapped>>

\* prlfs_inode_setattr: the size is right already, or a limit forbids it; so
\* the pages are not looked at.
TruncateSame(t) ==
  /\ pc[t] = "cut" /\ cut[t] >= isize
  /\ parted' = FALSE
  /\ kept' = (kept \/ (cut[t] <= Page /\ (dirty \/ \E x \in Actors : pc[x] = "syncing")))
  /\ lock' = None
  /\ Goto(t, "idle") /\ cut' = [cut EXCEPT ![t] = 0]
  /\ UNCHANGED <<want, off, io, pfd, isize, hsize, stat, late, dirty, page, seen>>

\* truncate_setsize sets i_size ...
TruncateSets(t) ==
  /\ pc[t] = "cut" /\ cut[t] # isize
  /\ isize' = cut[t] /\ parted' = FALSE
  /\ Goto(t, "dropping")
  /\ UNCHANGED <<want, off, io, lock, pfd, hsize, stat, cut, late, mapped>>

\* ... and removes the pages behind it, each when its lock is free.
TruncateDone(t) ==
  /\ pc[t] = "dropping"
  /\ \/ cut[t] > Page /\ UNCHANGED mapped
     \/ /\ cut[t] <= Page /\ page = None
        /\ dirty' = FALSE /\ kept' = FALSE
        /\ UNCHANGED <<page, seen>>
  /\ lock' = None
  /\ Goto(t, "idle") /\ cut' = [cut EXCEPT ![t] = 0]
  /\ UNCHANGED <<want, off, io, pfd, isize, parted, hsize, stat, late>>

-----------------------------------------------------------------------------
(* A page of the file's mapping.                                           *)

\* prlfs_readpage, with the page locked; the kernel lets nobody touch a page
\* behind the end of the file.
Fault(p) ==
  /\ pc[p] = "open" /\ want[p] # "wo" /\ page = None /\ isize > Page
  /\ page' = p
  /\ Sends(p)
  /\ Goto(p, "faulting")
  /\ UNCHANGED <<want, off, lock, pfd, size, dirty, seen, kept>>

\* The page is read, or written to when the mapping allows it.
FaultDone(p) ==
  /\ pc[p] = "faulting"
  /\ page' = None
  /\ \/ UNCHANGED <<dirty, kept>>
     \/ /\ want[p] = "rw" /\ isize > Page
        /\ dirty' = TRUE /\ kept' = (kept \/ parted)
  /\ Goto(p, "open")
  /\ Ends(p)
  /\ UNCHANGED <<want, off, lock, pfd, size, seen>>

\* Whoever writes a dirty page back locks it, cleans it and calls
\* prlfs_writepage, which reads i_size ...
WritebackBegin(x) ==
  /\ pc[x] = IF x = Flusher THEN "idle" ELSE "sync"
  /\ dirty /\ page = None
  /\ page' = x /\ dirty' = FALSE /\ seen' = isize
  /\ Goto(x, "syncing")
  /\ UNCHANGED <<want, off, io, lock, pfd, size, kept>>

\* ... and locks the inode.  w_remainder, if negative, counts as a whole page.
WritepageLocks(x) ==
  /\ pc[x] = "syncing" /\ lock = None /\ seen # Page
  /\ lock' = x
  /\ Sends(x)
  /\ Goto(x, "flushing")
  /\ UNCHANGED <<want, off, pfd, size, mapped>>

After(x) == IF x = Flusher THEN "idle" ELSE "closing"

\* If it is zero nothing is sent.
WritepageEmpty(x) ==
  /\ pc[x] = "syncing" /\ lock = None /\ seen = Page
  /\ page' = None /\ seen' = 0 /\ kept' = FALSE
  /\ Goto(x, After(x))
  /\ UNCHANGED <<want, off, io, lock, pfd, size, dirty>>

\* Seeded fault: the page stays locked.
WritepageDone_Locked(x) ==
  /\ pc[x] = "flushing"
  /\ lock' = None
  /\ Goto(x, After(x))
  /\ Ends(x)
  /\ UNCHANGED <<want, off, pfd, size, mapped>>

\* The host has written the page, or has not.
WritepageDone(x) ==
  /\ pc[x] = "flushing"
  /\ hsize' \in {hsize, Larger(hsize, Page + 1)}
  /\ lock' = None
  /\ page' = None /\ seen' = 0 /\ kept' = FALSE
  /\ Goto(x, After(x))
  /\ Ends(x)
  /\ UNCHANGED <<want, off, pfd, cached, stat, cut, late, dirty>>

-----------------------------------------------------------------------------
(* prlfs_release.                                                          *)

\* Seeded fault: the dirty page is not written back.
Release_NoWriteback(p) ==
  /\ pc[p] = "open"
  /\ Goto(p, "closing")
  /\ UNCHANGED <<want, off, io, lock, pfd, size, mapped>>

Release(p) ==
  /\ pc[p] = "open"
  /\ Goto(p, "sync")
  /\ UNCHANGED <<want, off, io, lock, pfd, size, mapped>>

\* writeback_inode finds nothing to write; it waits for a page that is
\* being written.
NothingDirty(p) ==
  /\ pc[p] = "sync"
  /\ ~dirty /\ page = None
  /\ Goto(p, "closing")
  /\ UNCHANGED <<want, off, io, lock, pfd, size, mapped>>

\* BUG_ON(!f_counter) is about Counted below.
ReleaseShared(p) ==
  /\ pc[p] = "closing" /\ lock = None /\ counter # 1
  /\ counter' = counter - 1
  /\ Shuts(p)
  /\ UNCHANGED <<off, io, lock, fd, mode, handles, leaked, last, size, mapped>>

\* Seeded fault: every release closes the handle.
ReleaseLast_Any(p) ==
  /\ pc[p] = "closing" /\ lock = None
  /\ lock' = p
  /\ Sends(p)
  /\ Goto(p, "releasing")
  /\ UNCHANGED <<want, off, pfd, size, mapped>>

ReleaseLast(p) ==
  /\ pc[p] = "closing" /\ lock = None /\ counter = 1
  /\ lock' = p
  /\ Sends(p)
  /\ Goto(p, "releasing")
  /\ UNCHANGED <<want, off, pfd, size, mapped>>

\* The host has closed the handle, or host_request_release has given up.
ReleaseDone(p) ==
  /\ pc[p] = "releasing"
  /\ \/ handles' = handles \ {io[p]} /\ UNCHANGED leaked
     \/ leaked' = leaked \cup {io[p]} /\ UNCHANGED handles
  /\ counter' = counter - 1
  /\ lock' = None
  /\ Shuts(p)
  /\ Ends(p)
  /\ UNCHANGED <<off, fd, mode, last, size, mapped>>

-----------------------------------------------------------------------------
File(p) ==
  \/ OpenShared(p)    \/ OpenFirst(p)   \/ OpenRetry(p)    \/ OpenFails(p)
  \/ OpenDone(p)      \/ Read(p)        \/ ReadDone(p)     \/ Write(p)
  \/ WriteLocks(p)    \/ WriteServed(p) \/ WriteFails(p)   \/ WriteDone(p)
  \/ Fault(p)         \/ FaultDone(p)   \/ Release(p)      \/ NothingDirty(p)
  \/ ReleaseShared(p) \/ ReleaseLast(p) \/ ReleaseDone(p)
Truncation(t) ==
  \/ Truncate(t)     \/ TruncateServed(t) \/ TruncateFails(t)
  \/ TruncateSame(t) \/ TruncateSets(t)   \/ TruncateDone(t)
Writeback(x) ==
  WritebackBegin(x) \/ WritepageLocks(x) \/ WritepageEmpty(x) \/ WritepageDone(x)

Next ==
  \/ \E p \in Procs : File(p)
  \/ \E t \in Truncators : Truncation(t)
  \/ \E x \in Procs \cup {Flusher} : Writeback(x)
  \/ \E s \in Statters : StatServed(s) \/ StatDone(s)

Spec == Init /\ [][Next]_vars

-----------------------------------------------------------------------------
(* Properties.                                                             *)

\* Processes whose file counts as open.
Opened ==
  {p \in Procs : pc[p] \notin {"idle", "asking"}}

\* f_counter is the number of open files, so the BUG_ON of prlfs_release
\* (file.c:229) is not reached.
Counted == counter = Cardinality(Opened)

\* A read, a write, a page in or a page out reaches the host with a handle
\* it still has open (file.c:389-412, inode.c:784-838).
HandleIsOpen ==
  \A x \in Actors :
    pc[x] \in {"reading", "writing", "faulting", "flushing", "releasing"}
      => io[x] \in handles

\* No handle is forgotten: what the host has open, but for failed releases,
\* is the inode's handle, and some file is open (file.c:142-150, 230-237).
NoneForgotten ==
  handles \ leaked \subseteq (IF counter > 0 THEN {fd} ELSE {})

\* A page that is dirty or being written back has a file to be written
\* through; so the first open, after which all cached pages are read again,
\* throws no change away (file.c:60-73, 196-206, 226).
DirtyHasFile == dirty \/ pc[Flusher] # "idle" => counter > 0

\* The size that is cached does not exceed the host's, so an append leaves no
\* hole and a page-out does not lengthen the file, but where a truncation has
\* overtaken an answer or the append, or left the page because the size was
\* right already (file.c:441-463, inode.c:439-455, 488-520, 817-831).
NoHole ==
  /\ isize <= hsize \/ parted \/ Ahead
  /\ \A p \in Procs : pc[p] \in {"write", "writing"} => off[p] <= hsize \/ p \in late
  /\ \A x \in Actors : pc[x] = "flushing" => Page < hsize \/ kept

\* A page-out waits for the inode lock with the page locked, and a truncation
\* for the page with the inode locked.
Stuck ==
  \E t \in Truncators, x \in Actors : pc[t] = "dropping" /\ cut[t] <= Page /\ pc[x] = "syncing"

\* Whom a call waits for, if anyone.
Blocker(x) ==
  IF pc[x] \in {"write", "closing", "syncing"} THEN lock
  ELSE IF pc[x] = "sync" THEN page
  ELSE IF pc[x] = "dropping" /\ cut[x] <= Page THEN page
  ELSE None

Goes(y) == pc[y] \notin {"idle", "open"} /\ Blocker(y) = None

\* Whoever waits for the inode or the page waits, in the end, for a call that
\* goes on, unless a page-out and a truncation wait for each other
\* (file.c:140, 228, 447, inode.c:439-484, 784-838).
WaitsEnd ==
  Stuck \/ \A x \in Actors :
    \/ Blocker(x) = None \/ Goes(Blocker(x))
    \/ Blocker(Blocker(x)) # None /\ Goes(Blocker(Blocker(x)))
=============================================================================
