# Verification of the Parallels guest tools for Linux

TLA+ models of the kernel modules under `kmods-src/`, the TLC runs that check
them on small instances, and theorems about them that TLAPS proves for every
instance.

## 1. The system

The repository holds the guest side of the Parallels tools: five Linux kernel
modules, shell and Python scripts that install and configure them, a desktop
extension, and prebuilt binaries.  The kernel modules are the core: they share
memory, locks and requests with the host.

| Component | Source (under `kmods-src/` unless said) | State it keeps | Operations |
|---|---|---|---|
| ToolGate transport | `prl_tg/.../prl_tg/prltg_call.c`, `prltg.c` | list of pending requests, the device's interrupt mask, work item, per request Status, `processed`, completion, page pins, DMA maps | `call_tg_sync`, `call_tg_async_start/_wait/_cancel`, interrupt, bottom half, suspend, resume, probe, remove |
| Drawables and contexts | `prl_vid/.../kmod/prlvtg.c`, `prlvid.c` | hash of drawables (global), per-file lists of drawables and GL contexts, reference-counted clip buffers | create, clip, destroy drawable, host request, open, release, mmap |
| Display | `prl_vid/.../kmod/prldrm.c` | the page of bounds and mouse position shared with the host, the request that keeps it there, the head's mode and a copy of it | dirty, cursor move, flip, disable, map, master drop, remove |
| Images | `prl_vid/.../kmod/prldrm.c` | images, their pbuffers, owners and objects | create, bind, resize, format, export, leave, release, close |
| Buffers | `prl_vid/.../kmod/prldrm.c` | list of aperture ranges, mask of the parts of video memory, GEM objects | dumb create, map, handle, framebuffer, fault, free |
| Shared folders: open files | `prl_fs/.../prl_fs/file.c`, `inode.c`, `interface.c` | per inode: host handle, open counter, mode, size; pages | open, release, read, write, readpage, writepage, setattr of a size |
| Shared folders: names | `prl_fs/.../prl_fs/inode.c`, `interface.c` | per dentry: path, time of last revalidation, unlinked mark; per inode: attributes | lookup, revalidate, getattr, setattr, create, mkdir, unlink, rmdir, rename |
| Shared folders: mount | `prl_fs/.../prl_fs/super.c` | options, list of folders | mount, show options, read the list |
| File system freeze | `prl_fs_freeze/.../prl_fs_freeze.c` | list of frozen mounts, thaw timer and work item | write of a command list, read of the list, timer, thaw work, unload |
| Network adapter | `prl_eth/pvmnet/pvmnet.c`, `pvmnet_hw.h` | transmit and receive rings shared with the host, queue state, interrupt enable | xmit, interrupt, open, close |
| Scripts and installer | `installer/`, `tools/` | files and services of the distribution | install, remove, configure |
| Coherence extension | `tools/gnome-coherence/` | windows shown to the host | signals of the shell |

Interaction: every kernel module except the network adapter talks to the host
through the ToolGate transport.  `prl_fs` uses `call_tg_sync` for each file
operation; `prldrm.c` uses it for mode setting and keeps one asynchronous
request outstanding as "shared state" that the host restarts; the video files
pin a clip buffer across a synchronous request.  Callers are system calls, page
faults, workqueues and the power management core.

What is hard here: a request's memory is shared with the host, so it must not be
freed before the host gives it back, while signals, forced cancels, the bottom
half and a suspend all want to end it; the same structures are reached from
interrupt, workqueue and process context, and `prldrm.c` and `prlvtg.c` leave
many of their steps without a lock; several caches (open handles, sizes, names,
attributes, modes, frozen mounts) must agree with a host that is told of changes
in separate, failing calls and may change things by itself; the rings of the
network adapter wrap around.

What makes each component correct:

* transport: memory is freed only when neither the host nor any list has it; a
  request is completed once; no completion is lost; every call returns;
* shared-folder files: one host handle per open inode, opened once, released
  once; a dirty page can be written; sizes agree; no circle of waiting calls;
* shared-folder names: a name leads to the file the host has under it, and what
  is changed or shown of a file is that file's;
* freeze: what is listed is frozen and the other way round, every frozen mount
  is thawed at the end, an armed timer thaws;
* images and buffers: an object lives while anyone owns it and is released once;
* aperture: ranges do not overlap, and the host maps live memory only;
* display: no drawn area is lost, one request is outstanding, the copy of the
  mode is the mode;
* drawables: no entry outlives its file, a buffer in use by a request is kept;
* network: packets lie whole and apart in the rings; no wake-up is lost; the
  queue never stays stopped while there is room.

## 2. Modules

| Module | Models | Extends / uses |
|---|---|---|
| `TgContract` | what the transport promises a caller (abstract specification) | |
| `ToolGate` | the transport: `prltg_call.c`, `prltg.c` | instance of `TgContract` |
| `ToolGateProofs` | theorems about `ToolGate` | `ToolGate` |
| `FsFreeze`, `MCFsFreeze` | `prl_fs_freeze.c`; the command lists TLC runs with | |
| `FsFreezeProofs` | theorems about `FsFreeze` | `FsFreeze` |
| `PrlFsFile`, `MCPrlFsFile` | `prl_fs`: the files open on one inode, its size, one page of it, its truncation | |
| `PrlFsFileProofs` | theorems about `PrlFsFile` | `PrlFsFile` |
| `PrlFsNames`, `MCPrlFsNames` | `prl_fs`: the names of a directory and the attributes of its files | |
| `PrlFsNamesProofs` | theorems about `PrlFsNames` | `PrlFsNames` |
| `DrmImages`, `MCDrmImages` | `prldrm.c`: images, owners, pbuffers, object references | |
| `DrmDisplay`, `MCDrmDisplay` | `prldrm.c`: shared state, one head | instance of `TgContract` |
| `DrmProofs` | theorems about `DrmDisplay` and `DrmImages` | `DrmDisplay`, `DrmImages` |
| `GemBuffers`, `MCGemBuffers` | `prldrm.c`: aperture, video memory, GEM objects | |
| `GemBuffersProofs` | theorems about `GemBuffers` | `GemBuffers` |
| `VtgDrawables`, `MCVtgDrawables` | `prlvtg.c`: drawables, clip buffers, GL contexts | |
| `VtgDrawablesProofs` | theorems about `VtgDrawables` | `VtgDrawables` |
| `PvmNet` | `pvmnet.c`, `pvmnet_hw.h` | |
| `PvmNetProofs` | theorems about `PvmNet` | `PvmNet` |

The `MC` modules define what a configuration cannot write down: symmetry sets and
command lists.  An operator introduced by a comment `Seeded fault` is a mutated
form of the definition after it; no specification uses it.  Replacing the
definition by it must break the property that `PROJECT.json` names for the pair.

In all modules an action is what a thread does between two points at which
another may run: a section under a lock is one action, a request to the host is
two, and where the code has no lock every access to shared state is its own.
Variables such as `overtaken`, `raced`, `slipped`, `strayed`, `parted`, `late` are
history: the code does not have them.  They record that one of the races
described in section 5 has happened, so that a property can say exactly what it
excepts; each exception was found by TLC and is needed, in that the property
fails without it.

### 2.1 ToolGate

Requests are slots.  `pc[r]` is where the calling thread is (`mapped` before the
port write, `submitted` and `enqueue` between the two looks at Status, `waiting`,
and the cancel path `cancel`, `canceled`, `unlink`, `drain`); `out` is the common
exit where the pin, the mapping and then the memory go.  `host` is the set of
requests the host may still write to.  The device is external and taken from the
way the driver uses the ports: an answer raises an interrupt that stays pending
until it is delivered; without MSI the STATUS read acknowledges it and masks it.

Each section under `queue_lock` is one step, and so is each part of a function
between two accesses to shared memory.  `processed`, `done`, `completed` and
`cancelled` are the request's flag, its completion's counter and the local lists
of `tg_do_work` and `tg_req_cancel_all`.  `pm` follows suspend (collect, cancel,
poll, mask, free the interrupt, flush the work) and resume; `lost` are the
requests a suspend gave up after its four seconds.  While the device is off no
thread writes to its ports: the power management core has frozen them.

`TgContract` knows a phase and an answer of each request: handed to the host,
answered, and only then returned.  The refinement reads the phase off `pc` and
`host` (`PhaseOf`).

### 2.2 FsFreeze

A write is a list of commands (`rest`), executed until one fails.
`frozen_mutex` (`mutex`) is held across `freeze_bdev`, which sleeps; so a freeze
is `FreezeBegin` and `FreezeEnd`, and everything else that takes the mutex waits
in between.  `Backing` says which mounts lie on which: a mount's freeze cannot
end while the mount below is frozen.  `timer`, `queued`, `working` are the timer,
its queued work and the work running; a flush waits for the runs that were
queued when it began (`ahead`).  Unloading is four steps, as in
`cleanup_module`.  `depth`, the kernel's count of freezes, is external.

### 2.3 PrlFsFile

One inode, several processes with one open file each.  `counter`, `fd` and
`mode` are the fields of `prlfs_fd`, `lock` is the inode lock, `handles` is what
the host has open.  The request carries the handle the inode had when it was
sent (`io`).  An open tries read-write, then reading, then writing, and shares
whatever it got; with `O_TRUNC` the host cuts the file at once and the kernel's
own truncation follows.  Attribute requests (`stat`) take no lock: their answer
may be older than a write or a truncation, and sets `i_size`.  Sizes and offsets
count pages; every write is one long.

The page of a mapping becomes dirty under the page lock (`page`) and is written
back by the kernel or by a release, through the handle the inode has then.
`prlfs_writepage` reads `i_size` with the page locked and then locks the inode;
a truncation locks the inode, has the host cut the file (`TruncateServed`), sets
the cached size unless it is right already (`TruncateSets`, `TruncateSame`), and
waits for the page in order to remove it (`TruncateDone`).

### 2.4 PrlFsNames

One directory.  `host` has the file of each name, `de` the dentries with their
inodes: a path, `timed` for "within the ttl", the unlinked mark of
`prlfs_dfl`.  A call builds a path (`Builds`), the host serves it for whatever has
that path by then, and the call applies the answer.  `loose` and `stale`, which
the code cannot see, say that name and file, or the attributes, are known to have
parted.  `wrong` collects what no known race explains: a request that reached a
file it was not meant for, a name walked to that existed all the time and was
said not to.

Taken as the kernel has it: walks that miss, creations, removals and renames
hold the directory's lock; a setattr, and the removal or rename that ends a
name, hold the inode's; a replaced dentry keeps its name.  An error means that
the host did nothing.  A thread has one file open, or one call in progress.

### 2.5 DrmImages

The ioctls and the close of a file run under `img_lock`, so each is one step.  An
image is a record: pbuffer, handle, geometry (width, height and offset as one
value), format, bound object, `num_owners` and the owner table with its holes.  The
list is a function from places, counted from its end, so that the newest image has
the greatest place and an image that goes moves no other.  The host gives any
pbuffer number it does not have: one given back too early may be another image's.
`refs` counts the references images have taken of each GEM object, less those
given back; the reference a handle has is not counted.  What a handle names
differs by file and in time, so a lookup yields any object or none.  Requests to
the host may fail, also the one that destroys a pbuffer.

### 2.6 DrmDisplay

The outstanding request goes through the phases of `TgContract`, here used as
the interface of the transport: the host may take the bounds and end the request
at any time, and a suspend does.  `pending` is read and written without a lock,
so a start (`Start`, `Submit`, `Started`) and a stop are several steps.  `bounds`
are the areas in the shared page, which calls merge with a compare-and-exchange
loop; `dirt` are those a finished call has said were drawn.  `shown` is what the
head shows and `modeCur` the copy that decides whether a mode is set at all.

### 2.7 GemBuffers

An object is a record: size, references, whether its memory was had, its address
in the aperture or its part of video memory.  `ranges` is the driver's list,
ordered by address, in which the smallest sufficient gap is taken; `mapped` what
the host maps.  Creation is one step per allocation or request, each of which may
fail (`MaxFails` bounds how often); freeing unmaps, unlists and frees.  Handles,
framebuffers and mappings are the DRM core's; here they take and give references.

### 2.8 VtgDrawables

`hash` and `list` are protected by two locks, one after the other, so creation is
hash, then list, and destruction is list, then hash, then memory, with others in
between.  A call to the host takes a reference of the clip buffer it names
(`refcnt`) across the request.  Contexts are noted after the host has made them
and their notes dropped after the host has destroyed them.  Entries and buffers
are slots of memory; the use of a free one sets `corrupt`, after which the model
says nothing more.

### 2.9 PvmNet

Offsets run freely and wrap at `Wrap`; a packet lies whole, into the room behind
the ring's end if need be, and carries the offset it was written at.  `xmit` and `isr` are where transmission and handler
are, between accesses to what the host shares; `phase` follows open and close.
Reading the status takes the events (`pending`) and masks the interrupt (`mask`).
`present`, `kicked`, `wanted` are how the guest tells the host of packets and asks
it to tell of space.

## 3. Runs

| Run | Bounds | Shows |
|---|---|---|
| `tg_safety` | two requests, one asynchronous and restarting; suspends; unanswered cancels | `TypeOK`, `FreedUnlisted`, `FreedNotHeld`, `CompletedOnce`, `InterruptNotLost` |
| `tg_live` | one request, suspends, unanswered cancels | `CallReturns`, `ImplementsContract` |
| `tg_restart_freed` | one restarting request | violation of `RestartFreedNotHeld` |
| `freeze` | two writers, a reader, mount `b` on mount `a`, four command lists with every command | `Balanced`, `UnloadClean`, `WriteReturns`, `TimerThaws` |
| `prlfs` | two processes, one truncation, one attribute request, the kernel's writeback; `MaxSize` = 2, `MaxHandle` = 2, the page is the second | `Counted`, `HandleIsOpen`, `NoneForgotten`, `DirtyHasFile`, `NoHole`, `WaitsEnd` |
| `names` | two threads, two names, three dentries, three files, `MaxEvents` = 2 | `NoneStrays`, `FreshAgrees`, `NoneMissed`, `NamesAgree` |
| `drm_images` | three files, two owners an image, two pbuffers, three places on the list, one object, `MaxOver` = 1 | `OwnersCounted`, `PbuffersLive`, `NothingKept` |
| `display` | two threads, two requests, two areas, two framebuffers, buffers in the aperture | `OneShared`, `PendingLive`, `NoDirtLost`, `ModeKnown` |
| `gem` | two threads, two objects, two mappings, sizes 1 to 3, of which 1 is small and 3 too large for the one part of video memory; `MaxRefs` = 2, `MaxFails` = 1 | `RangesSound`, `HostMapsLive`, `BuffersOwned`, `HeldLives` |
| `vtg` | two threads, two files, two ids, two entries, three buffers, a context, `MaxCtx` = 2 | `BuffersCounted`, `OnlyOvertaken`, `Placed`, `ContextsNoted` |
| `pvmnet` | rings of one unit, `Wrap` = 2, the cable in and out | `NoneAsleep`, `InStep`, `QueueWoken` |
| `pvmnet_rings` | rings of two units with room of one behind, `Wrap` = 4, packets of one and two | `RingsSound` |

What each property says is in the comment above it.  `OwnersCounted`,
`BuffersCounted`, `OneShared`, `RangesSound` and `RingsSound` include their module's
`TypeOK`.

Why these bounds.

* Requests of the transport meet only in the lists, the interrupt and the work
  item: two of them show every pair, one that is on the work item's local list
  while the other is submitted, cancelled or suspended; a slot is used again
  without limit.  What the interrupt and the suspend owe a call concerns it
  alone, so `tg_live` has one.
* The freezer's races are between two holders of the mutex, the timer and the
  unloading; two mounts are what an order needs.
* Of an inode's openers the first, a sharing one and the last matter: two
  processes are each of them in turn, and two handles let the file be opened again
  after its last release.  A file of up to two pages, of which the second is
  mapped, can end before the page, at it and behind it; there are five actors for
  two locks.
* Two names make a rename; the third dentry and the third file are those that an
  open file keeps while both names have others.  Every race known here takes one
  change by another call or by the host, plus a failure: two events.
* Three files with two places in the owner table make it full; two images are one
  that is left and one made instead, and a third place has one made before both.
  `MaxOver` bounds how often an object may be given back too often, which the code
  does without limit.
* In `display` every race is between a pair of calls; two areas show that one
  merge keeps what another has merged.
* Two ranges have a gap before, between and behind them; `gem` reaches lists of
  two ranges with each of them freed first.
* Two threads on one file and on two show every overtaking of `vtg`; a buffer for
  each entry and one that replaces another are in use at once.
* What `pvmnet` waits for depends on a ring being empty or full, not on its size;
  `pvmnet_rings` has packets at the end, across it and behind it.

`CHECK_DEADLOCK FALSE` is in `freeze`, `display` (an unloaded module does nothing
any more), `vtg` and `gem` (nor does a model once memory is corrupt).  The
deadlock of page-out and truncation in `prlfs` does not stop the attribute
requests, so TLC's own check does not see it; `WaitsEnd` does.  The passing runs
have some thousands to 2.6 million distinct states.

### Fairness

* `ToolGate`: a call in progress, the host's answer, the work item and a suspend
  that has begun go on by themselves (weak fairness).  The port writes and the
  interrupt need strong fairness, because a suspend or the mask takes them away
  and gives them back any number of times.  New calls, signals, the end of an
  asynchronous call and the decision to suspend are not fair.
* `FsFreeze`: kernel mutexes are handed over in order, so a writer's next step is
  strongly fair; timers expire and the work queue runs.  That somebody writes or
  unloads the module is not assumed.
* `PvmNet`: `xmit` and the handler go on, an interrupt that is not masked is
  delivered, and the host sends what it was kicked for and tells of space it was
  asked for (weak fairness).  Calls to xmit, packets from outside, spurious
  interrupts, the cable, open and close are not fair.

The other modules make no liveness claim.  Of `PrlFsFile`, `WaitsEnd` says as an
invariant that every chain of waiting calls has an end, the deadlock excepted.
The calls of the video modules and of `PrlFsNames` loop or wait nowhere but for the
transport, whose `CallReturns` is the claim.

## 4. Proofs

TLAPS checks the following for every set of requests, mounts, processes, threads,
files, names and objects, every size and every value of the bounds; the assumptions are the `ASSUME`s of the
modules and say only what the constants are (`Async \subseteq Reqs`, distinct
names for distinct things, finitely many processes; no packet larger than a ring or
than the room behind it, and offsets that wrap at a multiple of the ring's size).

`ToolGateProofs`: `TypeCorrect`, `FreedIsUnlisted`, `FreedIsNotHeld`,
`IsCompletedOnce`, `InterruptIsNotLost` and `Implements`.  `FreedUnlisted` is not
inductive: that a request at `out` is on no list follows from where it was
before.  `ListsInv` says it for every place: a request is on one list at most,
only while its caller is in flight, and `processed` tells `pr_list` from the
others.  `HostInv` ties Status to the host: in flight, the host has the request
exactly when Status is PENDING.  It fails for restarting requests, which is why
`FreedNotHeld` leaves them out (`tg_restart_freed`).  `InterruptIsNotLost` needs
an invariant of its own over mask, work item and suspend.  The refinement is
proved for instances without restarting requests.

`FsFreezeProofs`: `TypeCorrect`, `StaysBalanced`, `UnloadsClean`.  `Balanced` is
not inductive because `freeze_bdev` comes after the look at the list; `Freezing`
adds that the mount is off the list as long as it sleeps, since the mutex is
held.  `Unloading` adds that from `remove_proc_entry` on nobody writes, and what
each step of the cleanup leaves behind.

`PrlFsFileProofs`: `TypeCorrect`, `CounterCounts`, `HandleStaysOpen`,
`NoHandleForgotten`, `DirtyCanBeWritten`, `AppendsLeaveNoHole`, `WaitsComeToAnEnd`.
The invariant has five layers: `Control` (who holds which lock, and that a dirty
page has a process that has not yet passed its write-back), `Counting` (the
counter is the number of open files; 0 while the host is asked to open, 1 while
it is asked to close), `Handling` (while the counter is above 0 the handle is
open, fixed and carried by every request), `SizeType` and `Sizing` (no size on its
way to the cache is above the host's, unless a truncation has overtaken it).  The
write-back needs the first layer: without it a page-out might carry a handle that
is closed before it arrives.  So does `WaitsEnd`: the holder of the inode lock
waits for nobody but for the page, and the holder of the page for nobody but for
the inode.

`VtgDrawablesProofs`: `CorruptsOnlyOvertaken`, `BuffersAreCounted`,
`DrawablesPlaced`, `ContextsAreNoted`.  The layers: `Control` (what a thread holds
at each place, and that a file is closed by one thread with no call left on it),
`Counting` (reference counts as cardinalities), `Placing` and `Hashed` (an entry
has at most one thread that takes it down, is out of the hash before it is freed
and is found by whoever closes its file), `Careful` (none of what an overtaken
creation could break is broken without one), `Noting` and `Emptied` (a file's
notes of a context outnumber the destructions still to be noted, and are gone
with the file).

`DrmProofs`, the display: `OneIsShared`, `PendingLives`, `NoDirtIsLost`, `ModeIsKnown`.
`Sharing`: as long as no two calls have raced, one call at a time is between its
look at `pending` and its end, and the place it is at says where the one request
is.  `Heading`: the head shows the framebuffer of the call that has set the mode and
not noted it yet, or what is noted.  `NoDirtLost` is inductive by itself.

`DrmProofs`, the images: `OwnersAreCounted`, `PbuffersStayLive`, `NothingIsKept`.
`NothingKept` speaks of the moment when no file is open, and `refs` changes by as many
as images go at once: `Kept` has no more references to an object at any time than
images are bound to it.  With the owners of each image counted, different and open,
the last file that is closed takes every image with it, and with the images the
references.  That an image gone from the list leaves the others their pbuffers needs
these to be different (`Parts`).

`GemBuffersProofs`: `RangesAreSound`, `HostMapsLiveMemory`, `BuffersAreOwned`,
`HeldOnesLive`.  `Control` says where threads are, that an object which is made or
taken down has one thread, and that the console's is made before all else.
`Counting` makes the reference count the sum of handle, framebuffer, console, the
thread that makes it and the number of mappings; with it `Ending` has one reference
on an object that is made and none on one that is freed, so that nobody holds what
is unmapped.  `Memory`, `Listing` and `Mapping` tie together the three records of a
range, in the object, on the list and at the host: `RangesSound` alone does not say
whose a range is, so the step that unlists one might take another's.  `Explained`
names the three ways memory is misused.  Lemmas about sequences say that an
insertion before the first range behind the gap, and a removal, leave a list of any
length ordered and its other entries on it (`Inserted`, `Removed`, `GapFits`).  A
range is lost only by the failures of section 5, which `lost` records.

`PrlFsNamesProofs`: `NoRequestStrays`, `FreshOnesAgree`, `NoNameMissed`,
`KernelNamesAgree`.  `NamesAgree` speaks of a directory nobody changes; while a call
is in progress its name is the host's already and not yet the kernel's.  `Named`
says it for every moment: the host has the dentry's file under its name, or, between
its answer and the kernel's change (`Parting`), nothing.  `Kept` has a dentry that is
good for requests hashed, and no two found by one name; `Knows` is what a call may
rely on of the dentries it holds, `Owns` being that a dentry is the only one of its
name.  `InTime`: a request no rename or removal has overtaken carries the dentry's
name.  `NoneStrays` follows from `Named` and `InTime` at the step where the host
serves it.  `Fresh` has the attributes of a dentry within its ttl be the file's,
except while a setattr is between the host's answer and the inode (`BeingSet`).
`Seeing` keeps a name that a walk has seen with a file, until the walk's end.

`PvmNetProofs`: `TypeCorrect`, `RingsAreSound`, `NobodyIsAsleep`, `AdapterInStep`.  An event is at the
device, with the handler that has read it, or in what the handler has made of it:
`Attached` follows the cable, `Awake` packets and space, `Quiet` what close
leaves.  `RingsSound` says where packets lie in the buffer, and is not inductive: that
a packet behind the tail is apart from the others follows from the distances from the
head, which `Laid` orders and bounds by what is used.  A distance below the ring's
size determines a place because offsets wrap at a multiple of it (`PlaceIs`,
`Apart`).  `Laid` relates each packet to the head and not to a sum of the sizes before
it, so that a packet put behind the others (`LaidAppend`) or the first ones taken
(`LaidFrom`) need no induction.

Every safety invariant of a passing run is the subject of a theorem.  Out of the prover's
reach, and left to TLC: liveness under fairness (`CallReturns`, `WriteReturns`,
`TimerThaws`, `QueueWoken`) and whatever needs `ENABLED`.

## 5. Findings

`tg_restart_freed` contradicts a comment of the code: a forced cancel that races
the restart of a successful request frees memory the host was just given again,
where `prltg_call.c:459` says that nobody will complete an unlinked request
(`prltg_call.c:452`).

The code does the following as well.  No comment or test says otherwise, so they
are exceptions in the properties named, or lie outside the models.

Transport:

* a request given up by a suspend is completed by nobody when the host answers it
  later; its caller sleeps on (`prltg.c:119`; `lost` in `CallReturns`);
* a restartable request that succeeds before it is queued is returned instead of
  restarted (`prltg_call.c:405`; part of the model);
* `flush_scheduled_work` runs after `free_irq` (`prltg.c:491`; outside);
* when the first page cannot be mapped a page reference is dropped that was not
  taken (`prltg_call.c:413`), and when a later one cannot, the unwind loop starts
  one slot below the last written one (`prltg_call.c:147`; both outside).

Freeze:

* a freeze of a mount that lies on a frozen one holds `frozen_mutex` for ever, and
  no timer thaws anything (`prl_fs_freeze.c:116`; `Asleep` in `WriteReturns`,
  `TimerThaws`).  The documented order makes it possible when a timer expires
  between its two freezes;
* `timer_pending` is false while the work of an expired timer is queued, so a timer
  armed then does not delay that thaw (`prl_fs_freeze.c:207`; part of the model).

Shared folders:

* the offset of an append is read before the lock, so of two appending writers one
  overwrites the other (`file.c:443`), and one that a truncation overtakes leaves a
  hole (`late` in `NoHole`);
* an attribute answer from before a write or a truncation is applied after it: the
  size shrinks or grows back for a ttl (`inode.c:520`; `parted`);
* a page-out holds the page and waits for the inode, a truncation the other way
  round: both wait for ever (`inode.c:826`, `451`; `Stuck` in `WaitsEnd`);
* `w_remainder` is compared as an unsigned number: the page-out of a page behind the
  new end of a file writes a whole page and lengthens the host's file again
  (`inode.c:829`; `kept` in `NoHole`).  It takes a cached size that is right
  already, so that the pages are not looked at (`inode.c:446`);
* a path stands for a file: a rename does not mark the dentry it replaces, so a
  setattr or stat through a file that is still open there reaches the new one
  (`inode.c:418`; `loose`);
* `attr_to_pattr` assigns the mask for owner and group, so a chown of both, or with
  other attributes, is sent as the group alone while the inode takes all of it
  (`inode.c:256`, `260`; `Sent`), and an access time is sent only with a modification
  time (`inode.c:239`);
* a failed allocation leaves a negative dentry over a file the host has created
  (`inode.c:275`), and in a lookup counts as "no such file"; a failed revalidation
  gives the file a second inode; a bad inode reads as a regular file, so that the
  next revalidation may pass (`inode.c:518`);
* when the `prlfs_fd` cannot be allocated an error pointer is freed with the inode
  (`inode.c:903`, `super.c:183`; outside);
* an `-EIO` of `prlfs_writepage` is returned but the page is not dirty any more
  (`inode.c:834`; part of the model).

Video:

* an owner that leaves a shared image gives back the image's only reference to its
  object (`prldrm.c:2304`; `NothingKept` says "at most 0"); of a pair of attributes
  only the first is sent (`sizeof` of an element, `prldrm.c:513`); a host status that
  is unknown becomes a positive result (`interface.c:65` does the same);
* two starts or stops of sharing at once leave two requests or cancel one twice
  (`prldrm.c:239`; `raced`); a dirty call sends offset 0 for a buffer in video memory
  (`prldrm.c:808`), and sets what the head shows past the copy (`strayed`);
* in the creation of a buffer `kmalloc` and `vmalloc_user` return NULL, which
  `IS_ERR` does not tell; a handle is noted after its reference is put
  (`prldrm.c:1801`), and freed twice if it cannot be made (`prldrm.c:1796`); failures
  after the range was taken leave it (`lost` in `RangesSound`);
* a drawable destroyed while another thread of the file still creates it is freed
  while it is linked (`prlvtg.c:242`; `overtaken`); a context the host has made and
  that cannot be noted stays (`prlvtg.c:366`; `slipped`).

Network:

* reading the status in open can take the event of a received packet, which then
  waits for the next one (`pvmnet.c:361`; `asleep`), and can leave a stale carrier
  (`overtaken`); a handler that runs while the device is closed enables the
  interrupt again (`pvmnet.c:382`; `late`).

## 6. What is not modelled

* `ToolGate`: probe (the initial state) and remove; the building of a request's
  page lists, which is sequential and touches nothing others see; what becomes of
  a slot whose memory is freed while the host holds it.
* `PrlFsFile`: the failing allocations of open and setattr, which change nothing;
  the branch for kernels without `radix_tree_for_each_slot`; contents; other users
  of the file at the host.  A process with several open files is several processes
  of the model.
* `PrlFsNames`: symbolic links, reading a directory, permission checks, attributes
  other than mode, owner and group (size is in `PrlFsFile`; times are shown only).
* Mount, its options and the list of folders: sequential text processing in the
  mounting thread.
* `FsFreeze`: the parsing of paths, and the listing's text.
* `DrmImages`: failures of an allocation other than the whole call's.
* `DrmDisplay`: the pointer's image, queries of heads and modes, further heads, whose
  state is their own, and the DRM core's objects.  `GemBuffers`: the DRM core's
  counting, but for what it makes the driver do.
* `VtgDrawables`: the count of commands since the last clip, mmap and the switch to
  SVGA, which keep no state the rest depends on.
* `PvmNet`: statistics, ethtool, the multicast filter, DMA set-up.
* The PCI and module glue of the video driver: probe and removal run in one thread
  of the kernel's.
* The scripts, `prlfsmountd`, the X configuration and the installer: text processing
  and I/O on the distribution's files; the desktop extension: one thread, whose peer
  is a prebuilt binary; the prebuilt binaries: no source.

## 7. What could come next

1. The map and unwind loops of `tg_req_create` against a reference definition, over
   every place of failure.
2. Further heads in `DrmDisplay`, and the composition of a suspend with all users
   of the transport.
