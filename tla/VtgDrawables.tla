---------------------------- MODULE VtgDrawables ----------------------------
(***************************************************************************)
(* prlvtg.c: the drawables and the OpenGL contexts of the video device's   *)
(* files.  All drawables are found by id in one hash, under vtg_hash_lock; *)
(* those of a file are also on its list, under the lock of the file.  A    *)
(* drawable has a clip buffer, which a GL command of any file that names   *)
(* the drawable takes along to the host.  The contexts a file has made are *)
(* on a list of their own, to be destroyed with the file.                  *)
(*                                                                         *)
(* Threads call and, where no lock is held, may be overtaken by each       *)
(* other; each action is what a thread does between two such points.  A    *)
(* call that fails leaves everything as it is and is left out.             *)
(***************************************************************************)
EXTENDS Integers, FiniteSets

CONSTANTS
  Threads, Files,
  Ids,      \* ids of drawables
  Entries,  \* struct vtg_hash_entry objects in memory
  Bufs,     \* struct vtg_buffer objects in memory
  Ctxs,     \* ids of contexts, chosen by the host
  MaxCtx,   \* bound: a file notes a context no more often than this
  None

ASSUME VtgAssumption ==
  /\ IsFiniteSet(Threads) /\ IsFiniteSet(Entries)
  /\ Threads \cap Entries = {}
  /\ None \notin Files \cup Entries \cup Bufs \cup Ctxs
  /\ MaxCtx \in Nat

VARIABLES
  open,     \* the files that are open
  hash,     \* vtg_hashtable: the entry of each id
  owner,    \* vtg_hash_entry.filp; None: the entry is free memory
  buffer,   \* vtg_hash_entry.vtg_buffer
  list,     \* vtg_filp_private.hash_list of each file
  refcnt,   \* vtg_buffer.refcnt; 0: the buffer is free memory
  glctx,    \* vtg_filp_private.glctx_list: how often each context is on it
  ctx,      \* of the host: the file each context was made for
  slipped,  \* files that lack a note of a context, or have had one too few
  op,       \* what each thread is doing
  overtaken,\* a drawable was destroyed before its creation was over
  corrupt   \* freed memory was used, or used memory freed: anything goes

vars == <<open, hash, owner, buffer, list, refcnt, glctx, ctx, slipped, op, overtaken, corrupt>>
drawables == <<hash, owner, buffer, list, refcnt, overtaken, corrupt>>
contexts  == <<glctx, ctx, slipped>>

PCs == {"idle", "link", "unlink", "free", "put", "sent", "made", "gone",
        "close", "unhash", "drop"}
Ops == [pc : PCs, file : Files \cup {None}, ent : Entries \cup {None},
        buf : Bufs \cup {None}, ctx : Ctxs \cup {None}]
Idle == [pc |-> "idle", file |-> None, ent |-> None, buf |-> None, ctx |-> None]

TypeOK ==
  /\ open \subseteq Files
  /\ hash \in [Ids -> Entries \cup {None}]
  /\ owner \in [Entries -> Files \cup {None}]
  /\ buffer \in [Entries -> Bufs \cup {None}]
  /\ list \in [Files -> SUBSET Entries]
  /\ refcnt \in [Bufs -> Nat]
  /\ glctx \in [Files -> [Ctxs -> Nat]]
  /\ ctx \in [Ctxs -> Files \cup {None}]
  /\ slipped \subseteq Files
  /\ op \in [Threads -> Ops]
  /\ overtaken \in BOOLEAN /\ corrupt \in BOOLEAN

Init ==
  /\ open = {}
  /\ hash = [i \in Ids |-> None]
  /\ owner = [e \in Entries |-> None]
  /\ buffer = [e \in Entries |-> None]
  /\ list = [f \in Files |-> {}]
  /\ refcnt = [b \in Bufs |-> 0]
  /\ glctx = [f \in Files |-> [c \in Ctxs |-> 0]]
  /\ ctx = [c \in Ctxs |-> None]
  /\ slipped = {}
  /\ op = [t \in Threads |-> Idle]
  /\ overtaken = FALSE /\ corrupt = FALSE

-----------------------------------------------------------------------------
At(t, pc) == op[t].pc = pc
Free(e) == owner[e] = None /\ \A t \in Threads : op[t].ent # e

\* An idle thread enters a call on an open file.
Calls(t, f) == At(t, "idle") /\ f \in open /\ ~corrupt
Does(t, pc) == At(t, pc) /\ ~corrupt

\* vtg_buffer_put of what may be no buffer; going below zero is a second free.
Put(b) == IF b = None \/ refcnt[b] = 0 THEN refcnt ELSE [refcnt EXCEPT ![b] = @ - 1]
Bad(b) == b # None /\ refcnt[b] = 0

\* The buffer of an id, if it has one.
Found(id) == IF hash[id] = None THEN None ELSE buffer[hash[id]]

-----------------------------------------------------------------------------
(* Drawables.                                                              *)

\* prl_vtg_create_drawable: the entry is hashed, if the id is new ...
Create(t, f, id) ==
  /\ Calls(t, f) /\ hash[id] = None
  /\ \E e \in Entries :
       /\ Free(e)
       /\ hash' = [hash EXCEPT ![id] = e]
       /\ owner' = [owner EXCEPT ![e] = f]
       /\ op' = [op EXCEPT ![t] = [Idle EXCEPT !.pc = "link", !.file = f, !.ent = e]]
  /\ UNCHANGED <<open, buffer, list, refcnt, contexts, overtaken, corrupt>>

\* ... and then put on the file's list.
Link(t) ==
  /\ Does(t, "link")
  /\ list' = [list EXCEPT ![op[t].file] = @ \cup {op[t].ent}]
  /\ corrupt' = (owner[op[t].ent] = None)
  /\ op' = [op EXCEPT ![t] = Idle]
  /\ UNCHANGED <<open, hash, owner, buffer, refcnt, contexts, overtaken>>

\* prl_vtg_clip_drawable: the file's drawable gets a new buffer.
Clip(t, f, id) ==
  LET e == hash[id] IN
  /\ Calls(t, f) /\ e # None /\ owner[e] = f
  /\ \E b \in Bufs :
       /\ refcnt[b] = 0
       /\ refcnt' = [refcnt EXCEPT ![b] = 1]
       /\ buffer' = [buffer EXCEPT ![e] = b]
  /\ op' = [op EXCEPT ![t] = [Idle EXCEPT !.pc = "put", !.file = f, !.buf = buffer[e]]]
  /\ UNCHANGED <<open, hash, owner, list, contexts, overtaken, corrupt>>

\* Seeded fault: the drawables of other files are found, too.
Destroy_Any(t, f, id) ==
  LET e == hash[id] IN
  /\ Calls(t, f) /\ e # None
  /\ hash' = [hash EXCEPT ![id] = None]
  /\ buffer' = [buffer EXCEPT ![e] = None]
  /\ op' = [op EXCEPT ![t] = [Idle EXCEPT !.pc = "unlink", !.file = f, !.ent = e,
                                          !.buf = buffer[e]]]
  /\ overtaken' = (overtaken \/ \E u \in Threads : At(u, "link") /\ op[u].ent = e)
  /\ UNCHANGED <<open, owner, list, refcnt, contexts, corrupt>>

\* prl_vtg_destroy_drawable: the file's drawable is taken from the hash ...
Destroy(t, f, id) ==
  LET e == hash[id] IN
  /\ Calls(t, f) /\ e # None /\ owner[e] = f
  /\ hash' = [hash EXCEPT ![id] = None]
  /\ buffer' = [buffer EXCEPT ![e] = None]
  /\ op' = [op EXCEPT ![t] = [Idle EXCEPT !.pc = "unlink", !.file = f, !.ent = e,
                                          !.buf = buffer[e]]]
  /\ overtaken' = (overtaken \/ \E u \in Threads : At(u, "link") /\ op[u].ent = e)
  /\ UNCHANGED <<open, owner, list, refcnt, contexts, corrupt>>

\* ... then from the list ...
Unlink(t) ==
  /\ Does(t, "unlink")
  /\ list' = [list EXCEPT ![op[t].file] = @ \ {op[t].ent}]
  /\ op' = [op EXCEPT ![t].pc = "free"]
  /\ UNCHANGED <<open, hash, owner, buffer, refcnt, contexts, overtaken, corrupt>>

\* ... and then its buffer is let go of and its memory freed.
FreeEntry(t) ==
  /\ Does(t, "free")
  /\ refcnt' = Put(op[t].buf)
  /\ owner' = [owner EXCEPT ![op[t].ent] = None]
  /\ corrupt' = (Bad(op[t].buf) \/ \E f \in Files : op[t].ent \in list[f])
  /\ op' = [op EXCEPT ![t] = Idle]
  /\ UNCHANGED <<open, hash, buffer, list, contexts, overtaken>>

\* Seeded fault: the buffer goes with the request, but is not referenced.
Command_Unheld(t, f, id) ==
  /\ Calls(t, f)
  /\ op' = [op EXCEPT ![t] = [Idle EXCEPT !.pc = "sent", !.file = f, !.buf = Found(id)]]
  /\ UNCHANGED <<open, drawables, contexts>>

\* prl_vtg_user_to_host_request of a GL command, sent with the buffer of a
\* drawable, whosever it is (vtg_buffer_replace).
Command(t, f, id) ==
  LET b == Found(id) IN
  /\ Calls(t, f)
  /\ refcnt' = IF b = None THEN refcnt ELSE [refcnt EXCEPT ![b] = @ + 1]
  /\ corrupt' = (Bad(b) \/ (hash[id] # None /\ owner[hash[id]] = None))
  /\ op' = [op EXCEPT ![t] = [Idle EXCEPT !.pc = "sent", !.file = f, !.buf = b]]
  /\ UNCHANGED <<open, hash, owner, buffer, list, overtaken, contexts>>

\* The command is answered, or the old buffer of a clip is let go of.
PutBuffer(t) ==
  /\ Does(t, "sent") \/ Does(t, "put")
  /\ refcnt' = Put(op[t].buf)
  /\ corrupt' = Bad(op[t].buf)
  /\ op' = [op EXCEPT ![t] = Idle]
  /\ UNCHANGED <<open, hash, owner, buffer, list, overtaken, contexts>>

-----------------------------------------------------------------------------
(* Contexts.  A request the host fails, or that a signal cancels, has no    *)
(* error for its caller (call_tg_sync), so it is taken for a success.       *)

Noted(f, c) == glctx[f][c] + Cardinality({t \in Threads : At(t, "made") /\ op[t].file = f})

\* GL_CREATE_CONTEXT: the host makes a context for the file, or it does not
\* and the handle is what the caller had put there.
MakeContext(t, f, c) ==
  /\ Calls(t, f) /\ Noted(f, c) < MaxCtx
  /\ ctx' \in {ctx} \cup {[ctx EXCEPT ![c] = f] : x \in {y \in {c} : ctx[y] = None}}
  /\ op' = [op EXCEPT ![t] = [Idle EXCEPT !.pc = "made", !.file = f, !.ctx = c]]
  /\ UNCHANGED <<open, drawables, glctx, slipped>>

\* Seeded fault: a context that is on the list is not noted again.
NoteContext_Once(t) ==
  /\ Does(t, "made")
  /\ glctx' = [glctx EXCEPT ![op[t].file][op[t].ctx] = 1]
  /\ op' = [op EXCEPT ![t] = Idle]
  /\ UNCHANGED <<open, drawables, ctx, slipped>>

\* vtg_glctx_created notes the context, if there is memory.
NoteContext(t) ==
  LET f == op[t].file  c == op[t].ctx IN
  /\ Does(t, "made")
  /\ \/ glctx' = [glctx EXCEPT ![f][c] = @ + 1] /\ UNCHANGED slipped
     \/ slipped' = slipped \cup {f} /\ UNCHANGED glctx
  /\ op' = [op EXCEPT ![t] = Idle]
  /\ UNCHANGED <<open, drawables, ctx>>

\* Asked by a file, the host destroys a context, or does not.  Only if it was
\* one of the file is it right to take back a note of it.
HostDestroys(f, c) ==
  \/ /\ ctx' = [ctx EXCEPT ![c] = None]
     /\ slipped' = slipped \cup ({f} \ {ctx[c]})
  \/ UNCHANGED ctx /\ slipped' = slipped \cup {f}

\* GL_DESTROY_CONTEXT, of whatever context ...
DestroyContext(t, f, c) ==
  /\ Calls(t, f) /\ HostDestroys(f, c)
  /\ op' = [op EXCEPT ![t] = [Idle EXCEPT !.pc = "gone", !.file = f, !.ctx = c]]
  /\ UNCHANGED <<open, drawables, glctx>>

\* ... and vtg_glctx_destroyed takes one note of it from the file's list.
ForgetContext(t) ==
  LET f == op[t].file  c == op[t].ctx IN
  /\ Does(t, "gone")
  /\ glctx' = [glctx EXCEPT ![f][c] = IF @ > 0 THEN @ - 1 ELSE 0]
  /\ op' = [op EXCEPT ![t] = Idle]
  /\ UNCHANGED <<open, drawables, ctx, slipped>>

-----------------------------------------------------------------------------
(* Files.                                                                  *)

Busy(f) == \E t \in Threads : op[t].file = f

\* prl_vtg_open_common.
Open(f) ==
  /\ f \notin open /\ ~Busy(f) /\ ~corrupt
  /\ open' = open \cup {f}
  /\ UNCHANGED <<drawables, contexts, op>>

\* The last close: no call on the file is under way (prl_vtg_release_common).
Close(t, f) ==
  /\ Calls(t, f) /\ ~Busy(f)
  /\ open' = open \ {f}
  /\ op' = [op EXCEPT ![t] = [Idle EXCEPT !.pc = "close", !.file = f]]
  /\ UNCHANGED <<drawables, contexts>>

\* A drawable is taken from the list ...
CloseUnlink(t) ==
  LET f == op[t].file IN
  /\ Does(t, "close")
  /\ \E e \in list[f] :
       /\ list' = [list EXCEPT ![f] = @ \ {e}]
       /\ corrupt' = (owner[e] = None)
       /\ op' = [op EXCEPT ![t].pc = "unhash", ![t].ent = e]
  /\ UNCHANGED <<open, hash, owner, buffer, refcnt, overtaken, contexts>>

\* Seeded fault: the entry is freed while the hash still has it.
CloseUnhash_Later(t) ==
  /\ Does(t, "unhash")
  /\ op' = [op EXCEPT ![t].pc = "drop", ![t].buf = None]
  /\ UNCHANGED <<open, drawables, contexts>>

\* ... then from the hash ...
CloseUnhash(t) ==
  /\ Does(t, "unhash")
  /\ hash' = [i \in Ids |-> IF hash[i] = op[t].ent THEN None ELSE hash[i]]
  /\ op' = [op EXCEPT ![t].pc = "drop"]
  /\ UNCHANGED <<open, owner, buffer, list, refcnt, overtaken, corrupt, contexts>>

\* ... and freed, its buffer let go of.
CloseDrop(t) ==
  LET e == op[t].ent IN
  /\ Does(t, "drop")
  /\ refcnt' = Put(buffer[e])
  /\ corrupt' = Bad(buffer[e])
  /\ owner' = [owner EXCEPT ![e] = None]
  /\ buffer' = [buffer EXCEPT ![e] = None]
  /\ op' = [op EXCEPT ![t].pc = "close", ![t].ent = None]
  /\ UNCHANGED <<open, hash, list, overtaken, contexts>>

\* When no drawable is left, the contexts are destroyed at the host.
CloseContext(t) ==
  LET f == op[t].file IN
  /\ Does(t, "close") /\ list[f] = {}
  /\ \E c \in Ctxs :
       /\ glctx[f][c] > 0
       /\ glctx' = [glctx EXCEPT ![f][c] = @ - 1]
       /\ HostDestroys(f, c)
  /\ UNCHANGED <<open, drawables, op>>

CloseDone(t) ==
  LET f == op[t].file IN
  /\ Does(t, "close") /\ list[f] = {} /\ \A c \in Ctxs : glctx[f][c] = 0
  /\ op' = [op EXCEPT ![t] = Idle]
  /\ UNCHANGED <<open, drawables, contexts>>

-----------------------------------------------------------------------------
Call(t, f) ==
  \/ \E id \in Ids : Create(t, f, id) \/ Clip(t, f, id) \/ Destroy(t, f, id) \/ Command(t, f, id)
  \/ \E c \in Ctxs : MakeContext(t, f, c) \/ DestroyContext(t, f, c)
  \/ Close(t, f)

Step(t) ==
  \/ Link(t) \/ Unlink(t) \/ FreeEntry(t) \/ PutBuffer(t)
  \/ NoteContext(t) \/ ForgetContext(t)
  \/ CloseUnlink(t) \/ CloseUnhash(t) \/ CloseDrop(t) \/ CloseContext(t) \/ CloseDone(t)

Next ==
  \/ \E t \in Threads : Step(t) \/ \E f \in Files : Call(t, f)
  \/ \E f \in Files : Open(f)

Spec == Init /\ [][Next]_vars

-----------------------------------------------------------------------------
(* Properties.                                                             *)

Holders(b) == {e \in Entries : buffer[e] = b} \cup {t \in Threads : op[t].buf = b}

\* As long as nothing is corrupt, the reference count of a clip buffer is the
\* number of drawables and calls that hold it: no command reads a freed buffer
\* and every buffer is freed (prlvtg.c:102-114, 138, 181, 273, 320, 373).
BuffersCounted ==
  TypeOK /\ (~corrupt => \A b \in Bufs : refcnt[b] = Cardinality(Holders(b)))

\* Freed memory is used only after a thread has destroyed a drawable that
\* another thread of the file was still creating (prlvtg.c:236-244, 257-275).
OnlyOvertaken == corrupt => overtaken

\* Where no drawable was overtaken: an entry in the hash is that of an open
\* file and on its list alone, or it is on its way there or away
\* (prlvtg.c:161-182, 213-246).
Placed ==
  ~overtaken =>
    \A id \in Ids : LET e == hash[id] IN
      e # None =>
        /\ \A i \in Ids : hash[i] = e => i = id
        /\ \/ /\ owner[e] \in open
              /\ e \in list[owner[e]] \/ \E t \in Threads : At(t, "link") /\ op[t].ent = e
           \/ \E t \in Threads : /\ op[t].pc \in {"close", "unhash", "drop"}
                                 /\ op[t].file = owner[e]
                                 /\ e \in list[owner[e]] \/ (At(t, "unhash") /\ op[t].ent = e)
        /\ \A f \in Files : e \in list[f] => f = owner[e]

\* A context the host has made for a file is noted there, or is about to be,
\* and does not outlive it.  Excepted are the files of which a note could not
\* be made for want of memory, or a call has destroyed no context of theirs and
\* was not told so (prlvtg.c:37-72, 184-199, 366-371, prltg_call.c:482-495).
ContextsNoted ==
  \A c \in Ctxs :
    LET f == ctx[c] IN
    f # None /\ f \notin slipped =>
      \/ glctx[f][c] > 0 /\ (f \in open \/ Busy(f))
      \/ \E t \in Threads : At(t, "made") /\ op[t].file = f /\ op[t].ctx = c
=============================================================================
