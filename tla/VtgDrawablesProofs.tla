-------------------------- MODULE VtgDrawablesProofs --------------------------
(***************************************************************************)
(* For any number of threads, files, drawables, buffers and contexts:      *)
(* memory is misused only after a drawable was destroyed while another     *)
(* thread was still creating it; clip buffers are counted; drawables are   *)
(* where they belong; and a context does not outlive its file unnoted.     *)
(*                                                                         *)
(* The argument, in layers, each inductive given those before it.          *)
(* Control: what a thread holds at each place, and that a file is closed   *)
(* by one thread, with no other in a call on it.  Counting: the reference  *)
(* counts.  Placing and Hashed: while nothing is corrupt, an entry has at  *)
(* most one thread that takes it down, is out of the hash before it is     *)
(* freed, and is found by whoever closes its file.  Careful: what an       *)
(* overtaken creation could break does not break without one.  Noting and  *)
(* Emptied: a file's notes of a context outnumber the destructions of it   *)
(* that are still to be noted, and none is left when the file is closed.   *)
(***************************************************************************)
EXTENDS VtgDrawables, TLAPS, FiniteSetTheorems

Closing == {"close", "unhash", "drop"}
Taking  == {"unlink", "free", "unhash", "drop"}

\* What a thread has, by where it is.
Shaped ==
  \A t \in Threads :
    /\ op[t].pc = "idle" => op[t] = Idle
    /\ op[t].pc # "idle" => op[t].file \in Files
    /\ op[t].pc \in Taking \cup {"link"} <=> op[t].ent # None
    /\ op[t].pc \notin {"unlink", "free", "put", "sent"} => op[t].buf = None
    /\ op[t].pc \in {"made", "gone"} <=> op[t].ctx # None

\* A call is on an open file; a file is closed by one thread that has it alone.
Entered ==
  /\ \A t \in Threads :
       /\ op[t].pc \notin {"idle"} \cup Closing => op[t].file \in open
       /\ op[t].pc \in Closing => op[t].file \notin open
  /\ \A t, u \in Threads :
       op[t].pc \in Closing /\ op[u].file = op[t].file => u = t

Control == TypeOK /\ Shaped /\ Entered

\* The places of entries: who takes an entry down is alone with it, and it
\* is out of the hash before it is freed.
Placing ==
  /\ \A i, j \in Ids : hash[i] = hash[j] /\ hash[i] # None => i = j
  /\ \A i \in Ids : hash[i] # None => owner[hash[i]] # None
  /\ \A f \in Files : \A e \in list[f] : owner[e] = f
  /\ \A t \in Threads : op[t].pc = "link" => owner[op[t].ent] \in {None, op[t].file}
  /\ \A t \in Threads : op[t].pc \in Taking => owner[op[t].ent] = op[t].file
  /\ \A t \in Threads : op[t].pc \in Taking \ {"unhash"} =>
       \A i \in Ids : hash[i] # op[t].ent
  /\ \A t \in Threads : op[t].pc \in {"unhash", "drop"} =>
       \A f \in Files : op[t].ent \notin list[f]
  /\ \A t, u \in Threads :
       op[t].pc \in Taking /\ op[u].pc \in Taking /\ op[t].ent = op[u].ent => t = u

\* An entry in the hash is on its file's list or on
\* its way there or away, and its file is open or being closed.
Hashed ==
  \A i \in Ids : hash[i] # None =>
    /\ \/ hash[i] \in list[owner[hash[i]]]
       \/ \E t \in Threads : op[t].pc \in {"link", "unhash"} /\ op[t].ent = hash[i]
    /\ \/ owner[hash[i]] \in open
       \/ \E t \in Threads : op[t].pc \in Closing /\ op[t].file = owner[hash[i]]

\* Without an overtaken creation, an entry on its way to the list is in the
\* hash, and one that is to be freed is on no list.
Careful ==
  \A t \in Threads :
    /\ op[t].pc = "link" => \E i \in Ids : hash[i] = op[t].ent
    /\ op[t].pc = "free" => \A f \in Files : op[t].ent \notin list[f]

\* The reference counts; like the places, they are right while nothing is corrupt.
Counting == \A b \in Bufs : refcnt[b] = Cardinality(Holders(b))

Counted  == ~corrupt => Counting
OnePlace == ~corrupt => Placing
Findable == ~corrupt => Hashed
InOrder  == ~overtaken => Careful

\* The calls that have had a context made or destroyed and not noted it yet.
Making(f, c)     == {t \in Threads : op[t].pc = "made" /\ op[t].file = f /\ op[t].ctx = c}
Destroying(f, c) == {t \in Threads : op[t].pc = "gone" /\ op[t].file = f /\ op[t].ctx = c}

\* A file that is closed has no notes left.
Emptied == \A f \in Files : f \in open \/ Busy(f) \/ \A c \in Ctxs : glctx[f][c] = 0

\* A file's notes of a context, and what is about to be noted.
Noting ==
  \A f \in Files \ slipped, c \in Ctxs :
    glctx[f][c] + Cardinality(Making(f, c)) >=
      Cardinality(Destroying(f, c)) + (IF ctx[c] = f THEN 1 ELSE 0)

\* What a thread does next is an operation.
LEMMA NewOp ==
  ASSUME op \in [Threads -> Ops], NEW t \in Threads, NEW x \in Ops, op' = [op EXCEPT ![t] = x]
  PROVE  op' \in [Threads -> Ops]
OBVIOUS

\* What a thread has keeps its type.
LEMMA OpFields ==
  ASSUME op \in [Threads -> Ops], NEW t \in Threads
  PROVE  /\ op[t].file \in Files \cup {None} /\ op[t].ent \in Entries \cup {None}
         /\ op[t].buf \in Bufs \cup {None} /\ op[t].ctx \in Ctxs \cup {None}
BY DEF Ops

\* A buffer let go of keeps its type.
LEMMA PutType ==
  ASSUME refcnt \in [Bufs -> Nat], NEW b \in Bufs \cup {None}
  PROVE  Put(b) \in [Bufs -> Nat]
BY DEF Put

\* Types.
LEMMA TypeNext ==
  Shaped /\ TypeOK /\ [Next]_vars => TypeOK'
<1> SUFFICES ASSUME Shaped, TypeOK, [Next]_vars PROVE TypeOK'
  OBVIOUS
<1> USE VtgAssumption DEF TypeOK, Shaped, PCs, Closing, Taking, Calls, Does, At, Busy,
        Idle, drawables, contexts, Bad, Found
<1>1. ASSUME NEW f \in Files, Open(f) PROVE TypeOK'
  BY <1>1 DEF Open, Ops
<1>2. ASSUME NEW t \in Threads, NEW f \in Files, NEW id \in Ids, Create(t, f, id) PROVE TypeOK'
  <2>1. op' \in [Threads -> Ops]
    <3>1. PICK e \in Entries : op' = [op EXCEPT ![t] =
            [Idle EXCEPT !.pc = "link", !.file = f, !.ent = e]]
      BY <1>2 DEF Create
    <3>2. f \in Files
      BY <1>2 DEF Create
    <3>3. [Idle EXCEPT !.pc = "link", !.file = f, !.ent = e] \in Ops
      BY <3>2 DEF Ops
    <3> QED BY <3>1, <3>3, NewOp
  <2> QED BY <1>2, <2>1 DEF Create
<1>3. ASSUME NEW t \in Threads, NEW f \in Files, NEW id \in Ids, Clip(t, f, id) PROVE TypeOK'
  <2>1. op' \in [Threads -> Ops]
    <3>1. op' = [op EXCEPT ![t] = [Idle EXCEPT !.pc = "put", !.file = f, !.buf = buffer[hash[id]]]]
      BY <1>3 DEF Clip
    <3>2. buffer[hash[id]] \in Bufs \cup {None}
      BY <1>3 DEF Clip
    <3>3. [Idle EXCEPT !.pc = "put", !.file = f, !.buf = buffer[hash[id]]] \in Ops
      BY <3>2 DEF Ops
    <3> QED BY <3>1, <3>3, NewOp
  <2> QED BY <1>3, <2>1 DEF Clip
<1>4. ASSUME NEW t \in Threads, NEW f \in Files, NEW id \in Ids, Destroy(t, f, id) PROVE TypeOK'
  <2>1. op' \in [Threads -> Ops]
    <3>1. op' = [op EXCEPT ![t] =
            [Idle EXCEPT !.pc = "unlink", !.file = f, !.ent = hash[id], !.buf = buffer[hash[id]]]]
      BY <1>4 DEF Destroy
    <3>2. hash[id] \in Entries /\ buffer[hash[id]] \in Bufs \cup {None}
      BY <1>4 DEF Destroy
    <3>3. [Idle EXCEPT !.pc = "unlink", !.file = f, !.ent = hash[id], !.buf = buffer[hash[id]]] \in Ops
      BY <3>2 DEF Ops
    <3> QED BY <3>1, <3>3, NewOp
  <2> QED BY <1>4, <2>1 DEF Destroy
<1>5. ASSUME NEW t \in Threads, NEW f \in Files, NEW id \in Ids, Command(t, f, id) PROVE TypeOK'
  <2>1. op' \in [Threads -> Ops]
    <3>1. op' = [op EXCEPT ![t] = [Idle EXCEPT !.pc = "sent", !.file = f, !.buf = Found(id)]]
      BY <1>5 DEF Command
    <3>2. Found(id) \in Bufs \cup {None}
      BY <1>5 DEF Command
    <3>3. [Idle EXCEPT !.pc = "sent", !.file = f, !.buf = Found(id)] \in Ops
      BY <3>2 DEF Ops
    <3> QED BY <3>1, <3>3, NewOp
  <2> QED BY <1>5, <2>1 DEF Command
<1>6. ASSUME NEW t \in Threads, NEW f \in Files, NEW c \in Ctxs, MakeContext(t, f, c)
      PROVE TypeOK'
  <2>1. op' \in [Threads -> Ops]
    BY <1>6 DEF MakeContext, Ops
  <2>6. glctx' \in [Files -> [Ctxs -> Nat]] /\ ctx' \in [Ctxs -> Files \cup {None}]
    BY <1>6 DEF MakeContext
  <2> QED BY <1>6, <2>1, <2>6 DEF MakeContext
<1>7. ASSUME NEW t \in Threads, NEW f \in Files, NEW c \in Ctxs, DestroyContext(t, f, c)
      PROVE TypeOK'
  <2>1. op' \in [Threads -> Ops]
    BY <1>7 DEF DestroyContext, Ops
  <2>2. open' \subseteq Files /\ slipped' \subseteq Files
    BY <1>7 DEF DestroyContext, HostDestroys
  <2>6. glctx' \in [Files -> [Ctxs -> Nat]] /\ ctx' \in [Ctxs -> Files \cup {None}]
    BY <1>7 DEF DestroyContext, HostDestroys
  <2> QED BY <1>7, <2>1, <2>2, <2>6 DEF DestroyContext
<1>8. ASSUME NEW t \in Threads, NEW f \in Files, Close(t, f) PROVE TypeOK'
  BY <1>8 DEF Close, Ops
<1>9. ASSUME NEW t \in Threads, Link(t) PROVE TypeOK'
  <2>1. op' \in [Threads -> Ops]
    BY <1>9 DEF Link, Ops
  <2>5. list' \in [Files -> SUBSET Entries]
    BY <1>9, OpFields DEF Link
  <2> QED BY <1>9, <2>1, <2>5 DEF Link
<1>10. ASSUME NEW t \in Threads, Unlink(t) PROVE TypeOK'
  <2>1. op' \in [Threads -> Ops]
    <3>1. op' = [op EXCEPT ![t] = [op[t] EXCEPT !.pc = "free"]]
      BY <1>10 DEF Unlink
    <3>2. op[t] \in Ops
      BY <1>10 DEF Unlink
    <3>3. [op[t] EXCEPT !.pc = "free"] \in Ops
      BY <3>2 DEF Ops
    <3> QED BY <3>1, <3>3, NewOp
  <2> QED BY <1>10, <2>1 DEF Unlink
<1>11. ASSUME NEW t \in Threads, FreeEntry(t) PROVE TypeOK'
  <2>1. op' \in [Threads -> Ops]
    BY <1>11 DEF FreeEntry, Ops
  <2>4. buffer' \in [Entries -> Bufs \cup {None}] /\ refcnt' \in [Bufs -> Nat]
    BY <1>11, PutType, OpFields DEF FreeEntry
  <2> QED BY <1>11, <2>1, <2>4 DEF FreeEntry
<1>12. ASSUME NEW t \in Threads, PutBuffer(t) PROVE TypeOK'
  <2>1. op' \in [Threads -> Ops]
    BY <1>12 DEF PutBuffer, Ops
  <2>4. buffer' \in [Entries -> Bufs \cup {None}] /\ refcnt' \in [Bufs -> Nat]
    BY <1>12, PutType, OpFields DEF PutBuffer
  <2> QED BY <1>12, <2>1, <2>4 DEF PutBuffer
<1>13. ASSUME NEW t \in Threads, NoteContext(t) PROVE TypeOK'
  <2>1. op' \in [Threads -> Ops]
    BY <1>13 DEF NoteContext, Ops
  <2>6. glctx' \in [Files -> [Ctxs -> Nat]] /\ ctx' \in [Ctxs -> Files \cup {None}]
    <3>1. glctx[op[t].file][op[t].ctx] \in Nat /\ op[t].file \in Files /\ op[t].ctx \in Ctxs
      BY <1>13, OpFields DEF NoteContext
    <3>2. \/ glctx' = glctx
          \/ glctx' = [glctx EXCEPT ![op[t].file] = [glctx[op[t].file] EXCEPT ![op[t].ctx] = glctx[op[t].file][op[t].ctx] + 1]]
      BY <1>13 DEF NoteContext
    <3>3. ctx' = ctx
      BY <1>13 DEF NoteContext
    <3>4. glctx[op[t].file] \in [Ctxs -> Nat] /\ glctx[op[t].file][op[t].ctx] + 1 \in Nat
      BY <3>1
    <3>5. [glctx EXCEPT ![op[t].file] = [glctx[op[t].file] EXCEPT ![op[t].ctx] = glctx[op[t].file][op[t].ctx] + 1]]
            \in [Files -> [Ctxs -> Nat]]
      BY <3>1, <3>4
    <3> QED BY <3>2, <3>3, <3>5, Zenon
  <2> QED BY <1>13, <2>1, <2>6 DEF NoteContext
<1>14. ASSUME NEW t \in Threads, ForgetContext(t) PROVE TypeOK'
  <2>1. op' \in [Threads -> Ops]
    BY <1>14 DEF ForgetContext, Ops
  <2>6. glctx' \in [Files -> [Ctxs -> Nat]] /\ ctx' \in [Ctxs -> Files \cup {None}]
    <3>1. glctx[op[t].file] \in [Ctxs -> Nat] /\ op[t].file \in Files /\ op[t].ctx \in Ctxs
      BY <1>14, OpFields DEF ForgetContext
    <3>2. glctx' = [glctx EXCEPT ![op[t].file] = [glctx[op[t].file] EXCEPT ![op[t].ctx] =
                       IF glctx[op[t].file][op[t].ctx] > 0 THEN glctx[op[t].file][op[t].ctx] - 1 ELSE 0]]
      BY <1>14, <3>1 DEF ForgetContext
    <3>3. (IF glctx[op[t].file][op[t].ctx] > 0 THEN glctx[op[t].file][op[t].ctx] - 1 ELSE 0) \in Nat
      BY <3>1
    <3>4. ctx' = ctx
      BY <1>14 DEF ForgetContext
    <3> QED BY <3>1, <3>2, <3>3, <3>4
  <2> QED BY <1>14, <2>1, <2>6 DEF ForgetContext
<1>15. ASSUME NEW t \in Threads, CloseUnlink(t) PROVE TypeOK'
  <2>1. op' \in [Threads -> Ops]
    <3>1. PICK e \in Entries : op' = [op EXCEPT ![t].pc = "unhash", ![t].ent = e]
      BY <1>15 DEF CloseUnlink
    <3>2. op[t] \in Ops
      OBVIOUS
    <3>3. [op[t] EXCEPT !.pc = "unhash", !.ent = e] \in Ops
      BY <3>2 DEF Ops
    <3>4. op' = [op EXCEPT ![t] = [op[t] EXCEPT !.pc = "unhash", !.ent = e]]
      BY <3>1
    <3> QED BY <3>3, <3>4, NewOp
  <2> QED BY <1>15, <2>1 DEF CloseUnlink
<1>16. ASSUME NEW t \in Threads, CloseUnhash(t) PROVE TypeOK'
  BY SMTT(40), <1>16 DEF CloseUnhash, Ops
<1>17. ASSUME NEW t \in Threads, CloseDrop(t) PROVE TypeOK'
  <2>1. op' \in [Threads -> Ops]
    BY <1>17 DEF CloseDrop, Ops
  <2>4. buffer' \in [Entries -> Bufs \cup {None}] /\ refcnt' \in [Bufs -> Nat]
    BY <1>17, PutType, OpFields DEF CloseDrop
  <2> QED BY <1>17, <2>1, <2>4 DEF CloseDrop
<1>18. ASSUME NEW t \in Threads, CloseContext(t) PROVE TypeOK'
  <2>1. op' \in [Threads -> Ops]
    BY <1>18 DEF CloseContext, Ops
  <2>2. open' \subseteq Files /\ slipped' \subseteq Files
    BY <1>18, OpFields DEF CloseContext, HostDestroys
  <2>6. glctx' \in [Files -> [Ctxs -> Nat]] /\ ctx' \in [Ctxs -> Files \cup {None}]
    <3>1. op[t].file \in Files /\ glctx[op[t].file] \in [Ctxs -> Nat]
      BY <1>18, OpFields DEF CloseContext
    <3>2. PICK c \in Ctxs : /\ glctx[op[t].file][c] > 0 /\ HostDestroys(op[t].file, c)
                          /\ glctx' = [glctx EXCEPT ![op[t].file] = [glctx[op[t].file] EXCEPT ![c] = @ - 1]]
      BY <1>18 DEF CloseContext
    <3>3. glctx[op[t].file][c] - 1 \in Nat
      BY <3>1, <3>2
    <3>4. ctx' \in [Ctxs -> Files \cup {None}]
      BY <3>2 DEF HostDestroys
    <3> QED BY <3>1, <3>2, <3>3, <3>4
  <2> QED BY <1>18, <2>1, <2>2, <2>6 DEF CloseContext
<1>19. ASSUME NEW t \in Threads, CloseDone(t) PROVE TypeOK'
  BY <1>19 DEF CloseDone, Ops
<1>20. CASE UNCHANGED vars
  BY <1>20 DEF vars, drawables, contexts
<1> QED BY <1>1, <1>2, <1>3, <1>4, <1>5, <1>6, <1>7, <1>8, <1>9, <1>10, <1>11, <1>12,
     <1>13, <1>14, <1>15, <1>16, <1>17, <1>18, <1>19, <1>20 DEF Next, Step, Call

\* What a thread has.
LEMMA ShapedNext ==
  TypeOK /\ Shaped /\ [Next]_vars => Shaped'
<1> SUFFICES ASSUME TypeOK, Shaped, [Next]_vars PROVE Shaped'
  OBVIOUS
<1> USE VtgAssumption DEF TypeOK, Shaped, Ops, PCs, Closing, Taking, Calls, Does, At,
        Busy, Idle, drawables, contexts, Found
<1>1. ASSUME NEW f \in Files, Open(f) PROVE Shaped'
  BY <1>1 DEF Open
<1>2. ASSUME NEW t \in Threads, NEW f \in Files, NEW id \in Ids, Create(t, f, id) PROVE Shaped'
  BY <1>2 DEF Create
<1>3. ASSUME NEW t \in Threads, NEW f \in Files, NEW id \in Ids, Clip(t, f, id) PROVE Shaped'
  BY <1>3 DEF Clip
<1>4. ASSUME NEW t \in Threads, NEW f \in Files, NEW id \in Ids, Destroy(t, f, id) PROVE Shaped'
  BY <1>4 DEF Destroy
<1>5. ASSUME NEW t \in Threads, NEW f \in Files, NEW id \in Ids, Command(t, f, id) PROVE Shaped'
  BY <1>5 DEF Command
<1>6. ASSUME NEW t \in Threads, NEW f \in Files, NEW c \in Ctxs, MakeContext(t, f, c)
      PROVE Shaped'
  BY <1>6 DEF MakeContext
<1>7. ASSUME NEW t \in Threads, NEW f \in Files, NEW c \in Ctxs, DestroyContext(t, f, c)
      PROVE Shaped'
  BY <1>7 DEF DestroyContext
<1>8. ASSUME NEW t \in Threads, NEW f \in Files, Close(t, f) PROVE Shaped'
  BY <1>8 DEF Close
<1>9. ASSUME NEW t \in Threads, Link(t) PROVE Shaped'
  BY <1>9 DEF Link
<1>10. ASSUME NEW t \in Threads, Unlink(t) PROVE Shaped'
  BY <1>10 DEF Unlink
<1>11. ASSUME NEW t \in Threads, FreeEntry(t) PROVE Shaped'
  BY <1>11 DEF FreeEntry
<1>12. ASSUME NEW t \in Threads, PutBuffer(t) PROVE Shaped'
  BY <1>12 DEF PutBuffer
<1>13. ASSUME NEW t \in Threads, NoteContext(t) PROVE Shaped'
  BY <1>13 DEF NoteContext
<1>14. ASSUME NEW t \in Threads, ForgetContext(t) PROVE Shaped'
  BY <1>14 DEF ForgetContext
<1>15. ASSUME NEW t \in Threads, CloseUnlink(t) PROVE Shaped'
  BY <1>15 DEF CloseUnlink
<1>16. ASSUME NEW t \in Threads, CloseUnhash(t) PROVE Shaped'
  BY <1>16 DEF CloseUnhash
<1>17. ASSUME NEW t \in Threads, CloseDrop(t) PROVE Shaped'
  BY <1>17 DEF CloseDrop
<1>18. ASSUME NEW t \in Threads, CloseContext(t) PROVE Shaped'
  BY <1>18 DEF CloseContext
<1>19. ASSUME NEW t \in Threads, CloseDone(t) PROVE Shaped'
  BY <1>19 DEF CloseDone
<1>20. CASE UNCHANGED vars
  BY <1>20 DEF vars, drawables, contexts
<1> QED BY <1>1, <1>2, <1>3, <1>4, <1>5, <1>6, <1>7, <1>8, <1>9, <1>10, <1>11, <1>12,
     <1>13, <1>14, <1>15, <1>16, <1>17, <1>18, <1>19, <1>20 DEF Next, Step, Call

\* A file is closed by one thread that has it alone.
LEMMA EnteredNext ==
  TypeOK /\ Shaped /\ Entered /\ [Next]_vars => Entered'
<1> SUFFICES ASSUME TypeOK, Shaped, Entered, [Next]_vars PROVE Entered'
  OBVIOUS
<1> USE VtgAssumption DEF TypeOK, Shaped, Entered, Ops, PCs, Closing, Taking, Calls, Does,
        At, Busy, Idle, drawables, contexts, Found
<1>1. ASSUME NEW f \in Files, Open(f) PROVE Entered'
  BY <1>1 DEF Open
<1>2. ASSUME NEW t \in Threads, NEW f \in Files, NEW id \in Ids, Create(t, f, id) PROVE Entered'
  BY <1>2 DEF Create
<1>3. ASSUME NEW t \in Threads, NEW f \in Files, NEW id \in Ids, Clip(t, f, id) PROVE Entered'
  BY <1>3 DEF Clip
<1>4. ASSUME NEW t \in Threads, NEW f \in Files, NEW id \in Ids, Destroy(t, f, id)
      PROVE Entered'
  BY <1>4 DEF Destroy
<1>5. ASSUME NEW t \in Threads, NEW f \in Files, NEW id \in Ids, Command(t, f, id)
      PROVE Entered'
  BY <1>5 DEF Command
<1>6. ASSUME NEW t \in Threads, NEW f \in Files, NEW c \in Ctxs, MakeContext(t, f, c)
      PROVE Entered'
  BY <1>6 DEF MakeContext
<1>7. ASSUME NEW t \in Threads, NEW f \in Files, NEW c \in Ctxs, DestroyContext(t, f, c)
      PROVE Entered'
  BY <1>7 DEF DestroyContext
<1>8. ASSUME NEW t \in Threads, NEW f \in Files, Close(t, f) PROVE Entered'
  BY <1>8 DEF Close
<1>9. ASSUME NEW t \in Threads, Link(t) PROVE Entered'
  BY <1>9 DEF Link
<1>10. ASSUME NEW t \in Threads, Unlink(t) PROVE Entered'
  BY <1>10 DEF Unlink
<1>11. ASSUME NEW t \in Threads, FreeEntry(t) PROVE Entered'
  BY <1>11 DEF FreeEntry
<1>12. ASSUME NEW t \in Threads, PutBuffer(t) PROVE Entered'
  BY <1>12 DEF PutBuffer
<1>13. ASSUME NEW t \in Threads, NoteContext(t) PROVE Entered'
  BY <1>13 DEF NoteContext
<1>14. ASSUME NEW t \in Threads, ForgetContext(t) PROVE Entered'
  BY <1>14 DEF ForgetContext
<1>15. ASSUME NEW t \in Threads, CloseUnlink(t) PROVE Entered'
  BY <1>15 DEF CloseUnlink
<1>16. ASSUME NEW t \in Threads, CloseUnhash(t) PROVE Entered'
  BY <1>16 DEF CloseUnhash
<1>17. ASSUME NEW t \in Threads, CloseDrop(t) PROVE Entered'
  BY <1>17 DEF CloseDrop
<1>18. ASSUME NEW t \in Threads, CloseContext(t) PROVE Entered'
  BY <1>18 DEF CloseContext
<1>19. ASSUME NEW t \in Threads, CloseDone(t) PROVE Entered'
  BY <1>19 DEF CloseDone
<1>20. CASE UNCHANGED vars
  BY <1>20 DEF vars, drawables, contexts
<1> QED BY <1>1, <1>2, <1>3, <1>4, <1>5, <1>6, <1>7, <1>8, <1>9, <1>10, <1>11, <1>12,
     <1>13, <1>14, <1>15, <1>16, <1>17, <1>18, <1>19, <1>20 DEF Next, Step, Call

\* An entry is taken down by one thread, and out of the hash before it is freed.
LEMMA PlacingNext ==
  Control /\ OnePlace /\ [Next]_vars => OnePlace'
<1> SUFFICES ASSUME Control, OnePlace, [Next]_vars PROVE OnePlace'
  OBVIOUS
<1> USE VtgAssumption DEF Placing, Free, Counted, OnePlace, Findable, InOrder,
        OnlyOvertaken, Control, TypeOK, Shaped, Entered, Closing, Taking, Calls, Does, At,
        Busy, Idle, drawables, contexts
<1>1. ASSUME NEW f \in Files, Open(f) PROVE OnePlace'
  BY <1>1 DEF Open
<1>2. ASSUME NEW t \in Threads, NEW f \in Files, NEW id \in Ids, Create(t, f, id)
      PROVE OnePlace'
  BY <1>2 DEF Create
<1>3. ASSUME NEW t \in Threads, NEW f \in Files, NEW id \in Ids, Clip(t, f, id) PROVE OnePlace'
  BY <1>3 DEF Clip
<1>4. ASSUME NEW t \in Threads, NEW f \in Files, NEW id \in Ids, Destroy(t, f, id)
      PROVE OnePlace'
  <2> SUFFICES ASSUME ~corrupt' PROVE Placing'
    OBVIOUS
  <2>0. ~corrupt
    BY <1>4 DEF Destroy
  <2>1. \A i, j \in Ids : hash'[i] = hash'[j] /\ hash'[i] # None => i = j
    BY <1>4, <2>0 DEF Destroy
  <2>2. \A i \in Ids : hash'[i] # None => owner'[hash'[i]] # None
    BY <1>4, <2>0 DEF Destroy
  <2>3. \A g \in Files : \A e \in list'[g] : owner'[e] = g
    BY <1>4, <2>0 DEF Destroy
  <2>4. \A u \in Threads : op'[u].pc = "link" => owner'[op'[u].ent] \in {None, op'[u].file}
    BY <1>4, <2>0 DEF Destroy
  <2>5. \A u \in Threads : op'[u].pc \in Taking => owner'[op'[u].ent] = op'[u].file
    BY <1>4, <2>0 DEF Destroy
  <2>6. \A u \in Threads : op'[u].pc \in Taking \ {"unhash"} => \A i \in Ids : hash'[i] # op'[u].ent
    BY <1>4, <2>0 DEF Destroy
  <2>7. \A u \in Threads :
        op'[u].pc \in {"unhash", "drop"} => \A g \in Files : op'[u].ent \notin list'[g]
    BY <1>4, <2>0 DEF Destroy
  <2>8. \A u, v \in Threads :
        op'[u].pc \in Taking /\ op'[v].pc \in Taking /\ op'[u].ent = op'[v].ent => u = v
    BY <1>4, <2>0 DEF Destroy
  <2> QED BY <2>1, <2>2, <2>3, <2>4, <2>5, <2>6, <2>7, <2>8
<1>5. ASSUME NEW t \in Threads, NEW f \in Files, NEW id \in Ids, Command(t, f, id)
      PROVE OnePlace'
  BY <1>5 DEF Command
<1>6. ASSUME NEW t \in Threads, NEW f \in Files, NEW c \in Ctxs, MakeContext(t, f, c)
      PROVE OnePlace'
  BY <1>6 DEF MakeContext
<1>7. ASSUME NEW t \in Threads, NEW f \in Files, NEW c \in Ctxs, DestroyContext(t, f, c)
      PROVE OnePlace'
  BY <1>7 DEF DestroyContext
<1>8. ASSUME NEW t \in Threads, NEW f \in Files, Close(t, f) PROVE OnePlace'
  BY <1>8 DEF Close
<1>9. ASSUME NEW t \in Threads, Link(t) PROVE OnePlace'
  <2> SUFFICES ASSUME ~corrupt' PROVE Placing'
    OBVIOUS
  <2>0. ~corrupt
    BY <1>9 DEF Link
  <2>1. \A i, j \in Ids : hash'[i] = hash'[j] /\ hash'[i] # None => i = j
    BY <1>9, <2>0 DEF Link
  <2>2. \A i \in Ids : hash'[i] # None => owner'[hash'[i]] # None
    BY <1>9, <2>0 DEF Link
  <2>3. \A g \in Files : \A e \in list'[g] : owner'[e] = g
    <3>1. owner[op[t].ent] # None /\ op[t].pc = "link"
      BY <1>9 DEF Link
    <3>2. owner[op[t].ent] = op[t].file
      BY <2>0, <3>1
    <3>3. \A g \in Files : \A e \in list'[g] : e \in list[g] \/ (g = op[t].file /\ e = op[t].ent)
      BY <1>9 DEF Link
    <3>4. owner' = owner
      BY <1>9 DEF Link
    <3> QED BY <2>0, <3>2, <3>3, <3>4
  <2>4. \A u \in Threads : op'[u].pc = "link" => owner'[op'[u].ent] \in {None, op'[u].file}
    BY <1>9, <2>0 DEF Link
  <2>5. \A u \in Threads : op'[u].pc \in Taking => owner'[op'[u].ent] = op'[u].file
    BY <1>9, <2>0 DEF Link
  <2>6. \A u \in Threads : op'[u].pc \in Taking \ {"unhash"} => \A i \in Ids : hash'[i] # op'[u].ent
    BY <1>9, <2>0 DEF Link
  <2>7. \A u \in Threads :
        op'[u].pc \in {"unhash", "drop"} => \A g \in Files : op'[u].ent \notin list'[g]
    <3> SUFFICES ASSUME NEW u \in Threads, op'[u].pc \in {"unhash", "drop"},
                        NEW g \in Files, op'[u].ent \in list'[g]
                 PROVE  FALSE
      OBVIOUS
    <3>1. u # t /\ op'[u] = op[u]
      BY <1>9 DEF Link
    <3>2. op[u].ent \notin list[g]
      BY <2>0, <3>1
    <3>3. g = op[t].file /\ op[u].ent = op[t].ent
      BY <1>9, <3>1, <3>2 DEF Link
    <3>4. owner[op[t].ent] # None /\ op[t].pc = "link"
      BY <1>9 DEF Link
    <3>5. owner[op[t].ent] = op[t].file /\ owner[op[u].ent] = op[u].file
      BY <2>0, <3>1, <3>4
    <3> QED BY <3>1, <3>3, <3>5
  <2>8. \A u, v \in Threads :
        op'[u].pc \in Taking /\ op'[v].pc \in Taking /\ op'[u].ent = op'[v].ent => u = v
    BY <1>9, <2>0 DEF Link
  <2> QED BY <2>1, <2>2, <2>3, <2>4, <2>5, <2>6, <2>7, <2>8
<1>10. ASSUME NEW t \in Threads, Unlink(t) PROVE OnePlace'
  BY <1>10 DEF Unlink
<1>11. ASSUME NEW t \in Threads, FreeEntry(t) PROVE OnePlace'
  <2> SUFFICES ASSUME ~corrupt' PROVE Placing'
    OBVIOUS
  <2>0. ~corrupt
    BY <1>11 DEF FreeEntry
  <2>1. \A i, j \in Ids : hash'[i] = hash'[j] /\ hash'[i] # None => i = j
    BY <1>11, <2>0 DEF FreeEntry
  <2>2. \A i \in Ids : hash'[i] # None => owner'[hash'[i]] # None
    BY <1>11, <2>0 DEF FreeEntry
  <2>3. \A g \in Files : \A e \in list'[g] : owner'[e] = g
    <3>1. \A g \in Files : op[t].ent \notin list[g]
      BY <1>11 DEF FreeEntry
    <3>2. \A g \in Files : \A e \in list[g] : owner'[e] = owner[e]
      BY <1>11, <3>1 DEF FreeEntry
    <3>3. list' = list
      BY <1>11 DEF FreeEntry
    <3> QED BY <2>0, <3>2, <3>3
  <2>4. \A u \in Threads : op'[u].pc = "link" => owner'[op'[u].ent] \in {None, op'[u].file}
    BY <1>11, <2>0 DEF FreeEntry
  <2>5. \A u \in Threads : op'[u].pc \in Taking => owner'[op'[u].ent] = op'[u].file
    BY <1>11, <2>0 DEF FreeEntry
  <2>6. \A u \in Threads : op'[u].pc \in Taking \ {"unhash"} => \A i \in Ids : hash'[i] # op'[u].ent
    BY <1>11, <2>0 DEF FreeEntry
  <2>7. \A u \in Threads :
        op'[u].pc \in {"unhash", "drop"} => \A g \in Files : op'[u].ent \notin list'[g]
    BY <1>11, <2>0 DEF FreeEntry
  <2>8. \A u, v \in Threads :
        op'[u].pc \in Taking /\ op'[v].pc \in Taking /\ op'[u].ent = op'[v].ent => u = v
    BY <1>11, <2>0 DEF FreeEntry
  <2> QED BY <2>1, <2>2, <2>3, <2>4, <2>5, <2>6, <2>7, <2>8
<1>12. ASSUME NEW t \in Threads, PutBuffer(t) PROVE OnePlace'
  BY <1>12 DEF PutBuffer
<1>13. ASSUME NEW t \in Threads, NoteContext(t) PROVE OnePlace'
  BY <1>13 DEF NoteContext
<1>14. ASSUME NEW t \in Threads, ForgetContext(t) PROVE OnePlace'
  BY <1>14 DEF ForgetContext
<1>15. ASSUME NEW t \in Threads, CloseUnlink(t) PROVE OnePlace'
  BY <1>15 DEF CloseUnlink
<1>16. ASSUME NEW t \in Threads, CloseUnhash(t) PROVE OnePlace'
  BY <1>16 DEF CloseUnhash
<1>17. ASSUME NEW t \in Threads, CloseDrop(t) PROVE OnePlace'
  BY <1>17 DEF CloseDrop
<1>18. ASSUME NEW t \in Threads, CloseContext(t) PROVE OnePlace'
  BY <1>18 DEF CloseContext
<1>19. ASSUME NEW t \in Threads, CloseDone(t) PROVE OnePlace'
  BY <1>19 DEF CloseDone
<1>20. CASE UNCHANGED vars
  BY <1>20 DEF vars, drawables, contexts
<1> QED BY <1>1, <1>2, <1>3, <1>4, <1>5, <1>6, <1>7, <1>8, <1>9, <1>10, <1>11, <1>12,
     <1>13, <1>14, <1>15, <1>16, <1>17, <1>18, <1>19, <1>20 DEF Next, Step, Call

\* An entry in the hash can be found by whoever closes its file.
LEMMA HashedNext ==
  Control /\ OnePlace /\ Findable /\ [Next]_vars => Findable'
<1> SUFFICES ASSUME Control, OnePlace, Findable, [Next]_vars PROVE Findable'
  OBVIOUS
<1> USE VtgAssumption DEF Placing, Hashed, Free, Counted, OnePlace, Findable, InOrder,
        OnlyOvertaken, Control, TypeOK, Shaped, Entered, Closing, Taking, Calls, Does, At,
        Busy, Idle, drawables, contexts
<1>1. ASSUME NEW f \in Files, Open(f) PROVE Findable'
  BY <1>1 DEF Open
<1>2. ASSUME NEW t \in Threads, NEW f \in Files, NEW id \in Ids, Create(t, f, id)
      PROVE Findable'
  <2> SUFFICES ASSUME ~corrupt', NEW i \in Ids, hash'[i] # None
               PROVE  /\ \/ hash'[i] \in list'[owner'[hash'[i]]]
                         \/ \E u \in Threads : op'[u].pc \in {"link", "unhash"} /\ op'[u].ent = hash'[i]
                      /\ \/ owner'[hash'[i]] \in open'
                         \/ \E u \in Threads : op'[u].pc \in Closing /\ op'[u].file = owner'[hash'[i]]
    OBVIOUS
  <2>1. ~corrupt
    BY <1>2 DEF Create
  <2>2. PICK e \in Entries : /\ owner[e] = None
                             /\ hash' = [hash EXCEPT ![id] = e] /\ owner' = [owner EXCEPT ![e] = f]
    BY <1>2 DEF Create
  <2>3. i # id => hash'[i] = hash[i] /\ hash[i] # None /\ owner'[hash[i]] = owner[hash[i]]
    BY <1>2, <2>1, <2>2 DEF Create
  <2>4. \/ hash'[i] \in list'[owner'[hash'[i]]]
        \/ \E u \in Threads : op'[u].pc \in {"link", "unhash"} /\ op'[u].ent = hash'[i]
    <3>1. CASE i = id
      <4>1. op'[t].pc = "link" /\ op'[t].ent = hash'[i]
        BY <1>2, <3>1 DEF Create
      <4> QED BY <4>1
    <3>2. CASE i # id
      BY <1>2, <3>2, <2>1, <2>2, <2>3 DEF Create
    <3> QED BY <3>1, <3>2
  <2>5. \/ owner'[hash'[i]] \in open'
        \/ \E u \in Threads : op'[u].pc \in Closing /\ op'[u].file = owner'[hash'[i]]
    BY <1>2, <2>1, <2>2, <2>3 DEF Create
  <2> QED BY <2>4, <2>5
<1>3. ASSUME NEW t \in Threads, NEW f \in Files, NEW id \in Ids, Clip(t, f, id) PROVE Findable'
  BY <1>3 DEF Clip
<1>4. ASSUME NEW t \in Threads, NEW f \in Files, NEW id \in Ids, Destroy(t, f, id)
      PROVE Findable'
  <2> SUFFICES ASSUME ~corrupt', NEW i \in Ids, hash'[i] # None
               PROVE  /\ \/ hash'[i] \in list'[owner'[hash'[i]]]
                         \/ \E u \in Threads : op'[u].pc \in {"link", "unhash"} /\ op'[u].ent = hash'[i]
                      /\ \/ owner'[hash'[i]] \in open'
                         \/ \E u \in Threads : op'[u].pc \in Closing /\ op'[u].file = owner'[hash'[i]]
    OBVIOUS
  <2>1. ~corrupt
    BY <1>4 DEF Destroy
  <2>2. hash'[i] = hash[i] /\ hash[i] # None
    BY <1>4, <2>1 DEF Destroy
  <2>3. owner'[hash[i]] = owner[hash[i]]
    BY <1>4, <2>1, <2>2 DEF Destroy
  <2>4. \/ hash'[i] \in list'[owner'[hash'[i]]]
        \/ \E u \in Threads : op'[u].pc \in {"link", "unhash"} /\ op'[u].ent = hash'[i]
    BY SMTT(40), <1>4, <2>1, <2>2, <2>3 DEF Destroy
  <2>5. \/ owner'[hash'[i]] \in open'
        \/ \E u \in Threads : op'[u].pc \in Closing /\ op'[u].file = owner'[hash'[i]]
    BY <1>4, <2>1, <2>2, <2>3 DEF Destroy
  <2> QED BY <2>4, <2>5
<1>5. ASSUME NEW t \in Threads, NEW f \in Files, NEW id \in Ids, Command(t, f, id)
      PROVE Findable'
  BY <1>5 DEF Command
<1>6. ASSUME NEW t \in Threads, NEW f \in Files, NEW c \in Ctxs, MakeContext(t, f, c)
      PROVE Findable'
  BY <1>6 DEF MakeContext
<1>7. ASSUME NEW t \in Threads, NEW f \in Files, NEW c \in Ctxs, DestroyContext(t, f, c)
      PROVE Findable'
  BY <1>7 DEF DestroyContext
<1>8. ASSUME NEW t \in Threads, NEW f \in Files, Close(t, f) PROVE Findable'
  BY <1>8 DEF Close
<1>9. ASSUME NEW t \in Threads, Link(t) PROVE Findable'
  BY <1>9 DEF Link
<1>10. ASSUME NEW t \in Threads, Unlink(t) PROVE Findable'
  BY <1>10 DEF Unlink
<1>11. ASSUME NEW t \in Threads, FreeEntry(t) PROVE Findable'
  BY <1>11 DEF FreeEntry
<1>12. ASSUME NEW t \in Threads, PutBuffer(t) PROVE Findable'
  BY <1>12 DEF PutBuffer
<1>13. ASSUME NEW t \in Threads, NoteContext(t) PROVE Findable'
  BY <1>13 DEF NoteContext
<1>14. ASSUME NEW t \in Threads, ForgetContext(t) PROVE Findable'
  BY <1>14 DEF ForgetContext
<1>15. ASSUME NEW t \in Threads, CloseUnlink(t) PROVE Findable'
  <2> SUFFICES ASSUME ~corrupt', NEW i \in Ids, hash'[i] # None
               PROVE  /\ \/ hash'[i] \in list'[owner'[hash'[i]]]
                         \/ \E u \in Threads : op'[u].pc \in {"link", "unhash"} /\ op'[u].ent = hash'[i]
                      /\ \/ owner'[hash'[i]] \in open'
                         \/ \E u \in Threads : op'[u].pc \in Closing /\ op'[u].file = owner'[hash'[i]]
    OBVIOUS
  <2>1. ~corrupt
    BY <1>15 DEF CloseUnlink
  <2>2. hash'[i] = hash[i] /\ hash[i] # None
    BY <1>15, <2>1 DEF CloseUnlink
  <2>3. owner'[hash[i]] = owner[hash[i]]
    BY <1>15, <2>1, <2>2 DEF CloseUnlink
  <2>4. \/ hash'[i] \in list'[owner'[hash'[i]]]
        \/ \E u \in Threads : op'[u].pc \in {"link", "unhash"} /\ op'[u].ent = hash'[i]
    <3>1. PICK e \in list[op[t].file] : /\ list' = [list EXCEPT ![op[t].file] = @ \ {e}]
                                     /\ op' = [op EXCEPT ![t].pc = "unhash", ![t].ent = e]
      BY <1>15 DEF CloseUnlink
    <3>2. CASE hash[i] = e
      <4>1. op'[t].pc = "unhash" /\ op'[t].ent = e
        BY <3>1
      <4> QED BY <2>2, <3>2, <4>1
    <3>3. CASE hash[i] # e
      <4>1. CASE hash[i] \in list[owner[hash[i]]]
        BY <1>15, <2>1, <2>2, <2>3, <3>1, <3>3, <4>1 DEF CloseUnlink
      <4>2. ASSUME NEW u \in Threads, op[u].pc \in {"link", "unhash"}, op[u].ent = hash[i]
            PROVE  op'[u].pc \in {"link", "unhash"} /\ op'[u].ent = hash'[i]
        BY <1>15, <2>2, <3>1, <4>2 DEF CloseUnlink
      <4> QED BY <2>1, <2>2, <4>1, <4>2
    <3> QED BY <3>2, <3>3
  <2>5. \/ owner'[hash'[i]] \in open'
        \/ \E u \in Threads : op'[u].pc \in Closing /\ op'[u].file = owner'[hash'[i]]
    BY <1>15, <2>1, <2>2, <2>3 DEF CloseUnlink
  <2> QED BY <2>4, <2>5
<1>16. ASSUME NEW t \in Threads, CloseUnhash(t) PROVE Findable'
  <2> SUFFICES ASSUME ~corrupt', NEW i \in Ids, hash'[i] # None
               PROVE  /\ \/ hash'[i] \in list'[owner'[hash'[i]]]
                         \/ \E u \in Threads : op'[u].pc \in {"link", "unhash"} /\ op'[u].ent = hash'[i]
                      /\ \/ owner'[hash'[i]] \in open'
                         \/ \E u \in Threads : op'[u].pc \in Closing /\ op'[u].file = owner'[hash'[i]]
    OBVIOUS
  <2>1. ~corrupt
    BY <1>16 DEF CloseUnhash
  <2>2. hash'[i] = hash[i] /\ hash[i] # None
    BY <1>16, <2>1 DEF CloseUnhash
  <2>3. owner'[hash[i]] = owner[hash[i]]
    BY <1>16, <2>1, <2>2 DEF CloseUnhash
  <2>4. \/ hash'[i] \in list'[owner'[hash'[i]]]
        \/ \E u \in Threads : op'[u].pc \in {"link", "unhash"} /\ op'[u].ent = hash'[i]
    BY SMTT(40), <1>16, <2>1, <2>2, <2>3 DEF CloseUnhash
  <2>5. \/ owner'[hash'[i]] \in open'
        \/ \E u \in Threads : op'[u].pc \in Closing /\ op'[u].file = owner'[hash'[i]]
    BY <1>16, <2>1, <2>2, <2>3 DEF CloseUnhash
  <2> QED BY <2>4, <2>5
<1>17. ASSUME NEW t \in Threads, CloseDrop(t) PROVE Findable'
  <2> SUFFICES ASSUME ~corrupt', NEW i \in Ids, hash'[i] # None
               PROVE  /\ \/ hash'[i] \in list'[owner'[hash'[i]]]
                         \/ \E u \in Threads : op'[u].pc \in {"link", "unhash"} /\ op'[u].ent = hash'[i]
                      /\ \/ owner'[hash'[i]] \in open'
                         \/ \E u \in Threads : op'[u].pc \in Closing /\ op'[u].file = owner'[hash'[i]]
    OBVIOUS
  <2>1. ~corrupt
    BY <1>17 DEF CloseDrop
  <2>2. hash'[i] = hash[i] /\ hash[i] # None
    BY <1>17, <2>1 DEF CloseDrop
  <2>3. owner'[hash[i]] = owner[hash[i]]
    BY <1>17, <2>1, <2>2 DEF CloseDrop
  <2>4. \/ hash'[i] \in list'[owner'[hash'[i]]]
        \/ \E u \in Threads : op'[u].pc \in {"link", "unhash"} /\ op'[u].ent = hash'[i]
    BY <1>17, <2>1, <2>2, <2>3 DEF CloseDrop
  <2>5. \/ owner'[hash'[i]] \in open'
        \/ \E u \in Threads : op'[u].pc \in Closing /\ op'[u].file = owner'[hash'[i]]
    BY <1>17, <2>1, <2>2, <2>3 DEF CloseDrop
  <2> QED BY <2>4, <2>5
<1>18. ASSUME NEW t \in Threads, CloseContext(t) PROVE Findable'
  BY <1>18 DEF CloseContext
<1>19. ASSUME NEW t \in Threads, CloseDone(t) PROVE Findable'
  <2> SUFFICES ASSUME ~corrupt', NEW i \in Ids, hash'[i] # None
               PROVE  /\ \/ hash'[i] \in list'[owner'[hash'[i]]]
                         \/ \E u \in Threads : op'[u].pc \in {"link", "unhash"} /\ op'[u].ent = hash'[i]
                      /\ \/ owner'[hash'[i]] \in open'
                         \/ \E u \in Threads : op'[u].pc \in Closing /\ op'[u].file = owner'[hash'[i]]
    OBVIOUS
  <2>1. ~corrupt
    BY <1>19 DEF CloseDone
  <2>2. hash'[i] = hash[i] /\ hash[i] # None
    BY <1>19, <2>1 DEF CloseDone
  <2>3. owner'[hash[i]] = owner[hash[i]]
    BY <1>19, <2>1, <2>2 DEF CloseDone
  <2>4. \/ hash'[i] \in list'[owner'[hash'[i]]]
        \/ \E u \in Threads : op'[u].pc \in {"link", "unhash"} /\ op'[u].ent = hash'[i]
    BY <1>19, <2>1, <2>2, <2>3 DEF CloseDone
  <2>5. \/ owner'[hash'[i]] \in open'
        \/ \E u \in Threads : op'[u].pc \in Closing /\ op'[u].file = owner'[hash'[i]]
    <3>1. CASE owner[hash[i]] \in open
      BY <1>19, <2>2, <2>3, <3>1 DEF CloseDone
    <3>2. CASE owner[hash[i]] \notin open
      <4>1. PICK u \in Threads : op[u].pc \in Closing /\ op[u].file = owner[hash[i]]
        BY <2>1, <2>2, <3>2
      <4>2. CASE u = t
        <5>1. hash[i] \notin list[owner[hash[i]]]
          BY <1>19, <4>1, <4>2 DEF CloseDone
        <5>2. PICK v \in Threads : op[v].pc \in {"link", "unhash"} /\ op[v].ent = hash[i]
          BY <2>1, <2>2, <5>1
        <5>3. op[v].file = owner[hash[i]]
          BY <2>1, <2>2, <5>2
        <5> QED BY <1>19, <4>1, <4>2, <5>2, <5>3 DEF CloseDone
      <4>3. CASE u # t
        BY <1>19, <2>2, <2>3, <4>1, <4>3 DEF CloseDone
      <4> QED BY <4>2, <4>3
    <3> QED BY <3>1, <3>2
  <2> QED BY <2>4, <2>5
<1>20. CASE UNCHANGED vars
  BY <1>20 DEF vars, drawables, contexts
<1> QED BY <1>1, <1>2, <1>3, <1>4, <1>5, <1>6, <1>7, <1>8, <1>9, <1>10, <1>11, <1>12,
     <1>13, <1>14, <1>15, <1>16, <1>17, <1>18, <1>19, <1>20 DEF Next, Step, Call

\* Without an overtaken creation, entries are linked before they are taken down.
LEMMA CarefulNext ==
  Control /\ OnePlace /\ OnlyOvertaken /\ InOrder /\ [Next]_vars => InOrder'
<1> SUFFICES ASSUME Control, OnePlace, OnlyOvertaken, InOrder, [Next]_vars PROVE InOrder'
  OBVIOUS
<1> USE VtgAssumption DEF Placing, Careful, Free, Counted, OnePlace, Findable, InOrder,
        OnlyOvertaken, Control, TypeOK, Shaped, Entered, Closing, Taking, Calls, Does, At,
        Busy, Idle, drawables, contexts
<1>1. ASSUME NEW f \in Files, Open(f) PROVE InOrder'
  BY <1>1 DEF Open
<1>2. ASSUME NEW t \in Threads, NEW f \in Files, NEW id \in Ids, Create(t, f, id) PROVE InOrder'
  BY <1>2 DEF Create
<1>3. ASSUME NEW t \in Threads, NEW f \in Files, NEW id \in Ids, Clip(t, f, id) PROVE InOrder'
  BY <1>3 DEF Clip
<1>4. ASSUME NEW t \in Threads, NEW f \in Files, NEW id \in Ids, Destroy(t, f, id)
      PROVE InOrder'
  <2> SUFFICES ASSUME ~overtaken' PROVE Careful'
    OBVIOUS
  <2>1. ~overtaken /\ ~corrupt
    BY <1>4 DEF Destroy
  <2>2. \A u \in Threads : op'[u].pc = "link" => \E i \in Ids : hash'[i] = op'[u].ent
    <3> SUFFICES ASSUME NEW u \in Threads, op'[u].pc = "link"
          PROVE \E i \in Ids : hash'[i] = op'[u].ent
      OBVIOUS
    <3>1. u # t /\ op'[u] = op[u] /\ op[u].ent # hash[id]
      BY <1>4 DEF Destroy
    <3>2. PICK i \in Ids : hash[i] = op[u].ent
      BY <2>1, <3>1
    <3> QED BY <1>4, <3>1, <3>2 DEF Destroy
  <2>3. \A u \in Threads : op'[u].pc = "free" => \A g \in Files : op'[u].ent \notin list'[g]
    BY <1>4, <2>1 DEF Destroy
  <2> QED BY <2>2, <2>3
<1>5. ASSUME NEW t \in Threads, NEW f \in Files, NEW id \in Ids, Command(t, f, id)
      PROVE InOrder'
  BY <1>5 DEF Command
<1>6. ASSUME NEW t \in Threads, NEW f \in Files, NEW c \in Ctxs, MakeContext(t, f, c)
      PROVE InOrder'
  BY <1>6 DEF MakeContext
<1>7. ASSUME NEW t \in Threads, NEW f \in Files, NEW c \in Ctxs, DestroyContext(t, f, c)
      PROVE InOrder'
  BY <1>7 DEF DestroyContext
<1>8. ASSUME NEW t \in Threads, NEW f \in Files, Close(t, f) PROVE InOrder'
  BY <1>8 DEF Close
<1>9. ASSUME NEW t \in Threads, Link(t) PROVE InOrder'
  BY <1>9 DEF Link
<1>10. ASSUME NEW t \in Threads, Unlink(t) PROVE InOrder'
  BY <1>10 DEF Unlink
<1>11. ASSUME NEW t \in Threads, FreeEntry(t) PROVE InOrder'
  BY <1>11 DEF FreeEntry
<1>12. ASSUME NEW t \in Threads, PutBuffer(t) PROVE InOrder'
  BY <1>12 DEF PutBuffer
<1>13. ASSUME NEW t \in Threads, NoteContext(t) PROVE InOrder'
  BY <1>13 DEF NoteContext
<1>14. ASSUME NEW t \in Threads, ForgetContext(t) PROVE InOrder'
  BY <1>14 DEF ForgetContext
<1>15. ASSUME NEW t \in Threads, CloseUnlink(t) PROVE InOrder'
  BY <1>15 DEF CloseUnlink
<1>16. ASSUME NEW t \in Threads, CloseUnhash(t) PROVE InOrder'
  BY <1>16 DEF CloseUnhash
<1>17. ASSUME NEW t \in Threads, CloseDrop(t) PROVE InOrder'
  BY <1>17 DEF CloseDrop
<1>18. ASSUME NEW t \in Threads, CloseContext(t) PROVE InOrder'
  BY <1>18 DEF CloseContext
<1>19. ASSUME NEW t \in Threads, CloseDone(t) PROVE InOrder'
  BY <1>19 DEF CloseDone
<1>20. CASE UNCHANGED vars
  BY <1>20 DEF vars, drawables, contexts
<1> QED BY <1>1, <1>2, <1>3, <1>4, <1>5, <1>6, <1>7, <1>8, <1>9, <1>10, <1>11, <1>12,
     <1>13, <1>14, <1>15, <1>16, <1>17, <1>18, <1>19, <1>20 DEF Next, Step, Call

\* The holders of a buffer are finitely many; a drawable and a thread are
\* different holders.
LEMMA HoldersFinite ==
  ASSUME NEW b \in Bufs
  PROVE  IsFiniteSet(Holders(b)) /\ Cardinality(Holders(b)) \in Nat
<1>1. {e \in Entries : buffer[e] = b} \subseteq Entries /\ {t \in Threads : op[t].buf = b} \subseteq Threads
  OBVIOUS
<1>2. IsFiniteSet({e \in Entries : buffer[e] = b}) /\ IsFiniteSet({t \in Threads : op[t].buf = b})
  BY <1>1, VtgAssumption, FS_Subset
<1> QED BY <1>2, FS_Union, FS_CardinalityType DEF Holders

LEMMA OneMore ==
  ASSUME NEW b \in Bufs, NEW x, x \notin Holders(b), Holders(b)' = Holders(b) \cup {x}
  PROVE  Cardinality(Holders(b)') = Cardinality(Holders(b)) + 1
BY HoldersFinite, FS_AddElement

LEMMA OneLess ==
  ASSUME NEW b \in Bufs, NEW x, x \in Holders(b), Holders(b)' = Holders(b) \ {x}
  PROVE  Cardinality(Holders(b)') = Cardinality(Holders(b)) - 1
BY HoldersFinite, FS_RemoveElement

LEMMA OneForOther ==
  ASSUME NEW b \in Bufs, NEW x, NEW y, x \in Holders(b), y \notin Holders(b),
         Holders(b)' = (Holders(b) \ {x}) \cup {y}
  PROVE  Cardinality(Holders(b)') = Cardinality(Holders(b))
<1>1. IsFiniteSet(Holders(b) \ {x}) /\ Cardinality(Holders(b) \ {x}) = Cardinality(Holders(b)) - 1
  BY HoldersFinite, FS_RemoveElement
<1>2. y \notin Holders(b) \ {x}
  OBVIOUS
<1>3. Cardinality((Holders(b) \ {x}) \cup {y}) = Cardinality(Holders(b) \ {x}) + 1
  BY <1>1, <1>2, FS_AddElement
<1> QED BY <1>1, <1>3, HoldersFinite

\* A drawable or thread holds its buffer.
LEMMA EntryHolds ==
  ASSUME NEW b \in Bufs, NEW e \in Entries
  PROVE  e \in Holders(b) <=> buffer[e] = b
BY VtgAssumption DEF Holders

LEMMA ThreadHolds ==
  ASSUME NEW b \in Bufs, NEW t \in Threads
  PROVE  t \in Holders(b) <=> op[t].buf = b
BY VtgAssumption DEF Holders

\* Who neither takes nor lets go of a buffer changes no count.
LEMMA CountingSame ==
  ASSUME Counting, refcnt' = refcnt, buffer' = buffer,
         \A t \in Threads : op'[t].buf = op[t].buf
  PROVE  Counting'
<1>1. \A b \in Bufs : Holders(b)' = Holders(b)
  BY DEF Holders
<1> QED BY <1>1 DEF Counting

\* The reference counts of clip buffers are right.
LEMMA CountingNext ==
  Control /\ Counted /\ [Next]_vars => Counted'
<1> SUFFICES ASSUME Control, Counted, [Next]_vars PROVE Counted'
  OBVIOUS
<1> USE VtgAssumption DEF Counted, OnePlace, InOrder, OnlyOvertaken, Control, TypeOK,
        Shaped, Entered, Closing, Taking, Calls, Does, At, Busy, Idle, drawables,
        contexts, Found
<1>1. ASSUME NEW f \in Files, Open(f) PROVE Counted'
  BY <1>1, CountingSame DEF Open
<1>2. ASSUME NEW t \in Threads, NEW f \in Files, NEW id \in Ids, Create(t, f, id) PROVE Counted'
  BY <1>2, CountingSame DEF Create
<1>3. ASSUME NEW t \in Threads, NEW f \in Files, NEW id \in Ids, Clip(t, f, id) PROVE Counted'
  <2> SUFFICES ASSUME ~corrupt', NEW b \in Bufs PROVE refcnt'[b] = Cardinality(Holders(b)')
    BY DEF Counting
  <2>0. ~corrupt /\ refcnt[b] = Cardinality(Holders(b))
    BY <1>3 DEF Clip, Counting
  <2>1. PICK n \in Bufs : /\ refcnt[n] = 0 /\ refcnt' = [refcnt EXCEPT ![n] = 1]
                         /\ buffer' = [buffer EXCEPT ![hash[id]] = n]
    BY <1>3 DEF Clip
  <2>2. Holders(n) = {}
    <3>1. refcnt[n] = Cardinality(Holders(n))
      BY <2>0 DEF Counting
    <3> QED BY <2>1, <3>1, HoldersFinite, FS_EmptySet
  <2>3. /\ hash[id] \in Entries
        /\ t \notin Holders(b)
        /\ op' = [op EXCEPT ![t] = [Idle EXCEPT !.pc = "put", !.file = f, !.buf = buffer[hash[id]]]]
    BY <1>3, EntryHolds, ThreadHolds DEF Clip
  <2>4. CASE b = n
    <3>1. buffer[hash[id]] # n
      BY <2>2, <2>3, EntryHolds
    <3>2. Holders(b)' = Holders(b) \cup {hash[id]}
      BY <2>1, <2>2, <2>3, <2>4, <3>1 DEF Holders
    <3>3. refcnt'[b] = refcnt[b] + 1
      BY <2>1, <2>4
    <3> QED BY <2>0, <2>2, <2>4, <3>2, <3>3, OneMore
  <2>5. CASE b # n /\ b = buffer[hash[id]]
    <3>1. hash[id] \in Holders(b)
      BY <2>3, <2>5, EntryHolds
    <3>2. Holders(b)' = (Holders(b) \ {hash[id]}) \cup {t}
      BY <2>1, <2>3, <2>5 DEF Holders
    <3>3. refcnt'[b] = refcnt[b]
      BY <2>1, <2>5
    <3> QED BY <2>0, <2>3, <3>1, <3>2, <3>3, OneForOther
  <2>6. CASE b # n /\ b # buffer[hash[id]]
    <3>1. Holders(b)' = Holders(b)
      BY <1>3, <2>1, <2>3, <2>6 DEF Holders
    <3>2. refcnt'[b] = refcnt[b]
      BY <2>1, <2>6
    <3> QED BY <2>0, <3>1, <3>2
  <2> QED BY <2>4, <2>5, <2>6
<1>4. ASSUME NEW t \in Threads, NEW f \in Files, NEW id \in Ids, Destroy(t, f, id)
      PROVE Counted'
  <2> SUFFICES ASSUME ~corrupt', NEW b \in Bufs PROVE refcnt'[b] = Cardinality(Holders(b)')
    BY DEF Counting
  <2>0. ~corrupt /\ refcnt[b] = Cardinality(Holders(b))
    BY <1>4 DEF Destroy, Counting
  <2>1. CASE b = buffer[hash[id]]
    <3>1. hash[id] \in Holders(b) /\ t \notin Holders(b)
      BY <1>4, <2>1, EntryHolds, ThreadHolds DEF Destroy
    <3>2. Holders(b)' = (Holders(b) \ {hash[id]}) \cup {t}
      BY <1>4, <2>1 DEF Destroy, Holders
    <3>3. refcnt'[b] = refcnt[b]
      BY <1>4 DEF Destroy
    <3> QED BY <2>0, <3>1, <3>2, <3>3, OneForOther
  <2>2. CASE b # buffer[hash[id]]
    <3>1. Holders(b)' = Holders(b)
      BY <1>4, <2>2 DEF Destroy, Holders
    <3>2. refcnt'[b] = refcnt[b]
      BY <1>4 DEF Destroy
    <3> QED BY <2>0, <3>1, <3>2
  <2> QED BY <2>1, <2>2
<1>5. ASSUME NEW t \in Threads, NEW f \in Files, NEW id \in Ids, Command(t, f, id)
      PROVE Counted'
  <2> SUFFICES ASSUME ~corrupt', NEW b \in Bufs PROVE refcnt'[b] = Cardinality(Holders(b)')
    BY DEF Counting
  <2>0. ~corrupt /\ refcnt[b] = Cardinality(Holders(b))
    BY <1>5 DEF Command, Counting
  <2>1. CASE b = Found(id)
    <3>1. t \notin Holders(b)
      BY <1>5, EntryHolds, ThreadHolds DEF Command
    <3>2. Holders(b)' = Holders(b) \cup {t}
      BY <1>5, <2>1 DEF Command, Holders
    <3>3. refcnt'[b] = refcnt[b] + 1
      BY <1>5, <2>1 DEF Command
    <3> QED BY <2>0, <3>1, <3>2, <3>3, OneMore
  <2>2. CASE b # Found(id)
    <3>1. Holders(b)' = Holders(b)
      BY <1>5, <2>2 DEF Command, Holders
    <3>2. refcnt'[b] = refcnt[b]
      BY <1>5, <2>2 DEF Command
    <3> QED BY <2>0, <3>1, <3>2
  <2> QED BY <2>1, <2>2
<1>6. ASSUME NEW t \in Threads, NEW f \in Files, NEW c \in Ctxs, MakeContext(t, f, c)
      PROVE Counted'
  BY <1>6, CountingSame DEF MakeContext
<1>7. ASSUME NEW t \in Threads, NEW f \in Files, NEW c \in Ctxs, DestroyContext(t, f, c)
      PROVE Counted'
  BY <1>7, CountingSame DEF DestroyContext
<1>8. ASSUME NEW t \in Threads, NEW f \in Files, Close(t, f) PROVE Counted'
  BY <1>8, CountingSame DEF Close
<1>9. ASSUME NEW t \in Threads, Link(t) PROVE Counted'
  BY <1>9, CountingSame DEF Link
<1>10. ASSUME NEW t \in Threads, Unlink(t) PROVE Counted'
  BY <1>10, CountingSame DEF Unlink
<1>11. ASSUME NEW t \in Threads, FreeEntry(t) PROVE Counted'
  <2> SUFFICES ASSUME ~corrupt', NEW b \in Bufs PROVE refcnt'[b] = Cardinality(Holders(b)')
    BY DEF Counting
  <2>0. ~corrupt /\ refcnt[b] = Cardinality(Holders(b))
    BY <1>11 DEF FreeEntry, Counting
  <2>1. CASE b = op[t].buf
    <3>1. t \in Holders(b)
      BY <1>11, <2>1, EntryHolds, ThreadHolds DEF FreeEntry
    <3>2. Holders(b)' = Holders(b) \ {t}
      BY <1>11, <2>1 DEF FreeEntry, Holders
    <3>3. refcnt'[b] = refcnt[b] - 1
      BY <1>11, <2>1 DEF FreeEntry, Put, Bad
    <3> QED BY <2>0, <3>1, <3>2, <3>3, OneLess
  <2>2. CASE b # op[t].buf
    <3>1. Holders(b)' = Holders(b)
      BY <1>11, <2>2 DEF FreeEntry, Holders
    <3>2. refcnt'[b] = refcnt[b]
      BY <1>11, <2>2 DEF FreeEntry, Put
    <3> QED BY <2>0, <3>1, <3>2
  <2> QED BY <2>1, <2>2
<1>12. ASSUME NEW t \in Threads, PutBuffer(t) PROVE Counted'
  <2> SUFFICES ASSUME ~corrupt', NEW b \in Bufs PROVE refcnt'[b] = Cardinality(Holders(b)')
    BY DEF Counting
  <2>0. ~corrupt /\ refcnt[b] = Cardinality(Holders(b))
    BY <1>12 DEF PutBuffer, Counting
  <2>1. CASE b = op[t].buf
    <3>1. t \in Holders(b)
      BY <1>12, <2>1, EntryHolds, ThreadHolds DEF PutBuffer
    <3>2. Holders(b)' = Holders(b) \ {t}
      BY <1>12, <2>1 DEF PutBuffer, Holders
    <3>3. refcnt'[b] = refcnt[b] - 1
      BY <1>12, <2>1 DEF PutBuffer, Put, Bad
    <3> QED BY <2>0, <3>1, <3>2, <3>3, OneLess
  <2>2. CASE b # op[t].buf
    <3>1. Holders(b)' = Holders(b)
      BY <1>12, <2>2 DEF PutBuffer, Holders
    <3>2. refcnt'[b] = refcnt[b]
      BY <1>12, <2>2 DEF PutBuffer, Put
    <3> QED BY <2>0, <3>1, <3>2
  <2> QED BY <2>1, <2>2
<1>13. ASSUME NEW t \in Threads, NoteContext(t) PROVE Counted'
  BY <1>13, CountingSame DEF NoteContext
<1>14. ASSUME NEW t \in Threads, ForgetContext(t) PROVE Counted'
  BY <1>14, CountingSame DEF ForgetContext
<1>15. ASSUME NEW t \in Threads, CloseUnlink(t) PROVE Counted'
  BY <1>15, CountingSame DEF CloseUnlink
<1>16. ASSUME NEW t \in Threads, CloseUnhash(t) PROVE Counted'
  BY <1>16, CountingSame DEF CloseUnhash
<1>17. ASSUME NEW t \in Threads, CloseDrop(t) PROVE Counted'
  <2> SUFFICES ASSUME ~corrupt', NEW b \in Bufs PROVE refcnt'[b] = Cardinality(Holders(b)')
    BY DEF Counting
  <2>0. ~corrupt /\ refcnt[b] = Cardinality(Holders(b))
    BY <1>17 DEF CloseDrop, Counting
  <2>3. op[t].ent \in Entries
    BY <1>17, OpFields DEF CloseDrop
  <2>1. CASE b = buffer[op[t].ent]
    <3>1. op[t].ent \in Holders(b)
      BY <1>17, <2>1, <2>3, EntryHolds, ThreadHolds DEF CloseDrop
    <3>2. Holders(b)' = Holders(b) \ {op[t].ent}
      BY <1>17, <2>1, <2>3 DEF CloseDrop, Holders
    <3>3. refcnt'[b] = refcnt[b] - 1
      BY <1>17, <2>1, <2>3 DEF CloseDrop, Put, Bad
    <3> QED BY <2>0, <3>1, <3>2, <3>3, OneLess
  <2>2. CASE b # buffer[op[t].ent]
    <3>1. Holders(b)' = Holders(b)
      BY <1>17, <2>2 DEF CloseDrop, Holders
    <3>2. refcnt'[b] = refcnt[b]
      BY <1>17, <2>2 DEF CloseDrop, Put
    <3> QED BY <2>0, <3>1, <3>2
  <2> QED BY <2>1, <2>2
<1>18. ASSUME NEW t \in Threads, CloseContext(t) PROVE Counted'
  BY <1>18, CountingSame DEF CloseContext
<1>19. ASSUME NEW t \in Threads, CloseDone(t) PROVE Counted'
  BY <1>19, CountingSame DEF CloseDone
<1>20. CASE UNCHANGED vars
  BY <1>20, CountingSame DEF vars, drawables, contexts
<1> QED BY <1>1, <1>2, <1>3, <1>4, <1>5, <1>6, <1>7, <1>8, <1>9, <1>10, <1>11, <1>12,
     <1>13, <1>14, <1>15, <1>16, <1>17, <1>18, <1>19, <1>20 DEF Next, Step, Call

\* The calls that have yet to note a context are finitely many.
LEMMA CallsFinite ==
  ASSUME NEW f, NEW c
  PROVE  /\ IsFiniteSet(Making(f, c)) /\ Cardinality(Making(f, c)) \in Nat
         /\ IsFiniteSet(Destroying(f, c)) /\ Cardinality(Destroying(f, c)) \in Nat
<1>1. Making(f, c) \subseteq Threads /\ Destroying(f, c) \subseteq Threads
  BY DEF Making, Destroying
<1> QED BY <1>1, VtgAssumption, FS_Subset, FS_CardinalityType

\* Who neither makes, destroys nor notes a context changes nothing of this.
LEMMA NotingSame ==
  ASSUME Noting, glctx' = glctx, ctx' = ctx, slipped' = slipped,
         \A t \in Threads :
           op'[t] = op[t] \/ (op'[t].pc \notin {"made", "gone"} /\ op[t].pc \notin {"made", "gone"})
  PROVE  Noting'
<1>1. \A f, c : Making(f, c)' = Making(f, c)
  BY DEF Making
<1>2. \A f, c : Destroying(f, c)' = Destroying(f, c)
  BY DEF Destroying
<1> QED BY <1>1, <1>2 DEF Noting

\* A file's notes are enough for the contexts that the host has made for it.
LEMMA NotingNext ==
  Control /\ Noting /\ [Next]_vars => Noting'
<1> SUFFICES ASSUME Control, Noting, [Next]_vars PROVE Noting'
  OBVIOUS
<1> USE VtgAssumption DEF Counted, OnePlace, InOrder, OnlyOvertaken, Control, TypeOK,
        Shaped, Entered, Closing, Taking, Calls, Does, At, Busy, Idle, drawables,
        contexts, Found
<1>1. ASSUME NEW f \in Files, Open(f) PROVE Noting'
  BY <1>1, NotingSame DEF Open
<1>2. ASSUME NEW t \in Threads, NEW f \in Files, NEW id \in Ids, Create(t, f, id) PROVE Noting'
  BY <1>2, NotingSame DEF Create
<1>3. ASSUME NEW t \in Threads, NEW f \in Files, NEW id \in Ids, Clip(t, f, id) PROVE Noting'
  BY <1>3, NotingSame DEF Clip
<1>4. ASSUME NEW t \in Threads, NEW f \in Files, NEW id \in Ids, Destroy(t, f, id) PROVE Noting'
  BY <1>4, NotingSame DEF Destroy
<1>5. ASSUME NEW t \in Threads, NEW f \in Files, NEW id \in Ids, Command(t, f, id) PROVE Noting'
  BY <1>5, NotingSame DEF Command
<1>6. ASSUME NEW t \in Threads, NEW f \in Files, NEW c \in Ctxs, MakeContext(t, f, c)
      PROVE Noting'
  <2> SUFFICES ASSUME NEW g \in Files, g \notin slipped', NEW d \in Ctxs
               PROVE  glctx'[g][d] + Cardinality(Making(g, d)') >=
                        Cardinality(Destroying(g, d)') + (IF ctx'[d] = g THEN 1 ELSE 0)
    BY DEF Noting
  <2>1. /\ g \notin slipped
        /\ glctx[g][d] + Cardinality(Making(g, d)) >=
             Cardinality(Destroying(g, d)) + (IF ctx[d] = g THEN 1 ELSE 0)
    BY <1>6 DEF MakeContext, Noting, HostDestroys
  <2>2. /\ glctx[g][d] \in Nat
        /\ Cardinality(Making(g, d)) \in Nat
        /\ Cardinality(Destroying(g, d)) \in Nat
    BY CallsFinite
  <2>3. CASE g = f /\ d = c
    <3>1. /\ t \notin Making(g, d)
          /\ Making(g, d)' = Making(g, d) \cup {t}
          /\ Destroying(g, d)' = Destroying(g, d)
      BY <1>6, <2>3 DEF MakeContext, Making, Destroying
    <3>2. Cardinality(Making(g, d) \cup {t}) = Cardinality(Making(g, d)) + 1
      <4>1. IsFiniteSet(Making(g, d))
        BY CallsFinite
      <4> QED BY <3>1, <4>1, FS_AddElement
    <3>3. glctx' = glctx
      BY <1>6 DEF MakeContext
    <3> QED BY <2>1, <2>2, <3>1, <3>2, <3>3
  <2>4. CASE ~(g = f /\ d = c)
    <3>1. Making(g, d)' = Making(g, d) /\ Destroying(g, d)' = Destroying(g, d)
      BY <1>6, <2>4 DEF MakeContext, Making, Destroying
    <3>2. glctx'[g][d] = glctx[g][d] /\ (ctx'[d] = g => ctx[d] = g)
      BY <1>6, <2>4, OpFields DEF MakeContext, HostDestroys
    <3> QED BY <2>1, <2>2, <3>1, <3>2
  <2> QED BY <2>3, <2>4
<1>7. ASSUME NEW t \in Threads, NEW f \in Files, NEW c \in Ctxs, DestroyContext(t, f, c)
      PROVE Noting'
  <2> SUFFICES ASSUME NEW g \in Files, g \notin slipped', NEW d \in Ctxs
               PROVE  glctx'[g][d] + Cardinality(Making(g, d)') >=
                        Cardinality(Destroying(g, d)') + (IF ctx'[d] = g THEN 1 ELSE 0)
    BY DEF Noting
  <2>1. /\ g \notin slipped
        /\ glctx[g][d] + Cardinality(Making(g, d)) >=
             Cardinality(Destroying(g, d)) + (IF ctx[d] = g THEN 1 ELSE 0)
    BY <1>7 DEF DestroyContext, Noting, HostDestroys
  <2>2. /\ glctx[g][d] \in Nat
        /\ Cardinality(Making(g, d)) \in Nat
        /\ Cardinality(Destroying(g, d)) \in Nat
    BY CallsFinite
  <2>3. CASE g = f /\ d = c
    <3>1. /\ t \notin Destroying(g, d)
          /\ Destroying(g, d)' = Destroying(g, d) \cup {t}
          /\ Making(g, d)' = Making(g, d)
      BY <1>7, <2>3 DEF DestroyContext, Making, Destroying
    <3>2. Cardinality(Destroying(g, d) \cup {t}) = Cardinality(Destroying(g, d)) + 1
      <4>1. IsFiniteSet(Destroying(g, d))
        BY CallsFinite
      <4> QED BY <3>1, <4>1, FS_AddElement
    <3>3. glctx' = glctx /\ ctx[d] = g /\ ctx'[d] # g
      BY <1>7, <2>3 DEF DestroyContext, HostDestroys
    <3> QED BY <2>1, <2>2, <3>1, <3>2, <3>3
  <2>4. CASE ~(g = f /\ d = c)
    <3>1. Making(g, d)' = Making(g, d) /\ Destroying(g, d)' = Destroying(g, d)
      BY <1>7, <2>4 DEF DestroyContext, Making, Destroying
    <3>2. glctx'[g][d] = glctx[g][d] /\ (ctx'[d] = g => ctx[d] = g)
      BY <1>7, <2>4, OpFields DEF DestroyContext, HostDestroys
    <3> QED BY <2>1, <2>2, <3>1, <3>2
  <2> QED BY <2>3, <2>4
<1>8. ASSUME NEW t \in Threads, NEW f \in Files, Close(t, f) PROVE Noting'
  BY <1>8, NotingSame DEF Close
<1>9. ASSUME NEW t \in Threads, Link(t) PROVE Noting'
  BY <1>9, NotingSame DEF Link
<1>10. ASSUME NEW t \in Threads, Unlink(t) PROVE Noting'
  BY <1>10, NotingSame DEF Unlink
<1>11. ASSUME NEW t \in Threads, FreeEntry(t) PROVE Noting'
  BY <1>11, NotingSame DEF FreeEntry
<1>12. ASSUME NEW t \in Threads, PutBuffer(t) PROVE Noting'
  BY <1>12, NotingSame DEF PutBuffer
<1>13. ASSUME NEW t \in Threads, NoteContext(t) PROVE Noting'
  <2> SUFFICES ASSUME NEW g \in Files, g \notin slipped', NEW d \in Ctxs
               PROVE  glctx'[g][d] + Cardinality(Making(g, d)') >=
                        Cardinality(Destroying(g, d)') + (IF ctx'[d] = g THEN 1 ELSE 0)
    BY DEF Noting
  <2>1. /\ g \notin slipped
        /\ glctx[g][d] + Cardinality(Making(g, d)) >=
             Cardinality(Destroying(g, d)) + (IF ctx[d] = g THEN 1 ELSE 0)
    BY <1>13 DEF NoteContext, Noting, HostDestroys
  <2>2. /\ glctx[g][d] \in Nat
        /\ Cardinality(Making(g, d)) \in Nat
        /\ Cardinality(Destroying(g, d)) \in Nat
    BY CallsFinite
  <2>3. CASE g = op[t].file /\ d = op[t].ctx
    <3>1. /\ t \in Making(g, d)
          /\ Making(g, d)' = Making(g, d) \ {t}
          /\ Destroying(g, d)' = Destroying(g, d)
      BY <1>13, <2>3 DEF NoteContext, Making, Destroying
    <3>2. Cardinality(Making(g, d) \ {t}) = Cardinality(Making(g, d)) - 1
      <4>1. IsFiniteSet(Making(g, d))
        BY CallsFinite
      <4> QED BY <3>1, <4>1, FS_RemoveElement
    <3>3. glctx'[g][d] = glctx[g][d] + 1 /\ ctx' = ctx
      BY <1>13, <2>3 DEF NoteContext
    <3> QED BY <2>1, <2>2, <3>1, <3>2, <3>3
  <2>4. CASE ~(g = op[t].file /\ d = op[t].ctx)
    <3>1. Making(g, d)' = Making(g, d) /\ Destroying(g, d)' = Destroying(g, d)
      BY <1>13, <2>4 DEF NoteContext, Making, Destroying
    <3>2. glctx'[g][d] = glctx[g][d] /\ (ctx'[d] = g => ctx[d] = g)
      BY <1>13, <2>4, OpFields DEF NoteContext, HostDestroys
    <3> QED BY <2>1, <2>2, <3>1, <3>2
  <2> QED BY <2>3, <2>4
<1>14. ASSUME NEW t \in Threads, ForgetContext(t) PROVE Noting'
  <2> SUFFICES ASSUME NEW g \in Files, g \notin slipped', NEW d \in Ctxs
               PROVE  glctx'[g][d] + Cardinality(Making(g, d)') >=
                        Cardinality(Destroying(g, d)') + (IF ctx'[d] = g THEN 1 ELSE 0)
    BY DEF Noting
  <2>1. /\ g \notin slipped
        /\ glctx[g][d] + Cardinality(Making(g, d)) >=
             Cardinality(Destroying(g, d)) + (IF ctx[d] = g THEN 1 ELSE 0)
    BY <1>14 DEF ForgetContext, Noting, HostDestroys
  <2>2. /\ glctx[g][d] \in Nat
        /\ Cardinality(Making(g, d)) \in Nat
        /\ Cardinality(Destroying(g, d)) \in Nat
    BY CallsFinite
  <2>3. CASE g = op[t].file /\ d = op[t].ctx
    <3>1. /\ t \in Destroying(g, d)
          /\ Destroying(g, d)' = Destroying(g, d) \ {t}
          /\ Making(g, d)' = Making(g, d)
      BY <1>14, <2>3 DEF ForgetContext, Making, Destroying
    <3>2. Cardinality(Destroying(g, d) \ {t}) = Cardinality(Destroying(g, d)) - 1
      <4>1. IsFiniteSet(Destroying(g, d))
        BY CallsFinite
      <4> QED BY <3>1, <4>1, FS_RemoveElement
    <3>3. glctx'[g][d] = (IF glctx[g][d] > 0 THEN glctx[g][d] - 1 ELSE 0) /\ ctx' = ctx
      BY <1>14, <2>3 DEF ForgetContext
    <3>4. glctx[g][d] = 0 /\ ctx[d] = g => Cardinality(Making(g, d)) >= Cardinality(Destroying(g, d)) + 1
      BY <2>1, <2>2
    <3> QED BY <2>1, <2>2, <3>1, <3>2, <3>3, <3>4
  <2>4. CASE ~(g = op[t].file /\ d = op[t].ctx)
    <3>1. Making(g, d)' = Making(g, d) /\ Destroying(g, d)' = Destroying(g, d)
      BY <1>14, <2>4 DEF ForgetContext, Making, Destroying
    <3>2. glctx'[g][d] = glctx[g][d] /\ (ctx'[d] = g => ctx[d] = g)
      BY <1>14, <2>4, OpFields DEF ForgetContext, HostDestroys
    <3> QED BY <2>1, <2>2, <3>1, <3>2
  <2> QED BY <2>3, <2>4
<1>15. ASSUME NEW t \in Threads, CloseUnlink(t) PROVE Noting'
  BY <1>15, NotingSame DEF CloseUnlink
<1>16. ASSUME NEW t \in Threads, CloseUnhash(t) PROVE Noting'
  BY <1>16, NotingSame DEF CloseUnhash
<1>17. ASSUME NEW t \in Threads, CloseDrop(t) PROVE Noting'
  BY <1>17, NotingSame DEF CloseDrop
<1>18. ASSUME NEW t \in Threads, CloseContext(t) PROVE Noting'
  <2> SUFFICES ASSUME NEW g \in Files, g \notin slipped', NEW d \in Ctxs
               PROVE  glctx'[g][d] + Cardinality(Making(g, d)') >=
                        Cardinality(Destroying(g, d)') + (IF ctx'[d] = g THEN 1 ELSE 0)
    BY DEF Noting
  <2>1. /\ g \notin slipped
        /\ glctx[g][d] + Cardinality(Making(g, d)) >=
             Cardinality(Destroying(g, d)) + (IF ctx[d] = g THEN 1 ELSE 0)
    BY <1>18 DEF CloseContext, Noting, HostDestroys
  <2>2. /\ glctx[g][d] \in Nat
        /\ Cardinality(Making(g, d)) \in Nat
        /\ Cardinality(Destroying(g, d)) \in Nat
    BY CallsFinite
  <2>3. PICK c \in Ctxs : /\ glctx[op[t].file][c] > 0 /\ HostDestroys(op[t].file, c)
                        /\ glctx' = [glctx EXCEPT ![op[t].file][c] = @ - 1]
    BY <1>18 DEF CloseContext
  <2>4. Making(g, d)' = Making(g, d) /\ Destroying(g, d)' = Destroying(g, d)
    BY <1>18 DEF CloseContext, Making, Destroying
  <2>5. CASE g = op[t].file /\ d = c
    <3>1. glctx'[g][d] = glctx[g][d] - 1
      BY <2>3, <2>5
    <3>2. ctx[d] = g /\ ctx'[d] # g
      BY <2>3, <2>5 DEF HostDestroys
    <3> QED BY <2>1, <2>2, <2>4, <3>1, <3>2
  <2>6. CASE ~(g = op[t].file /\ d = c)
    <3>1. glctx'[g][d] = glctx[g][d] /\ (ctx'[d] = g => ctx[d] = g)
      BY <2>3, <2>6 DEF HostDestroys
    <3> QED BY <2>1, <2>2, <2>4, <3>1
  <2> QED BY <2>5, <2>6
<1>19. ASSUME NEW t \in Threads, CloseDone(t) PROVE Noting'
  BY <1>19, NotingSame DEF CloseDone
<1>20. CASE UNCHANGED vars
  BY <1>20, NotingSame DEF vars, drawables, contexts
<1> QED BY <1>1, <1>2, <1>3, <1>4, <1>5, <1>6, <1>7, <1>8, <1>9, <1>10, <1>11, <1>12,
     <1>13, <1>14, <1>15, <1>16, <1>17, <1>18, <1>19, <1>20 DEF Next, Step, Call

\* A buffer that somebody holds is not free.
LEMMA HeldIsCounted ==
  ASSUME Counting, NEW b \in Bufs, NEW x \in Holders(b)
  PROVE  refcnt[b] # 0
<1>1. Cardinality(Holders(b)) # 0
  BY HoldersFinite, FS_EmptySet
<1> QED BY <1>1 DEF Counting

\* Freed memory is not used unless a creation was overtaken.
LEMMA SafeNext ==
  Control /\ Counted /\ OnePlace /\ InOrder /\ OnlyOvertaken /\ [Next]_vars => OnlyOvertaken'
<1> SUFFICES ASSUME Control, Counted, OnePlace, InOrder, OnlyOvertaken, [Next]_vars
      PROVE OnlyOvertaken'
  OBVIOUS
<1> USE VtgAssumption DEF Counted, OnePlace, InOrder, OnlyOvertaken, Control, TypeOK,
        Shaped, Entered, Closing, Taking, Calls, Does, At, Busy, Idle, drawables,
        contexts, Found
<1>1. ASSUME NEW f \in Files, Open(f) PROVE OnlyOvertaken'
  BY <1>1 DEF Open
<1>2. ASSUME NEW t \in Threads, NEW f \in Files, NEW id \in Ids, Create(t, f, id)
      PROVE OnlyOvertaken'
  BY <1>2 DEF Create
<1>3. ASSUME NEW t \in Threads, NEW f \in Files, NEW id \in Ids, Clip(t, f, id)
      PROVE OnlyOvertaken'
  BY <1>3 DEF Clip
<1>4. ASSUME NEW t \in Threads, NEW f \in Files, NEW id \in Ids, Destroy(t, f, id)
      PROVE OnlyOvertaken'
  BY <1>4 DEF Destroy
<1>5. ASSUME NEW t \in Threads, NEW f \in Files, NEW id \in Ids, Command(t, f, id)
      PROVE OnlyOvertaken'
  <2> SUFFICES ASSUME ~overtaken PROVE ~corrupt'
    BY <1>5 DEF Command
  <2>1. ~Bad(Found(id))
    BY EntryHolds, HeldIsCounted DEF Bad, Found
  <2>2. hash[id] # None => owner[hash[id]] # None
    BY DEF Placing
  <2> QED BY <1>5, <2>1, <2>2 DEF Command
<1>6. ASSUME NEW t \in Threads, NEW f \in Files, NEW c \in Ctxs, MakeContext(t, f, c)
      PROVE OnlyOvertaken'
  BY <1>6 DEF MakeContext
<1>7. ASSUME NEW t \in Threads, NEW f \in Files, NEW c \in Ctxs, DestroyContext(t, f, c)
      PROVE OnlyOvertaken'
  BY <1>7 DEF DestroyContext
<1>8. ASSUME NEW t \in Threads, NEW f \in Files, Close(t, f) PROVE OnlyOvertaken'
  BY <1>8 DEF Close
<1>9. ASSUME NEW t \in Threads, Link(t) PROVE OnlyOvertaken'
  <2> SUFFICES ASSUME ~overtaken PROVE ~corrupt'
    BY <1>9 DEF Link
  <2>1. op[t].pc = "link" /\ corrupt' = (owner[op[t].ent] = None)
    BY <1>9 DEF Link
  <2>2. PICK i \in Ids : hash[i] = op[t].ent
    BY <2>1 DEF Careful
  <2>3. hash[i] # None
    BY <2>1, <2>2
  <2>4. owner[hash[i]] # None
    BY <2>3 DEF Placing
  <2> QED BY <2>1, <2>2, <2>4
<1>10. ASSUME NEW t \in Threads, Unlink(t) PROVE OnlyOvertaken'
  BY <1>10 DEF Unlink
<1>11. ASSUME NEW t \in Threads, FreeEntry(t) PROVE OnlyOvertaken'
  <2> SUFFICES ASSUME ~overtaken PROVE ~corrupt'
    BY <1>11 DEF FreeEntry
  <2>1. op[t].pc = "free" /\ corrupt' = (Bad(op[t].buf) \/ \E g \in Files : op[t].ent \in list[g])
    BY <1>11 DEF FreeEntry
  <2>2. \A g \in Files : op[t].ent \notin list[g]
    BY <2>1 DEF Careful
  <2>3. ~Bad(op[t].buf)
    BY OpFields, ThreadHolds, HeldIsCounted DEF Bad
  <2> QED BY <2>1, <2>2, <2>3
<1>12. ASSUME NEW t \in Threads, PutBuffer(t) PROVE OnlyOvertaken'
  <2> SUFFICES ASSUME ~overtaken PROVE ~corrupt'
    BY <1>12 DEF PutBuffer
  <2>1. ~Bad(op[t].buf)
    BY OpFields, ThreadHolds, HeldIsCounted DEF Bad
  <2> QED BY <1>12, <2>1 DEF PutBuffer
<1>13. ASSUME NEW t \in Threads, NoteContext(t) PROVE OnlyOvertaken'
  BY <1>13 DEF NoteContext
<1>14. ASSUME NEW t \in Threads, ForgetContext(t) PROVE OnlyOvertaken'
  BY <1>14 DEF ForgetContext
<1>15. ASSUME NEW t \in Threads, CloseUnlink(t) PROVE OnlyOvertaken'
  <2> SUFFICES ASSUME ~overtaken PROVE ~corrupt'
    BY <1>15 DEF CloseUnlink
  <2>1. op[t].file \in Files
    BY <1>15 DEF CloseUnlink
  <2>2. \A e \in list[op[t].file] : owner[e] # None
    BY <2>1 DEF Placing
  <2> QED BY <1>15, <2>2 DEF CloseUnlink
<1>16. ASSUME NEW t \in Threads, CloseUnhash(t) PROVE OnlyOvertaken'
  BY <1>16 DEF CloseUnhash
<1>17. ASSUME NEW t \in Threads, CloseDrop(t) PROVE OnlyOvertaken'
  <2> SUFFICES ASSUME ~overtaken PROVE ~corrupt'
    BY <1>17 DEF CloseDrop
  <2>1. op[t].ent \in Entries
    BY <1>17, OpFields DEF CloseDrop
  <2>2. ~Bad(buffer[op[t].ent])
    BY <2>1, EntryHolds, HeldIsCounted DEF Bad
  <2> QED BY <1>17, <2>2 DEF CloseDrop
<1>18. ASSUME NEW t \in Threads, CloseContext(t) PROVE OnlyOvertaken'
  BY <1>18 DEF CloseContext
<1>19. ASSUME NEW t \in Threads, CloseDone(t) PROVE OnlyOvertaken'
  BY <1>19 DEF CloseDone
<1>20. CASE UNCHANGED vars
  BY <1>20 DEF vars, drawables, contexts
<1> QED BY <1>1, <1>2, <1>3, <1>4, <1>5, <1>6, <1>7, <1>8, <1>9, <1>10, <1>11, <1>12,
     <1>13, <1>14, <1>15, <1>16, <1>17, <1>18, <1>19, <1>20 DEF Next, Step, Call

\* Who keeps the files and the notes changes nothing of this.
LEMMA EmptiedSame ==
  ASSUME Emptied, open \subseteq open', glctx' = glctx,
         \A t \in Threads : op[t].file = None \/ op'[t].file = op[t].file
  PROVE  Emptied'
<1> SUFFICES ASSUME NEW f \in Files, f \notin open', NEW c \in Ctxs, glctx'[f][c] # 0
             PROVE  \E t \in Threads : op'[t].file = f
  BY DEF Emptied, Busy
<1>1. PICK t \in Threads : op[t].file = f
  BY DEF Emptied, Busy
<1>2. f # None
  BY VtgAssumption
<1> QED BY <1>1, <1>2

\* A close lets go of all notes.
LEMMA EmptiedNext ==
  Control /\ Emptied /\ [Next]_vars => Emptied'
<1> SUFFICES ASSUME Control, Emptied, [Next]_vars PROVE Emptied'
  OBVIOUS
<1> USE VtgAssumption DEF Counted, OnePlace, InOrder, OnlyOvertaken, Control, TypeOK,
        Shaped, Entered, Closing, Taking, Calls, Does, At, Busy, Idle, drawables,
        contexts, Found, Emptied
<1>1. ASSUME NEW f \in Files, Open(f) PROVE Emptied'
  BY <1>1 DEF Open
<1>2. ASSUME NEW t \in Threads, NEW f \in Files, NEW id \in Ids, Create(t, f, id) PROVE Emptied'
  BY <1>2, EmptiedSame DEF Create
<1>3. ASSUME NEW t \in Threads, NEW f \in Files, NEW id \in Ids, Clip(t, f, id) PROVE Emptied'
  BY <1>3, EmptiedSame DEF Clip
<1>4. ASSUME NEW t \in Threads, NEW f \in Files, NEW id \in Ids, Destroy(t, f, id)
      PROVE Emptied'
  BY <1>4, EmptiedSame DEF Destroy
<1>5. ASSUME NEW t \in Threads, NEW f \in Files, NEW id \in Ids, Command(t, f, id)
      PROVE Emptied'
  BY <1>5, EmptiedSame DEF Command
<1>6. ASSUME NEW t \in Threads, NEW f \in Files, NEW c \in Ctxs, MakeContext(t, f, c)
      PROVE Emptied'
  BY <1>6, EmptiedSame DEF MakeContext
<1>7. ASSUME NEW t \in Threads, NEW f \in Files, NEW c \in Ctxs, DestroyContext(t, f, c)
      PROVE Emptied'
  BY <1>7, EmptiedSame DEF DestroyContext
<1>8. ASSUME NEW t \in Threads, NEW f \in Files, Close(t, f) PROVE Emptied'
  BY <1>8 DEF Close
<1>9. ASSUME NEW t \in Threads, Link(t) PROVE Emptied'
  BY <1>9 DEF Link
<1>10. ASSUME NEW t \in Threads, Unlink(t) PROVE Emptied'
  BY <1>10, EmptiedSame DEF Unlink
<1>11. ASSUME NEW t \in Threads, FreeEntry(t) PROVE Emptied'
  BY <1>11 DEF FreeEntry
<1>12. ASSUME NEW t \in Threads, PutBuffer(t) PROVE Emptied'
  BY <1>12 DEF PutBuffer
<1>13. ASSUME NEW t \in Threads, NoteContext(t) PROVE Emptied'
  <2>1. op[t].file \in open /\ open' = open
    BY <1>13 DEF NoteContext
  <2>2. \A u \in Threads : u # t => op'[u] = op[u]
    BY <1>13 DEF NoteContext
  <2>3. \A g \in Files : g # op[t].file => glctx'[g] = glctx[g]
    BY <1>13 DEF NoteContext
  <2> SUFFICES ASSUME NEW g \in Files, g \notin open, NEW d \in Ctxs, glctx'[g][d] # 0
               PROVE  \E u \in Threads : op'[u].file = g
    BY <2>1
  <2>4. g # op[t].file /\ glctx[g][d] # 0
    BY <2>1, <2>3
  <2>5. PICK u \in Threads : op[u].file = g
    BY <2>4
  <2> QED BY <2>2, <2>4, <2>5
<1>14. ASSUME NEW t \in Threads, ForgetContext(t) PROVE Emptied'
  BY SMTT(40), <1>14 DEF ForgetContext
<1>15. ASSUME NEW t \in Threads, CloseUnlink(t) PROVE Emptied'
  <2>1. PICK e \in Entries : op' = [op EXCEPT ![t].pc = "unhash", ![t].ent = e]
    BY <1>15 DEF CloseUnlink
  <2>2. \A u \in Threads : op'[u].file = op[u].file
    BY <2>1
  <2> QED BY <1>15, <2>2, EmptiedSame DEF CloseUnlink
<1>16. ASSUME NEW t \in Threads, CloseUnhash(t) PROVE Emptied'
  BY <1>16, EmptiedSame DEF CloseUnhash
<1>17. ASSUME NEW t \in Threads, CloseDrop(t) PROVE Emptied'
  <2>1. \A u \in Threads : op'[u].file = op[u].file
    BY <1>17 DEF CloseDrop
  <2> QED BY <1>17, <2>1, EmptiedSame DEF CloseDrop
<1>18. ASSUME NEW t \in Threads, CloseContext(t) PROVE Emptied'
  BY <1>18 DEF CloseContext
<1>19. ASSUME NEW t \in Threads, CloseDone(t) PROVE Emptied'
  BY <1>19 DEF CloseDone
<1>20. CASE UNCHANGED vars
  BY <1>20 DEF vars, drawables, contexts
<1> QED BY <1>1, <1>2, <1>3, <1>4, <1>5, <1>6, <1>7, <1>8, <1>9, <1>10, <1>11, <1>12,
     <1>13, <1>14, <1>15, <1>16, <1>17, <1>18, <1>19, <1>20 DEF Next, Step, Call

IInv ==
  /\ Control
  /\ Counted /\ OnePlace /\ Findable
  /\ OnlyOvertaken /\ InOrder
  /\ Noting /\ Emptied

LEMMA InitInv == Init => IInv
<1> SUFFICES ASSUME Init PROVE IInv
  OBVIOUS
<1> USE VtgAssumption DEF Init, Idle
<1>1. TypeOK
  <2>1. Idle \in Ops
    BY DEF Ops, PCs
  <2>2. op \in [Threads -> Ops]
    BY <2>1
  <2>3. corrupt \in BOOLEAN /\ overtaken \in BOOLEAN
    OBVIOUS
  <2>4. glctx \in [Files -> [Ctxs -> Nat]]
    OBVIOUS
  <2> QED BY <2>2, <2>3, <2>4 DEF TypeOK
<1>2. Shaped /\ Entered
  BY DEF Shaped, Entered, Closing, Taking
<1>3. Counting
  <2>1. \A b \in Bufs : Holders(b) = {}
    BY DEF Holders
  <2> QED BY <2>1, FS_EmptySet DEF Counting
<1>4. Placing /\ Hashed /\ Careful
  BY DEF Placing, Hashed, Careful, Taking
<1>5. Noting
  <2>1. \A f \in Files, c \in Ctxs : Making(f, c) = {} /\ Destroying(f, c) = {}
    BY DEF Making, Destroying
  <2>2. \A f \in Files, c \in Ctxs : glctx[f][c] = 0 /\ ctx[c] # f
    OBVIOUS
  <2>3. Cardinality({}) = 0
    BY FS_EmptySet
  <2>4. \A f \in Files, c \in Ctxs :
          Cardinality(Making(f, c)) = 0 /\ Cardinality(Destroying(f, c)) = 0
    BY <2>1, <2>3
  <2> HIDE DEF Init
  <2> QED BY <2>2, <2>4 DEF Noting
<1>6. Emptied
  BY DEF Emptied
<1>7. OnlyOvertaken
  BY DEF OnlyOvertaken
<1> QED BY <1>1, <1>2, <1>3, <1>4, <1>5, <1>6, <1>7 DEF IInv, Control, Counted, OnePlace,
     Findable, InOrder

LEMMA Inductive == Spec => []IInv
<1>1. IInv /\ [Next]_vars => IInv'
  BY TypeNext, ShapedNext, EnteredNext, CountingNext, PlacingNext, HashedNext,
     SafeNext, CarefulNext, NotingNext, EmptiedNext DEF IInv, Control
<1> QED BY InitInv, <1>1, PTL DEF Spec

\* Clip buffers are counted: none is freed while it is held, and every one that
\* nobody holds is free (prlvtg.c:102-114, 138, 181, 273, 320, 373).
THEOREM BuffersAreCounted == Spec => []BuffersCounted
<1>1. IInv => BuffersCounted
  BY DEF IInv, Control, BuffersCounted, Counted, Counting
<1> QED BY Inductive, <1>1, PTL

\* Memory is misused only after an overtaken creation (prlvtg.c:236-244, 257-275).
THEOREM CorruptsOnlyOvertaken == Spec => []OnlyOvertaken
<1>1. IInv => OnlyOvertaken
  BY DEF IInv
<1> QED BY Inductive, <1>1, PTL

\* An entry in the hash is that of a file that is open or being closed, which
\* finds it (prlvtg.c:161-182, 213-246).
THEOREM DrawablesPlaced == Spec => []Placed
<1>1. IInv => Placed
  <2> SUFFICES ASSUME IInv, ~overtaken, NEW id \in Ids, hash[id] # None
               PROVE  LET e == hash[id] IN
        /\ \A i \in Ids : hash[i] = e => i = id
        /\ \/ /\ owner[e] \in open
              /\ e \in list[owner[e]] \/ \E t \in Threads : At(t, "link") /\ op[t].ent = e
           \/ \E t \in Threads : /\ op[t].pc \in {"close", "unhash", "drop"}
                                 /\ op[t].file = owner[e]
                                 /\ e \in list[owner[e]] \/ (At(t, "unhash") /\ op[t].ent = e)
        /\ \A f \in Files : e \in list[f] => f = owner[e]
    BY DEF Placed
  <2> DEFINE e == hash[id]
  <2>1. Entered /\ Shaped /\ Placing /\ Hashed
    BY DEF IInv, Control, OnePlace, Findable, OnlyOvertaken
  <2>2. \A i \in Ids : hash[i] = e => i = id
    BY <2>1 DEF Placing
  <2>3. \A f \in Files : e \in list[f] => f = owner[e]
    BY <2>1 DEF Placing
  <2>4. owner[e] # None
    BY <2>1 DEF Placing
  <2>5. \/ e \in list[owner[e]]
        \/ \E t \in Threads : op[t].pc \in {"link", "unhash"} /\ op[t].ent = e
    BY <2>1 DEF Hashed
  <2>6. CASE owner[e] \in open
    <3>1. ASSUME NEW t \in Threads, op[t].pc = "unhash", op[t].ent = e PROVE FALSE
      BY <2>1, <2>6, <3>1 DEF Placing, Entered, Taking, Closing
    <3> QED BY <2>2, <2>3, <2>5, <2>6, <3>1 DEF At
  <2>7. CASE owner[e] \notin open
    <3>1. PICK t \in Threads : op[t].pc \in Closing /\ op[t].file = owner[e]
      BY <2>1, <2>7 DEF Hashed
    <3>2. ASSUME NEW u \in Threads, op[u].pc = "link", op[u].ent = e PROVE FALSE
      BY <2>1, <2>4, <2>7, <3>2 DEF Placing, Entered, Closing
    <3>3. ASSUME NEW u \in Threads, op[u].pc = "unhash", op[u].ent = e PROVE u = t
      BY <2>1, <3>1, <3>3 DEF Placing, Entered, Taking
    <3> QED BY <2>2, <2>3, <2>5, <3>1, <3>2, <3>3 DEF At, Closing
  <2> QED BY <2>6, <2>7
<1> QED BY Inductive, <1>1, PTL

\* A context that the host has made for a file is noted there or about to be,
\* and goes with it, but for the files named in the property
\* (prlvtg.c:37-72, 184-199, 366-371).
THEOREM ContextsAreNoted == Spec => []ContextsNoted
<1>1. IInv => ContextsNoted
  <2> SUFFICES ASSUME IInv, NEW c \in Ctxs, ctx[c] # None, ctx[c] \notin slipped
               PROVE  \/ glctx[ctx[c]][c] > 0 /\ (ctx[c] \in open \/ Busy(ctx[c]))
                      \/ \E t \in Threads : At(t, "made") /\ op[t].file = ctx[c] /\ op[t].ctx = c
    BY DEF ContextsNoted
  <2>1. ctx[c] \in Files
    BY DEF IInv, Control, TypeOK
  <2>2. CASE Making(ctx[c], c) = {}
    <3>1. Cardinality(Making(ctx[c], c)) = 0
      BY <2>2, FS_EmptySet
    <3>2. glctx[ctx[c]][c] > 0
      BY <2>1, <3>1, CallsFinite DEF IInv, Control, Noting, TypeOK
    <3>3. ctx[c] \in open \/ Busy(ctx[c])
      BY <2>1, <3>2 DEF IInv, Emptied
    <3> QED BY <3>2, <3>3
  <2>3. CASE Making(ctx[c], c) # {}
    BY <2>3 DEF Making, At
  <2> QED BY <2>2, <2>3
<1> QED BY Inductive, <1>1, PTL
=============================================================================
