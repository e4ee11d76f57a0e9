--------------------------- MODULE PrlFsNamesProofs ---------------------------
(***************************************************************************)
(* For any number of threads, names, dentries and files: a request about   *)
(* an inode reaches its file, what is shown within the ttl is what the     *)
(* host has, a name with a file is found, and the kernel's names are the   *)
(* host's, but for the known races.                                        *)
(***************************************************************************)
EXTENDS PrlFsNames, TLAPS

Changes == {"create", "unlink", "rename"}
Target(c) == IF c.cur = None THEN c.name ELSE c.to

\* What a call knows and has, by where it is.
Shaped(c) ==
  /\ c.at \in {"walk", "looking", "looked"} => c.op \in Changes \cup {"open"}
  /\ c.at \in {"asking", "answered"} => c.op \in Changes \cup {"open", "stat"}
  /\ c.at \in {"setting", "set"} => c.op = "setattr" /\ c.path # None
  /\ c.at \in {"create", "created"} => c.op = "create"
  /\ c.at \in {"unlink", "removed"} => c.op = "unlink"
  /\ c.at \in {"rename", "renamed"} => c.op = "rename" /\ c.tgt # None
  /\ c.at = "rename" => ~c.ok
  /\ c.at \in {"create", "created", "unlink", "removed", "rename", "renamed"} => c.cur # None
  /\ c.at = "created" => c.file # None
  /\ c.at = "answered" /\ c.ok => c.file # None
  /\ c.at \in {"asking", "answered"} <=> c.probe # None
  /\ c.probe # None => c.path # None
  /\ c.op \in Changes \cup {"open"} => c.name # None
  /\ c.op = "rename" => c.to # None /\ c.to # c.name
  /\ c.cur # None => c.op \in Changes
  /\ c.cur # None /\ c.at \in {"walk", "looking", "looked", "asking", "answered"} => c.op = "rename"
  /\ c.tgt # None => c.at \in {"rename", "renamed"}

\* Calls that change the directory, and those that look a name up, have its lock.
Locked ==
  \A t \in Threads :
    /\ Shaped(call[t])
    /\ call[t].op \in Changes \/ call[t].at \in {"looking", "looked"} => lock = t
    /\ call[t].at \in {"setting", "set"} => fd[t] # None

\* Dentry d is the only one of name n that can be found.
Owns(D, d, n) ==
  /\ D[d].name = n /\ ~D[d].unlinked
  /\ \A e \in Dentries : D[e].hashed /\ D[e].name = n => e = d

\* What a call relies on of the dentries it has.
Knows(D, c) ==
  /\ c.cur # None => Owns(D, c.cur, c.name)
  /\ c.tgt # None => Owns(D, c.tgt, c.to)
  /\ c.probe # None => D[c.probe].file # None
  /\ c.probe # None /\ c.op \in Changes => Owns(D, c.probe, Target(c))
  /\ c.at \in {"looking", "looked"} =>
       \A e \in Dentries : D[e].hashed => D[e].name # Target(c)
  /\ c.at \in {"create", "created"} => D[c.cur].file = None
  /\ c.at = "renamed" /\ c.ok => D[c.tgt].loose

\* A dentry that is good for requests can be found, and none is found twice.
Kept(D) ==
  /\ \A d \in Dentries :
       /\ D[d].unlinked => ~D[d].hashed
       /\ D[d].file # None => D[d].name # None
       /\ D[d].file # None /\ ~D[d].loose /\ ~D[d].unlinked => D[d].hashed
  /\ \A d, e \in Dentries : D[d].hashed /\ D[e].hashed /\ D[d].name = D[e].name => d = e

\* Dentries whose name the host has changed while the kernel has not yet.
Parting(calls, d) ==
  \E t \in Threads : /\ calls[t].cur = d
                     /\ calls[t].at = "removed" \/ (calls[t].at = "renamed" /\ calls[t].ok)

Named(D, h, calls) ==
  \A d \in Dentries : D[d].file # None /\ ~D[d].loose /\ ~D[d].unlinked =>
    h[D[d].name] = IF Parting(calls, d) THEN None ELSE D[d].file

\* A request in time has its dentry's name.
InTime(D, c, f) ==
  /\ c.at = "asking" /\ ~c.late => c.path = D[c.probe].name /\ ~D[c.probe].unlinked
  /\ c.at = "setting" /\ ~c.late => c.path = D[f].name /\ ~D[f].unlinked

\* A name that has had a file all the time has one now.
Sees(h, c) ==
  c.seen => c.cur = None /\ c.name # None /\ h[c.name] # None /\ (c.at = "looked" => c.file # None)

\* Attributes within their ttl.
BeingSet(calls, fds, d) == \E t \in Threads : calls[t].at = "set" /\ fds[t] = d
Good(e, F) ==
  e.timed /\ e.file # None /\ ~e.stale => e.attrs \cap Taken = F[e.file].attrs \cap Taken
Fresh(D, F, calls, fds) ==
  \A d \in Dentries : BeingSet(calls, fds, d) \/ Good(D[d], F)

Sound(D, h, calls, fds) ==
  /\ Kept(D) /\ Named(D, h, calls)
  /\ \A t \in Threads :
       /\ Knows(D, calls[t]) /\ InTime(D, calls[t], fds[t])
       /\ fds[t] # None => D[fds[t]].file # None
Seeing == \A t \in Threads : Sees(host, call[t])

Control == TypeOK /\ Locked
IInv    == /\ Control /\ Sound(de, host, call, fd) /\ Fresh(de, file, call, fd) /\ Seeing
           /\ NoneStrays /\ NoneMissed

-----------------------------------------------------------------------------
(* Calls and dentries.                                                     *)

\* None is nothing else.
LEMMA Nothing ==
  None \notin Threads /\ None \notin Names /\ None \notin Dentries /\ None \notin Files
BY NamesAssumption

\* What a thread is that makes no call.
LEMMA IdleCall ==
  /\ Idle \in Calls /\ Shaped(Idle) /\ Idle.op = "none" /\ Idle.at = "idle"
  /\ Idle.cur = None /\ Idle.tgt = None /\ Idle.probe = None /\ Idle.path = None
  /\ Idle.late = FALSE /\ Idle.seen = FALSE /\ Idle.ok = FALSE
<1>1. Idle \in Calls
  BY DEF Idle, Calls, Ops, Ats, Kinds, Attrs
<1>2. Shaped(Idle)
  BY DEF Idle, Shaped, Changes
<1> QED BY <1>1, <1>2 DEF Idle

\* What a dentry is that nobody remembers.
LEMMA BlankEntry ==
  /\ Blank \in Entries /\ Blank.name = None /\ Blank.file = None /\ Blank.hashed = FALSE
  /\ Blank.unlinked = FALSE /\ Blank.timed = FALSE /\ Blank.loose = FALSE /\ Blank.stale = FALSE
BY DEF Blank, Entries, Kinds, Attrs

\* A call goes on as it was, as far as the rest can tell.
Alike(c, x) ==
  /\ x.op = c.op /\ x.at = c.at /\ x.name = c.name /\ x.to = c.to /\ x.cur = c.cur
  /\ x.tgt = c.tgt /\ x.probe = c.probe /\ x.path = c.path /\ x.file = c.file
  /\ x.ok = c.ok /\ x.kind = c.kind /\ x.attrs = c.attrs /\ x.ask = c.ask /\ x.set = c.set

\* A change of names leaves the calls as they were, but late and with less seen.
LEMMA Disturbing ==
  ASSUME NEW calls \in [Threads -> Calls], NEW n \in SUBSET Names
  PROVE  /\ Disturbed(calls, n) \in [Threads -> Calls]
         /\ \A u \in Threads :
              LET x == Disturbed(calls, n)[u] IN
              /\ Alike(calls[u], x)
              /\ calls[u].late => x.late
              /\ calls[u].path \in n => x.late
              /\ x.seen => calls[u].seen /\ calls[u].name \notin n
<1> SUFFICES ASSUME NEW u \in Threads
             PROVE  LET x == Disturbed(calls, n)[u] IN
                    /\ x \in Calls /\ Alike(calls[u], x)
                    /\ calls[u].late => x.late
                    /\ calls[u].path \in n => x.late
                    /\ x.seen => calls[u].seen /\ calls[u].name \notin n
  BY DEF Disturbed
<1> DEFINE late == calls[u].late \/ calls[u].path \in n
           seen == calls[u].seen /\ calls[u].name \notin n
<1>1. calls[u] \in Calls
  OBVIOUS
<1>2. Disturbed(calls, n)[u] = [calls[u] EXCEPT !.late = late, !.seen = seen]
  BY DEF Disturbed
<1>3. late \in BOOLEAN /\ seen \in BOOLEAN
  BY Zenon
<1>4. /\ calls[u].late => late
      /\ calls[u].path \in n => late
      /\ seen => calls[u].seen /\ calls[u].name \notin n
  BY Zenon
<1> HIDE DEF late, seen
<1> DEFINE x == [calls[u] EXCEPT !.late = late, !.seen = seen]
<1>5. x \in Calls
  BY <1>1, <1>3 DEF Calls
<1>6. Alike(calls[u], x)
  BY <1>1 DEF Calls, Alike
<1>7. x.late = late /\ x.seen = seen
  BY <1>1 DEF Calls
<1>8. Disturbed(calls, n)[u] = x
  BY <1>2
<1> HIDE DEF x
<1> QED BY <1>4, <1>5, <1>6, <1>7, <1>8

\* What a call must have does not depend on being late.
LEMMA AlikeShaped ==
  ASSUME NEW c, NEW x, Alike(c, x), Shaped(c)
  PROVE  Shaped(x)
BY DEF Alike, Shaped

\* A call ends.
LEMMA Ending ==
  ASSUME Control, NEW t \in Threads, Ends(t)
  PROVE  /\ call' \in [Threads -> Calls] /\ lock' \in Threads \cup {None}
         /\ call'[t] = Idle /\ \A u \in Threads \ {t} : call'[u] = call[u]
         /\ \A u \in Threads \ {t} : lock = u => lock' = u
BY IdleCall DEF Ends, Control, TypeOK

\* The locks stay right when the others go on as they were.
LEMMA StillLocked ==
  ASSUME Control, NEW t \in Threads, \A u \in Threads \ {t} : Alike(call[u], call'[u]) \/ call'[u] = call[u],
         \A u \in Threads \ {t} : (lock = u => lock' = u) /\ fd'[u] = fd[u],
         Shaped(call'[t]),
         call'[t].op \in Changes \/ call'[t].at \in {"looking", "looked"} => lock' = t,
         call'[t].at \in {"setting", "set"} => fd'[t] # None
  PROVE  Locked'
<1> SUFFICES ASSUME NEW u \in Threads
             PROVE  /\ Shaped(call'[u])
                    /\ call'[u].op \in Changes \/ call'[u].at \in {"looking", "looked"} => lock' = u
                    /\ call'[u].at \in {"setting", "set"} => fd'[u] # None
  BY DEF Locked
<1>1. CASE u = t
  BY <1>1
<1>2. CASE u # t
  <2>1. Alike(call[u], call'[u])
    BY <1>2 DEF Alike
  <2> QED BY <1>2, <2>1, AlikeShaped DEF Control, Locked, Alike
<1> QED BY <1>1, <1>2

\* A walk has come to a dentry, which is taken to be of a file or not.
LEMMA Arriving ==
  ASSUME Control, NEW t \in Threads, NEW d \in Dentries, NEW there \in BOOLEAN,
         call[t].at \in {"walk", "looked", "answered"}, call[t].op \in Changes \cup {"open"},
         call[t].at # "answered" => call[t].probe = None,
         Arrives(t, d, there)
  PROVE  /\ call' \in [Threads -> Calls] /\ lock' \in Threads \cup {None}
         /\ fd' \in [Threads -> Dentries \cup {None}]
         /\ \A u \in Threads \ {t} : call'[u] = call[u] /\ fd'[u] = fd[u]
         /\ fd'[t] = fd[t] \/ (there /\ fd'[t] = d)
         /\ Locked'
         /\ call'[t].probe = None /\ ~call'[t].late /\ ~call'[t].ok
         /\ call'[t].at \in {"idle", "walk", "create", "unlink", "rename"}
         /\ \/ call'[t] = Idle
            \/ /\ call[t].cur = None /\ call'[t].cur = d /\ call'[t].tgt = None
               /\ call[t].op \in Changes /\ call'[t].op = call[t].op
               /\ call'[t].name = call[t].name /\ ~call'[t].seen
               /\ call'[t].at = "create" => ~there
            \/ /\ call[t].cur # None /\ call'[t].cur = call[t].cur /\ call'[t].tgt = d
               /\ call[t].op \in Changes /\ call'[t].op = call[t].op /\ call'[t].at = "rename"
               /\ call'[t].name = call[t].name /\ call'[t].to = call[t].to
               /\ call'[t].seen => call[t].seen
<1> DEFINE c == Rested(call[t])
<1>0. /\ call \in [Threads -> Calls] /\ call[t] \in Calls /\ Shaped(call[t])
      /\ fd \in [Threads -> Dentries \cup {None}] /\ lock \in Threads \cup {None}
      /\ d # None /\ t # None
  BY Nothing DEF Control, TypeOK, Locked
<1>1. /\ c \in Calls /\ c.probe = None /\ ~c.late /\ ~c.ok /\ c.path = None /\ c.file = None
      /\ c.op = call[t].op /\ c.at = call[t].at /\ c.name = call[t].name /\ c.to = call[t].to
      /\ c.cur = call[t].cur /\ c.tgt = call[t].tgt /\ c.seen = call[t].seen
  BY <1>0, ZenonT(40) DEF Rested, Calls
<1> HIDE DEF c
<1>2. Arrives(t, d, there) <=>
        \/ /\ c.op = "open"
           /\ Ends(t)
           /\ fd' = IF there THEN [fd EXCEPT ![t] = d] ELSE fd
        \/ /\ c.op # "open"
           /\ UNCHANGED fd
           /\ \/ /\ c.op = "rename" /\ c.cur # None
                 /\ call' = [call EXCEPT ![t] = [c EXCEPT !.tgt = d, !.at = "rename"]]
                 /\ UNCHANGED lock
              \/ /\ c.cur = None /\ there = (c.op # "create")
                 /\ call' = [call EXCEPT ![t] = [c EXCEPT !.cur = d, !.seen = FALSE,
                               !.at = IF c.op = "rename" THEN "walk" ELSE c.op]]
                 /\ UNCHANGED lock
              \/ /\ c.cur = None /\ there # (c.op # "create")
                 /\ Ends(t)
  BY DEF Arrives, c
<1>3. CASE Ends(t) /\ (fd' = fd \/ (there /\ fd' = [fd EXCEPT ![t] = d]))
  <2>1. /\ call' \in [Threads -> Calls] /\ lock' \in Threads \cup {None}
        /\ call'[t] = Idle /\ \A u \in Threads \ {t} : call'[u] = call[u]
        /\ \A u \in Threads \ {t} : lock = u => lock' = u
    BY <1>3, Ending
  <2>2. /\ fd' \in [Threads -> Dentries \cup {None}]
        /\ \A u \in Threads \ {t} : fd'[u] = fd[u]
        /\ fd'[t] = fd[t] \/ (there /\ fd'[t] = d)
    BY <1>0, <1>3
  <2>3. Locked'
    BY <2>1, <2>2, IdleCall, StillLocked DEF Changes
  <2> QED BY <2>1, <2>2, <2>3, IdleCall
<1>4. CASE /\ c.op # "open" /\ c.op = "rename" /\ c.cur # None /\ UNCHANGED <<fd, lock>>
           /\ call' = [call EXCEPT ![t] = [c EXCEPT !.tgt = d, !.at = "rename"]]
  <2> DEFINE x == [c EXCEPT !.tgt = d, !.at = "rename"]
  <2>0. "rename" \in Ats
    BY DEF Ats
  <2>1. /\ x \in Calls /\ x.op = c.op /\ x.at = "rename" /\ x.name = c.name /\ x.to = c.to
        /\ x.cur = c.cur /\ x.tgt = d /\ x.probe = None /\ ~x.late /\ ~x.ok /\ x.seen = c.seen
    BY <1>0, <1>1, <2>0, ZenonT(40) DEF Calls
  <2>2. call' = [call EXCEPT ![t] = x]
    BY <1>4
  <2> HIDE DEF x
  <2>3. Shaped(x)
    BY <1>0, <1>1, <1>4, <2>1 DEF Shaped, Changes
  <2>4. /\ call' \in [Threads -> Calls] /\ call'[t] = x
        /\ \A u \in Threads \ {t} : call'[u] = call[u]
    BY <1>0, <2>1, <2>2
  <2>5. lock = t
    BY <1>1, <1>4 DEF Control, Locked, Changes
  <2>6. Locked'
    BY <1>4, <2>1, <2>3, <2>4, <2>5, StillLocked
  <2> QED BY <1>0, <1>1, <1>4, <2>1, <2>4, <2>6 DEF Changes
<1>5. CASE /\ c.op # "open" /\ c.cur = None /\ there = (c.op # "create") /\ UNCHANGED <<fd, lock>>
           /\ call' = [call EXCEPT ![t] = [c EXCEPT !.cur = d, !.seen = FALSE,
                         !.at = IF c.op = "rename" THEN "walk" ELSE c.op]]
  <2> DEFINE at == IF c.op = "rename" THEN "walk" ELSE c.op
             x == [c EXCEPT !.cur = d, !.seen = FALSE, !.at = at]
  <2>0. /\ at \in Ats /\ at \in {"walk", "create", "unlink"} /\ (at = "walk" => c.op = "rename")
        /\ (at = "create" => c.op = "create") /\ (at = "unlink" => c.op = "unlink")
        /\ c.op \in Changes
    BY <1>1, <1>5 DEF Ats, Changes
  <2> HIDE DEF at
  <2>1. /\ x \in Calls /\ x.op = c.op /\ x.at = at /\ x.name = c.name /\ x.to = c.to
        /\ x.cur = d /\ x.tgt = c.tgt /\ x.probe = None /\ ~x.late /\ ~x.ok /\ ~x.seen
    BY <1>0, <1>1, <2>0, ZenonT(40) DEF Calls
  <2>2. call' = [call EXCEPT ![t] = x]
    BY <1>5 DEF at
  <2> HIDE DEF x
  <2>3. c.tgt = None
    BY <1>0, <1>1 DEF Shaped
  <2>4. Shaped(x)
    BY <1>0, <1>1, <2>0, <2>1, <2>3 DEF Shaped, Changes
  <2>5. /\ call' \in [Threads -> Calls] /\ call'[t] = x
        /\ \A u \in Threads \ {t} : call'[u] = call[u]
    BY <1>0, <2>1, <2>2
  <2>6. lock = t
    BY <1>1, <2>0 DEF Control, Locked
  <2>7. Locked'
    BY <1>5, <2>0, <2>1, <2>4, <2>5, <2>6, StillLocked
  <2>8. at = "create" => ~there
    BY <1>5, <2>0
  <2> QED BY <1>0, <1>1, <1>5, <2>0, <2>1, <2>3, <2>5, <2>7, <2>8
<1> QED BY <1>2, <1>3, <1>4, <1>5

\* What an entry is after an answer.
LEMMA Answered ==
  ASSUME TypeOK, NEW e \in Entries, NEW f \in Files, NEW a \in SUBSET Attrs
  PROVE  LET x == Changed(e, f, a) IN
         /\ x \in Entries /\ x.name = e.name /\ x.file = e.file /\ x.hashed = e.hashed
         /\ x.unlinked = e.unlinked /\ x.bad = e.bad /\ x.kind = e.kind /\ x.loose = e.loose
         /\ x.timed /\ (~x.stale => f = e.file /\ file[f].attrs = a)
         /\ x.attrs \cap Taken = a \cap Taken
<1>1. Taken \subseteq Attrs
  BY DEF Taken, Attrs
<1> DEFINE b == (a \cap Taken) \cup (e.attrs \ Taken)
           s == f # e.file \/ file[f].attrs # a
<1>2. b \in SUBSET Attrs /\ s \in BOOLEAN /\ b \cap Taken = a \cap Taken
  BY <1>1 DEF Entries
<1>3. Changed(e, f, a) = [e EXCEPT !.attrs = b, !.timed = TRUE, !.stale = s]
  BY DEF Changed, Entries
<1>4. ~s => f = e.file /\ file[f].attrs = a
  OBVIOUS
<1> HIDE DEF b, s
<1> QED BY <1>2, <1>3, <1>4 DEF Entries

\* An entry stays what it was, or can no longer be found.
SameEntry(x, y) ==
  /\ y.name = x.name /\ y.file = x.file /\ y.unlinked = x.unlinked
  /\ y.hashed => x.hashed
  /\ x.loose => y.loose
  /\ x.hashed /\ ~y.hashed => y.loose \/ y.file = None

\* What Settle leaves of the dentries.
LEMMA Settling ==
  ASSUME NEW des \in [Dentries -> Entries], NEW files \in [Files -> Infos],
         Settle(des, files)
  PROVE  /\ de' \in [Dentries -> Entries] /\ file' \in [Files -> Infos]
         /\ \A d \in Dentries :
              \/ de'[d] = Blank /\ ~HeldIn(d, call', fd') /\ ~des[d].hashed
              \/ /\ SameEntry(des[d], de'[d])
                 /\ de'[d].timed = des[d].timed
                 /\ des[d].timed => de'[d] = des[d]
         /\ \A d \in Dentries : de'[d].file \in Files => file'[de'[d].file] = files[de'[d].file]
<1>1. NoFile \in Infos
  BY DEF NoFile, Infos, Kinds, Attrs
<1>2. file' \in [Files -> Infos]
  BY <1>1 DEF Settle
<1>3. ASSUME NEW d \in Dentries
      PROVE  /\ de'[d] \in Entries
             /\ \/ de'[d] = Blank /\ ~HeldIn(d, call', fd') /\ ~des[d].hashed
                \/ /\ SameEntry(des[d], de'[d])
                   /\ de'[d].timed = des[d].timed
                   /\ des[d].timed => de'[d] = des[d]
  <2> DEFINE e == des[d]
  <2>1. de'[d] = IF ~e.hashed /\ ~HeldIn(d, call', fd') THEN Blank
                 ELSE IF e.timed THEN e
                 ELSE [e EXCEPT !.attrs = @ \ Taken, !.stale = FALSE]
    BY DEF Settle
  <2>2. e \in Entries
    OBVIOUS
  <2> HIDE DEF e
  <2>3. CASE ~e.hashed /\ ~HeldIn(d, call', fd')
    BY <2>1, <2>3, BlankEntry DEF e
  <2>4. CASE ~(~e.hashed /\ ~HeldIn(d, call', fd')) /\ e.timed
    <3>1. de'[d] = e
      BY <2>1, <2>4
    <3> QED BY <2>2, <2>4, <3>1 DEF e, SameEntry
  <2>5. CASE ~(~e.hashed /\ ~HeldIn(d, call', fd')) /\ ~e.timed
    <3> DEFINE x == [e EXCEPT !.attrs = @ \ Taken, !.stale = FALSE]
    <3>1. de'[d] = x
      BY <2>1, <2>5
    <3>2. x \in Entries /\ SameEntry(e, x) /\ x.timed = e.timed
      BY <2>2 DEF Entries, SameEntry
    <3> QED BY <2>5, <3>1, <3>2 DEF e
  <2> QED BY <2>3, <2>4, <2>5
<1>4. ASSUME NEW d \in Dentries, de'[d].file \in Files
      PROVE  file'[de'[d].file] = files[de'[d].file]
  BY <1>4 DEF Settle
<1>5. de' \in [Dentries -> Entries]
  <2>1. de' = [d \in Dentries |-> de'[d]]
    BY DEF Settle
  <2> QED BY <1>3, <2>1
<1> QED BY <1>2, <1>3, <1>4, <1>5

\* What a call is when it has got an answer, and when it walks on.
Gone(c, at, ok, f, a) == [c EXCEPT !.at = at, !.ok = ok, !.file = f, !.attrs = a]

\* The call keeps everything else.
LEMMA Going ==
  ASSUME NEW c \in Calls, NEW at \in Ats, NEW ok \in BOOLEAN, NEW f \in Files \cup {None},
         NEW a \in SUBSET Attrs
  PROVE  LET y == Gone(c, at, ok, f, a) IN
         /\ y \in Calls /\ y.at = at /\ y.ok = ok /\ y.file = f /\ y.attrs = a
         /\ y.op = c.op /\ y.name = c.name /\ y.to = c.to /\ y.kind = c.kind /\ y.cur = c.cur
         /\ y.tgt = c.tgt /\ y.probe = c.probe /\ y.path = c.path /\ y.ask = c.ask /\ y.set = c.set
         /\ y.late = c.late /\ y.seen = c.seen
<1> DEFINE x == [c EXCEPT !.at = at, !.ok = ok]
           y == [x EXCEPT !.file = f, !.attrs = a]
<1>1. x \in Calls /\ x.at = at /\ x.ok = ok
  BY ZenonT(40) DEF Calls
<1>2. /\ x.op = c.op /\ x.name = c.name /\ x.to = c.to /\ x.kind = c.kind /\ x.cur = c.cur
      /\ x.tgt = c.tgt /\ x.probe = c.probe /\ x.path = c.path /\ x.ask = c.ask /\ x.set = c.set
      /\ x.late = c.late /\ x.seen = c.seen
  BY DEF Calls
<1>3. Gone(c, at, ok, f, a) = y
  BY DEF Calls, Gone
<1> HIDE DEF x
<1>4. y \in Calls /\ y.at = x.at /\ y.ok = x.ok /\ y.file = f /\ y.attrs = a
  <2>1. [x EXCEPT !.file = f] \in Calls
    BY <1>1 DEF Calls
  <2>2. \A z \in Calls : [z EXCEPT !.attrs = a] \in Calls
    BY DEF Calls
  <2>3. y = [[x EXCEPT !.file = f] EXCEPT !.attrs = a]
    BY <1>1 DEF Calls
  <2>4. y \in Calls
    BY <2>1, <2>2, <2>3
  <2>5. y.at = x.at /\ y.ok = x.ok /\ y.file = f /\ y.attrs = a
    BY <1>1 DEF Calls
  <2> QED BY <2>4, <2>5
<1>5. /\ y.op = x.op /\ y.name = x.name /\ y.to = x.to /\ y.kind = x.kind /\ y.cur = x.cur
      /\ y.tgt = x.tgt /\ y.probe = x.probe /\ y.path = x.path /\ y.ask = x.ask /\ y.set = x.set
      /\ y.late = x.late /\ y.seen = x.seen
  BY <1>1 DEF Calls
<1> HIDE DEF y
<1> QED BY <1>1, <1>2, <1>3, <1>4, <1>5

\* A walk that is over has forgotten its requests only.
LEMMA Resting ==
  ASSUME NEW c \in Calls
  PROVE  LET y == Rested(c) IN
         /\ y \in Calls /\ y.op = c.op /\ y.at = c.at /\ y.name = c.name /\ y.to = c.to
         /\ y.cur = c.cur /\ y.tgt = c.tgt /\ y.probe = None /\ y.path = None /\ y.file = None
         /\ y.seen = c.seen /\ ~y.late /\ ~y.ok
BY ZenonT(40) DEF Calls, Rested

\* A bad inode keeps its name and its file, and nobody is promised its attributes.
LEMMA Spoiling ==
  ASSUME NEW e \in Entries
  PROVE  LET x == MadeBad(e) IN
         /\ x \in Entries /\ x.name = e.name /\ x.file = e.file /\ x.hashed = e.hashed
         /\ x.unlinked = e.unlinked /\ x.loose = e.loose /\ x.stale
BY DEF MadeBad, Entries, Kinds

\* A thread goes on with y, and what the others are doing may be disturbed.
LEMMA Moving ==
  ASSUME Control, NEW t \in Threads, NEW y \in Calls, Shaped(y),
         y.op \in Changes \/ y.at \in {"looking", "looked"} => lock' = t,
         y.at \in {"setting", "set"} => fd'[t] # None,
         \A u \in Threads \ {t} : (lock = u => lock' = u) /\ fd'[u] = fd[u],
         \/ call' = [call EXCEPT ![t] = y]
         \/ \E n \in SUBSET Names : call' = Disturbed([call EXCEPT ![t] = y], n)
  PROVE  call' \in [Threads -> Calls] /\ Locked'
<1> DEFINE c == [call EXCEPT ![t] = y]
<1>1. c \in [Threads -> Calls] /\ c[t] = y /\ \A u \in Threads \ {t} : c[u] = call[u]
  BY DEF Control, TypeOK
<1> HIDE DEF c
<1>2. /\ call' \in [Threads -> Calls]
      /\ Alike(y, call'[t])
      /\ \A u \in Threads \ {t} : Alike(call[u], call'[u])
  <2>1. CASE call' = c
    BY <1>1, <2>1 DEF Alike
  <2>2. CASE \E n \in SUBSET Names : call' = Disturbed(c, n)
    <3>1. PICK n \in SUBSET Names : call' = Disturbed(c, n)
      BY <2>2
    <3> QED BY <1>1, <3>1, Disturbing
  <2> QED BY <2>1, <2>2 DEF c
<1>3. Shaped(call'[t])
  BY <1>2, AlikeShaped
<1> QED BY <1>2, <1>3, StillLocked DEF Alike

\* A dentry that is looked at or changed exists.
LEMMA Existing ==
  ASSUME Control, NEW t \in Threads
  PROVE  /\ call[t] \in Calls /\ Shaped(call[t]) /\ t # None
         /\ fd[t] \in Dentries \cup {None}
         /\ call[t].cur # None => call[t].cur \in Dentries
         /\ call[t].tgt # None => call[t].tgt \in Dentries
         /\ call[t].probe # None => call[t].probe \in Dentries
         /\ call[t].path # None => call[t].path \in Names
         /\ call[t].name # None => call[t].name \in Names
         /\ call[t].to # None => call[t].to \in Names
         /\ call[t].file # None => call[t].file \in Files
         /\ call[t].op \in Changes \cup {"open"} => call[t].name \in Names
         /\ call[t].op = "rename" => call[t].to \in Names
<1>1. call[t] \in Calls /\ Shaped(call[t]) /\ fd[t] \in Dentries \cup {None}
  BY DEF Control, TypeOK, Locked
<1>2. /\ call[t].cur \in Dentries \cup {None} /\ call[t].tgt \in Dentries \cup {None}
      /\ call[t].probe \in Dentries \cup {None} /\ call[t].path \in Names \cup {None}
      /\ call[t].name \in Names \cup {None} /\ call[t].to \in Names \cup {None}
      /\ call[t].file \in Files \cup {None}
  BY <1>1 DEF Calls
<1>3. call[t].op \in Changes \cup {"open"} => call[t].name # None
  BY <1>1 DEF Shaped
<1>4. call[t].op = "rename" => call[t].to # None
  BY <1>1 DEF Shaped
<1> QED BY <1>1, <1>2, <1>3, <1>4, Nothing

\* The name a walk looks for.
LEMMA Wanting ==
  ASSUME Control, NEW t \in Threads, call[t].at \in {"walk", "looking", "looked"}
  PROVE  Wanted(t) = Target(call[t]) /\ Wanted(t) \in Names
<1>1. call[t].op \in Changes \cup {"open"} /\ (call[t].cur # None => call[t].op = "rename")
  BY Existing DEF Shaped
<1> QED BY <1>1, Existing DEF Wanted, Target

-----------------------------------------------------------------------------
(* Types and locks.                                                        *)

\* Every call of inode.c goes on where it was, with the directory's lock as
\* long as it looks a name up or changes one.
LEMMA ControlNext == Control /\ Sound(de, host, call, fd) /\ [Next]_vars => Control'
<1> SUFFICES ASSUME Control, Sound(de, host, call, fd), [Next]_vars PROVE Control'
  OBVIOUS
<1>0. /\ host \in [Names -> Files \cup {None}] /\ file \in [Files -> Infos]
      /\ de \in [Dentries -> Entries] /\ call \in [Threads -> Calls]
      /\ fd \in [Threads -> Dentries \cup {None}] /\ lock \in Threads \cup {None}
      /\ wrong \subseteq {"stray", "missed"}
  BY DEF Control, TypeOK
<1>1. ASSUME NEW t \in Threads, NEW n \in Names, Open(t, n) PROVE Control'
  <2> DEFINE y == [Idle EXCEPT !.op = "open", !.at = "walk", !.name = n, !.seen = host[n] # None]
  <2>1. /\ y \in Calls /\ y.op = "open" /\ y.at = "walk" /\ y.name = n /\ y.cur = None
        /\ y.tgt = None /\ y.probe = None
    BY DEF Idle, Calls, Ops, Ats, Kinds, Attrs
  <2>2. call' = [call EXCEPT ![t] = y]
    BY <1>1 DEF Open
  <2> HIDE DEF y
  <2>3. Shaped(y)
    BY <2>1, Nothing DEF Shaped, Changes
  <2>4. call' \in [Threads -> Calls] /\ Locked'
    BY <1>1, <2>1, <2>2, <2>3, Moving DEF Open, Changes
  <2> QED BY <1>0, <1>1, <2>4 DEF Open, Control, TypeOK
<1>2. ASSUME NEW t \in Threads, NEW op \in Changes, NEW n \in Names, NEW m \in Names \cup {None},
             NEW k \in Kinds, op = "rename" => m # None /\ m # n, Change(t, op, n, m, k)
      PROVE  Control'
  <2> DEFINE y == [Idle EXCEPT !.op = op, !.at = "walk", !.name = n, !.to = m, !.kind = k,
                               !.seen = host[n] # None]
  <2>1. /\ y \in Calls /\ y.op = op /\ y.at = "walk" /\ y.name = n /\ y.cur = None
        /\ y.tgt = None /\ y.probe = None /\ y.to = m
    BY DEF Idle, Calls, Ops, Ats, Attrs, Changes
  <2>2. call' = [call EXCEPT ![t] = y]
    BY <1>2 DEF Change
  <2> HIDE DEF y
  <2>3. Shaped(y)
    BY <1>2, <2>1, Nothing DEF Shaped, Changes
  <2>4. /\ lock' = t /\ fd' = fd
        /\ \A u \in Threads \ {t} : lock # u
    BY <1>2, Nothing DEF Change
  <2>5. call' \in [Threads -> Calls] /\ Locked'
    BY <2>1, <2>2, <2>3, <2>4, Moving DEF Changes
  <2> QED BY <1>0, <1>2, <2>4, <2>5 DEF Change, Control, TypeOK
<1>3. ASSUME NEW t \in Threads, Close(t) PROVE Control'
  <2>1. de' \in [Dentries -> Entries] /\ file' \in [Files -> Infos]
    BY <1>0, <1>3, Settling DEF Close, Dentry
  <2>2. fd' \in [Threads -> Dentries \cup {None}]
    BY <1>0, <1>3 DEF Close
  <2>3. Locked'
    BY <1>0, <1>3, StillLocked, Existing DEF Close, Control, Locked
  <2> QED BY <1>0, <1>3, <2>1, <2>2, <2>3 DEF Close, Control, TypeOK
<1>4. ASSUME NEW t \in Threads, WalkValid(t) PROVE Control'
  <2>1. PICK d \in Dentries : Finds(t, d) /\ Dentry(de)
    BY <1>4 DEF WalkValid, At
  <2>2. call[t].at = "walk" /\ call[t].op \in Changes \cup {"open"} /\ call[t].probe = None
    BY <1>4, Existing DEF WalkValid, Shaped
  <2>3. /\ call' \in [Threads -> Calls] /\ lock' \in Threads \cup {None}
        /\ fd' \in [Threads -> Dentries \cup {None}] /\ Locked'
    BY <2>1, <2>2, Arriving DEF Finds
  <2>4. de' \in [Dentries -> Entries] /\ file' \in [Files -> Infos]
    BY <1>0, <2>1, Settling DEF Dentry
  <2> QED BY <1>0, <1>4, <2>1, <2>3, <2>4 DEF WalkValid, Finds, Control, TypeOK
\* A request is built for a dentry.
<1>5. ASSUME NEW t \in Threads, NEW c \in Calls, NEW d \in Dentries, Builds(t, c, d),
             c.op \in Changes \cup {"open", "stat"}, c.op \in Changes => lock = t,
             c.op \in Changes \cup {"open"} => c.name # None,
             c.op = "rename" => c.to # None /\ c.to # c.name,
             c.cur # None => c.op = "rename", c.tgt = None, de[d].name # None,
             UNCHANGED <<fd, lock>>
      PROVE  call' \in [Threads -> Calls] /\ Locked'
  <2> DEFINE y == [c EXCEPT !.at = "asking", !.probe = d, !.path = de[d].name, !.late = FALSE]
  <2>0. "asking" \in Ats /\ de[d].name \in Names
    BY <1>0, <1>5 DEF Ats, Entries
  <2>1. /\ y \in Calls /\ y.op = c.op /\ y.at = "asking" /\ y.name = c.name /\ y.cur = c.cur
        /\ y.tgt = c.tgt /\ y.probe = d /\ y.to = c.to /\ y.path = de[d].name
    BY <2>0, ZenonT(40) DEF Calls
  <2>2. call' = [call EXCEPT ![t] = y]
    BY <1>5 DEF Builds
  <2> HIDE DEF y
  <2>3. Shaped(y)
    BY <1>5, <2>1, Nothing DEF Shaped, Changes
  <2> QED BY <1>5, <2>1, <2>2, <2>3, Moving
<1>6. ASSUME NEW t \in Threads, WalkExpired(t) PROVE Control'
  <2>1. PICK d \in At(Wanted(t)) :
          \/ /\ Positive(d)
             /\ Builds(t, call[t], d)
             /\ UNCHANGED <<file, de>>
          \/ /\ ~Positive(d)
             /\ UNCHANGED call
             /\ Dentry([de EXCEPT ![d].hashed = FALSE])
    BY <1>6 DEF WalkExpired
  <2>2. d \in Dentries /\ de[d].name = Wanted(t) /\ Wanted(t) \in Names /\ Wanted(t) # None
    BY <1>6, Wanting, Nothing DEF At, WalkExpired
  <2>3. CASE Builds(t, call[t], d) /\ UNCHANGED <<file, de>>
    <3>1. /\ call[t].op \in Changes \cup {"open"} /\ call[t].tgt = None
          /\ call[t].cur # None => call[t].op = "rename"
          /\ call[t].op \in Changes \cup {"open"} => call[t].name # None
          /\ call[t].op = "rename" => call[t].to # None /\ call[t].to # call[t].name
          /\ call[t].op \in Changes => lock = t
      BY <1>6, Existing DEF WalkExpired, Shaped, Control, Locked
    <3>2. UNCHANGED <<fd, lock>>
      BY <1>6 DEF WalkExpired
    <3>3. call' \in [Threads -> Calls] /\ Locked'
      BY <1>5, <2>2, <2>3, <3>1, <3>2, Existing
    <3> QED BY <1>0, <1>6, <2>3, <3>3 DEF WalkExpired, Control, TypeOK
  <2>4. CASE UNCHANGED call /\ Dentry([de EXCEPT ![d].hashed = FALSE])
    <3> DEFINE e == [de[d] EXCEPT !.hashed = FALSE]
    <3>0. e \in Entries /\ [de EXCEPT ![d].hashed = FALSE] = [de EXCEPT ![d] = e]
      BY <1>0, <2>2, ZenonT(40) DEF Entries
    <3> HIDE DEF e
    <3>1. [de EXCEPT ![d].hashed = FALSE] \in [Dentries -> Entries]
      BY <1>0, <3>0
    <3>2. de' \in [Dentries -> Entries] /\ file' \in [Files -> Infos]
      BY <1>0, <2>4, <3>1, Settling DEF Dentry
    <3> QED BY <1>0, <1>6, <2>4, <3>2 DEF WalkExpired, Control, TypeOK, Locked
  <2> QED BY <2>1, <2>3, <2>4
<1>7. ASSUME NEW t \in Threads, WalkMisses(t) PROVE Control'
  <2> DEFINE y == [call[t] EXCEPT !.at = "looking"]
  <2>1. /\ y \in Calls /\ y.op = call[t].op /\ y.at = "looking" /\ y.name = call[t].name
        /\ y.cur = call[t].cur /\ y.tgt = call[t].tgt /\ y.probe = call[t].probe
        /\ y.to = call[t].to /\ y.path = call[t].path
    BY <1>0 DEF Calls, Ats
  <2>2. call' = [call EXCEPT ![t] = y]
    BY <1>7 DEF WalkMisses
  <2> HIDE DEF y
  <2>3. Shaped(y)
    BY <1>7, <2>1, Existing DEF Shaped, Changes, WalkMisses
  <2>4. /\ lock' = t /\ fd' = fd
        /\ \A u \in Threads \ {t} : lock # u
    BY <1>7, Nothing DEF WalkMisses
  <2>5. call' \in [Threads -> Calls] /\ Locked'
    BY <2>1, <2>2, <2>3, <2>4, Moving
  <2> QED BY <1>0, <1>7, <2>4, <2>5 DEF WalkMisses, Control, TypeOK
\* A thread that holds what it needs ends its call.
<1>8. ASSUME NEW t \in Threads, Ends(t), UNCHANGED fd
      PROVE  /\ call' \in [Threads -> Calls] /\ lock' \in Threads \cup {None} /\ Locked'
             /\ fd' \in [Threads -> Dentries \cup {None}]
  BY <1>0, <1>8, Ending, IdleCall, StillLocked DEF Changes
<1>9. ASSUME NEW t \in Threads, LookServed(t) PROVE Control'
  <2>1. de' \in [Dentries -> Entries] /\ file' \in [Files -> Infos]
    BY <1>0, <1>9, Settling DEF LookServed, Dentry
  <2>2. CASE Ends(t)
    BY <1>0, <1>8, <1>9, <2>1, <2>2 DEF LookServed, Control, TypeOK
  <2>3. CASE UNCHANGED lock /\ \E f \in Files \cup {None}, a \in SUBSET Attrs :
               call' = [call EXCEPT ![t].at = "looked", ![t].file = f, ![t].attrs = a]
    <3>1. PICK f \in Files \cup {None}, a \in SUBSET Attrs :
            call' = [call EXCEPT ![t].at = "looked", ![t].file = f, ![t].attrs = a]
      BY <2>3
    <3> DEFINE ok == call[t].ok
               y == Gone(call[t], "looked", ok, f, a)
    <3>0. "looked" \in Ats /\ ok \in BOOLEAN
      BY <1>0 DEF Ats, Calls
    <3>2. /\ y \in Calls /\ y.op = call[t].op /\ y.at = "looked" /\ y.name = call[t].name
          /\ y.cur = call[t].cur /\ y.tgt = call[t].tgt /\ y.probe = call[t].probe
          /\ y.to = call[t].to /\ y.path = call[t].path
      BY <1>0, <3>0, Going
    <3>3. call' = [call EXCEPT ![t] = y]
      BY <1>0, <3>1 DEF Calls, Gone
    <3> HIDE DEF y
    <3>4. Shaped(y) /\ lock = t
      <4>1. call[t].at = "looking"
        BY <1>9 DEF LookServed
      <4>2. Shaped(call[t]) /\ lock = t
        BY <4>1 DEF Control, Locked
      <4> QED BY <3>2, <4>1, <4>2 DEF Shaped, Changes
    <3>5. fd' = fd
      BY <1>9 DEF LookServed
    <3>6. call' \in [Threads -> Calls] /\ Locked'
      BY <2>3, <3>2, <3>3, <3>4, <3>5, Moving
    <3> QED BY <1>0, <1>9, <2>1, <2>3, <3>6 DEF LookServed, Control, TypeOK
  <2>4. host[Wanted(t)] \in Files \cup {None}
    BY <1>0, <1>9, Wanting DEF LookServed
  <2>5. (IF host[Wanted(t)] = None THEN {} ELSE file[host[Wanted(t)]].attrs) \in SUBSET Attrs
    BY <1>0, <2>4 DEF Infos
  <2> QED BY <1>9, <2>2, <2>3, <2>4, <2>5 DEF LookServed
<1>10. ASSUME NEW t \in Threads, LookDone(t) PROVE Control'
  <2>1. /\ call[t].at = "looked" /\ call[t].op \in Changes \cup {"open"} /\ call[t].probe = None
        /\ Wanted(t) \in Names /\ call[t].file \in Files \cup {None} /\ call[t].attrs \in SUBSET Attrs
    BY <1>0, <1>10, Existing, Wanting DEF LookDone, Shaped, Calls
  <2> DEFINE new == [Blank EXCEPT !.name = Wanted(t), !.hashed = TRUE, !.timed = TRUE]
             e == [new EXCEPT !.file = call[t].file, !.kind = file[call[t].file].kind,
                              !.loose = host[Wanted(t)] # call[t].file]
  <2>2. PICK d \in Unused :
          \/ FindsNone(t, d) /\ Dentry([de EXCEPT ![d] = new])
          \/ /\ call[t].file # None /\ Finds(t, d)
             /\ Dentry([de EXCEPT ![d] = Changed(e, call[t].file, call[t].attrs)])
          \/ Arrives(t, d, FALSE) /\ UNCHANGED wrong /\ Dentry([de EXCEPT ![d] = new])
    BY <1>10 DEF LookDone
  <2>3. d \in Dentries
    BY DEF Unused
  <2>4. new \in Entries
    BY <2>1 DEF Blank, Entries, Kinds, Attrs
  <2>5. call[t].file # None => e \in Entries
    BY <1>0, <2>1, <2>4, ZenonT(40) DEF Entries, Infos
  <2> HIDE DEF new, e
  <2>6. call[t].file # None => Changed(e, call[t].file, call[t].attrs) \in Entries
    BY <2>1, <2>5, Answered DEF Control
  <2>7. \E x \in Entries : Dentry([de EXCEPT ![d] = x])
    BY <2>2, <2>4, <2>6
  <2>8. de' \in [Dentries -> Entries] /\ file' \in [Files -> Infos]
    <3>1. PICK x \in Entries : Dentry([de EXCEPT ![d] = x])
      BY <2>7
    <3>2. [de EXCEPT ![d] = x] \in [Dentries -> Entries]
      BY <1>0
    <3> QED BY <1>0, <3>1, <3>2, Settling DEF Dentry
  <2>9. Arrives(t, d, TRUE) \/ Arrives(t, d, FALSE)
    BY <2>2 DEF Finds, FindsNone
  <2>10. /\ call' \in [Threads -> Calls] /\ lock' \in Threads \cup {None}
         /\ fd' \in [Threads -> Dentries \cup {None}] /\ Locked'
    BY <2>1, <2>3, <2>9, Arriving
  <2>11. wrong' \subseteq {"stray", "missed"}
    BY <1>0, <2>2 DEF Finds, FindsNone
  <2> QED BY <1>0, <1>10, <2>8, <2>10, <2>11 DEF LookDone, Control, TypeOK
<1>11. ASSUME NEW t \in Threads, Stat(t) PROVE Control'
  <2> DEFINE y == [Idle EXCEPT !.op = "stat"]
  <2>1. /\ y \in Calls /\ y.op = "stat" /\ y.name = None /\ y.cur = None
        /\ y.tgt = None /\ y.probe = None
    BY DEF Idle, Calls, Ops, Ats, Kinds, Attrs
  <2>2. Builds(t, y, fd[t]) /\ fd[t] \in Dentries /\ UNCHANGED <<fd, lock>>
    BY <1>0, <1>11 DEF Stat
  <2> HIDE DEF y
  <2>3. de[fd[t]].name # None
    BY <1>11, <2>2 DEF Stat, Sound, Kept
  <2>4. call' \in [Threads -> Calls] /\ Locked'
    BY <1>5, <2>1, <2>2, <2>3 DEF Changes
  <2> QED BY <1>0, <1>11, <2>4 DEF Stat, Control, TypeOK
<1>12. ASSUME NEW t \in Threads, AskServed(t) PROVE Control'
  <2>1. \E f \in Files \cup {None}, a \in SUBSET Attrs, ok \in BOOLEAN :
          /\ ok => f # None
          /\ \/ call' = [call EXCEPT ![t].at = "answered", ![t].ok = ok, ![t].file = f, ![t].attrs = a]
             \/ ~ok /\ call' = [call EXCEPT ![t].at = "answered", ![t].ok = ok]
    <3>1. call[t].path \in Names
      BY <1>12, Existing DEF AskServed, Shaped
    <3> DEFINE f == host[call[t].path]
    <3>2. f \in Files \cup {None}
      BY <1>0, <3>1
    <3>3. f # None => file[f].attrs \in SUBSET Attrs
      BY <1>0, <3>2 DEF Infos
    <3>4. CASE f # None /\ call' = [call EXCEPT ![t].at = "answered", ![t].ok = TRUE,
                                      ![t].file = f, ![t].attrs = file[f].attrs]
      BY <3>2, <3>3, <3>4
    <3>5. CASE call' = [call EXCEPT ![t].at = "answered", ![t].ok = FALSE]
      BY <3>5
    <3> QED BY <1>12, <3>4, <3>5 DEF AskServed
  <2>2. PICK f \in Files \cup {None}, a \in SUBSET Attrs, ok \in BOOLEAN :
          /\ ok => f # None
          /\ \/ call' = [call EXCEPT ![t].at = "answered", ![t].ok = ok, ![t].file = f, ![t].attrs = a]
             \/ ~ok /\ call' = [call EXCEPT ![t].at = "answered", ![t].ok = ok]
    BY <2>1
  <2>3. PICK g \in Files \cup {None}, b \in SUBSET Attrs :
          /\ ok => g # None
          /\ call' = [call EXCEPT ![t].at = "answered", ![t].ok = ok, ![t].file = g, ![t].attrs = b]
    <3>1. CASE call' = [call EXCEPT ![t].at = "answered", ![t].ok = ok] /\ ~ok
      <4>1. call[t].file \in Files \cup {None} /\ call[t].attrs \in SUBSET Attrs
        BY <1>0 DEF Calls
      <4>2. call' = [call EXCEPT ![t].at = "answered", ![t].ok = ok, ![t].file = call[t].file,
                       ![t].attrs = call[t].attrs]
        BY <1>0, <3>1 DEF Calls, Gone
      <4> QED BY <3>1, <4>1, <4>2
    <3> QED BY <2>2, <3>1
  <2> DEFINE y == Gone(call[t], "answered", ok, g, b)
  <2>4. "answered" \in Ats /\ call[t] \in Calls
    BY <1>0 DEF Ats
  <2>5. /\ y \in Calls /\ y.op = call[t].op /\ y.at = "answered" /\ y.name = call[t].name
        /\ y.cur = call[t].cur /\ y.tgt = call[t].tgt /\ y.probe = call[t].probe
        /\ y.to = call[t].to /\ y.path = call[t].path /\ y.file = g /\ y.ok = ok
    BY ONLY <2>4, ok \in BOOLEAN, g \in Files \cup {None}, b \in SUBSET Attrs, Going
  <2>6. call' = [call EXCEPT ![t] = y]
    BY <1>0, <2>3 DEF Gone
  <2> HIDE DEF y
  <2>7. Shaped(y) /\ (y.op \in Changes => lock = t) /\ fd' = fd /\ lock' = lock
    <3>1. call[t].at = "asking" /\ fd' = fd /\ lock' = lock
      BY <1>12 DEF AskServed
    <3>2. Shaped(call[t]) /\ (call[t].op \in Changes => lock = t)
      BY DEF Control, Locked
    <3>3. ok => g # None
      BY <2>3
    <3>4. Shaped(y)
      BY <2>5, <3>1, <3>2, <3>3 DEF Shaped, Changes
    <3> QED BY <2>5, <3>1, <3>2, <3>4
  <2>8. call' \in [Threads -> Calls] /\ Locked'
    BY <2>5, <2>6, <2>7, Moving
  <2>9. wrong' \subseteq {"stray", "missed"}
    BY <1>0, <1>12 DEF AskServed, Strays
  <2> QED BY <1>0, <1>12, <2>8, <2>9 DEF AskServed, Control, TypeOK
<1>13. ASSUME NEW t \in Threads, AskDone(t) PROVE Control'
  <2>1. /\ call[t].at = "answered" /\ call[t].op \in Changes \cup {"open", "stat"}
        /\ call[t].probe \in Dentries /\ call[t].attrs \in SUBSET Attrs
        /\ call[t].ok => call[t].file \in Files
        /\ call[t].tgt = None /\ (call[t].cur # None => call[t].op = "rename")
        /\ call[t].op \in Changes => lock = t
    BY <1>0, <1>13, Existing DEF AskDone, Shaped, Calls, Control, Locked
  <2> DEFINE d == call[t].probe
             fits == call[t].ok /\ de[d].kind = file[call[t].file].kind
             e == IF fits THEN Changed(de[d], call[t].file, call[t].attrs)
                  ELSE IF call[t].ok THEN MadeBad(de[d]) ELSE de[d]
             x == [e EXCEPT !.hashed = FALSE, !.loose = TRUE]
             y == [Rested(call[t]) EXCEPT !.at = "walk"]
  <2>2. de[d] \in Entries /\ MadeBad(de[d]) \in Entries
    BY <1>0, <2>1, Spoiling
  <2>3. e \in Entries
    BY <2>1, <2>2, Answered DEF Control
  <2>4. x \in Entries
    BY <2>3 DEF Entries
  <2>5. AskDone(t) =>
          \/ Ends(t) /\ UNCHANGED <<fd, wrong>> /\ Dentry([de EXCEPT ![d] = e])
          \/ call[t].op # "stat" /\ Finds(t, d) /\ Dentry([de EXCEPT ![d] = e])
          \/ /\ call[t].op # "stat" /\ call' = [call EXCEPT ![t] = y]
             /\ UNCHANGED <<fd, lock, wrong>> /\ Dentry([de EXCEPT ![d] = x])
    BY DEF AskDone
  <2> HIDE DEF fits, e, x
  <2>6. de' \in [Dentries -> Entries] /\ file' \in [Files -> Infos]
    <3>1. PICK z \in Entries : Dentry([de EXCEPT ![d] = z])
      BY <1>13, <2>3, <2>4, <2>5
    <3>2. [de EXCEPT ![d] = z] \in [Dentries -> Entries]
      BY <1>0
    <3> QED BY <1>0, <3>1, <3>2, Settling DEF Dentry
  <2>7. host' = host
    BY <1>13 DEF AskDone
  <2>8. CASE Ends(t) /\ UNCHANGED <<fd, wrong>>
    BY <1>0, <1>8, <2>6, <2>7, <2>8 DEF Control, TypeOK
  <2>9. CASE call[t].op # "stat" /\ Finds(t, d)
    <3>1. /\ call' \in [Threads -> Calls] /\ lock' \in Threads \cup {None}
          /\ fd' \in [Threads -> Dentries \cup {None}] /\ Locked'
      BY <2>1, <2>9, Arriving DEF Finds
    <3> QED BY <1>0, <2>6, <2>7, <2>9, <3>1 DEF Finds, Control, TypeOK
  <2>10. CASE call[t].op # "stat" /\ call' = [call EXCEPT ![t] = y] /\ UNCHANGED <<fd, lock, wrong>>
    <3>0. "walk" \in Ats
      BY DEF Ats
    <3>1. /\ y \in Calls /\ y.op = call[t].op /\ y.at = "walk" /\ y.name = call[t].name
          /\ y.cur = call[t].cur /\ y.tgt = call[t].tgt /\ y.probe = None
          /\ y.to = call[t].to
      <4> DEFINE r == Rested(call[t])
      <4>1. /\ r \in Calls /\ r.op = call[t].op /\ r.name = call[t].name /\ r.cur = call[t].cur
            /\ r.tgt = call[t].tgt /\ r.probe = None /\ r.to = call[t].to
        BY <1>0, Resting
      <4> HIDE DEF r
      <4>2. [r EXCEPT !.at = "walk"] \in Calls /\ y = [r EXCEPT !.at = "walk"]
        BY <3>0, <4>1 DEF Calls, r
      <4> QED BY <4>1, <4>2 DEF Calls
    <3> HIDE DEF y
    <3>2. Shaped(y)
      BY <2>1, <2>10, <3>1, Existing DEF Shaped, Changes
    <3>3. call' \in [Threads -> Calls] /\ Locked'
      BY <2>1, <2>10, <3>1, <3>2, Moving
    <3> QED BY <1>0, <2>6, <2>7, <2>10, <3>3 DEF Control, TypeOK
  <2> QED BY <1>13, <2>5, <2>8, <2>9, <2>10
\* The call t is making has got further.
<1>14. ASSUME NEW t \in Threads, NEW at \in Ats, NEW ok \in BOOLEAN, NEW f \in Files \cup {None},
              UNCHANGED <<fd, lock>>,
              \/ at = "set" /\ call[t].at = "setting"
              \/ at = "created" /\ call[t].at = "create" /\ f # None
              \/ at = "removed" /\ call[t].at = "unlink"
              \/ at = "renamed" /\ call[t].at = "rename",
              \/ call' = [call EXCEPT ![t] = Gone(call[t], at, ok, f, call[t].attrs)]
              \/ \E n \in SUBSET Names :
                   call' = Disturbed([call EXCEPT ![t] = Gone(call[t], at, ok, f, call[t].attrs)], n)
       PROVE  call' \in [Threads -> Calls] /\ Locked'
  <2> DEFINE y == Gone(call[t], at, ok, f, call[t].attrs)
  <2>1. call[t] \in Calls /\ call[t].attrs \in SUBSET Attrs
    BY <1>0 DEF Calls
  <2>2. /\ y \in Calls /\ y.op = call[t].op /\ y.at = at /\ y.name = call[t].name
        /\ y.cur = call[t].cur /\ y.tgt = call[t].tgt /\ y.probe = call[t].probe
        /\ y.to = call[t].to /\ y.path = call[t].path /\ y.file = f /\ y.ok = ok
    BY ONLY <2>1, at \in Ats, ok \in BOOLEAN, f \in Files \cup {None}, Going
  <2>3. \/ call' = [call EXCEPT ![t] = y]
        \/ \E n \in SUBSET Names : call' = Disturbed([call EXCEPT ![t] = y], n)
    BY <1>14
  <2> HIDE DEF y
  <2>4. Shaped(y)
    BY <1>14, <2>2, Existing DEF Shaped, Changes
  <2>5. y.op \in Changes => lock = t
    BY <2>2 DEF Control, Locked
  <2>6. y.at \notin {"looking", "looked"} /\ (y.at \in {"setting", "set"} => fd[t] # None)
    BY <1>14, <2>2 DEF Control, Locked
  <2> QED BY <1>14, <2>2, <2>3, <2>4, <2>5, <2>6, Moving
<1>15. ASSUME NEW t \in Threads, NEW at \in Ats
       PROVE  [call EXCEPT ![t].at = at] =
                [call EXCEPT ![t] = Gone(call[t], at, call[t].ok, call[t].file, call[t].attrs)]
  BY <1>0 DEF Gone, Calls
<1>16. ASSUME NEW t \in Threads
       PROVE  call[t].ok \in BOOLEAN /\ call[t].file \in Files \cup {None} /\ call[t].attrs \in SUBSET Attrs
  BY <1>0 DEF Calls
<1>17. ASSUME NEW t \in Threads, Setattr(t) PROVE Control'
  <2>1. PICK a \in Asks, s \in SUBSET Attrs :
          call' = [call EXCEPT ![t] = [Idle EXCEPT !.op = "setattr", !.at = "setting",
                     !.path = de[fd[t]].name, !.ask = a, !.set = s]]
    BY <1>17, NamesAssumption DEF Setattr
  <2> DEFINE y == [Idle EXCEPT !.op = "setattr", !.at = "setting",
                     !.path = de[fd[t]].name, !.ask = a, !.set = s]
  <2>2. fd[t] \in Dentries /\ fd[t] # None
    BY <1>0, <1>17 DEF Setattr
  <2>3. de[fd[t]].name # None /\ de[fd[t]].name \in Names
    BY <1>0, <1>17, <2>2 DEF Sound, Kept, Entries
  <2>4. a \in SUBSET Attrs
    BY NamesAssumption
  <2>5. /\ y \in Calls /\ y.op = "setattr" /\ y.at = "setting" /\ y.name = None /\ y.cur = None
        /\ y.tgt = None /\ y.probe = None /\ y.path = de[fd[t]].name
    BY <2>3, <2>4 DEF Idle, Calls, Ops, Ats, Kinds
  <2>6. call' = [call EXCEPT ![t] = y] /\ UNCHANGED <<fd, lock>>
    BY <1>17, <2>1 DEF Setattr
  <2> HIDE DEF y
  <2>7. Shaped(y)
    BY <2>3, <2>5 DEF Shaped, Changes
  <2>8. call' \in [Threads -> Calls] /\ Locked'
    BY <2>2, <2>5, <2>6, <2>7, Moving DEF Changes
  <2> QED BY <1>0, <1>17, <2>8 DEF Setattr, Control, TypeOK
<1>18. ASSUME NEW t \in Threads, SetServed(t) PROVE Control'
  <2>1. /\ call[t].at = "setting" /\ call[t].path \in Names /\ fd[t] \in Dentries
        /\ host[call[t].path] \in Files \cup {None} /\ UNCHANGED <<host, fd, lock>>
        /\ call[t].ask \in SUBSET Attrs /\ call[t].set \in SUBSET Attrs
    <3>1. call[t].at = "setting" /\ UNCHANGED <<host, fd, lock>>
      BY <1>18 DEF SetServed
    <3>2. call[t].path \in Names /\ fd[t] \in Dentries
      BY <1>0, <3>1, Existing DEF Shaped, Control, Locked
    <3> QED BY <1>0, <3>1, <3>2 DEF Calls
  <2> DEFINE f == host[call[t].path]
             sent == Sent(call[t].ask)
  <2>2. "set" \in Ats
    BY DEF Ats
  <2>3. CASE /\ f # None /\ call' = [call EXCEPT ![t].at = "set", ![t].ok = TRUE]
             /\ Settle([d \in Dentries |-> [de[d] EXCEPT
                          !.stale = @ \/ (de[d].file = f /\ d # fd[t])]],
                       [file EXCEPT ![f].attrs = (@ \ sent) \cup (call[t].set \cap sent)])
             /\ Strays(t, fd[t], f)
    <3>1. [call EXCEPT ![t].at = "set", ![t].ok = TRUE] =
            [call EXCEPT ![t] = Gone(call[t], "set", TRUE, call[t].file, call[t].attrs)]
      BY <1>0 DEF Gone, Calls
    <3>2. call' \in [Threads -> Calls] /\ Locked'
      BY <1>14, <1>16, <2>1, <2>2, <2>3, <3>1
    <3> DEFINE b == (file[f].attrs \ sent) \cup (call[t].set \cap sent)
    <3>3. b \in SUBSET Attrs /\ [file EXCEPT ![f].attrs = (@ \ sent) \cup (call[t].set \cap sent)]
                                  = [file EXCEPT ![f].attrs = b]
      BY <1>0, <2>1, <2>3 DEF Infos
    <3> HIDE DEF b
    <3>4. [file EXCEPT ![f].attrs = b] \in [Files -> Infos]
      <4>1. file[f] \in Infos /\ [file EXCEPT ![f].attrs = b] = [file EXCEPT ![f] = [file[f] EXCEPT !.attrs = b]]
        BY <1>0, <2>1, <2>3
      <4>2. [file[f] EXCEPT !.attrs = b] \in Infos
        BY <3>3, <4>1 DEF Infos
      <4> QED BY <1>0, <2>1, <2>3, <4>1, <4>2
    <3>5. \A d \in Dentries : [de[d] EXCEPT !.stale = @ \/ (de[d].file = f /\ d # fd[t])] \in Entries
      <4> SUFFICES ASSUME NEW d \in Dentries
                   PROVE  [de[d] EXCEPT !.stale = @ \/ (de[d].file = f /\ d # fd[t])] \in Entries
        OBVIOUS
      <4> DEFINE v == de[d].stale \/ (de[d].file = f /\ d # fd[t])
      <4>1. v \in BOOLEAN
        BY Zenon
      <4>2. de[d] \in Entries /\ [de[d] EXCEPT !.stale = @ \/ (de[d].file = f /\ d # fd[t])]
                                   = [de[d] EXCEPT !.stale = v]
        BY <1>0
      <4> HIDE DEF v
      <4> QED BY <4>1, <4>2 DEF Entries
    <3>6. [d \in Dentries |-> [de[d] EXCEPT !.stale = @ \/ (de[d].file = f /\ d # fd[t])]]
            \in [Dentries -> Entries]
      BY <3>5
    <3>7. de' \in [Dentries -> Entries] /\ file' \in [Files -> Infos]
      BY <2>3, <3>3, <3>4, <3>6, Settling
    <3>8. wrong' \subseteq {"stray", "missed"}
      BY <1>0, <2>3 DEF Strays
    <3> QED BY <1>0, <2>1, <3>2, <3>7, <3>8 DEF Control, TypeOK
  <2>4. CASE call' = [call EXCEPT ![t].at = "set"] /\ UNCHANGED <<file, de, wrong>>
    <3>1. call' = [call EXCEPT ![t] = Gone(call[t], "set", call[t].ok, call[t].file, call[t].attrs)]
      BY <1>15, <2>2, <2>4
    <3>2. call' \in [Threads -> Calls] /\ Locked'
      BY <1>14, <1>16, <2>1, <2>2, <3>1
    <3> QED BY <1>0, <2>1, <2>4, <3>2 DEF Control, TypeOK
  <2> QED BY <1>18, <2>3, <2>4 DEF SetServed
\* One entry is changed.
<1>19. ASSUME NEW d \in Dentries, NEW x \in Entries, Dentry([de EXCEPT ![d] = x])
       PROVE  de' \in [Dentries -> Entries] /\ file' \in [Files -> Infos]
  <2>1. [de EXCEPT ![d] = x] \in [Dentries -> Entries]
    BY <1>0
  <2> QED BY <1>0, <1>19, <2>1, Settling DEF Dentry
<1>20. ASSUME NEW t \in Threads, SetDone(t) PROVE Control'
  <2>1. /\ call[t].at = "set" /\ fd[t] \in Dentries
        /\ call[t].ask \in SUBSET Attrs /\ call[t].set \in SUBSET Attrs
    <3>1. call[t].at = "set"
      BY <1>20 DEF SetDone
    <3> QED BY <1>0, <3>1 DEF Calls, Control, Locked
  <2> DEFINE e == de[fd[t]]
             a == IF call[t].ok THEN (e.attrs \ call[t].ask) \cup call[t].set ELSE e.attrs
             x == [e EXCEPT !.timed = FALSE, !.attrs = a]
  <2>2. e \in Entries /\ a \in SUBSET Attrs
    BY <1>0, <2>1 DEF Entries
  <2>3. Dentry([de EXCEPT ![fd[t]] = x])
    BY <1>0, <1>20, <2>1 DEF SetDone, Entries
  <2> HIDE DEF e, a
  <2>4. x \in Entries
    BY <2>2 DEF Entries
  <2>5. de' \in [Dentries -> Entries] /\ file' \in [Files -> Infos]
    BY <1>19, <2>1, <2>3, <2>4
  <2> QED BY <1>0, <1>8, <1>20, <2>5 DEF SetDone, Control, TypeOK
<1>21. ASSUME NEW t \in Threads, CreateServed(t) PROVE Control'
  <2>1. /\ call[t].at = "create" /\ call[t].name \in Names /\ call[t].kind \in Kinds
        /\ host[call[t].name] \in Files \cup {None} /\ UNCHANGED <<fd, wrong>> /\ "created" \in Ats
    <3>1. call[t].at = "create" /\ UNCHANGED <<fd, wrong>>
      BY <1>21 DEF CreateServed
    <3>2. call[t].name \in Names
      BY <3>1, Existing DEF Shaped, Changes
    <3> QED BY <1>0, <3>1, <3>2 DEF Calls, Ats
  <2>2. ASSUME NEW f \in Files, call' = [call EXCEPT ![t].at = "created", ![t].file = f], lock' = lock
        PROVE  call' \in [Threads -> Calls] /\ Locked'
    <3>1. call' = [call EXCEPT ![t] = Gone(call[t], "created", call[t].ok, f, call[t].attrs)]
      BY <1>0, <2>2 DEF Gone, Calls
    <3>2. f # None
      BY Nothing
    <3> QED BY <1>14, <1>16, <2>1, <2>2, <3>1, <3>2
  <2>3. CASE /\ lock' = lock
             /\ \E f \in Files :
                  /\ host' = [host EXCEPT ![call[t].name] = f]
                  /\ call' = [call EXCEPT ![t].at = "created", ![t].file = f]
                  /\ Settle(de, [file EXCEPT ![f].kind = call[t].kind])
    <3>1. PICK f \in Files :
                  /\ host' = [host EXCEPT ![call[t].name] = f]
                  /\ call' = [call EXCEPT ![t].at = "created", ![t].file = f]
                  /\ Settle(de, [file EXCEPT ![f].kind = call[t].kind])
      BY <2>3
    <3>2. [file EXCEPT ![f].kind = call[t].kind] \in [Files -> Infos]
      <4>1. [file[f] EXCEPT !.kind = call[t].kind] \in Infos
        BY <1>0, <2>1 DEF Infos
      <4>2. [file EXCEPT ![f].kind = call[t].kind] =
              [file EXCEPT ![f] = [file[f] EXCEPT !.kind = call[t].kind]]
        BY <1>0
      <4> QED BY <1>0, <4>1, <4>2
    <3>3. de' \in [Dentries -> Entries] /\ file' \in [Files -> Infos]
      BY <1>0, <3>1, <3>2, Settling
    <3>4. host' \in [Names -> Files \cup {None}]
      BY <1>0, <3>1
    <3> QED BY <1>0, <2>1, <2>2, <2>3, <3>1, <3>3, <3>4 DEF Control, TypeOK
  <2>4. CASE /\ host[call[t].name] # None
             /\ call' = [call EXCEPT ![t].at = "created", ![t].file = host[call[t].name]]
             /\ UNCHANGED <<host, file, de, lock>>
    <3>1. host[call[t].name] \in Files
      BY <2>1, <2>4
    <3>2. call' \in [Threads -> Calls] /\ Locked'
      BY <2>2, <2>4, <3>1
    <3> QED BY <1>0, <2>1, <2>4, <3>2 DEF Control, TypeOK
  <2>5. CASE Ends(t) /\ UNCHANGED host /\ Dentry(de)
    <3>1. de' \in [Dentries -> Entries] /\ file' \in [Files -> Infos]
      BY <1>0, <2>5, Settling DEF Dentry
    <3> QED BY <1>0, <1>8, <2>1, <2>5, <3>1 DEF Control, TypeOK
  <2> QED BY <1>21, <2>3, <2>4, <2>5 DEF CreateServed
<1>22. ASSUME NEW t \in Threads, CreateDone(t) PROVE Control'
  <2>1. /\ call[t].at = "created" /\ call[t].cur \in Dentries /\ call[t].file \in Files
        /\ call[t].kind \in Kinds /\ call[t].name \in Names
    <3>1. call[t].at = "created"
      BY <1>22 DEF CreateDone
    <3> QED BY <1>0, <3>1, Existing DEF Calls, Shaped, Changes
  <2> DEFINE d == call[t].cur
             v == ~de[d].hashed \/ host[call[t].name] # call[t].file
             x == [de[d] EXCEPT !.file = call[t].file, !.kind = call[t].kind,
                                !.timed = FALSE, !.loose = v]
             z == [de[d] EXCEPT !.timed = FALSE]
  <2>2. v \in BOOLEAN /\ de[d] \in Entries
    BY <1>0, <2>1
  <2>3. /\ Ends(t) /\ UNCHANGED <<fd, host, wrong>>
        /\ Dentry([de EXCEPT ![d] = x]) \/ Dentry([de EXCEPT ![d] = z])
    BY <1>0, <1>22, <2>1 DEF CreateDone
  <2> HIDE DEF v
  <2>4. x \in Entries /\ z \in Entries
    BY <2>1, <2>2 DEF Entries
  <2>5. de' \in [Dentries -> Entries] /\ file' \in [Files -> Infos]
    BY <1>19, <2>1, <2>3, <2>4
  <2> QED BY <1>0, <1>8, <2>3, <2>5 DEF Control, TypeOK
<1>23. ASSUME NEW t \in Threads, RemoveServed(t) PROVE Control'
  <2>1. /\ call[t].at = "unlink" /\ call[t].name \in Names /\ "removed" \in Ats
        /\ UNCHANGED <<fd, wrong>> /\ Dentry(de)
    BY <1>23, Existing DEF RemoveServed, Shaped, Changes, Ats
  <2>2. de' \in [Dentries -> Entries] /\ file' \in [Files -> Infos]
    BY <1>0, <2>1, Settling DEF Dentry
  <2>3. CASE /\ host' = [host EXCEPT ![call[t].name] = None] /\ lock' = lock
             /\ call' = Disturbed([call EXCEPT ![t].at = "removed"], {call[t].name})
    <3>1. \E n \in SUBSET Names : call' = Disturbed([call EXCEPT ![t] =
             Gone(call[t], "removed", call[t].ok, call[t].file, call[t].attrs)], n)
      BY <1>15, <2>1, <2>3
    <3>2. call' \in [Threads -> Calls] /\ Locked'
      BY <1>14, <1>16, <2>1, <2>3, <3>1
    <3>3. host' \in [Names -> Files \cup {None}]
      BY <1>0, <2>3
    <3> QED BY <1>0, <2>1, <2>2, <2>3, <3>2, <3>3 DEF Control, TypeOK
  <2>4. CASE Ends(t) /\ UNCHANGED host
    BY <1>0, <1>8, <2>1, <2>2, <2>4 DEF Control, TypeOK
  <2> QED BY <1>23, <2>3, <2>4 DEF RemoveServed
\* A change of the directory is over.
<1>24. ASSUME NEW t \in Threads, call[t].op \in Changes, lock' = None, fd' = fd,
              \/ call' = [call EXCEPT ![t] = Idle]
              \/ \E n \in SUBSET Names : call' = Disturbed([call EXCEPT ![t] = Idle], n)
       PROVE  call' \in [Threads -> Calls] /\ Locked' /\ lock' \in Threads \cup {None}
  <2>1. lock = t /\ \A u \in Threads \ {t} : lock # u
    BY <1>24 DEF Control, Locked
  <2> QED BY <1>24, <2>1, Moving, IdleCall DEF Changes
<1>25. ASSUME NEW t \in Threads, RemoveDone(t) PROVE Control'
  <2>1. /\ call[t].at = "removed" /\ call[t].name \in Names /\ call[t].cur \in Dentries
        /\ call[t].op \in Changes
    BY <1>25, Existing DEF RemoveDone, Shaped, Changes
  <2> DEFINE x == [de[call[t].cur] EXCEPT !.unlinked = TRUE, !.hashed = FALSE]
  <2>2. /\ x \in Entries
        /\ [de EXCEPT ![call[t].cur].unlinked = TRUE, ![call[t].cur].hashed = FALSE]
             = [de EXCEPT ![call[t].cur] = x]
    <3> DEFINE d == call[t].cur
    <3>1. d \in Dentries /\ de[d] \in Entries
      BY <1>0, <2>1
    <3> HIDE DEF d
    <3>2. [de EXCEPT ![d].unlinked = TRUE, ![d].hashed = FALSE]
            = [de EXCEPT ![d] = [de[d] EXCEPT !.unlinked = TRUE, !.hashed = FALSE]]
      BY <1>0, <3>1
    <3>3. [de[d] EXCEPT !.unlinked = TRUE, !.hashed = FALSE] \in Entries
      BY <3>1 DEF Entries
    <3> QED BY <3>2, <3>3 DEF d
  <2> HIDE DEF x
  <2>3. Dentry([de EXCEPT ![call[t].cur] = x])
    BY <1>25, <2>2 DEF RemoveDone
  <2>4. de' \in [Dentries -> Entries] /\ file' \in [Files -> Infos]
    BY <1>19, <2>1, <2>2, <2>3
  <2>5. /\ lock' = None /\ UNCHANGED <<fd, host, wrong>>
        /\ \E n \in SUBSET Names : call' = Disturbed([call EXCEPT ![t] = Idle], n)
    BY <1>25, <2>1 DEF RemoveDone
  <2> QED BY <1>0, <1>24, <2>1, <2>4, <2>5 DEF Control, TypeOK
<1>26. ASSUME NEW t \in Threads, RenameServed(t) PROVE Control'
  <2>1. /\ call[t].at = "rename" /\ call[t].name \in Names /\ call[t].to \in Names
        /\ call[t].tgt \in Dentries /\ "renamed" \in Ats /\ UNCHANGED <<fd, lock, wrong>>
    BY <1>26, Existing DEF RenameServed, Shaped, Changes, Ats
  <2>2. CASE /\ host' = [host EXCEPT ![call[t].to] = host[call[t].name], ![call[t].name] = None]
             /\ call' = Disturbed([call EXCEPT ![t].at = "renamed", ![t].ok = TRUE],
                                  {call[t].name, call[t].to})
             /\ Dentry([de EXCEPT ![call[t].tgt].loose = TRUE])
    <3>1. host' \in [Names -> Files \cup {None}]
      BY <1>0, <2>1, <2>2
    <3>2. [call EXCEPT ![t].at = "renamed", ![t].ok = TRUE] =
            [call EXCEPT ![t] = Gone(call[t], "renamed", TRUE, call[t].file, call[t].attrs)]
      BY <1>0 DEF Gone, Calls
    <3>3. {call[t].name, call[t].to} \in SUBSET Names
      BY <2>1
    <3>4. call' \in [Threads -> Calls] /\ Locked'
      BY <1>14, <1>16, <2>1, <2>2, <3>2, <3>3
    <3> DEFINE x == [de[call[t].tgt] EXCEPT !.loose = TRUE]
    <3>5. x \in Entries /\ Dentry([de EXCEPT ![call[t].tgt] = x])
      <4>1. de[call[t].tgt] \in Entries
        BY <1>0, <2>1
      <4>2. x \in Entries
        BY <4>1 DEF Entries
      <4>3. [de EXCEPT ![call[t].tgt].loose = TRUE] = [de EXCEPT ![call[t].tgt] = x]
        OBVIOUS
      <4> QED BY <2>2, <4>2, <4>3
    <3>6. de' \in [Dentries -> Entries] /\ file' \in [Files -> Infos]
      BY <1>19, <2>1, <3>5
    <3> QED BY <1>0, <2>1, <3>1, <3>4, <3>6 DEF Control, TypeOK
  <2>3. CASE call' = [call EXCEPT ![t].at = "renamed"] /\ UNCHANGED <<host, file, de>>
    <3>1. call' = [call EXCEPT ![t] =
             Gone(call[t], "renamed", call[t].ok, call[t].file, call[t].attrs)]
      BY <1>15, <2>1, <2>3
    <3>2. call' \in [Threads -> Calls] /\ Locked'
      BY <1>14, <1>16, <2>1, <3>1
    <3> QED BY <1>0, <2>1, <2>3, <3>2 DEF Control, TypeOK
  <2> QED BY <1>26, <2>2, <2>3 DEF RenameServed
<1>27. ASSUME NEW t \in Threads, RenameDone(t) PROVE Control'
  <2>1. /\ call[t].at = "renamed" /\ call[t].name \in Names /\ call[t].to \in Names
        /\ call[t].cur \in Dentries /\ call[t].tgt \in Dentries /\ call[t].op \in Changes
        /\ lock' = None /\ UNCHANGED <<host, fd, wrong>>
    BY <1>27, Existing DEF RenameDone, Shaped, Changes
  <2>2. /\ \/ call' = [call EXCEPT ![t] = Idle]
           \/ \E n \in SUBSET Names : call' = Disturbed([call EXCEPT ![t] = Idle], n)
        /\ \E x, z \in Entries : Dentry([de EXCEPT ![call[t].cur] = x, ![call[t].tgt] = z])
    <3>0. de[call[t].cur] \in Entries /\ de[call[t].tgt] \in Entries
      BY <1>0, <2>1
    <3> DEFINE v == de[call[t].cur].loose \/ host[call[t].to] # de[call[t].cur].file
    <3>1. CASE /\ call' = Disturbed([call EXCEPT ![t] = Idle], {call[t].name, call[t].to})
               /\ Dentry([de EXCEPT
                    ![call[t].cur] = [@ EXCEPT !.name = call[t].to, !.timed = FALSE, !.hashed = TRUE,
                                               !.loose = v],
                    ![call[t].tgt] = [@ EXCEPT !.hashed = FALSE, !.timed = FALSE]])
      <4> DEFINE x == [de[call[t].cur] EXCEPT !.name = call[t].to, !.timed = FALSE,
                                              !.hashed = TRUE, !.loose = v]
                 z == [de[call[t].tgt] EXCEPT !.hashed = FALSE, !.timed = FALSE]
      <4>1. v \in BOOLEAN
        BY Zenon
      <4>2. Dentry([de EXCEPT ![call[t].cur] = x, ![call[t].tgt] = z])
        BY <3>1
      <4> HIDE DEF v
      <4>3. x \in Entries /\ z \in Entries
        BY <2>1, <3>0, <4>1, ZenonT(40) DEF Entries
      <4>4. {call[t].name, call[t].to} \in SUBSET Names
        BY <2>1
      <4> QED BY <3>1, <4>2, <4>3, <4>4
    <3>2. CASE /\ call' = [call EXCEPT ![t] = Idle]
               /\ Dentry([de EXCEPT ![call[t].cur].timed = FALSE, ![call[t].tgt].timed = FALSE])
      <4> DEFINE x == [de[call[t].cur] EXCEPT !.timed = FALSE]
                 e == [de EXCEPT ![call[t].cur] = x]
                 z == [e[call[t].tgt] EXCEPT !.timed = FALSE]
      <4>1. Dentry([de EXCEPT ![call[t].cur] = x, ![call[t].tgt] = z])
        BY <3>2
      <4>2. x \in Entries
        BY <3>0 DEF Entries
      <4> HIDE DEF x
      <4>3. e[call[t].tgt] \in Entries
        BY <1>0, <2>1, <4>2
      <4> HIDE DEF e
      <4>4. z \in Entries
        BY <4>3 DEF Entries
      <4> QED BY <3>2, <4>1, <4>2, <4>4
    <3> QED BY <1>27, <3>1, <3>2 DEF RenameDone
  <2>3. PICK x \in Entries, z \in Entries : Dentry([de EXCEPT ![call[t].cur] = x, ![call[t].tgt] = z])
    BY <2>2
  <2>4. [de EXCEPT ![call[t].cur] = x, ![call[t].tgt] = z] \in [Dentries -> Entries]
    BY <1>0
  <2>5. de' \in [Dentries -> Entries] /\ file' \in [Files -> Infos]
    BY <1>0, <2>3, <2>4, Settling DEF Dentry
  <2> QED BY <1>0, <1>24, <2>1, <2>2, <2>5 DEF Control, TypeOK
<1>28. ASSUME NEW n \in Names, HostNames(n) PROVE Control'
  <2> DEFINE parted == [d \in Dentries |-> [de[d] EXCEPT
                         !.loose = @ \/ (de[d].name = n /\ Positive(d))]]
  <2>1. parted \in [Dentries -> Entries]
    <3> SUFFICES ASSUME NEW d \in Dentries
                 PROVE  [de[d] EXCEPT !.loose = @ \/ (de[d].name = n /\ Positive(d))] \in Entries
      OBVIOUS
    <3> DEFINE v == de[d].loose \/ (de[d].name = n /\ Positive(d))
    <3>1. v \in BOOLEAN
      BY Zenon
    <3>2. de[d] \in Entries /\ [de[d] EXCEPT !.loose = @ \/ (de[d].name = n /\ Positive(d))]
                                 = [de[d] EXCEPT !.loose = v]
      BY <1>0
    <3> HIDE DEF v
    <3> QED BY <3>1, <3>2 DEF Entries
  <2>2. /\ host' \in [Names -> Files \cup {None}]
        /\ \E files \in [Files -> Infos] : Settle(parted, files)
    <3>1. CASE host' = [host EXCEPT ![n] = None] /\ Dentry(parted)
      BY <1>0, <3>1 DEF Dentry
    <3>2. CASE \E f \in Files : \E k \in Kinds :
                 /\ host' = [host EXCEPT ![n] = f]
                 /\ Settle(parted, [file EXCEPT ![f] = [kind |-> k, attrs |-> {"mode"}]])
      <4>1. PICK f \in Files, k \in Kinds :
                 /\ host' = [host EXCEPT ![n] = f]
                 /\ Settle(parted, [file EXCEPT ![f] = [kind |-> k, attrs |-> {"mode"}]])
        BY <3>2
      <4>2. [kind |-> k, attrs |-> {"mode"}] \in Infos
        BY DEF Infos, Attrs
      <4> HIDE DEF parted
      <4>3. [file EXCEPT ![f] = [kind |-> k, attrs |-> {"mode"}]] \in [Files -> Infos]
        BY <1>0, <4>2
      <4> QED BY <1>0, <4>1, <4>3
    <3> QED BY <1>28, <3>1, <3>2 DEF HostNames
  <2> HIDE DEF parted
  <2>3. de' \in [Dentries -> Entries] /\ file' \in [Files -> Infos]
    BY <2>1, <2>2, Settling
  <2>4. call' = Disturbed(call, {n}) /\ UNCHANGED <<fd, lock, wrong>>
    BY <1>28 DEF HostNames
  <2>5. call' \in [Threads -> Calls] /\ \A u \in Threads : Alike(call[u], call'[u])
    BY <1>0, <2>4, Disturbing
  <2>6. Locked'
    <3> SUFFICES ASSUME NEW u \in Threads
                 PROVE  /\ Shaped(call'[u])
                        /\ call'[u].op \in Changes \/ call'[u].at \in {"looking", "looked"} => lock' = u
                        /\ call'[u].at \in {"setting", "set"} => fd'[u] # None
      BY DEF Locked
    <3>1. Alike(call[u], call'[u]) /\ Shaped(call[u])
      BY <2>5 DEF Control, Locked
    <3>2. Shaped(call'[u])
      BY <3>1, AlikeShaped
    <3>3. call'[u].op = call[u].op /\ call'[u].at = call[u].at
      BY <3>1 DEF Alike
    <3> QED BY <2>4, <3>2, <3>3 DEF Control, Locked
  <2> QED BY <1>0, <2>2, <2>3, <2>4, <2>5, <2>6 DEF Control, TypeOK
<1>29. ASSUME NEW n \in Names, HostAttributes(n) PROVE Control'
  <2> DEFINE des == [d \in Dentries |-> [de[d] EXCEPT !.stale = @ \/ de[d].file = host[n]]]
             a == {"mode"} \ file[host[n]].attrs
             files == [file EXCEPT ![host[n]] = [file[host[n]] EXCEPT !.attrs = a]]
  <2>1. host[n] \in Files /\ a \in SUBSET Attrs
    BY <1>0, <1>29 DEF HostAttributes, Attrs
  <2>2. Settle(des, files)
    BY <1>0, <1>29, <2>1 DEF HostAttributes
  <2> HIDE DEF a
  <2>3. files \in [Files -> Infos]
    BY <1>0, <2>1 DEF Infos
  <2>4. des \in [Dentries -> Entries]
    <3> SUFFICES ASSUME NEW d \in Dentries
                 PROVE  [de[d] EXCEPT !.stale = @ \/ de[d].file = host[n]] \in Entries
      OBVIOUS
    <3> DEFINE v == de[d].stale \/ de[d].file = host[n]
    <3>1. v \in BOOLEAN
      BY Zenon
    <3>2. de[d] \in Entries /\ [de[d] EXCEPT !.stale = @ \/ de[d].file = host[n]]
                                 = [de[d] EXCEPT !.stale = v]
      BY <1>0
    <3> HIDE DEF v
    <3> QED BY <3>1, <3>2 DEF Entries
  <2> HIDE DEF des, files
  <2>5. de' \in [Dentries -> Entries] /\ file' \in [Files -> Infos]
    BY <2>2, <2>3, <2>4, Settling
  <2> QED BY <1>0, <1>29, <2>5 DEF HostAttributes, Control, TypeOK, Locked
<1>30. CASE UNCHANGED vars
  BY <1>30 DEF vars, Control, TypeOK, Locked
<1>31. ASSUME NEW t \in Threads, NEW n \in Names
       PROVE  /\ \A k \in Kinds : Change(t, "create", n, None, k) => Control'
              /\ Change(t, "unlink", n, None, "reg") => Control'
              /\ \A m \in Names : n # m /\ Change(t, "rename", n, m, "reg") => Control'
  BY <1>2, Nothing DEF Changes, Kinds
<1> QED BY <1>1, <1>3, <1>4, <1>6, <1>7, <1>9, <1>10, <1>11, <1>12, <1>13, <1>17, <1>18, <1>20,
           <1>21, <1>22, <1>23, <1>25, <1>26, <1>27, <1>28, <1>29, <1>30, <1>31 DEF Next

-----------------------------------------------------------------------------
(* What the names and the dentries have to do with each other.             *)

\* Dentries as they are after some of D's can no longer be found.
Later(D, E) ==
  \A d \in Dentries : (E[d] = Blank /\ ~HeldIn(d, call', fd')) \/ SameEntry(D[d], E[d])

\* Forgetting what nobody holds harms nobody.
LEMMA Settled ==
  ASSUME Control', NEW D \in [Dentries -> Entries], NEW E \in [Dentries -> Entries],
         Later(D, E), Sound(D, host', call', fd')
  PROVE  Sound(E, host', call', fd')
<1>0. /\ Blank.name = None /\ Blank.file = None /\ Blank.hashed = FALSE
      /\ Blank.unlinked = FALSE
  BY BlankEntry
<1>1. ASSUME NEW t \in Threads, NEW d \in {fd'[t], call'[t].cur, call'[t].tgt, call'[t].probe}, d # None
      PROVE  d \in Dentries /\ SameEntry(D[d], E[d])
  <2>1. d \in Dentries
    BY <1>1 DEF Control, TypeOK, Calls
  <2> QED BY <2>1 DEF Later, HeldIn
<1>2. Kept(E)
  <2>1. ASSUME NEW d \in Dentries
        PROVE  /\ E[d].unlinked => ~E[d].hashed
               /\ E[d].file # None => E[d].name # None
               /\ E[d].file # None /\ ~E[d].loose /\ ~E[d].unlinked => E[d].hashed
    BY <1>0 DEF Later, SameEntry, Sound, Kept
  <2>2. ASSUME NEW d \in Dentries, NEW e \in Dentries, E[d].hashed, E[e].hashed, E[d].name = E[e].name
        PROVE  d = e
    BY <1>0, <2>2 DEF Later, SameEntry, Sound, Kept
  <2> QED BY <2>1, <2>2 DEF Kept
<1>3. Named(E, host', call')
  BY <1>0 DEF Named, Later, SameEntry, Sound
<1>4. ASSUME NEW d \in Dentries, SameEntry(D[d], E[d]), NEW n, Owns(D, d, n), n # None
      PROVE  Owns(E, d, n)
  BY <1>0, <1>4 DEF Owns, SameEntry, Later
<1>5. ASSUME NEW t \in Threads PROVE Knows(E, call'[t])
  <2> DEFINE c == call'[t]
  <2>1. Knows(D, c) /\ Shaped(c) /\ c \in Calls
    BY DEF Sound, Control, Locked, TypeOK
  <2>2. /\ c.cur # None => c.cur \in Dentries /\ SameEntry(D[c.cur], E[c.cur])
        /\ c.tgt # None => c.tgt \in Dentries /\ SameEntry(D[c.tgt], E[c.tgt])
        /\ c.probe # None => c.probe \in Dentries /\ SameEntry(D[c.probe], E[c.probe])
    BY <1>1
  <2>3. /\ c.cur # None => c.name # None
        /\ c.tgt # None => c.to # None
        /\ c.probe # None /\ c.op \in Changes => Target(c) # None
    BY <2>1 DEF Shaped, Target
  <2> HIDE DEF c
  <2>4. c.cur # None => Owns(E, c.cur, c.name)
    BY <1>4, <2>1, <2>2, <2>3 DEF Knows
  <2>5. c.tgt # None => Owns(E, c.tgt, c.to)
    BY <1>4, <2>1, <2>2, <2>3 DEF Knows
  <2>6. c.probe # None => E[c.probe].file # None
    BY <2>1, <2>2 DEF Knows, SameEntry
  <2>7. c.probe # None /\ c.op \in Changes => Owns(E, c.probe, Target(c))
    BY <1>4, <2>1, <2>2, <2>3 DEF Knows
  <2>8. c.at \in {"looking", "looked"} => \A e \in Dentries : E[e].hashed => E[e].name # Target(c)
    BY <1>0, <2>1 DEF Knows, SameEntry, Later
  <2>9. c.at \in {"create", "created"} => E[c.cur].file = None
    BY <2>1, <2>2 DEF Knows, SameEntry, Shaped
  <2>10. c.at = "renamed" /\ c.ok => E[c.tgt].loose
    BY <2>1, <2>2 DEF Knows, SameEntry, Shaped
  <2>11. Knows(E, c)
    BY <2>4, <2>5, <2>6, <2>7, <2>8, <2>9, <2>10 DEF Knows
  <2> QED BY <2>11 DEF c
<1>6. ASSUME NEW t \in Threads
      PROVE  InTime(E, call'[t], fd'[t]) /\ (fd'[t] # None => E[fd'[t]].file # None)
  <2>1. /\ call'[t].at = "asking" => call'[t].probe # None
        /\ call'[t].at = "setting" => fd'[t] # None
    BY DEF Control, Locked, Shaped
  <2> QED BY <1>1, <2>1 DEF InTime, SameEntry, Sound
<1> QED BY <1>2, <1>3, <1>5, <1>6 DEF Sound

\* Staying what it was, twice.
LEMMA Sames ==
  ASSUME NEW x, NEW y, NEW z, SameEntry(x, y), SameEntry(y, z)
  PROVE  SameEntry(x, z)
BY DEF SameEntry

\* The same for what Settle does.
LEMMA Resettled ==
  ASSUME Control', NEW des \in [Dentries -> Entries], NEW files \in [Files -> Infos],
         Settle(des, files), Sound(des, host', call', fd')
  PROVE  Sound(de', host', call', fd')
<1>1. de' \in [Dentries -> Entries] /\ Later(des, de')
  BY Settling DEF Later
<1> QED BY <1>1, Settled

\* No name changes, and the other threads go on.
LEMMA Staying ==
  ASSUME Control, Control', NEW D \in [Dentries -> Entries], Sound(D, host, call, fd),
         NEW t \in Threads, host' = host,
         \A u \in Threads \ {t} : call'[u] = call[u] /\ fd'[u] = fd[u],
         call[t].at \notin {"removed", "renamed"}, call'[t].at \notin {"removed", "renamed"},
         Knows(D, call'[t]), InTime(D, call'[t], fd'[t]), fd'[t] # None => D[fd'[t]].file # None
  PROVE  Sound(D, host', call', fd')
<1>1. \A d \in Dentries : Parting(call', d) <=> Parting(call, d)
  BY DEF Parting
<1>2. Named(D, host', call')
  BY <1>1 DEF Sound, Named
<1> QED BY <1>2 DEF Sound

\* Whoever comes to a dentry knows it.
LEMMA Arrived ==
  ASSUME Control, NEW D \in [Dentries -> Entries], NEW t \in Threads, NEW d \in Dentries,
         NEW there \in BOOLEAN,
         call[t].at \in {"walk", "looked", "answered"}, call[t].op \in Changes \cup {"open"},
         call[t].at # "answered" => call[t].probe = None,
         Arrives(t, d, there),
         call[t].op \in Changes => Owns(D, d, Target(call[t])),
         call[t].cur # None => Owns(D, call[t].cur, call[t].name),
         there => D[d].file # None, ~there => D[d].file = None,
         fd[t] # None => D[fd[t]].file # None
  PROVE  /\ Knows(D, call'[t]) /\ InTime(D, call'[t], fd'[t])
         /\ fd'[t] # None => D[fd'[t]].file # None
         /\ call'[t].at \notin {"removed", "renamed"}
         /\ \A u \in Threads \ {t} : call'[u] = call[u] /\ fd'[u] = fd[u]
<1>1. /\ \A u \in Threads \ {t} : call'[u] = call[u] /\ fd'[u] = fd[u]
      /\ fd'[t] = fd[t] \/ (there /\ fd'[t] = d)
      /\ call'[t].probe = None /\ ~call'[t].late /\ ~call'[t].ok
      /\ call'[t].at \in {"idle", "walk", "create", "unlink", "rename"}
      /\ \/ call'[t] = Idle
         \/ /\ call[t].cur = None /\ call'[t].cur = d /\ call'[t].tgt = None
            /\ call[t].op \in Changes /\ call'[t].name = call[t].name
            /\ call'[t].at = "create" => ~there
         \/ /\ call[t].cur # None /\ call'[t].cur = call[t].cur /\ call'[t].tgt = d
            /\ call[t].op \in Changes /\ call'[t].at = "rename"
            /\ call'[t].name = call[t].name /\ call'[t].to = call[t].to
  BY Arriving
<1>2. Knows(D, call'[t])
  BY <1>1, IdleCall DEF Knows, Target
<1> QED BY <1>1, <1>2 DEF InTime

\* Whoever has the directory's lock is the only one to change it.
LEMMA Others ==
  ASSUME Control, NEW t \in Threads,
         call[t].op \in Changes \/ call[t].at \in {"looking", "looked"},
         NEW u \in Threads \ {t}
  PROVE  /\ call[u].op \notin Changes /\ call[u].cur = None /\ call[u].tgt = None
         /\ call[u].at \notin {"looking", "looked", "create", "created", "unlink", "removed",
                               "rename", "renamed"}
BY DEF Control, Locked, Shaped, Changes

\* What a call knows when no more has happened to it than being late.
LEMMA Passing ==
  ASSUME NEW D, NEW c, NEW x, NEW f, Alike(c, x), c.late => x.late, Knows(D, c), InTime(D, c, f)
  PROVE  Knows(D, x) /\ InTime(D, x, f)
BY DEF Alike, Knows, InTime, Target

\* The calls of inode.c, and the host, leave the names as they should be.
LEMMA SoundNext ==
  Control /\ Control' /\ Sound(de, host, call, fd) /\ [Next]_vars => Sound(de', host', call', fd')
<1> SUFFICES ASSUME Control, Control', Sound(de, host, call, fd), [Next]_vars
             PROVE  Sound(de', host', call', fd')
  OBVIOUS
<1>0. /\ host \in [Names -> Files \cup {None}] /\ file \in [Files -> Infos]
      /\ de \in [Dentries -> Entries] /\ call \in [Threads -> Calls]
      /\ fd \in [Threads -> Dentries \cup {None}] /\ lock \in Threads \cup {None}
      /\ de' \in [Dentries -> Entries] /\ call' \in [Threads -> Calls]
      /\ fd' \in [Threads -> Dentries \cup {None}]
  BY DEF Control, TypeOK
\* The dentries keep their names and files.
<1>1. ASSUME NEW des \in [Dentries -> Entries], NEW files \in [Files -> Infos], Settle(des, files),
             \A d \in Dentries : SameEntry(de[d], des[d]), Sound(de, host', call', fd')
      PROVE  Sound(de', host', call', fd')
  <2>1. Later(de, de')
    BY <1>1, Settling, Sames DEF Later
  <2> QED BY <1>0, <1>1, <2>1, Settled
<1>2. \A d \in Dentries : SameEntry(de[d], de[d])
  BY DEF SameEntry
<1>3. ASSUME Dentry(de), Sound(de, host', call', fd') PROVE Sound(de', host', call', fd')
  BY <1>0, <1>1, <1>2, <1>3 DEF Dentry
<1>4. ASSUME NEW d \in Dentries, NEW x \in Entries, Dentry([de EXCEPT ![d] = x]),
             SameEntry(de[d], x), Sound(de, host', call', fd')
      PROVE  Sound(de', host', call', fd')
  <2> DEFINE des == [de EXCEPT ![d] = x]
  <2>1. des \in [Dentries -> Entries] /\ \A e \in Dentries : SameEntry(de[e], des[e])
    BY <1>0, <1>2, <1>4
  <2>2. Settle(des, file)
    BY <1>4 DEF Dentry
  <2> HIDE DEF des
  <2> QED BY <1>0, <1>1, <1>4, <2>1, <2>2
\* A call that has no dentry yet.
<1>5. ASSUME NEW t \in Threads, UNCHANGED <<host, fd>>, \A u \in Threads \ {t} : call'[u] = call[u],
             call[t].at \notin {"removed", "renamed"}, call'[t].at \in {"idle", "walk"},
             call'[t].cur = None, call'[t].tgt = None, call'[t].probe = None
      PROVE  Sound(de, host', call', fd')
  <2>1. Knows(de, call'[t]) /\ InTime(de, call'[t], fd'[t])
    BY <1>5 DEF Knows, InTime
  <2>2. fd'[t] # None => de[fd'[t]].file # None
    BY <1>5 DEF Sound
  <2> QED BY <1>0, <1>5, <2>1, <2>2, Staying
<1>6. ASSUME NEW t \in Threads, NEW n \in Names, Open(t, n) PROVE Sound(de', host', call', fd')
  <2>1. /\ call'[t].at = "walk" /\ call'[t].cur = None /\ call'[t].tgt = None /\ call'[t].probe = None
        /\ \A u \in Threads \ {t} : call'[u] = call[u]
        /\ UNCHANGED <<host, de, fd>> /\ call[t].at = "idle"
    BY <1>0, <1>6 DEF Open, Idle
  <2> QED BY <1>5, <2>1
<1>7. ASSUME NEW t \in Threads, NEW op, NEW n, NEW m, NEW k, Change(t, op, n, m, k)
      PROVE  Sound(de', host', call', fd')
  <2>1. /\ call'[t].at = "walk" /\ call'[t].cur = None /\ call'[t].tgt = None /\ call'[t].probe = None
        /\ \A u \in Threads \ {t} : call'[u] = call[u]
        /\ UNCHANGED <<host, de, fd>> /\ call[t].at = "idle"
    BY <1>0, <1>7 DEF Change, Idle
  <2> QED BY <1>5, <2>1
<1>8. ASSUME NEW t \in Threads, Close(t) PROVE Sound(de', host', call', fd')
  <2>1. /\ call' = call /\ host' = host /\ fd'[t] = None /\ \A u \in Threads \ {t} : fd'[u] = fd[u]
        /\ call[t].at = "idle" /\ Dentry(de)
    BY <1>0, <1>8 DEF Close
  <2>2. Knows(de, call'[t]) /\ InTime(de, call'[t], fd'[t])
    BY <2>1 DEF InTime, Sound
  <2>3. Sound(de, host', call', fd')
    BY <1>0, <2>1, <2>2, Staying
  <2> QED BY <1>3, <2>1, <2>3
\* Where a walk looks.
<1>9. ASSUME NEW t \in Threads, call[t].at = "walk", NEW d \in At(Wanted(t))
      PROVE  /\ d \in Dentries /\ Owns(de, d, Target(call[t])) /\ de[d].hashed
             /\ de[d].name = Target(call[t]) /\ ~de[d].unlinked
             /\ call[t].op \in Changes \cup {"open"} /\ call[t].probe = None
             /\ call[t].cur # None => Owns(de, call[t].cur, call[t].name)
  BY <1>9, Wanting, Existing DEF At, Owns, Sound, Kept, Knows, Shaped
<1>10. ASSUME NEW t \in Threads, WalkValid(t) PROVE Sound(de', host', call', fd')
  <2>1. PICK d \in At(Wanted(t)) : Positive(d) /\ Finds(t, d) /\ Dentry(de)
    BY <1>10 DEF WalkValid
  <2>2. /\ call[t].at = "walk" /\ host' = host /\ Arrives(t, d, TRUE) /\ de[d].file # None
        /\ fd[t] # None => de[fd[t]].file # None
    BY <1>10, <2>1 DEF WalkValid, Finds, Positive, Sound
  <2>3. /\ Knows(de, call'[t]) /\ InTime(de, call'[t], fd'[t])
        /\ fd'[t] # None => de[fd'[t]].file # None
        /\ call'[t].at \notin {"removed", "renamed"}
        /\ \A u \in Threads \ {t} : call'[u] = call[u] /\ fd'[u] = fd[u]
    BY <1>0, <1>9, <2>2, Arrived
  <2>4. Sound(de, host', call', fd')
    BY <1>0, <2>2, <2>3, Staying
  <2> QED BY <1>3, <2>1, <2>4
\* A request is built.
<1>11. ASSUME NEW t \in Threads, NEW c \in Calls, NEW d \in Dentries, Builds(t, c, d),
              UNCHANGED <<host, fd>>, call[t].at \notin {"removed", "renamed"},
              de[d].file # None, ~de[d].unlinked, c.tgt = None,
              c.cur # None => Owns(de, c.cur, c.name),
              c.op \in Changes => Owns(de, d, Target(c))
       PROVE  Sound(de, host', call', fd')
  <2> DEFINE y == [c EXCEPT !.at = "asking", !.probe = d, !.path = de[d].name, !.late = FALSE]
  <2>1. /\ y.op = c.op /\ y.at = "asking" /\ y.name = c.name /\ y.cur = c.cur
        /\ y.tgt = c.tgt /\ y.probe = d /\ y.to = c.to /\ y.path = de[d].name
    BY DEF Calls
  <2>2. call'[t] = y /\ \A u \in Threads \ {t} : call'[u] = call[u]
    BY <1>0, <1>11 DEF Builds
  <2> HIDE DEF y
  <2>3. Knows(de, y) /\ InTime(de, y, fd'[t])
    BY <1>11, <2>1 DEF Knows, InTime, Target
  <2>4. fd'[t] # None => de[fd'[t]].file # None
    BY <1>11 DEF Sound
  <2> QED BY <1>0, <1>11, <2>1, <2>2, <2>3, <2>4, Staying
<1>12. ASSUME NEW t \in Threads, WalkExpired(t) PROVE Sound(de', host', call', fd')
  <2>1. PICK d \in At(Wanted(t)) :
          \/ /\ Positive(d)
             /\ Builds(t, call[t], d)
             /\ UNCHANGED <<file, de>>
          \/ /\ ~Positive(d)
             /\ UNCHANGED call
             /\ Dentry([de EXCEPT ![d].hashed = FALSE])
    BY <1>12 DEF WalkExpired
  <2>2. call[t].at = "walk" /\ UNCHANGED <<host, fd>>
    BY <1>12 DEF WalkExpired
  <2>3. /\ d \in Dentries /\ Owns(de, d, Target(call[t])) /\ ~de[d].unlinked
        /\ call[t].cur # None => Owns(de, call[t].cur, call[t].name)
    BY <1>9, <2>2
  <2>4. CASE Positive(d) /\ Builds(t, call[t], d) /\ UNCHANGED de
    <3>1. call[t] \in Calls /\ call[t].tgt = None /\ de[d].file # None
      BY <2>2, <2>4, Existing DEF Shaped, Positive
    <3> QED BY <1>11, <2>2, <2>3, <2>4, <3>1
  <2>5. CASE ~Positive(d) /\ UNCHANGED call /\ Dentry([de EXCEPT ![d].hashed = FALSE])
    <3> DEFINE x == [de[d] EXCEPT !.hashed = FALSE]
    <3>1. x \in Entries /\ SameEntry(de[d], x) /\ [de EXCEPT ![d].hashed = FALSE] = [de EXCEPT ![d] = x]
      <4>1. de[d] \in Entries /\ de[d].file = None
        BY <1>0, <2>3, <2>5 DEF Positive
      <4> QED BY <1>0, <2>3, <4>1 DEF Entries, SameEntry
    <3> HIDE DEF x
    <3>2. Sound(de, host', call', fd')
      BY <2>2, <2>5
    <3> QED BY <1>4, <2>3, <2>5, <3>1, <3>2
  <2> QED BY <2>1, <2>4, <2>5
<1>13. ASSUME NEW t \in Threads, WalkMisses(t) PROVE Sound(de', host', call', fd')
  <2> DEFINE y == [call[t] EXCEPT !.at = "looking"]
  <2>1. /\ y.op = call[t].op /\ y.at = "looking" /\ y.name = call[t].name
        /\ y.cur = call[t].cur /\ y.tgt = call[t].tgt /\ y.probe = call[t].probe
        /\ y.to = call[t].to /\ y.path = call[t].path
    BY <1>0 DEF Calls
  <2>2. /\ call'[t] = y /\ \A u \in Threads \ {t} : call'[u] = call[u]
        /\ call[t].at = "walk" /\ UNCHANGED <<host, fd, de>>
    BY <1>0, <1>13 DEF WalkMisses
  <2> HIDE DEF y
  <2>3. \A e \in Dentries : de[e].hashed => de[e].name # Target(call[t])
    BY <1>13, Wanting DEF WalkMisses, At
  <2>4. Knows(de, y) /\ InTime(de, y, fd'[t])
    BY <2>1, <2>3 DEF Knows, InTime, Target, Sound
  <2>5. fd'[t] # None => de[fd'[t]].file # None
    BY <2>2 DEF Sound
  <2> QED BY <1>0, <2>1, <2>2, <2>4, <2>5, Staying
\* A call goes on where it knows the same.
<1>14. ASSUME NEW t \in Threads, UNCHANGED <<host, fd>>,
              \A u \in Threads \ {t} : call'[u] = call[u],
              \/ call'[t] = Idle
              \/ /\ call'[t].op = call[t].op /\ call'[t].name = call[t].name /\ call'[t].to = call[t].to
                 /\ call'[t].cur = call[t].cur /\ call'[t].tgt = call[t].tgt
                 /\ call'[t].probe = call[t].probe
                 /\ \/ call[t].at = "looking" /\ call'[t].at = "looked"
                    \/ call[t].at = "asking" /\ call'[t].at = "answered"
                    \/ call[t].at = "setting" /\ call'[t].at = "set"
                    \/ call[t].at = "create" /\ call'[t].at = "created",
              call[t].at \notin {"removed", "renamed"}
       PROVE  Sound(de, host', call', fd')
  <2>1. Knows(de, call'[t]) /\ InTime(de, call'[t], fd'[t])
    BY <1>14, IdleCall DEF Knows, InTime, Target, Sound
  <2>2. fd'[t] # None => de[fd'[t]].file # None
    BY <1>14 DEF Sound
  <2>3. call'[t].at \notin {"removed", "renamed"}
    BY <1>14, IdleCall
  <2> QED BY <1>0, <1>14, <2>1, <2>2, <2>3, Staying
<1>15. ASSUME NEW t \in Threads, Ends(t), UNCHANGED <<host, fd>>, call[t].at \notin {"removed", "renamed"}
       PROVE  Sound(de, host', call', fd')
  <2>1. call'[t] = Idle /\ \A u \in Threads \ {t} : call'[u] = call[u]
    BY <1>15, Ending
  <2> QED BY <1>14, <1>15, <2>1
<1>16. ASSUME NEW t \in Threads, LookServed(t) PROVE Sound(de', host', call', fd')
  <2>1. call[t].at = "looking" /\ UNCHANGED <<host, fd>> /\ Dentry(de)
    BY <1>16 DEF LookServed
  <2>2. CASE Ends(t)
    BY <1>3, <1>15, <2>1, <2>2
  <2>3. CASE ~Ends(t)
    <3>1. /\ \A u \in Threads \ {t} : call'[u] = call[u]
          /\ call'[t].op = call[t].op /\ call'[t].name = call[t].name /\ call'[t].to = call[t].to
          /\ call'[t].cur = call[t].cur /\ call'[t].tgt = call[t].tgt
          /\ call'[t].probe = call[t].probe /\ call'[t].at = "looked"
      BY <1>0, <1>16, <2>3 DEF LookServed, Calls
    <3> QED BY <1>3, <1>14, <2>1, <3>1
  <2> QED BY <2>2, <2>3
<1>17. ASSUME NEW t \in Threads, LookDone(t) PROVE Sound(de', host', call', fd')
  <2>1. /\ call[t].at = "looked" /\ call[t].op \in Changes \cup {"open"} /\ call[t].probe = None
        /\ Wanted(t) \in Names /\ Wanted(t) = Target(call[t])
        /\ call[t].file \in Files \cup {None} /\ call[t].attrs \in SUBSET Attrs
        /\ host' = host
    BY <1>0, <1>17, Existing, Wanting DEF LookDone, Shaped, Calls
  <2> DEFINE n == Target(call[t])
             f == call[t].file
             new == [Blank EXCEPT !.name = n, !.hashed = TRUE, !.timed = TRUE]
             e == [new EXCEPT !.file = f, !.kind = file[f].kind, !.loose = host[n] # f]
  <2>2. PICK d \in Unused :
          \/ FindsNone(t, d) /\ Dentry([de EXCEPT ![d] = new])
          \/ /\ f # None /\ Finds(t, d)
             /\ Dentry([de EXCEPT ![d] = Changed(e, f, call[t].attrs)])
          \/ Arrives(t, d, FALSE) /\ UNCHANGED wrong /\ Dentry([de EXCEPT ![d] = new])
    BY <1>17, <2>1 DEF LookDone
  <2>3. d \in Dentries /\ \A u \in Threads : d \notin {fd[u], call[u].cur, call[u].tgt, call[u].probe}
    BY DEF Unused, HeldIn
  <2>4. /\ new \in Entries /\ new.name = n /\ new.hashed /\ ~new.unlinked /\ new.file = None
    BY <2>1 DEF Blank, Entries, Kinds, Attrs
  <2>5. f # None => /\ e \in Entries /\ e.name = n /\ e.hashed /\ ~e.unlinked /\ e.file = f
                    /\ ~e.loose => host[n] = f
    BY <1>0, <2>1, <2>4 DEF Entries, Infos
  <2> HIDE DEF new, e
  <2>6. f # None => LET x == Changed(e, f, call[t].attrs) IN
          /\ x \in Entries /\ x.name = n /\ x.hashed /\ ~x.unlinked /\ x.file = f
          /\ ~x.loose => host[n] = f
    BY <2>1, <2>5, Answered DEF Control
  <2>7. \E x \in Entries, there \in BOOLEAN :
          /\ Dentry([de EXCEPT ![d] = x]) /\ Arrives(t, d, there)
          /\ x.name = n /\ x.hashed /\ ~x.unlinked /\ (x.file # None <=> there)
          /\ x.file # None /\ ~x.loose => host[n] = x.file
    BY <2>2, <2>4, <2>6 DEF Finds, FindsNone
  <2>8. PICK x \in Entries, there \in BOOLEAN :
          /\ Dentry([de EXCEPT ![d] = x]) /\ Arrives(t, d, there)
          /\ x.name = n /\ x.hashed /\ ~x.unlinked /\ (x.file # None <=> there)
          /\ x.file # None /\ ~x.loose => host[n] = x.file
    BY <2>7
  <2> DEFINE D == [de EXCEPT ![d] = x]
  <2>9. D \in [Dentries -> Entries] /\ D[d] = x /\ \A g \in Dentries \ {d} : D[g] = de[g]
    BY <1>0, <2>3
  <2>10. Settle(D, file)
    BY <2>8 DEF Dentry
  <2> HIDE DEF D
  <2>11. \A g \in Dentries : de[g].hashed => de[g].name # n
    BY <2>1 DEF Sound, Knows
  <2>12. n \in Names /\ n # None
    BY <2>1, Nothing
  <2>13. Owns(D, d, n)
    BY <2>8, <2>9, <2>11 DEF Owns
  <2>14. call[t].cur # None => Owns(D, call[t].cur, call[t].name)
    <3>1. CASE call[t].cur # None
      <4>1. call[t].cur \in Dentries \ {d} /\ n # call[t].name
        BY <2>1, <2>3, <3>1, Existing DEF Shaped, Target
      <4>2. Owns(de, call[t].cur, call[t].name)
        BY <3>1 DEF Sound, Knows
      <4> QED BY <2>8, <2>9, <4>1, <4>2 DEF Owns
    <3> QED BY <3>1
  <2>15. fd[t] # None => D[fd[t]].file # None
    BY <1>0, <2>3, <2>9 DEF Sound
  <2>16. /\ Knows(D, call'[t]) /\ InTime(D, call'[t], fd'[t])
         /\ fd'[t] # None => D[fd'[t]].file # None
         /\ call'[t].at \notin {"removed", "renamed"}
         /\ \A u \in Threads \ {t} : call'[u] = call[u] /\ fd'[u] = fd[u]
    BY <2>1, <2>3, <2>8, <2>9, <2>13, <2>14, <2>15, Arrived
  <2>17. Kept(D)
    <3>1. ASSUME NEW g \in Dentries
          PROVE  /\ D[g].unlinked => ~D[g].hashed
                 /\ D[g].file # None => D[g].name # None
                 /\ D[g].file # None /\ ~D[g].loose /\ ~D[g].unlinked => D[g].hashed
      BY <2>8, <2>9, <2>12 DEF Sound, Kept
    <3>2. ASSUME NEW g \in Dentries, NEW h \in Dentries, D[g].hashed, D[h].hashed, D[g].name = D[h].name
          PROVE  g = h
      BY <2>8, <2>9, <2>11, <3>2 DEF Sound, Kept
    <3> QED BY <3>1, <3>2 DEF Kept
  <2>18. Named(D, host', call')
    <3> SUFFICES ASSUME NEW g \in Dentries, D[g].file # None, ~D[g].loose, ~D[g].unlinked
                 PROVE  host'[D[g].name] = IF Parting(call', g) THEN None ELSE D[g].file
      BY DEF Named
    <3>1. Parting(call', g) <=> Parting(call, g)
      BY <2>1, <2>16 DEF Parting
    <3>2. CASE g = d
      <4>1. ~Parting(call, d)
        BY <2>3 DEF Parting
      <4> QED BY <2>1, <2>8, <2>9, <3>1, <3>2, <4>1
    <3>3. CASE g # d
      BY <2>1, <2>9, <3>1, <3>3 DEF Sound, Named
    <3> QED BY <3>2, <3>3
  <2>19. ASSUME NEW u \in Threads \ {t}
         PROVE  /\ Knows(D, call'[u]) /\ InTime(D, call'[u], fd'[u])
                /\ fd'[u] # None => D[fd'[u]].file # None
    <3>1. /\ call[u].op \notin Changes /\ call[u].cur = None /\ call[u].tgt = None
          /\ call[u].at \notin {"looking", "looked", "create", "created", "unlink", "removed",
                               "rename", "renamed"}
      BY <2>1, Others
    <3>2. /\ call[u].probe # None => D[call[u].probe] = de[call[u].probe]
          /\ fd[u] # None => D[fd[u]] = de[fd[u]]
      BY <1>0, <2>3, <2>9, Existing
    <3>3. /\ call[u].at = "asking" => call[u].probe # None
          /\ call[u].at = "setting" => fd[u] # None
      BY DEF Control, Locked, Shaped
    <3> QED BY <2>16, <3>1, <3>2, <3>3 DEF Knows, InTime, Sound
  <2>20. Sound(D, host', call', fd')
    BY <2>16, <2>17, <2>18, <2>19 DEF Sound
  <2> QED BY <1>0, <2>9, <2>10, <2>20, Resettled
<1>18. ASSUME NEW t \in Threads, Stat(t) PROVE Sound(de', host', call', fd')
  <2> DEFINE y == [Idle EXCEPT !.op = "stat"]
  <2>1. /\ y \in Calls /\ y.op = "stat" /\ y.cur = None /\ y.tgt = None
    BY DEF Idle, Calls, Ops, Ats, Kinds, Attrs
  <2>2. Builds(t, y, fd[t]) /\ fd[t] \in Dentries /\ UNCHANGED <<host, fd, de>>
    BY <1>0, <1>18 DEF Stat
  <2>3. de[fd[t]].file # None /\ ~de[fd[t]].unlinked /\ call[t].at = "idle"
    BY <1>18 DEF Stat, Sound
  <2> HIDE DEF y
  <2> QED BY <1>11, <2>1, <2>2, <2>3 DEF Changes
<1>19. ASSUME NEW t \in Threads, AskServed(t) PROVE Sound(de', host', call', fd')
  <2>1. /\ UNCHANGED <<host, fd, de>> /\ call[t].at = "asking"
        /\ \A u \in Threads \ {t} : call'[u] = call[u]
        /\ call'[t].op = call[t].op /\ call'[t].name = call[t].name /\ call'[t].to = call[t].to
        /\ call'[t].cur = call[t].cur /\ call'[t].tgt = call[t].tgt
        /\ call'[t].probe = call[t].probe /\ call'[t].at = "answered"
    BY <1>0, <1>19 DEF AskServed, Calls
  <2> QED BY <1>14, <2>1
<1>20. ASSUME NEW t \in Threads, AskDone(t) PROVE Sound(de', host', call', fd')
  <2>1. /\ call[t].at = "answered" /\ call[t].op \in Changes \cup {"open", "stat"}
        /\ call[t].probe \in Dentries /\ call[t].attrs \in SUBSET Attrs
        /\ call[t].ok => call[t].file \in Files
        /\ host' = host /\ call[t].probe # None /\ call[t].tgt = None
    BY <1>0, <1>20, Existing, Nothing DEF AskDone, Shaped, Calls
  <2> DEFINE d == call[t].probe
             fits == call[t].ok /\ de[d].kind = file[call[t].file].kind
             e == IF fits THEN Changed(de[d], call[t].file, call[t].attrs)
                  ELSE IF call[t].ok THEN MadeBad(de[d]) ELSE de[d]
             x == [e EXCEPT !.hashed = FALSE, !.loose = TRUE]
             y == [Rested(call[t]) EXCEPT !.at = "walk"]
  <2>2. de[d] \in Entries
    BY <1>0, <2>1
  <2>3. e \in Entries /\ SameEntry(de[d], e)
    <3>1. CASE fits
      BY <2>1, <2>2, <3>1, Answered DEF Control, SameEntry
    <3>2. CASE ~fits /\ call[t].ok
      BY <2>2, <3>2, Spoiling DEF SameEntry
    <3>3. CASE ~fits /\ ~call[t].ok
      BY <2>2, <3>3 DEF SameEntry
    <3> QED BY <3>1, <3>2, <3>3
  <2>4. AskDone(t) =>
          \/ Ends(t) /\ UNCHANGED <<fd, wrong>> /\ Dentry([de EXCEPT ![d] = e])
          \/ call[t].op # "stat" /\ Finds(t, d) /\ Dentry([de EXCEPT ![d] = e])
          \/ /\ call[t].op # "stat" /\ call' = [call EXCEPT ![t] = y]
             /\ UNCHANGED <<fd, lock, wrong>> /\ Dentry([de EXCEPT ![d] = x])
    BY DEF AskDone
  <2> HIDE DEF fits, e
  <2>5. x \in Entries /\ SameEntry(de[d], x)
    BY <2>3 DEF Entries, SameEntry
  <2> HIDE DEF x
  <2>6. CASE Ends(t) /\ UNCHANGED fd /\ Dentry([de EXCEPT ![d] = e])
    <3>1. Sound(de, host', call', fd')
      BY <1>15, <2>1, <2>6
    <3> QED BY <1>4, <2>1, <2>3, <2>6, <3>1
  <2>7. CASE call[t].op # "stat" /\ Finds(t, d) /\ Dentry([de EXCEPT ![d] = e])
    <3>1. /\ call[t].op \in Changes => Owns(de, d, Target(call[t]))
          /\ call[t].cur # None => Owns(de, call[t].cur, call[t].name)
          /\ de[d].file # None /\ (fd[t] # None => de[fd[t]].file # None)
          /\ Arrives(t, d, TRUE) /\ call[t].op \in Changes \cup {"open"}
      BY <2>1, <2>7 DEF Sound, Knows, Finds
    <3>2. /\ Knows(de, call'[t]) /\ InTime(de, call'[t], fd'[t])
          /\ fd'[t] # None => de[fd'[t]].file # None
          /\ call'[t].at \notin {"removed", "renamed"}
          /\ \A u \in Threads \ {t} : call'[u] = call[u] /\ fd'[u] = fd[u]
      BY <1>0, <2>1, <3>1, Arrived
    <3>3. Sound(de, host', call', fd')
      BY <1>0, <2>1, <3>2, Staying
    <3> QED BY <1>4, <2>1, <2>3, <2>7, <3>3
  <2>8. CASE /\ call[t].op # "stat" /\ call' = [call EXCEPT ![t] = y]
             /\ UNCHANGED fd /\ Dentry([de EXCEPT ![d] = x])
    <3> DEFINE r == Rested(call[t])
    <3>1. /\ r \in Calls /\ r.op = call[t].op /\ r.name = call[t].name /\ r.cur = call[t].cur
          /\ r.tgt = call[t].tgt /\ r.probe = None /\ r.to = call[t].to
      BY <1>0, Resting
    <3>2. call'[t] = [r EXCEPT !.at = "walk"] /\ \A u \in Threads \ {t} : call'[u] = call[u]
      BY <1>0, <2>8
    <3> HIDE DEF r
    <3>3. /\ call'[t].at = "walk" /\ call'[t].name = call[t].name
          /\ call'[t].cur = call[t].cur /\ call'[t].tgt = None /\ call'[t].probe = None
      BY <2>1, <3>1, <3>2 DEF Calls
    <3>4. Knows(de, call'[t]) /\ InTime(de, call'[t], fd'[t])
      BY <3>3 DEF Knows, InTime, Sound
    <3>5. fd'[t] # None => de[fd'[t]].file # None
      BY <2>8 DEF Sound
    <3>6. Sound(de, host', call', fd')
      BY <1>0, <2>1, <2>8, <3>2, <3>3, <3>4, <3>5, Staying
    <3> QED BY <1>4, <2>1, <2>5, <2>8, <3>6
  <2> QED BY <1>20, <2>4, <2>6, <2>7, <2>8
<1>21. ASSUME NEW t \in Threads, Setattr(t) PROVE Sound(de', host', call', fd')
  <2>1. PICK a, s :
          call' = [call EXCEPT ![t] = [Idle EXCEPT !.op = "setattr", !.at = "setting",
                     !.path = de[fd[t]].name, !.ask = a, !.set = s]]
    BY <1>21 DEF Setattr
  <2>2. /\ call[t].at = "idle" /\ fd[t] \in Dentries /\ ~de[fd[t]].unlinked
        /\ UNCHANGED <<host, de, fd>>
    BY <1>0, <1>21 DEF Setattr
  <2>3. /\ call'[t].at = "setting" /\ call'[t].path = de[fd[t]].name /\ call'[t].cur = None
        /\ call'[t].tgt = None /\ call'[t].probe = None
        /\ \A u \in Threads \ {t} : call'[u] = call[u]
    BY <1>0, <2>1 DEF Idle
  <2>4. Knows(de, call'[t]) /\ InTime(de, call'[t], fd'[t])
    BY <2>2, <2>3 DEF Knows, InTime
  <2>5. fd'[t] # None => de[fd'[t]].file # None
    BY <2>2 DEF Sound
  <2> QED BY <1>0, <2>2, <2>3, <2>4, <2>5, Staying
<1>22. ASSUME NEW t \in Threads, SetServed(t) PROVE Sound(de', host', call', fd')
  <2>1. /\ UNCHANGED <<host, fd>> /\ call[t].at = "setting"
        /\ \A u \in Threads \ {t} : call'[u] = call[u]
        /\ call'[t].op = call[t].op /\ call'[t].name = call[t].name /\ call'[t].to = call[t].to
        /\ call'[t].cur = call[t].cur /\ call'[t].tgt = call[t].tgt
        /\ call'[t].probe = call[t].probe /\ call'[t].at = "set"
    BY <1>0, <1>22 DEF SetServed, Calls
  <2>2. Sound(de, host', call', fd')
    BY <1>14, <2>1
  <2> DEFINE f == host[call[t].path]
             sent == Sent(call[t].ask)
             des == [d \in Dentries |-> [de[d] EXCEPT !.stale = @ \/ (de[d].file = f /\ d # fd[t])]]
             files == [file EXCEPT ![f].attrs = (@ \ sent) \cup (call[t].set \cap sent)]
  <2>3. CASE f # None /\ Settle(des, files)
    <3>1. f \in Files /\ call[t].set \in SUBSET Attrs
      <4>1. call[t].path \in Names
        BY <2>1, Existing DEF Shaped
      <4> QED BY <1>0, <2>3, <4>1 DEF Calls
    <3>2. des \in [Dentries -> Entries] /\ \A d \in Dentries : SameEntry(de[d], des[d])
      <4> SUFFICES ASSUME NEW d \in Dentries
                   PROVE  /\ [de[d] EXCEPT !.stale = @ \/ (de[d].file = f /\ d # fd[t])] \in Entries
                          /\ SameEntry(de[d], [de[d] EXCEPT !.stale = @ \/ (de[d].file = f /\ d # fd[t])])
        OBVIOUS
      <4> DEFINE v == de[d].stale \/ (de[d].file = f /\ d # fd[t])
      <4>1. v \in BOOLEAN
        BY Zenon
      <4>2. de[d] \in Entries /\ [de[d] EXCEPT !.stale = @ \/ (de[d].file = f /\ d # fd[t])]
                                   = [de[d] EXCEPT !.stale = v]
        BY <1>0
      <4> HIDE DEF v
      <4> QED BY <4>1, <4>2 DEF Entries, SameEntry
    <3> DEFINE b == (file[f].attrs \ sent) \cup (call[t].set \cap sent)
    <3>3. b \in SUBSET Attrs /\ files = [file EXCEPT ![f] = [file[f] EXCEPT !.attrs = b]]
          /\ file[f] \in Infos
      BY <1>0, <3>1 DEF Infos
    <3> HIDE DEF b
    <3>4. files \in [Files -> Infos]
      <4>1. [file[f] EXCEPT !.attrs = b] \in Infos
        BY <3>3 DEF Infos
      <4> QED BY <1>0, <3>1, <3>3, <4>1
    <3> HIDE DEF des, files
    <3> QED BY <1>1, <2>2, <2>3, <3>2, <3>4
  <2>4. CASE UNCHANGED de
    BY <2>2, <2>4
  <2> QED BY <1>22, <2>3, <2>4 DEF SetServed
<1>23. ASSUME NEW t \in Threads, SetDone(t) PROVE Sound(de', host', call', fd')
  <2>1. /\ call[t].at = "set" /\ fd[t] \in Dentries /\ UNCHANGED <<host, fd>> /\ Ends(t)
        /\ call[t].ask \in SUBSET Attrs /\ call[t].set \in SUBSET Attrs
    <3>1. call[t].at = "set" /\ UNCHANGED <<host, fd>> /\ Ends(t)
      BY <1>23 DEF SetDone
    <3> QED BY <1>0, <3>1 DEF Calls, Control, Locked
  <2> DEFINE e == de[fd[t]]
             a == IF call[t].ok THEN (e.attrs \ call[t].ask) \cup call[t].set ELSE e.attrs
             x == [e EXCEPT !.timed = FALSE, !.attrs = a]
  <2>2. e \in Entries /\ a \in SUBSET Attrs
    BY <1>0, <2>1 DEF Entries
  <2>3. Dentry([de EXCEPT ![fd[t]] = x])
    BY <1>0, <1>23, <2>1 DEF SetDone, Entries
  <2> HIDE DEF a
  <2>4. x \in Entries /\ SameEntry(e, x)
    BY <2>2 DEF Entries, SameEntry
  <2> HIDE DEF x
  <2>5. Sound(de, host', call', fd')
    BY <1>15, <2>1
  <2> QED BY <1>4, <2>1, <2>3, <2>4, <2>5
\* While t changes the directory, a dentry parts from its name by t's doing only.
<1>24. ASSUME NEW t \in Threads, call[t].op \in Changes
       PROVE  \A d \in Dentries : Parting(call, d) =>
                /\ call[t].cur = d
                /\ call[t].at = "removed" \/ (call[t].at = "renamed" /\ call[t].ok)
  <2> SUFFICES ASSUME NEW d \in Dentries, NEW u \in Threads, call[u].cur = d,
                      call[u].at = "removed" \/ (call[u].at = "renamed" /\ call[u].ok)
               PROVE  u = t
    BY DEF Parting
  <2> QED BY <1>24, Others
<1>25. ASSUME NEW t \in Threads, CreateServed(t) PROVE Sound(de', host', call', fd')
  <2>1. /\ call[t].at = "create" /\ call[t].op = "create" /\ call[t].name \in Names
        /\ call[t].kind \in Kinds /\ fd' = fd
    BY <1>0, <1>25, Existing DEF CreateServed, Shaped, Calls, Changes
  <2> DEFINE n == call[t].name
  <2>2. CASE /\ host[n] = None
             /\ \E f \in Files :
                  /\ host' = [host EXCEPT ![n] = f]
                  /\ call' = [call EXCEPT ![t].at = "created", ![t].file = f]
                  /\ Settle(de, [file EXCEPT ![f].kind = call[t].kind])
    <3>1. PICK f \in Files :
                  /\ host' = [host EXCEPT ![n] = f]
                  /\ call' = [call EXCEPT ![t].at = "created", ![t].file = f]
                  /\ Settle(de, [file EXCEPT ![f].kind = call[t].kind])
      BY <2>2
    <3>2. [file EXCEPT ![f].kind = call[t].kind] \in [Files -> Infos]
      <4>1. [file[f] EXCEPT !.kind = call[t].kind] \in Infos
        BY <1>0, <2>1 DEF Infos
      <4>2. [file EXCEPT ![f].kind = call[t].kind] =
              [file EXCEPT ![f] = [file[f] EXCEPT !.kind = call[t].kind]]
        BY <1>0
      <4> QED BY <1>0, <4>1, <4>2
    <3>3. /\ \A u \in Threads \ {t} : call'[u] = call[u]
          /\ call'[t].op = call[t].op /\ call'[t].name = call[t].name /\ call'[t].to = call[t].to
          /\ call'[t].cur = call[t].cur /\ call'[t].tgt = call[t].tgt
          /\ call'[t].probe = call[t].probe /\ call'[t].at = "created"
      BY <1>0, <3>1 DEF Calls
    <3>4. \A d \in Dentries : ~Parting(call, d) /\ ~Parting(call', d)
      <4>1. \A d \in Dentries : ~Parting(call, d)
        BY <1>24, <2>1 DEF Changes
      <4> QED BY <2>1, <3>3, <4>1 DEF Parting
    <3>5. Named(de, host', call')
      <4> SUFFICES ASSUME NEW d \in Dentries, de[d].file # None, ~de[d].loose, ~de[d].unlinked
                   PROVE  host'[de[d].name] = de[d].file
        BY <3>4 DEF Named
      <4>1. host[de[d].name] = de[d].file
        BY <3>4 DEF Sound, Named
      <4>2. de[d].name # n /\ de[d].name \in Names
        BY <1>0, <2>2, <4>1 DEF Entries, Sound, Kept
      <4> QED BY <1>0, <3>1, <4>1, <4>2
    <3>6. Knows(de, call'[t]) /\ InTime(de, call'[t], fd'[t])
      BY <2>1, <3>3 DEF Knows, InTime, Target, Sound
    <3>7. Sound(de, host', call', fd')
      BY <2>1, <3>3, <3>5, <3>6 DEF Sound
    <3> QED BY <1>0, <1>1, <1>2, <3>1, <3>2, <3>7
  <2>3. CASE /\ call' = [call EXCEPT ![t].at = "created", ![t].file = host[n]]
             /\ UNCHANGED <<host, de>>
    <3>1. /\ \A u \in Threads \ {t} : call'[u] = call[u]
          /\ call'[t].op = call[t].op /\ call'[t].name = call[t].name /\ call'[t].to = call[t].to
          /\ call'[t].cur = call[t].cur /\ call'[t].tgt = call[t].tgt
          /\ call'[t].probe = call[t].probe /\ call'[t].at = "created"
      BY <1>0, <2>3 DEF Calls
    <3> QED BY <1>14, <2>1, <2>3, <3>1
  <2>4. CASE Ends(t) /\ UNCHANGED host /\ Dentry(de)
    <3>1. Sound(de, host', call', fd')
      BY <1>15, <2>1, <2>4
    <3> QED BY <1>3, <2>4, <3>1
  <2> QED BY <1>25, <2>2, <2>3, <2>4 DEF CreateServed
\* A change of the directory is over or has got further.
<1>26. ASSUME NEW t \in Threads, NEW n \in SUBSET Names, NEW y \in Calls,
              call' = Disturbed([call EXCEPT ![t] = y], n)
       PROVE  /\ Alike(y, call'[t])
              /\ \A u \in Threads \ {t} :
                   /\ Alike(call[u], call'[u])
                   /\ call[u].late => call'[u].late
                   /\ call[u].path \in n => call'[u].late
  <2> DEFINE c == [call EXCEPT ![t] = y]
  <2>1. c \in [Threads -> Calls] /\ c[t] = y /\ \A u \in Threads \ {t} : c[u] = call[u]
    BY <1>0
  <2> HIDE DEF c
  <2>2. call' = Disturbed(c, n)
    BY <1>26 DEF c
  <2> QED BY <2>1, <2>2, Disturbing
<1>27. ASSUME NEW t \in Threads, CreateDone(t) PROVE Sound(de', host', call', fd')
  <2>1. /\ call[t].at = "created" /\ call[t].op = "create" /\ call[t].name \in Names
        /\ call[t].cur \in Dentries /\ call[t].cur # None
        /\ call[t].file \in Files /\ call[t].kind \in Kinds /\ UNCHANGED <<host, fd>> /\ Ends(t)
    BY <1>0, <1>27, Existing DEF CreateDone, Shaped, Calls, Changes
  <2> DEFINE d == call[t].cur
             v == ~de[d].hashed \/ host[call[t].name] # call[t].file
             x == [de[d] EXCEPT !.file = call[t].file, !.kind = call[t].kind,
                                !.timed = FALSE, !.loose = v]
             z == [de[d] EXCEPT !.timed = FALSE]
  <2>2. Dentry([de EXCEPT ![d] = x]) \/ Dentry([de EXCEPT ![d] = z])
    BY <1>0, <1>27, <2>1 DEF CreateDone
  <2>3. v \in BOOLEAN /\ de[d] \in Entries /\ (~v => de[d].hashed /\ host[call[t].name] = call[t].file)
    BY <1>0, <2>1
  <2> HIDE DEF v
  <2>4. /\ x \in Entries /\ x.file = call[t].file /\ x.name = de[d].name /\ x.hashed = de[d].hashed
        /\ x.unlinked = de[d].unlinked /\ x.loose = v
    BY <2>1, <2>3 DEF Entries
  <2>5. z \in Entries /\ SameEntry(de[d], z)
    BY <2>3 DEF Entries, SameEntry
  <2>6. Sound(de, host', call', fd')
    BY <1>15, <2>1
  <2> HIDE DEF x, z
  <2>7. CASE Dentry([de EXCEPT ![d] = z])
    BY <1>4, <2>1, <2>5, <2>6, <2>7
  <2>8. CASE Dentry([de EXCEPT ![d] = x])
    <3> DEFINE D == [de EXCEPT ![d] = x]
    <3>1. /\ D \in [Dentries -> Entries] /\ D[d] = x /\ \A g \in Dentries \ {d} : D[g] = de[g]
      BY <1>0, <2>1, <2>4
    <3>2. Settle(D, file)
      BY <2>8 DEF Dentry
    <3> HIDE DEF D
    <3>3. Owns(de, d, call[t].name) /\ de[d].file = None /\ call[t].name # None
      BY <2>1, Nothing DEF Sound, Knows
    <3>4. /\ \A g \in Dentries : D[g].hashed = de[g].hashed /\ D[g].name = de[g].name
                                   /\ D[g].unlinked = de[g].unlinked
      BY <2>4, <3>1
    <3>5. Kept(D)
      <4>1. ASSUME NEW g \in Dentries
            PROVE  /\ D[g].unlinked => ~D[g].hashed
                   /\ D[g].file # None => D[g].name # None
                   /\ D[g].file # None /\ ~D[g].loose /\ ~D[g].unlinked => D[g].hashed
        BY <2>3, <2>4, <3>1, <3>3 DEF Sound, Kept, Owns
      <4> QED BY <3>4, <4>1 DEF Sound, Kept
    <3>6. call'[t] = Idle /\ \A u \in Threads \ {t} : call'[u] = call[u]
      BY <2>1, Ending
    <3>7. \A g \in Dentries : ~Parting(call, g) /\ ~Parting(call', g)
      <4>1. \A g \in Dentries : ~Parting(call, g)
        BY <1>24, <2>1 DEF Changes
      <4> QED BY <3>6, <4>1, IdleCall DEF Parting
    <3>8. Named(D, host', call')
      <4> SUFFICES ASSUME NEW g \in Dentries, D[g].file # None, ~D[g].loose, ~D[g].unlinked
                   PROVE  host'[D[g].name] = D[g].file
        BY <3>7 DEF Named
      <4>1. CASE g = d
        BY <2>1, <2>3, <2>4, <3>1, <3>3, <4>1 DEF Owns
      <4>2. CASE g # d
        BY <2>1, <3>1, <3>7, <4>2 DEF Sound, Named
      <4> QED BY <4>1, <4>2
    <3>9. ASSUME NEW u \in Threads
          PROVE  /\ Knows(D, call'[u]) /\ InTime(D, call'[u], fd'[u])
                 /\ fd'[u] # None => D[fd'[u]].file # None
      <4>1. fd'[u] # None => D[fd'[u]].file # None
        BY <1>0, <2>1, <3>1, <3>3 DEF Sound
      <4>2. CASE u = t
        BY <3>6, <4>1, <4>2, IdleCall DEF Knows, InTime
      <4>3. CASE u # t
        <5>1. /\ call[u].op \notin Changes /\ call[u].cur = None /\ call[u].tgt = None
              /\ call[u].at \notin {"looking", "looked", "create", "created", "unlink", "removed",
                                   "rename", "renamed"}
          BY <2>1, <4>3, Others DEF Changes
        <5>2. /\ call[u].at = "asking" => call[u].probe \in Dentries
              /\ call[u].at = "setting" => fd[u] \in Dentries
          BY <1>0, Existing DEF Control, Locked, Shaped
        <5>3. call[u].probe # None => D[call[u].probe].file # None
          BY <3>1, <3>3, Existing DEF Sound, Knows
        <5>4. InTime(de, call[u], fd[u])
          BY DEF Sound
        <5> QED BY <2>1, <3>4, <3>6, <4>1, <4>3, <5>1, <5>2, <5>3, <5>4 DEF Knows, InTime
      <4> QED BY <4>2, <4>3
    <3>10. Sound(D, host', call', fd')
      BY <3>5, <3>8, <3>9 DEF Sound
    <3> QED BY <1>0, <3>1, <3>2, <3>10, Resettled
  <2> QED BY <2>2, <2>7, <2>8
\* Another thread's dentries, when the directory changes under the lock.
<1>28. ASSUME NEW t \in Threads, call[t].op \in Changes, NEW n \in SUBSET Names,
              NEW D \in [Dentries -> Entries], NEW u \in Threads \ {t},
              Alike(call[u], call'[u]), call[u].late => call'[u].late,
              call[u].path \in n => call'[u].late, fd' = fd,
              \A d \in Dentries : D[d].file = de[d].file,
              \A d \in Dentries : \/ D[d].name = de[d].name /\ D[d].unlinked = de[d].unlinked
                                  \/ de[d].name \in n
       PROVE  /\ Knows(D, call'[u]) /\ InTime(D, call'[u], fd'[u])
              /\ fd'[u] # None => D[fd'[u]].file # None
  <2>1. /\ call[u].op \notin Changes /\ call[u].cur = None /\ call[u].tgt = None
        /\ call[u].at \notin {"looking", "looked", "create", "created", "unlink", "removed",
                             "rename", "renamed"}
    BY <1>28, Others
  <2>2. fd'[u] # None => D[fd'[u]].file # None
    BY <1>0, <1>28 DEF Sound
  <2>3. call[u].probe # None => D[call[u].probe].file # None
    BY <1>28, Existing DEF Sound, Knows
  <2>4. Knows(D, call'[u])
    BY <1>28, <2>1, <2>3 DEF Knows, Alike
  <2>5. /\ call[u].at = "asking" => call[u].probe \in Dentries
        /\ call[u].at = "setting" => fd[u] \in Dentries
    BY <1>0, Existing DEF Control, Locked, Shaped
  <2>6. InTime(de, call[u], fd[u])
    BY DEF Sound
  <2>7. InTime(D, call'[u], fd'[u])
    BY <1>28, <2>5, <2>6 DEF InTime, Alike
  <2> QED BY <2>2, <2>4, <2>7
<1>29. ASSUME NEW t \in Threads, RemoveServed(t) PROVE Sound(de', host', call', fd')
  <2>1. /\ call[t].at = "unlink" /\ call[t].op = "unlink" /\ call[t].name \in Names
        /\ call[t].cur \in Dentries /\ call[t].cur # None /\ fd' = fd /\ Dentry(de)
    BY <1>0, <1>29, Existing DEF RemoveServed, Shaped, Changes
  <2> DEFINE n == call[t].name
             d == call[t].cur
  <2>2. CASE Ends(t) /\ UNCHANGED host
    <3>1. Sound(de, host', call', fd')
      BY <1>15, <2>1, <2>2
    <3> QED BY <1>3, <2>1, <3>1
  <2>3. CASE /\ host' = [host EXCEPT ![n] = None]
             /\ call' = Disturbed([call EXCEPT ![t].at = "removed"], {n})
    <3> DEFINE y == [call[t] EXCEPT !.at = "removed"]
    <3>1. /\ y \in Calls /\ y.op = call[t].op /\ y.at = "removed" /\ y.name = n /\ y.cur = d
          /\ y.tgt = call[t].tgt /\ y.probe = call[t].probe
      <4>1. call[t] \in Calls /\ "removed" \in Ats
        BY <1>0 DEF Ats
      <4> QED BY <4>1 DEF Calls
    <3>2. call' = Disturbed([call EXCEPT ![t] = y], {n})
      BY <2>3
    <3> HIDE DEF y
    <3>3. /\ Alike(y, call'[t])
          /\ \A u \in Threads \ {t} :
               /\ Alike(call[u], call'[u])
               /\ call[u].late => call'[u].late
               /\ call[u].path \in {n} => call'[u].late
      BY <1>26, <2>1, <3>1, <3>2
    <3>4. /\ Owns(de, d, n) /\ n # None /\ call[t].tgt = None /\ call[t].probe = None
      BY <2>1, Existing, Nothing DEF Sound, Knows, Shaped
    <3>5. \A g \in Dentries : (Parting(call', g) <=> g = d) /\ ~Parting(call, g)
      <4>1. \A g \in Dentries : ~Parting(call, g)
        BY <1>24, <2>1 DEF Changes
      <4>2. Parting(call', d)
        BY <3>1, <3>3 DEF Parting, Alike
      <4>3. ASSUME NEW g \in Dentries, Parting(call', g) PROVE g = d
        BY <3>1, <3>3, <4>1, <4>3 DEF Parting, Alike
      <4> QED BY <4>1, <4>2, <4>3
    <3>6. Named(de, host', call')
      <4> SUFFICES ASSUME NEW g \in Dentries, de[g].file # None, ~de[g].loose, ~de[g].unlinked
                   PROVE  host'[de[g].name] = IF Parting(call', g) THEN None ELSE de[g].file
        BY DEF Named
      <4>1. host[de[g].name] = de[g].file /\ de[g].hashed /\ de[g].name \in Names
        BY <1>0, <3>5 DEF Sound, Named, Kept, Entries
      <4>2. de[g].name = n <=> g = d
        BY <3>4, <4>1 DEF Owns
      <4> QED BY <1>0, <2>1, <2>3, <3>5, <4>1, <4>2
    <3>7. /\ Knows(de, call'[t]) /\ InTime(de, call'[t], fd'[t])
          /\ fd'[t] # None => de[fd'[t]].file # None
      BY <2>1, <3>1, <3>3, <3>4 DEF Knows, InTime, Alike, Sound
    <3>8. ASSUME NEW u \in Threads \ {t}
          PROVE  /\ Knows(de, call'[u]) /\ InTime(de, call'[u], fd'[u])
                 /\ fd'[u] # None => de[fd'[u]].file # None
      <4>1. {n} \in SUBSET Names /\ call[t].op \in Changes
        BY <2>1 DEF Changes
      <4>2. /\ \A g \in Dentries : de[g].file = de[g].file
            /\ \A g \in Dentries : \/ de[g].name = de[g].name /\ de[g].unlinked = de[g].unlinked
                                   \/ de[g].name \in {n}
        OBVIOUS
      <4> QED BY <1>0, <1>28, <2>1, <3>3, <4>1, <4>2
    <3>9. Sound(de, host', call', fd')
      BY <3>6, <3>7, <3>8 DEF Sound
    <3> QED BY <1>3, <2>1, <3>9
  <2> QED BY <1>29, <2>2, <2>3 DEF RemoveServed
<1>30. ASSUME NEW t \in Threads, RemoveDone(t) PROVE Sound(de', host', call', fd')
  <2>1. /\ call[t].at = "removed" /\ call[t].op = "unlink" /\ call[t].name \in Names
        /\ call[t].cur \in Dentries /\ call[t].cur # None /\ UNCHANGED <<host, fd>>
    BY <1>0, <1>30, Existing DEF RemoveDone, Shaped, Changes
  <2> DEFINE n == call[t].name
             d == call[t].cur
             x == [de[d] EXCEPT !.unlinked = TRUE, !.hashed = FALSE]
             D == [de EXCEPT ![d] = x]
  <2>2. /\ x \in Entries /\ x.name = de[d].name /\ x.file = de[d].file /\ x.unlinked /\ ~x.hashed
    <3>1. de[d] \in Entries
      BY <1>0, <2>1
    <3> QED BY <3>1 DEF Entries
  <2>3. [de EXCEPT ![d].unlinked = TRUE, ![d].hashed = FALSE] = D
    BY <1>0, <2>1
  <2> HIDE DEF x
  <2>4. Settle(D, file)
    BY <1>30, <2>3 DEF RemoveDone, Dentry
  <2>5. D \in [Dentries -> Entries] /\ D[d] = x /\ \A g \in Dentries \ {d} : D[g] = de[g]
    BY <1>0, <2>1, <2>2
  <2> HIDE DEF D
  <2>6. /\ Alike(Idle, call'[t])
        /\ \A u \in Threads \ {t} :
             /\ Alike(call[u], call'[u])
             /\ call[u].late => call'[u].late
             /\ call[u].path \in {n} => call'[u].late
    BY <1>26, <1>30, <2>1, IdleCall DEF RemoveDone
  <2>7. Owns(de, d, n)
    BY <2>1 DEF Sound, Knows
  <2>8. \A g \in Dentries : ~Parting(call', g) /\ (Parting(call, g) => g = d)
    <3>1. \A g \in Dentries : Parting(call, g) => g = d
      BY <1>24, <2>1 DEF Changes
    <3>2. ASSUME NEW g \in Dentries, Parting(call', g) PROVE FALSE
      <4>1. PICK u \in Threads : /\ call'[u].cur = g
                                 /\ call'[u].at = "removed" \/ (call'[u].at = "renamed" /\ call'[u].ok)
        BY <3>2 DEF Parting
      <4>2. u # t
        BY <2>6, <4>1, IdleCall DEF Alike
      <4>3. call[u].at = call'[u].at
        BY <2>6, <4>2 DEF Alike
      <4> QED BY <2>1, <4>1, <4>2, <4>3, Others DEF Changes
    <3> QED BY <3>1, <3>2
  <2>9. Kept(D)
    <3>1. ASSUME NEW g \in Dentries
          PROVE  /\ D[g].unlinked => ~D[g].hashed
                 /\ D[g].file # None => D[g].name # None
                 /\ D[g].file # None /\ ~D[g].loose /\ ~D[g].unlinked => D[g].hashed
      BY <2>2, <2>5 DEF Sound, Kept
    <3>2. ASSUME NEW g \in Dentries, NEW h \in Dentries, D[g].hashed, D[h].hashed, D[g].name = D[h].name
          PROVE  g = h
      BY <2>2, <2>5, <3>2 DEF Sound, Kept
    <3> QED BY <3>1, <3>2 DEF Kept
  <2>10. Named(D, host', call')
    BY <2>1, <2>2, <2>5, <2>8 DEF Sound, Named
  <2>11. /\ Knows(D, call'[t]) /\ InTime(D, call'[t], fd'[t])
         /\ fd'[t] # None => D[fd'[t]].file # None
    <3>1. fd'[t] # None => D[fd'[t]].file # None
      BY <1>0, <2>1, <2>2, <2>5 DEF Sound
    <3> QED BY <2>6, <3>1, IdleCall DEF Knows, InTime, Alike
  <2>12. ASSUME NEW u \in Threads \ {t}
         PROVE  /\ Knows(D, call'[u]) /\ InTime(D, call'[u], fd'[u])
                /\ fd'[u] # None => D[fd'[u]].file # None
    <3>1. {n} \in SUBSET Names /\ call[t].op \in Changes
      BY <2>1 DEF Changes
    <3>2. /\ \A g \in Dentries : D[g].file = de[g].file
          /\ \A g \in Dentries : \/ D[g].name = de[g].name /\ D[g].unlinked = de[g].unlinked
                                 \/ de[g].name \in {n}
      BY <2>2, <2>5, <2>7 DEF Owns
    <3> QED BY <1>28, <2>1, <2>5, <2>6, <3>1, <3>2
  <2>13. Sound(D, host', call', fd')
    BY <2>9, <2>10, <2>11, <2>12 DEF Sound
  <2> QED BY <1>0, <2>4, <2>5, <2>13, Resettled
<1>31. ASSUME NEW t \in Threads, RenameServed(t) PROVE Sound(de', host', call', fd')
  <2>1. /\ call[t].at = "rename" /\ call[t].op = "rename" /\ call[t].name \in Names
        /\ call[t].to \in Names /\ call[t].to # call[t].name /\ ~call[t].ok
        /\ call[t].cur \in Dentries /\ call[t].cur # None /\ call[t].probe = None
        /\ call[t].tgt \in Dentries /\ call[t].tgt # None /\ fd' = fd
    BY <1>0, <1>31, Existing DEF RenameServed, Shaped, Changes
  <2> DEFINE n == call[t].name
             m == call[t].to
             d == call[t].cur
             e == call[t].tgt
  <2>2. Owns(de, d, n) /\ Owns(de, e, m) /\ d # e
    BY <2>1 DEF Sound, Knows, Owns
  <2>3. \A g \in Dentries : ~Parting(call, g)
    BY <1>24, <2>1 DEF Changes
  <2>4. CASE /\ host' = [host EXCEPT ![m] = host[n], ![n] = None]
             /\ call' = Disturbed([call EXCEPT ![t].at = "renamed", ![t].ok = TRUE], {n, m})
             /\ Dentry([de EXCEPT ![e].loose = TRUE])
    <3> DEFINE y == [call[t] EXCEPT !.at = "renamed", !.ok = TRUE]
               x == [de[e] EXCEPT !.loose = TRUE]
               D == [de EXCEPT ![e] = x]
    <3>1. /\ y \in Calls /\ y.op = call[t].op /\ y.at = "renamed" /\ y.name = n /\ y.cur = d
          /\ y.tgt = e /\ y.probe = None /\ y.to = m /\ y.ok
      <4>1. call[t] \in Calls /\ "renamed" \in Ats
        BY <1>0 DEF Ats
      <4>2. y \in Calls
        BY <4>1 DEF Calls
      <4>3. /\ y.op = call[t].op /\ y.at = "renamed" /\ y.name = call[t].name /\ y.cur = call[t].cur
            /\ y.tgt = call[t].tgt /\ y.probe = call[t].probe /\ y.to = call[t].to /\ y.ok
        BY <4>1 DEF Calls
      <4> QED BY <2>1, <4>2, <4>3
    <3>2. call' = Disturbed([call EXCEPT ![t] = y], {n, m})
      <4>1. [call EXCEPT ![t].at = "renamed", ![t].ok = TRUE] = [call EXCEPT ![t] = y]
        BY <1>0
      <4> QED BY <2>4, <4>1
    <3> HIDE DEF y
    <3>3. /\ Alike(y, call'[t])
          /\ \A u \in Threads \ {t} :
               /\ Alike(call[u], call'[u])
               /\ call[u].late => call'[u].late
               /\ call[u].path \in {n, m} => call'[u].late
      BY <1>26, <2>1, <3>1, <3>2
    <3>4. de[e] \in Entries
      BY <1>0, <2>1
    <3>5. /\ x \in Entries /\ x.name = de[e].name /\ x.file = de[e].file /\ x.unlinked = de[e].unlinked
          /\ x.hashed = de[e].hashed /\ x.loose /\ [de EXCEPT ![e].loose = TRUE] = D
      BY <1>0, <3>4 DEF Entries
    <3> HIDE DEF x
    <3>6. Settle(D, file)
      BY <2>4, <3>5 DEF Dentry
    <3>7. D \in [Dentries -> Entries] /\ D[e] = x /\ \A g \in Dentries \ {e} : D[g] = de[g]
      BY <1>0, <2>1, <3>5
    <3> HIDE DEF D
    <3>8. \A g \in Dentries : /\ D[g].name = de[g].name /\ D[g].file = de[g].file
                              /\ D[g].unlinked = de[g].unlinked /\ D[g].hashed = de[g].hashed
                              /\ (D[g].loose <=> de[g].loose \/ g = e)
      BY <1>0, <3>5, <3>7 DEF Entries
    <3>9. \A g \in Dentries : Parting(call', g) <=> g = d
      <4>1. Parting(call', d)
        BY <3>1, <3>3 DEF Parting, Alike
      <4>2. ASSUME NEW g \in Dentries, Parting(call', g) PROVE g = d
        BY <2>3, <3>1, <3>3, <4>2 DEF Parting, Alike
      <4> QED BY <4>1, <4>2
    <3>10. Kept(D)
      BY <3>8 DEF Sound, Kept
    <3>11. Named(D, host', call')
      <4> SUFFICES ASSUME NEW g \in Dentries, de[g].file # None, ~de[g].loose, ~de[g].unlinked, g # e
                   PROVE  host'[de[g].name] = IF Parting(call', g) THEN None ELSE de[g].file
        BY <3>8 DEF Named
      <4>1. host[de[g].name] = de[g].file /\ de[g].hashed /\ de[g].name \in Names
        BY <1>0, <2>3 DEF Sound, Named, Kept, Entries
      <4>2. de[g].name # m /\ (de[g].name = n <=> g = d)
        BY <2>2, <4>1 DEF Owns
      <4> QED BY <1>0, <2>1, <2>4, <3>9, <4>1, <4>2
    <3>12. /\ Knows(D, call'[t]) /\ InTime(D, call'[t], fd'[t])
           /\ fd'[t] # None => D[fd'[t]].file # None
      <4>1. Owns(D, d, n) /\ Owns(D, e, m) /\ D[e].loose
        BY <2>1, <2>2, <3>8 DEF Owns
      <4>2. fd'[t] # None => D[fd'[t]].file # None
        BY <1>0, <2>1, <3>8 DEF Sound
      <4> QED BY <3>1, <3>3, <4>1, <4>2 DEF Knows, InTime, Alike
    <3>13. ASSUME NEW u \in Threads \ {t}
           PROVE  /\ Knows(D, call'[u]) /\ InTime(D, call'[u], fd'[u])
                  /\ fd'[u] # None => D[fd'[u]].file # None
      <4>1. {n, m} \in SUBSET Names /\ call[t].op \in Changes
        BY <2>1 DEF Changes
      <4>2. /\ \A g \in Dentries : D[g].file = de[g].file
            /\ \A g \in Dentries : \/ D[g].name = de[g].name /\ D[g].unlinked = de[g].unlinked
                                   \/ de[g].name \in {n, m}
        BY <3>8
      <4> QED BY <1>28, <2>1, <3>3, <3>7, <4>1, <4>2
    <3>14. Sound(D, host', call', fd')
      BY <3>10, <3>11, <3>12, <3>13 DEF Sound
    <3> QED BY <1>0, <3>6, <3>7, <3>14, Resettled
  <2>5. CASE call' = [call EXCEPT ![t].at = "renamed"] /\ UNCHANGED <<host, de>>
    <3>1. /\ \A u \in Threads \ {t} : call'[u] = call[u]
          /\ call'[t].op = call[t].op /\ call'[t].name = n /\ call'[t].to = m
          /\ call'[t].cur = d /\ call'[t].tgt = e
          /\ call'[t].probe = None /\ call'[t].at = "renamed" /\ ~call'[t].ok
      BY <1>0, <2>1, <2>5 DEF Calls
    <3>2. \A g \in Dentries : ~Parting(call', g)
      BY <2>3, <3>1 DEF Parting
    <3>3. Knows(de, call'[t]) /\ InTime(de, call'[t], fd'[t])
      BY <2>2, <3>1 DEF Knows, InTime
    <3>4. Named(de, host', call')
      BY <2>3, <2>5, <3>2 DEF Sound, Named
    <3>5. Sound(de, host', call', fd')
      BY <2>1, <3>1, <3>3, <3>4 DEF Sound
    <3> QED BY <2>5, <3>5
  <2> QED BY <1>31, <2>4, <2>5 DEF RenameServed
<1>32. ASSUME NEW t \in Threads, RenameDone(t) PROVE Sound(de', host', call', fd')
  <2>1. /\ call[t].at = "renamed" /\ call[t].op = "rename" /\ call[t].name \in Names
        /\ call[t].to \in Names /\ call[t].to # call[t].name /\ call[t].to # None
        /\ call[t].cur \in Dentries /\ call[t].cur # None
        /\ call[t].tgt \in Dentries /\ call[t].tgt # None /\ UNCHANGED <<host, fd>>
    BY <1>0, <1>32, Existing, Nothing DEF RenameDone, Shaped, Changes
  <2> DEFINE n == call[t].name
             m == call[t].to
             d == call[t].cur
             e == call[t].tgt
             v == de[d].loose \/ host[m] # de[d].file
  <2>2. Owns(de, d, n) /\ Owns(de, e, m) /\ d # e
    BY <2>1 DEF Sound, Knows, Owns
  <2>3. de[d] \in Entries /\ de[e] \in Entries
    BY <1>0, <2>1
  <2>4. CASE /\ call[t].ok
             /\ call' = Disturbed([call EXCEPT ![t] = Idle], {n, m})
             /\ Dentry([de EXCEPT
                  ![d] = [@ EXCEPT !.name = m, !.timed = FALSE, !.hashed = TRUE, !.loose = v],
                  ![e] = [@ EXCEPT !.hashed = FALSE, !.timed = FALSE]])
    <3> DEFINE x == [de[d] EXCEPT !.name = m, !.timed = FALSE, !.hashed = TRUE, !.loose = v]
               z == [de[e] EXCEPT !.hashed = FALSE, !.timed = FALSE]
               D == [de EXCEPT ![d] = x, ![e] = z]
    <3>1. v \in BOOLEAN /\ (~v => ~de[d].loose /\ host[m] = de[d].file)
      BY Zenon
    <3>2. Settle(D, file)
      BY <2>4 DEF Dentry
    <3> HIDE DEF v
    <3>3. /\ x \in Entries /\ x.name = m /\ x.file = de[d].file /\ x.unlinked = de[d].unlinked
          /\ x.hashed /\ x.loose = v
      BY <2>1, <2>3, <3>1, ZenonT(40) DEF Entries
    <3>4. /\ z \in Entries /\ z.name = de[e].name /\ z.file = de[e].file
          /\ z.unlinked = de[e].unlinked /\ ~z.hashed /\ z.loose = de[e].loose
      BY <2>3 DEF Entries
    <3> HIDE DEF x, z
    <3>5. /\ D \in [Dentries -> Entries] /\ D[d] = x /\ D[e] = z
          /\ \A g \in Dentries \ {d, e} : D[g] = de[g]
      BY <1>0, <2>1, <2>2, <3>3, <3>4
    <3> HIDE DEF D
    <3>6. /\ Alike(Idle, call'[t])
          /\ \A u \in Threads \ {t} :
               /\ Alike(call[u], call'[u])
               /\ call[u].late => call'[u].late
               /\ call[u].path \in {n, m} => call'[u].late
      BY <1>26, <2>1, <2>4, IdleCall
    <3>7. de[e].loose /\ ~de[d].unlinked /\ de[d].name = n
      BY <2>1, <2>2, <2>4 DEF Sound, Knows, Owns
    <3>8. \A g \in Dentries : ~Parting(call', g) /\ (Parting(call, g) => g = d)
      <4>1. \A g \in Dentries : Parting(call, g) => g = d
        BY <1>24, <2>1 DEF Changes
      <4>2. ASSUME NEW g \in Dentries, Parting(call', g) PROVE FALSE
        <5>1. PICK u \in Threads : /\ call'[u].cur = g
                                   /\ call'[u].at = "removed" \/ (call'[u].at = "renamed" /\ call'[u].ok)
          BY <4>2 DEF Parting
        <5>2. u # t
          BY <3>6, <5>1, IdleCall DEF Alike
        <5>3. call[u].at = call'[u].at
          BY <3>6, <5>2 DEF Alike
        <5> QED BY <2>1, <5>1, <5>2, <5>3, Others DEF Changes
      <4> QED BY <4>1, <4>2
    <3>9. Kept(D)
      <4>1. ASSUME NEW g \in Dentries
            PROVE  /\ D[g].unlinked => ~D[g].hashed
                   /\ D[g].file # None => D[g].name # None
                   /\ D[g].file # None /\ ~D[g].loose /\ ~D[g].unlinked => D[g].hashed
        <5>1. CASE g = d
          BY <2>1, <3>3, <3>5, <3>7, <5>1
        <5>2. CASE g = e
          BY <3>4, <3>5, <3>7, <5>2 DEF Sound, Kept
        <5>3. CASE g # d /\ g # e
          BY <3>5, <5>3 DEF Sound, Kept
        <5> QED BY <5>1, <5>2, <5>3
      <4>2. ASSUME NEW g \in Dentries, NEW h \in Dentries, D[g].hashed, D[h].hashed, D[g].name = D[h].name
            PROVE  g = h
        <5>1. g # e /\ h # e
          BY <3>4, <3>5, <4>2
        <5>2. ASSUME NEW k \in Dentries, k # d, k # e, D[k].hashed PROVE de[k].hashed /\ D[k].name # m
          BY <2>2, <3>5, <5>2 DEF Owns
        <5>3. CASE g = d \/ h = d
          BY <3>3, <3>5, <4>2, <5>1, <5>2, <5>3
        <5>4. CASE g # d /\ h # d
          BY <3>5, <4>2, <5>1, <5>4 DEF Sound, Kept
        <5> QED BY <5>3, <5>4
      <4> QED BY <4>1, <4>2 DEF Kept
    <3>10. Named(D, host', call')
      <4> SUFFICES ASSUME NEW g \in Dentries, D[g].file # None, ~D[g].loose, ~D[g].unlinked
                   PROVE  host'[D[g].name] = D[g].file
        BY <3>8 DEF Named
      <4>1. CASE g = d
        BY <2>1, <3>1, <3>3, <3>5, <4>1
      <4>2. CASE g = e
        BY <3>4, <3>5, <3>7, <4>2
      <4>3. CASE g # d /\ g # e
        BY <2>1, <3>5, <3>8, <4>3 DEF Sound, Named
      <4> QED BY <4>1, <4>2, <4>3
    <3>11. \A g \in Dentries : D[g].file = de[g].file
      BY <3>3, <3>4, <3>5
    <3>12. /\ Knows(D, call'[t]) /\ InTime(D, call'[t], fd'[t])
           /\ fd'[t] # None => D[fd'[t]].file # None
      <4>1. fd'[t] # None => D[fd'[t]].file # None
        BY <1>0, <2>1, <3>11 DEF Sound
      <4> QED BY <3>6, <4>1, IdleCall DEF Knows, InTime, Alike
    <3>13. ASSUME NEW u \in Threads \ {t}
           PROVE  /\ Knows(D, call'[u]) /\ InTime(D, call'[u], fd'[u])
                  /\ fd'[u] # None => D[fd'[u]].file # None
      <4>1. {n, m} \in SUBSET Names /\ call[t].op \in Changes
        BY <2>1 DEF Changes
      <4>2. \A g \in Dentries : \/ D[g].name = de[g].name /\ D[g].unlinked = de[g].unlinked
                                \/ de[g].name \in {n, m}
        BY <3>4, <3>5, <3>7
      <4> QED BY <1>28, <2>1, <3>5, <3>6, <3>11, <4>1, <4>2
    <3>14. Sound(D, host', call', fd')
      BY <3>9, <3>10, <3>12, <3>13 DEF Sound
    <3> QED BY <1>0, <3>2, <3>5, <3>14, Resettled
  <2>5. CASE /\ ~call[t].ok
             /\ call' = [call EXCEPT ![t] = Idle]
             /\ Dentry([de EXCEPT ![d].timed = FALSE, ![e].timed = FALSE])
    <3> DEFINE x == [de[d] EXCEPT !.timed = FALSE]
               z == [de[e] EXCEPT !.timed = FALSE]
               D == [de EXCEPT ![d] = x, ![e] = z]
    <3>1. [de EXCEPT ![d].timed = FALSE, ![e].timed = FALSE] = D
      BY <1>0, <2>1, <2>2
    <3>2. x \in Entries /\ z \in Entries /\ SameEntry(de[d], x) /\ SameEntry(de[e], z)
      <4>1. \A g \in Entries : LET w == [g EXCEPT !.timed = FALSE] IN w \in Entries /\ SameEntry(g, w)
        BY DEF Entries, SameEntry
      <4> QED BY <2>3, <4>1
    <3> HIDE DEF x, z
    <3>3. D \in [Dentries -> Entries] /\ \A g \in Dentries : SameEntry(de[g], D[g])
      BY <1>0, <1>2, <2>1, <2>2, <3>2
    <3>4. Settle(D, file)
      BY <2>5, <3>1 DEF Dentry
    <3> HIDE DEF D
    <3>5. call'[t] = Idle /\ \A u \in Threads \ {t} : call'[u] = call[u]
      BY <1>0, <2>5
    <3>6. \A g \in Dentries : ~Parting(call, g) /\ ~Parting(call', g)
      <4>1. \A g \in Dentries : ~Parting(call, g)
        BY <1>24, <2>1, <2>5 DEF Changes
      <4> QED BY <3>5, <4>1, IdleCall DEF Parting
    <3>7. Knows(de, call'[t]) /\ InTime(de, call'[t], fd'[t])
      BY <3>5, IdleCall DEF Knows, InTime
    <3>8. Named(de, host', call')
      BY <2>1, <3>6 DEF Sound, Named
    <3>9. Sound(de, host', call', fd')
      BY <2>1, <3>5, <3>7, <3>8 DEF Sound
    <3> QED BY <1>0, <1>1, <3>3, <3>4, <3>9
  <2> QED BY <1>32, <2>4, <2>5 DEF RenameDone
<1>33. ASSUME NEW n \in Names, HostNames(n) PROVE Sound(de', host', call', fd')
  <2> DEFINE D == [d \in Dentries |-> [de[d] EXCEPT
                     !.loose = @ \/ (de[d].name = n /\ Positive(d))]]
  <2>1. ASSUME NEW d \in Dentries
        PROVE  /\ D[d] \in Entries
               /\ D[d].name = de[d].name /\ D[d].file = de[d].file
               /\ D[d].unlinked = de[d].unlinked /\ D[d].hashed = de[d].hashed
               /\ (D[d].loose <=> de[d].loose \/ (de[d].name = n /\ de[d].file # None))
    <3> DEFINE v == de[d].loose \/ (de[d].name = n /\ Positive(d))
    <3>1. v \in BOOLEAN /\ (v <=> de[d].loose \/ (de[d].name = n /\ de[d].file # None))
      BY Zenon DEF Positive
    <3>2. de[d] \in Entries /\ D[d] = [de[d] EXCEPT !.loose = v]
      BY <1>0
    <3> HIDE DEF v, D
    <3> QED BY <3>1, <3>2 DEF Entries
  <2>2. \E files \in [Files -> Infos] :
          /\ Settle(D, files)
          /\ \A m \in Names \ {n} : host'[m] = host[m]
    <3>1. CASE host' = [host EXCEPT ![n] = None] /\ Dentry(D)
      BY <1>0, <3>1 DEF Dentry
    <3>2. CASE \E f \in Files : \E k \in Kinds :
                 /\ host' = [host EXCEPT ![n] = f]
                 /\ Settle(D, [file EXCEPT ![f] = [kind |-> k, attrs |-> {"mode"}]])
      <4>1. PICK f \in Files, k \in Kinds :
                 /\ host' = [host EXCEPT ![n] = f]
                 /\ Settle(D, [file EXCEPT ![f] = [kind |-> k, attrs |-> {"mode"}]])
        BY <3>2
      <4>2. [kind |-> k, attrs |-> {"mode"}] \in Infos
        BY DEF Infos, Attrs
      <4> HIDE DEF D
      <4>3. [file EXCEPT ![f] = [kind |-> k, attrs |-> {"mode"}]] \in [Files -> Infos]
        BY <1>0, <4>2
      <4> QED BY <1>0, <4>1, <4>3
    <3> QED BY <1>33, <3>1, <3>2 DEF HostNames
  <2>3. D \in [Dentries -> Entries]
    BY <2>1
  <2> HIDE DEF D
  <2>4. call' = Disturbed(call, {n}) /\ fd' = fd
    BY <1>33 DEF HostNames
  <2>5. \A u \in Threads : Alike(call[u], call'[u]) /\ (call[u].late => call'[u].late)
    BY <1>0, <2>4, Disturbing
  <2>6. Kept(D)
    BY <2>1 DEF Sound, Kept
  <2>7. \A d \in Dentries : Parting(call', d) <=> Parting(call, d)
    BY <2>5 DEF Parting, Alike
  <2>8. Named(D, host', call')
    <3> SUFFICES ASSUME NEW d \in Dentries, D[d].file # None, ~D[d].loose, ~D[d].unlinked
                 PROVE  host'[D[d].name] = IF Parting(call', d) THEN None ELSE D[d].file
      BY DEF Named
    <3>1. de[d].file # None /\ ~de[d].loose /\ ~de[d].unlinked /\ de[d].name # n
      BY <2>1
    <3>2. de[d].name \in Names
      BY <1>0, <3>1 DEF Sound, Kept, Entries
    <3> QED BY <2>1, <2>2, <2>7, <3>1, <3>2 DEF Sound, Named
  <2>9. ASSUME NEW u \in Threads
        PROVE  /\ Knows(D, call'[u]) /\ InTime(D, call'[u], fd'[u])
               /\ fd'[u] # None => D[fd'[u]].file # None
    <3>1. fd'[u] # None => D[fd'[u]].file # None
      BY <1>0, <2>1, <2>4 DEF Sound
    <3>2. Knows(de, call[u]) /\ InTime(de, call[u], fd[u])
      BY DEF Sound
    <3>3. /\ call[u].cur # None => call[u].cur \in Dentries
          /\ call[u].tgt # None => call[u].tgt \in Dentries
          /\ call[u].probe # None => call[u].probe \in Dentries
          /\ call[u].at = "asking" => call[u].probe \in Dentries
          /\ call[u].at = "setting" => fd[u] \in Dentries
          /\ call[u].at \in {"create", "created"} => call[u].cur \in Dentries
          /\ call[u].at = "renamed" => call[u].tgt \in Dentries
      BY <1>0, Existing DEF Control, Locked, Shaped
    <3>4. ASSUME NEW d \in Dentries, NEW m, Owns(de, d, m) PROVE Owns(D, d, m)
      BY <2>1, <3>4 DEF Owns
    <3>5. Knows(D, call[u])
      BY <2>1, <3>2, <3>3, <3>4 DEF Knows
    <3>6. InTime(D, call[u], fd[u])
      BY <2>1, <3>2, <3>3 DEF InTime
    <3> QED BY <2>4, <2>5, <3>1, <3>5, <3>6, Passing
  <2>10. Sound(D, host', call', fd')
    BY <2>6, <2>8, <2>9 DEF Sound
  <2> QED BY <1>0, <2>2, <2>3, <2>10, Resettled
<1>34. ASSUME NEW n \in Names, HostAttributes(n) PROVE Sound(de', host', call', fd')
  <2> DEFINE D == [d \in Dentries |-> [de[d] EXCEPT !.stale = @ \/ de[d].file = host[n]]]
             a == {"mode"} \ file[host[n]].attrs
             files == [file EXCEPT ![host[n]] = [file[host[n]] EXCEPT !.attrs = a]]
  <2>1. host[n] \in Files /\ a \in SUBSET Attrs /\ UNCHANGED <<host, call, fd>>
    BY <1>0, <1>34 DEF HostAttributes, Attrs
  <2>2. Settle(D, files)
    BY <1>0, <1>34, <2>1 DEF HostAttributes
  <2> HIDE DEF a
  <2>3. files \in [Files -> Infos]
    BY <1>0, <2>1 DEF Infos
  <2>4. D \in [Dentries -> Entries] /\ \A d \in Dentries : SameEntry(de[d], D[d])
    <3> SUFFICES ASSUME NEW d \in Dentries
                 PROVE  /\ [de[d] EXCEPT !.stale = @ \/ de[d].file = host[n]] \in Entries
                        /\ SameEntry(de[d], [de[d] EXCEPT !.stale = @ \/ de[d].file = host[n]])
      OBVIOUS
    <3> DEFINE v == de[d].stale \/ de[d].file = host[n]
    <3>1. v \in BOOLEAN
      BY Zenon
    <3>2. de[d] \in Entries /\ [de[d] EXCEPT !.stale = @ \/ de[d].file = host[n]]
                                 = [de[d] EXCEPT !.stale = v]
      BY <1>0
    <3> HIDE DEF v
    <3> QED BY <3>1, <3>2 DEF Entries, SameEntry
  <2> HIDE DEF D, files
  <2>5. Sound(de, host', call', fd')
    BY <2>1
  <2> QED BY <1>0, <1>1, <2>2, <2>3, <2>4, <2>5
<1>35. CASE UNCHANGED vars
  BY <1>35 DEF vars
<1>36. ASSUME NEW t \in Threads, NEW n \in Names
       PROVE  /\ \A k \in Kinds : Change(t, "create", n, None, k) => Sound(de', host', call', fd')
              /\ Change(t, "unlink", n, None, "reg") => Sound(de', host', call', fd')
              /\ \A m \in Names : n # m /\ Change(t, "rename", n, m, "reg")
                   => Sound(de', host', call', fd')
  BY <1>7
<1> QED BY <1>6, <1>8, <1>10, <1>12, <1>13, <1>16, <1>17, <1>18, <1>19, <1>20, <1>21, <1>22, <1>23,
           <1>25, <1>27, <1>29, <1>30, <1>31, <1>32, <1>33, <1>34, <1>35, <1>36 DEF Next

-----------------------------------------------------------------------------
(* Attributes within their ttl.                                            *)

\* What the other threads are at does not change.
Elsewhere(t) == \A u \in Threads \ {t} : call'[u].at = call[u].at /\ fd'[u] = fd[u]

\* A setattr the host has served ends by SetDone only.
LEMMA Setters ==
  Control /\ [Next]_vars =>
    \A d \in Dentries : BeingSet(call, fd, d) =>
      BeingSet(call', fd', d) \/ \E t \in Threads : SetDone(t) /\ fd[t] = d
<1> SUFFICES ASSUME Control, [Next]_vars, NEW d \in Dentries, BeingSet(call, fd, d)
             PROVE  BeingSet(call', fd', d) \/ \E t \in Threads : SetDone(t) /\ fd[t] = d
  OBVIOUS
<1> DEFINE Goal == BeingSet(call', fd', d) \/ \E t \in Threads : SetDone(t) /\ fd[t] = d
<1>0. /\ call \in [Threads -> Calls] /\ fd \in [Threads -> Dentries \cup {None}]
  BY DEF Control, TypeOK
<1>1. ASSUME NEW t \in Threads, call[t].at # "set", Elsewhere(t) PROVE Goal
  BY <1>1 DEF BeingSet, Elsewhere
<1>2. ASSUME NEW t \in Threads, Ends(t), UNCHANGED fd PROVE Elsewhere(t)
  BY <1>0, <1>2 DEF Ends, Elsewhere
<1>3. ASSUME NEW t \in Threads, NEW e, NEW there, Arrives(t, e, there) PROVE Elsewhere(t)
  <2> DEFINE c == Rested(call[t])
  <2> HIDE DEF c
  <2>1. \/ /\ Ends(t) /\ fd' = IF there THEN [fd EXCEPT ![t] = e] ELSE fd
        \/ UNCHANGED fd /\ (Ends(t) \/ \E y : call' = [call EXCEPT ![t] = y])
    BY <1>3 DEF Arrives, c
  <2> QED BY <1>0, <2>1 DEF Ends, Elsewhere
<1>4. ASSUME NEW t \in Threads, NEW n \in SUBSET Names, NEW y,
             call' = Disturbed([call EXCEPT ![t] = y], n), UNCHANGED fd
      PROVE  Elsewhere(t)
  <2> SUFFICES ASSUME NEW u \in Threads \ {t} PROVE call'[u].at = call[u].at
    BY <1>4 DEF Elsewhere
  <2>1. call'[u] = [call[u] EXCEPT !.late = @ \/ call[u].path \in n,
                                   !.seen = @ /\ call[u].name \notin n]
    BY <1>0, <1>4 DEF Disturbed
  <2>2. call[u] \in Calls
    BY <1>0
  <2> QED BY <2>1, <2>2 DEF Calls
<1>5. ASSUME NEW t \in Threads, NEW y, call' = [call EXCEPT ![t] = y], UNCHANGED fd
      PROVE  Elsewhere(t)
  BY <1>0, <1>5 DEF Elsewhere
<1>6. ASSUME NEW t \in Threads, NEW n \in Names, Open(t, n) PROVE Goal
  BY <1>0, <1>1, <1>5, <1>6 DEF Open
<1>7. ASSUME NEW t \in Threads, NEW op, NEW n, NEW m, NEW k, Change(t, op, n, m, k) PROVE Goal
  BY <1>0, <1>1, <1>5, <1>7 DEF Change
<1>8. ASSUME NEW t \in Threads, Close(t) PROVE Goal
  BY <1>0, <1>1, <1>8 DEF Close, Elsewhere
<1>9. ASSUME NEW t \in Threads, WalkValid(t) PROVE Goal
  BY <1>1, <1>3, <1>9 DEF WalkValid, Finds
<1>10. ASSUME NEW t \in Threads, WalkExpired(t) PROVE Goal
  <2>1. (\E y : call' = [call EXCEPT ![t] = y]) \/ call' = call
    BY <1>10 DEF WalkExpired, Builds
  <2>2. call[t].at = "walk" /\ UNCHANGED fd
    BY <1>10 DEF WalkExpired
  <2> QED BY <1>0, <1>1, <1>5, <2>1, <2>2 DEF Elsewhere
<1>11. ASSUME NEW t \in Threads, WalkMisses(t) PROVE Goal
  BY <1>0, <1>1, <1>5, <1>11 DEF WalkMisses
<1>12. ASSUME NEW t \in Threads, LookServed(t) PROVE Goal
  <2>1. Elsewhere(t)
    BY <1>0, <1>2, <1>12 DEF LookServed, Elsewhere
  <2> QED BY <1>1, <1>12, <2>1 DEF LookServed
<1>13. ASSUME NEW t \in Threads, LookDone(t) PROVE Goal
  <2>1. call[t].at = "looked" /\ \E e, there : Arrives(t, e, there)
    BY <1>13 DEF LookDone, Finds, FindsNone
  <2> QED BY <1>1, <1>3, <2>1
<1>14. ASSUME NEW t \in Threads, Stat(t) PROVE Goal
  BY <1>0, <1>1, <1>5, <1>14 DEF Stat, Builds
<1>15. ASSUME NEW t \in Threads, AskServed(t) PROVE Goal
  <2>1. Elsewhere(t)
    BY <1>0, <1>15 DEF AskServed, Elsewhere
  <2> QED BY <1>1, <1>15, <2>1 DEF AskServed
<1>16. ASSUME NEW t \in Threads, AskDone(t) PROVE Goal
  <2>1. call[t].at = "answered"
    BY <1>16 DEF AskDone
  <2>2. \/ Ends(t) /\ UNCHANGED fd
        \/ \E e : Arrives(t, e, TRUE)
        \/ (\E y : call' = [call EXCEPT ![t] = y]) /\ UNCHANGED fd
    BY <1>16 DEF AskDone, Finds
  <2> QED BY <1>1, <1>2, <1>3, <1>5, <2>1, <2>2
<1>17. ASSUME NEW t \in Threads, Setattr(t) PROVE Goal
  <2>1. Elsewhere(t)
    BY <1>0, <1>17 DEF Setattr, Elsewhere
  <2> QED BY <1>1, <1>17, <2>1 DEF Setattr
<1>18. ASSUME NEW t \in Threads, SetServed(t) PROVE Goal
  <2>1. Elsewhere(t)
    BY <1>0, <1>18 DEF SetServed, Elsewhere
  <2> QED BY <1>1, <1>18, <2>1 DEF SetServed
<1>19. ASSUME NEW t \in Threads, SetDone(t) PROVE Goal
  <2>1. Elsewhere(t)
    BY <1>2, <1>19 DEF SetDone
  <2>2. CASE fd[t] = d
    BY <1>19, <2>2
  <2>3. CASE fd[t] # d
    BY <2>1, <2>3 DEF BeingSet, Elsewhere
  <2> QED BY <2>2, <2>3
<1>20. ASSUME NEW t \in Threads, CreateServed(t) PROVE Goal
  <2>1. Elsewhere(t)
    BY <1>0, <1>2, <1>20 DEF CreateServed, Elsewhere
  <2> QED BY <1>1, <1>20, <2>1 DEF CreateServed
<1>21. ASSUME NEW t \in Threads, CreateDone(t) PROVE Goal
  <2>1. call[t].at = "created" /\ Ends(t) /\ UNCHANGED fd
    BY <1>21 DEF CreateDone
  <2> QED BY <1>1, <1>2, <2>1
<1>22. ASSUME NEW t \in Threads, RemoveServed(t) PROVE Goal
  <2>1. call[t].at = "unlink" /\ UNCHANGED fd /\ {call[t].name} \in SUBSET Names
    BY <1>22, Existing DEF RemoveServed, Shaped, Changes
  <2>2. \/ \E y : call' = Disturbed([call EXCEPT ![t] = y], {call[t].name})
        \/ Ends(t)
    BY <1>22 DEF RemoveServed
  <2> QED BY <1>1, <1>2, <1>4, <2>1, <2>2
<1>23. ASSUME NEW t \in Threads, RemoveDone(t) PROVE Goal
  <2>1. call[t].at = "removed" /\ UNCHANGED fd /\ {call[t].name} \in SUBSET Names
    BY <1>23, Existing DEF RemoveDone, Shaped, Changes
  <2> QED BY <1>1, <1>4, <1>23, <2>1 DEF RemoveDone
<1>24. ASSUME NEW t \in Threads, RenameServed(t) PROVE Goal
  <2>1. /\ call[t].at = "rename" /\ UNCHANGED fd /\ {call[t].name, call[t].to} \in SUBSET Names
    <3>1. call[t].at = "rename" /\ UNCHANGED fd
      BY <1>24 DEF RenameServed
    <3>2. call[t].op = "rename"
      BY <3>1, Existing DEF Shaped
    <3> QED BY <3>1, <3>2, Existing DEF Changes
  <2>2. [call EXCEPT ![t].at = "renamed", ![t].ok = TRUE]
          = [call EXCEPT ![t] = [call[t] EXCEPT !.at = "renamed", !.ok = TRUE]]
    BY <1>0
  <2>3. \/ \E y : call' = Disturbed([call EXCEPT ![t] = y], {call[t].name, call[t].to})
        \/ \E y : call' = [call EXCEPT ![t] = y]
    BY <1>24, <2>2 DEF RenameServed
  <2> QED BY <1>1, <1>4, <1>5, <2>1, <2>3
<1>25. ASSUME NEW t \in Threads, RenameDone(t) PROVE Goal
  <2>1. /\ call[t].at = "renamed" /\ UNCHANGED fd /\ {call[t].name, call[t].to} \in SUBSET Names
    <3>1. call[t].at = "renamed" /\ UNCHANGED fd
      BY <1>25 DEF RenameDone
    <3>2. call[t].op = "rename"
      BY <3>1, Existing DEF Shaped
    <3> QED BY <3>1, <3>2, Existing DEF Changes
  <2>2. \/ \E y : call' = Disturbed([call EXCEPT ![t] = y], {call[t].name, call[t].to})
        \/ \E y : call' = [call EXCEPT ![t] = y]
    BY <1>25 DEF RenameDone
  <2> QED BY <1>1, <1>4, <1>5, <2>1, <2>2
<1>26. ASSUME NEW n \in Names, HostNames(n) PROVE Goal
  <2>1. \A u \in Threads : call'[u].at = call[u].at /\ fd' = fd
    BY <1>0, <1>26, Disturbing DEF HostNames, Alike
  <2> QED BY <2>1 DEF BeingSet
<1>27. ASSUME NEW n \in Names, HostAttributes(n) PROVE Goal
  BY <1>27 DEF HostAttributes
<1>28. CASE UNCHANGED vars
  BY <1>28 DEF vars
<1>29. ASSUME NEW t \in Threads, NEW n \in Names
       PROVE  /\ \A k \in Kinds : Change(t, "create", n, None, k) => Goal
              /\ Change(t, "unlink", n, None, "reg") => Goal
              /\ \A m \in Names : n # m /\ Change(t, "rename", n, m, "reg") => Goal
  BY <1>7
<1>30. (\E t \in Threads : SetDone(t) /\ fd[t] = d) \/ BeingSet(call', fd', d)
  BY <1>6, <1>8, <1>9, <1>10, <1>11, <1>12, <1>13, <1>14, <1>15, <1>16, <1>17, <1>18, <1>19, <1>20,
     <1>21, <1>22, <1>23, <1>24, <1>25, <1>26, <1>27, <1>28, <1>29 DEF Next
<1> QED BY <1>30

\* What an answer says is good until the ttl is over.
LEMMA FreshNext ==
  Control /\ Control' /\ Sound(de, host, call, fd) /\ Fresh(de, file, call, fd) /\ [Next]_vars
    => Fresh(de', file', call', fd')
<1> DEFINE Goal == Fresh(de', file', call', fd')
<1> SUFFICES ASSUME Control, Control', Sound(de, host, call, fd), Fresh(de, file, call, fd), [Next]_vars
             PROVE  Goal
  OBVIOUS
<1>0. /\ host \in [Names -> Files \cup {None}] /\ file \in [Files -> Infos]
      /\ de \in [Dentries -> Entries] /\ call \in [Threads -> Calls]
      /\ fd \in [Threads -> Dentries \cup {None}]
      /\ de' \in [Dentries -> Entries] /\ call' \in [Threads -> Calls]
  BY DEF Control, TypeOK
<1>1. ASSUME NEW D \in [Dentries -> Entries], NEW F \in [Files -> Infos], Settle(D, F),
             \A d \in Dentries : BeingSet(call', fd', d) \/ Good(D[d], F)
      PROVE  Goal
  <2> SUFFICES ASSUME NEW d \in Dentries, ~BeingSet(call', fd', d), de'[d].timed, de'[d].file # None
               PROVE  Good(de'[d], file')
    BY DEF Fresh, Good
  <2>1. de'[d] = D[d] /\ Good(D[d], F)
    BY <1>1, Settling, BlankEntry
  <2>2. de'[d].file \in Files
    BY <1>0 DEF Entries
  <2>3. file'[de'[d].file] = F[de'[d].file]
    BY <1>1, <2>2, Settling
  <2> QED BY <2>1, <2>3 DEF Good
\* Attributes that are the same are as good.
<1>2. ASSUME NEW e, NEW x, NEW F, NEW G, Good(e, F), x.timed = e.timed, x.file = e.file,
             x.stale = e.stale, x.attrs = e.attrs, G[e.file].attrs = F[e.file].attrs
      PROVE  Good(x, G)
  BY <1>2 DEF Good
<1>3. ASSUME NEW e, NEW F, ~e.timed \/ e.stale \/ e.file = None PROVE Good(e, F)
  BY <1>3 DEF Good
<1>4. ASSUME NEW t \in Threads, SetDone(t) PROVE Goal
  <2>1. /\ call[t].at = "set" /\ fd[t] \in Dentries /\ fd' = fd /\ Ends(t)
        /\ call[t].ask \in SUBSET Attrs /\ call[t].set \in SUBSET Attrs
    <3>1. call[t].at = "set" /\ fd' = fd /\ Ends(t)
      BY <1>4 DEF SetDone
    <3> QED BY <1>0, <3>1 DEF Calls, Control, Locked
  <2> DEFINE e == de[fd[t]]
             a == IF call[t].ok THEN (e.attrs \ call[t].ask) \cup call[t].set ELSE e.attrs
             x == [e EXCEPT !.timed = FALSE, !.attrs = a]
             D == [de EXCEPT ![fd[t]] = x]
  <2>2. e \in Entries /\ a \in SUBSET Attrs
    BY <1>0, <2>1 DEF Entries
  <2>3. Dentry(D)
    BY <1>0, <1>4, <2>1 DEF SetDone, Entries
  <2> HIDE DEF a
  <2>4. x \in Entries /\ ~x.timed
    BY <2>2 DEF Entries
  <2> HIDE DEF x
  <2>5. D \in [Dentries -> Entries] /\ D[fd[t]] = x /\ \A d \in Dentries \ {fd[t]} : D[d] = de[d]
    BY <1>0, <2>1, <2>4
  <2>6. Settle(D, file)
    BY <2>3 DEF Dentry
  <2> HIDE DEF D
  <2>7. \A u \in Threads \ {t} : call'[u] = call[u]
    BY <2>1, Ending
  <2>8. ASSUME NEW d \in Dentries PROVE BeingSet(call', fd', d) \/ Good(D[d], file)
    <3>1. CASE d = fd[t]
      BY <1>3, <2>4, <2>5, <3>1
    <3>2. CASE d # fd[t]
      BY <2>1, <2>5, <2>7, <3>2 DEF Fresh, BeingSet
    <3> QED BY <3>1, <3>2
  <2> QED BY <1>0, <1>1, <2>5, <2>6, <2>8
<1> SUFFICES ASSUME \A t \in Threads : ~SetDone(t) PROVE Goal
  BY <1>4
<1>5. ASSUME NEW d \in Dentries PROVE BeingSet(call', fd', d) \/ Good(de[d], file)
  BY Setters DEF Fresh
<1>6. ASSUME Dentry(de) PROVE Goal
  BY <1>0, <1>1, <1>5, <1>6 DEF Dentry
<1>7. ASSUME UNCHANGED <<de, file>> PROVE Goal
  BY <1>5, <1>7 DEF Fresh
<1>8. ASSUME NEW d \in Dentries, NEW x \in Entries, Dentry([de EXCEPT ![d] = x]),
             BeingSet(call', fd', d) \/ Good(x, file)
      PROVE  Goal
  <2> DEFINE D == [de EXCEPT ![d] = x]
  <2>1. D \in [Dentries -> Entries] /\ D[d] = x /\ \A e \in Dentries \ {d} : D[e] = de[e]
    BY <1>0
  <2>2. Settle(D, file)
    BY <1>8 DEF Dentry
  <2> HIDE DEF D
  <2> QED BY <1>0, <1>1, <1>5, <1>8, <2>1, <2>2
<1>9. ASSUME NEW t \in Threads, WalkExpired(t) PROVE Goal
  <2>1. CASE UNCHANGED <<file, de>>
    BY <1>7, <2>1
  <2>2. CASE \E d \in At(Wanted(t)) : ~Positive(d) /\ Dentry([de EXCEPT ![d].hashed = FALSE])
    <3>1. PICK d \in Dentries : de[d].file = None /\ Dentry([de EXCEPT ![d].hashed = FALSE])
      BY <2>2 DEF At, Positive
    <3> DEFINE x == [de[d] EXCEPT !.hashed = FALSE]
    <3>2. de[d] \in Entries
      BY <1>0
    <3>3. x \in Entries /\ x.file = None /\ [de EXCEPT ![d].hashed = FALSE] = [de EXCEPT ![d] = x]
      BY <1>0, <3>1, <3>2 DEF Entries
    <3> HIDE DEF x
    <3> QED BY <1>3, <1>8, <3>1, <3>3
  <2> QED BY <1>9, <2>1, <2>2 DEF WalkExpired
<1>10. ASSUME NEW t \in Threads, LookDone(t) PROVE Goal
  <2>1. /\ call[t].at = "looked" /\ Wanted(t) \in Names /\ call[t].file \in Files \cup {None}
        /\ call[t].attrs \in SUBSET Attrs
    BY <1>0, <1>10, Existing, Wanting DEF LookDone, Calls
  <2> DEFINE n == Wanted(t)
             f == call[t].file
             new == [Blank EXCEPT !.name = n, !.hashed = TRUE, !.timed = TRUE]
             e == [new EXCEPT !.file = f, !.kind = file[f].kind, !.loose = host[n] # f]
  <2>2. PICK d \in Unused :
          \/ Dentry([de EXCEPT ![d] = new])
          \/ f # None /\ Dentry([de EXCEPT ![d] = Changed(e, f, call[t].attrs)])
    BY <1>10 DEF LookDone
  <2>3. d \in Dentries
    BY DEF Unused
  <2>4. new \in Entries /\ new.file = None
    BY <2>1 DEF Blank, Entries, Kinds, Attrs
  <2>5. f # None => e \in Entries
    BY <1>0, <2>1, <2>4, ZenonT(40) DEF Entries, Infos
  <2> HIDE DEF new, e
  <2>6. f # None => LET x == Changed(e, f, call[t].attrs) IN x \in Entries /\ Good(x, file)
    BY <2>1, <2>5, Answered DEF Control, Good
  <2> QED BY <1>3, <1>8, <2>2, <2>3, <2>4, <2>6
<1>11. ASSUME NEW t \in Threads, AskDone(t) PROVE Goal
  <2>1. /\ call[t].at = "answered" /\ call[t].probe \in Dentries /\ call[t].attrs \in SUBSET Attrs
        /\ call[t].ok => call[t].file \in Files
    BY <1>0, <1>11, Existing, Nothing DEF AskDone, Shaped, Calls
  <2> DEFINE d == call[t].probe
             fits == call[t].ok /\ de[d].kind = file[call[t].file].kind
             e == IF fits THEN Changed(de[d], call[t].file, call[t].attrs)
                  ELSE IF call[t].ok THEN MadeBad(de[d]) ELSE de[d]
             x == [e EXCEPT !.hashed = FALSE, !.loose = TRUE]
  <2>2. de[d] \in Entries
    BY <1>0, <2>1
  <2>3. e \in Entries /\ (BeingSet(call', fd', d) \/ Good(e, file))
    <3>1. CASE fits
      BY <2>1, <2>2, <3>1, Answered DEF Control, Good
    <3>2. CASE ~fits /\ call[t].ok
      BY <1>3, <2>2, <3>2, Spoiling
    <3>3. CASE ~fits /\ ~call[t].ok
      BY <1>5, <2>1, <2>2, <3>3
    <3> QED BY <3>1, <3>2, <3>3
  <2>4. Dentry([de EXCEPT ![d] = e]) \/ Dentry([de EXCEPT ![d] = x])
    BY <1>11 DEF AskDone
  <2> HIDE DEF fits, e
  <2>5. /\ x \in Entries /\ x.timed = e.timed /\ x.file = e.file /\ x.stale = e.stale
        /\ x.attrs = e.attrs
    BY <2>3 DEF Entries
  <2> HIDE DEF x
  <2>6. BeingSet(call', fd', d) \/ Good(x, file)
    BY <1>2, <2>3, <2>5
  <2> QED BY <1>8, <2>1, <2>3, <2>4, <2>5, <2>6
<1>12. ASSUME NEW t \in Threads, SetServed(t) PROVE Goal
  <2>1. /\ UNCHANGED fd /\ call[t].at = "setting" /\ call'[t].at = "set"
        /\ call[t].set \in SUBSET Attrs /\ call[t].path \in Names /\ fd[t] \in Dentries
    <3>1. call[t].at = "setting" /\ UNCHANGED fd /\ call'[t].at = "set"
      BY <1>0, <1>12 DEF SetServed, Calls
    <3> QED BY <1>0, <3>1, Existing DEF Shaped, Calls, Control, Locked
  <2> DEFINE f == host[call[t].path]
             sent == Sent(call[t].ask)
             D == [d \in Dentries |-> [de[d] EXCEPT !.stale = @ \/ (de[d].file = f /\ d # fd[t])]]
             F == [file EXCEPT ![f].attrs = (@ \ sent) \cup (call[t].set \cap sent)]
  <2>2. CASE f # None /\ Settle(D, F)
    <3>1. f \in Files
      BY <1>0, <2>1, <2>2
    <3>2. ASSUME NEW d \in Dentries
          PROVE  /\ D[d] \in Entries /\ D[d].timed = de[d].timed /\ D[d].file = de[d].file
                 /\ D[d].attrs = de[d].attrs
                 /\ (D[d].stale <=> de[d].stale \/ (de[d].file = f /\ d # fd[t]))
      <4> DEFINE v == de[d].stale \/ (de[d].file = f /\ d # fd[t])
      <4>1. v \in BOOLEAN /\ (v <=> de[d].stale \/ (de[d].file = f /\ d # fd[t]))
        BY Zenon
      <4>2. de[d] \in Entries /\ D[d] = [de[d] EXCEPT !.stale = v]
        BY <1>0
      <4> HIDE DEF v, D
      <4> QED BY <4>1, <4>2 DEF Entries
    <3> DEFINE b == (file[f].attrs \ sent) \cup (call[t].set \cap sent)
    <3>3. b \in SUBSET Attrs /\ F = [file EXCEPT ![f] = [file[f] EXCEPT !.attrs = b]]
          /\ file[f] \in Infos
      BY <1>0, <2>1, <3>1 DEF Infos
    <3> HIDE DEF b
    <3>4. F \in [Files -> Infos] /\ \A g \in Files \ {f} : F[g] = file[g]
      <4>1. [file[f] EXCEPT !.attrs = b] \in Infos
        BY <3>3 DEF Infos
      <4> QED BY <1>0, <3>1, <3>3, <4>1
    <3>5. D \in [Dentries -> Entries]
      BY <3>2
    <3> HIDE DEF D, F
    <3>6. ASSUME NEW d \in Dentries PROVE BeingSet(call', fd', d) \/ Good(D[d], F)
      <4>1. CASE d = fd[t]
        BY <2>1, <4>1 DEF BeingSet
      <4>2. CASE d # fd[t] /\ de[d].file = f
        BY <1>3, <3>2, <4>2
      <4>3. CASE d # fd[t] /\ de[d].file # f
        <5>1. CASE de[d].file = None
          BY <1>3, <3>2, <5>1
        <5>2. CASE de[d].file # None
          <6>1. de[d].file \in Files \ {f}
            BY <1>0, <4>3, <5>2 DEF Entries
          <6>2. D[d].stale = de[d].stale
            BY <1>0, <3>2, <4>3 DEF Entries
          <6> QED BY <1>2, <1>5, <3>2, <3>4, <6>1, <6>2
        <5> QED BY <5>1, <5>2
      <4> QED BY <4>1, <4>2, <4>3
    <3> QED BY <1>1, <2>2, <3>4, <3>5, <3>6
  <2>3. CASE UNCHANGED <<file, de>>
    BY <1>7, <2>3
  <2> QED BY <1>12, <2>2, <2>3 DEF SetServed
<1>13. ASSUME NEW t \in Threads, CreateServed(t) PROVE Goal
  <2>1. call[t].at = "create" /\ call[t].kind \in Kinds
    BY <1>0, <1>13 DEF CreateServed, Calls
  <2>2. CASE \E f \in Files : Settle(de, [file EXCEPT ![f].kind = call[t].kind])
    <3>1. PICK f \in Files : Settle(de, [file EXCEPT ![f].kind = call[t].kind])
      BY <2>2
    <3> DEFINE i == [file[f] EXCEPT !.kind = call[t].kind]
               F == [file EXCEPT ![f] = i]
    <3>2. i \in Infos /\ i.attrs = file[f].attrs
      BY <1>0, <2>1 DEF Infos
    <3>3. Settle(de, F)
      BY <1>0, <3>1
    <3> HIDE DEF i
    <3>4. F \in [Files -> Infos] /\ \A g \in Files : F[g].attrs = file[g].attrs
      BY <1>0, <3>2
    <3> HIDE DEF F
    <3>5. ASSUME NEW d \in Dentries, Good(de[d], file) PROVE Good(de[d], F)
      <4>1. de[d].file = None \/ de[d].file \in Files
        BY <1>0 DEF Entries
      <4> QED BY <3>4, <3>5, <4>1 DEF Good
    <3> QED BY <1>0, <1>1, <1>5, <3>3, <3>4, <3>5
  <2>3. CASE UNCHANGED <<file, de>>
    BY <1>7, <2>3
  <2>4. CASE Dentry(de)
    BY <1>6, <2>4
  <2> QED BY <1>13, <2>2, <2>3, <2>4 DEF CreateServed
<1>14. ASSUME NEW t \in Threads, CreateDone(t) PROVE Goal
  <2>1. /\ call[t].at = "created" /\ call[t].cur \in Dentries /\ call[t].file \in Files
        /\ call[t].kind \in Kinds
    <3>1. call[t].at = "created"
      BY <1>14 DEF CreateDone
    <3> QED BY <1>0, <3>1, Existing DEF Calls, Shaped, Changes
  <2> DEFINE d == call[t].cur
             v == ~de[d].hashed \/ host[call[t].name] # call[t].file
             x == [de[d] EXCEPT !.file = call[t].file, !.kind = call[t].kind,
                                !.timed = FALSE, !.loose = v]
             z == [de[d] EXCEPT !.timed = FALSE]
  <2>2. v \in BOOLEAN /\ de[d] \in Entries
    BY <1>0, <2>1
  <2>3. Dentry([de EXCEPT ![d] = x]) \/ Dentry([de EXCEPT ![d] = z])
    BY <1>0, <1>14, <2>1 DEF CreateDone
  <2> HIDE DEF v
  <2>4. x \in Entries /\ z \in Entries /\ ~x.timed /\ ~z.timed
    BY <2>1, <2>2 DEF Entries
  <2> HIDE DEF x, z
  <2> QED BY <1>3, <1>8, <2>1, <2>3, <2>4
<1>15. ASSUME NEW t \in Threads, RemoveDone(t) PROVE Goal
  <2>1. call[t].cur \in Dentries
    BY <1>15, Existing DEF RemoveDone, Shaped
  <2> DEFINE d == call[t].cur
             x == [de[d] EXCEPT !.unlinked = TRUE, !.hashed = FALSE]
  <2>2. de[d] \in Entries
    BY <1>0, <2>1
  <2>3. /\ x \in Entries /\ x.timed = de[d].timed /\ x.file = de[d].file
        /\ x.stale = de[d].stale /\ x.attrs = de[d].attrs
    BY <2>2 DEF Entries
  <2>4. [de EXCEPT ![d].unlinked = TRUE, ![d].hashed = FALSE] = [de EXCEPT ![d] = x]
    BY <1>0, <2>1
  <2> HIDE DEF x
  <2>5. Dentry([de EXCEPT ![d] = x])
    BY <1>15, <2>4 DEF RemoveDone
  <2> QED BY <1>2, <1>5, <1>8, <2>1, <2>3, <2>5
<1>16. ASSUME NEW t \in Threads, RenameServed(t) PROVE Goal
  <2>1. call[t].tgt \in Dentries
    BY <1>16, Existing DEF RenameServed, Shaped
  <2> DEFINE d == call[t].tgt
             x == [de[d] EXCEPT !.loose = TRUE]
  <2>2. de[d] \in Entries
    BY <1>0, <2>1
  <2>3. /\ x \in Entries /\ x.timed = de[d].timed /\ x.file = de[d].file
        /\ x.stale = de[d].stale /\ x.attrs = de[d].attrs
    BY <2>2 DEF Entries
  <2>4. [de EXCEPT ![d].loose = TRUE] = [de EXCEPT ![d] = x]
    OBVIOUS
  <2> HIDE DEF x
  <2>5. Dentry([de EXCEPT ![d] = x]) \/ UNCHANGED <<de, file>>
    BY <1>16, <2>4 DEF RenameServed
  <2> QED BY <1>2, <1>5, <1>7, <1>8, <2>1, <2>3, <2>5
<1>17. ASSUME NEW t \in Threads, RenameDone(t) PROVE Goal
  <2>1. call[t].cur \in Dentries /\ call[t].tgt \in Dentries /\ call[t].to \in Names
    BY <1>17, Existing DEF RenameDone, Shaped, Changes
  <2> DEFINE d == call[t].cur
             e == call[t].tgt
  <2>2. de[d] \in Entries /\ de[e] \in Entries
    BY <1>0, <2>1
  <2>3. \E x, z \in Entries : ~x.timed /\ ~z.timed /\ Dentry([de EXCEPT ![d] = x, ![e] = z])
    <3> DEFINE v == de[d].loose \/ host[call[t].to] # de[d].file
    <3>1. CASE Dentry([de EXCEPT
                 ![d] = [@ EXCEPT !.name = call[t].to, !.timed = FALSE, !.hashed = TRUE, !.loose = v],
                 ![e] = [@ EXCEPT !.hashed = FALSE, !.timed = FALSE]])
      <4> DEFINE x == [de[d] EXCEPT !.name = call[t].to, !.timed = FALSE, !.hashed = TRUE, !.loose = v]
                 z == [de[e] EXCEPT !.hashed = FALSE, !.timed = FALSE]
      <4>1. v \in BOOLEAN
        BY Zenon
      <4>2. Dentry([de EXCEPT ![d] = x, ![e] = z])
        BY <3>1
      <4> HIDE DEF v
      <4>3. x \in Entries /\ z \in Entries /\ ~x.timed /\ ~z.timed
        BY <2>1, <2>2, <4>1, ZenonT(40) DEF Entries
      <4> QED BY <4>2, <4>3
    <3>2. CASE Dentry([de EXCEPT ![d].timed = FALSE, ![e].timed = FALSE])
      <4> DEFINE x == [de[d] EXCEPT !.timed = FALSE]
                 D == [de EXCEPT ![d] = x]
                 z == [D[e] EXCEPT !.timed = FALSE]
      <4>1. Dentry([de EXCEPT ![d] = x, ![e] = z])
        BY <3>2
      <4>2. x \in Entries /\ ~x.timed
        BY <2>2 DEF Entries
      <4> HIDE DEF x
      <4>3. D[e] \in Entries
        BY <1>0, <2>1, <4>2
      <4> HIDE DEF D
      <4>4. z \in Entries /\ ~z.timed
        BY <4>3 DEF Entries
      <4> QED BY <4>1, <4>2, <4>4
    <3> QED BY <1>17, <3>1, <3>2 DEF RenameDone
  <2>4. PICK x \in Entries, z \in Entries :
          ~x.timed /\ ~z.timed /\ Dentry([de EXCEPT ![d] = x, ![e] = z])
    BY <2>3
  <2> DEFINE D == [de EXCEPT ![d] = x, ![e] = z]
  <2>5. /\ D \in [Dentries -> Entries] /\ ~D[d].timed /\ ~D[e].timed
        /\ \A g \in Dentries \ {d, e} : D[g] = de[g]
    BY <1>0, <2>1, <2>4
  <2>6. Settle(D, file)
    BY <2>4 DEF Dentry
  <2> HIDE DEF D
  <2>7. \A g \in Dentries : BeingSet(call', fd', g) \/ Good(D[g], file)
    BY <1>3, <1>5, <2>5
  <2> QED BY <1>0, <1>1, <2>5, <2>6, <2>7
<1>18. ASSUME NEW n \in Names, HostNames(n) PROVE Goal
  <2> DEFINE D == [d \in Dentries |-> [de[d] EXCEPT
                     !.loose = @ \/ (de[d].name = n /\ Positive(d))]]
  <2>1. ASSUME NEW d \in Dentries
        PROVE  /\ D[d] \in Entries /\ D[d].timed = de[d].timed /\ D[d].file = de[d].file
               /\ D[d].attrs = de[d].attrs /\ D[d].stale = de[d].stale
    <3> DEFINE v == de[d].loose \/ (de[d].name = n /\ Positive(d))
    <3>1. v \in BOOLEAN
      BY Zenon
    <3>2. de[d] \in Entries /\ D[d] = [de[d] EXCEPT !.loose = v]
      BY <1>0
    <3> HIDE DEF v, D
    <3> QED BY <3>1, <3>2 DEF Entries
  <2>2. \E F \in [Files -> Infos] :
          Settle(D, F) /\ \A d \in Dentries : F[de[d].file].attrs = file[de[d].file].attrs
    <3>1. CASE Dentry(D)
      BY <1>0, <3>1 DEF Dentry
    <3>2. CASE \E f \in Files : \E k \in Kinds :
                 /\ Forgotten(f)
                 /\ Settle(D, [file EXCEPT ![f] = [kind |-> k, attrs |-> {"mode"}]])
      <4>1. PICK f \in Files, k \in Kinds :
                 /\ Forgotten(f)
                 /\ Settle(D, [file EXCEPT ![f] = [kind |-> k, attrs |-> {"mode"}]])
        BY <3>2
      <4>2. [kind |-> k, attrs |-> {"mode"}] \in Infos
        BY DEF Infos, Attrs
      <4> HIDE DEF D
      <4> DEFINE F == [file EXCEPT ![f] = [kind |-> k, attrs |-> {"mode"}]]
      <4>3. F \in [Files -> Infos] /\ \A g : g # f => F[g] = file[g]
        BY <1>0, <4>2
      <4>4. \A d \in Dentries : de[d].file # f
        BY <4>1 DEF Forgotten
      <4>5. Settle(D, F)
        BY <4>1
      <4> HIDE DEF F
      <4> QED BY <4>3, <4>4, <4>5
    <3> QED BY <1>18, <3>1, <3>2 DEF HostNames
  <2>3. D \in [Dentries -> Entries]
    BY <2>1
  <2> HIDE DEF D
  <2>4. PICK F \in [Files -> Infos] :
          Settle(D, F) /\ \A d \in Dentries : F[de[d].file].attrs = file[de[d].file].attrs
    BY <2>2
  <2>5. \A d \in Dentries : BeingSet(call', fd', d) \/ Good(D[d], F)
    BY <1>2, <1>5, <2>1, <2>4
  <2> QED BY <1>1, <2>3, <2>4, <2>5
<1>19. ASSUME NEW n \in Names, HostAttributes(n) PROVE Goal
  <2> DEFINE D == [d \in Dentries |-> [de[d] EXCEPT !.stale = @ \/ de[d].file = host[n]]]
             a == {"mode"} \ file[host[n]].attrs
             F == [file EXCEPT ![host[n]] = [file[host[n]] EXCEPT !.attrs = a]]
  <2>1. host[n] \in Files /\ a \in SUBSET Attrs
    BY <1>0, <1>19 DEF HostAttributes, Attrs
  <2>2. Settle(D, F)
    BY <1>0, <1>19, <2>1 DEF HostAttributes
  <2> HIDE DEF a
  <2>3. F \in [Files -> Infos] /\ \A g \in Files : g # host[n] => F[g] = file[g]
    BY <1>0, <2>1 DEF Infos
  <2>4. ASSUME NEW d \in Dentries
        PROVE  /\ D[d] \in Entries /\ D[d].timed = de[d].timed /\ D[d].file = de[d].file
               /\ D[d].attrs = de[d].attrs
               /\ (D[d].stale <=> de[d].stale \/ de[d].file = host[n])
    <3> DEFINE v == de[d].stale \/ de[d].file = host[n]
    <3>1. v \in BOOLEAN /\ (v <=> de[d].stale \/ de[d].file = host[n])
      BY Zenon
    <3>2. de[d] \in Entries /\ D[d] = [de[d] EXCEPT !.stale = v]
      BY <1>0
    <3> HIDE DEF v, D
    <3> QED BY <3>1, <3>2 DEF Entries
  <2>5. D \in [Dentries -> Entries]
    BY <2>4
  <2> HIDE DEF D, F
  <2>6. ASSUME NEW d \in Dentries PROVE BeingSet(call', fd', d) \/ Good(D[d], F)
    <3>1. CASE de[d].file \in {None, host[n]}
      BY <1>3, <2>4, <3>1
    <3>2. CASE de[d].file \notin {None, host[n]}
      <4>1. de[d].file \in Files /\ D[d].stale = de[d].stale
        BY <1>0, <2>4, <3>2 DEF Entries
      <4> QED BY <1>2, <1>5, <2>3, <2>4, <3>2, <4>1
    <3> QED BY <3>1, <3>2
  <2> QED BY <1>1, <2>2, <2>3, <2>5, <2>6
<1>20. CASE UNCHANGED vars
  BY <1>7, <1>20 DEF vars
<1>21. ASSUME NEW t \in Threads
       PROVE  /\ \A n : Open(t, n) => Goal
              /\ \A op, n, m, k : Change(t, op, n, m, k) => Goal
              /\ Close(t) => Goal
              /\ WalkValid(t) => Goal
              /\ WalkMisses(t) => Goal
              /\ LookServed(t) => Goal
              /\ Stat(t) => Goal
              /\ AskServed(t) => Goal
              /\ Setattr(t) => Goal
              /\ RemoveServed(t) => Goal
  BY <1>6, <1>7 DEF Open, Change, Close, WalkValid, WalkMisses, LookServed, Stat, AskServed, Setattr,
                    RemoveServed
<1> HIDE DEF Goal
<1> QED BY <1>9, <1>10, <1>11, <1>12, <1>13, <1>14, <1>15, <1>16, <1>17, <1>18, <1>19, <1>20, <1>21
        DEF Next

-----------------------------------------------------------------------------
(* What a walk has seen, and what goes wrong.                              *)

\* A walk whose name has had a file all the time has not been told otherwise.
LEMMA SeeingNext == Control /\ Control' /\ Seeing /\ [Next]_vars => Seeing'
<1> DEFINE Goal == \A u \in Threads : Sees(host', call'[u])
<1> SUFFICES ASSUME Control, Control', Seeing, [Next]_vars PROVE Goal
  BY DEF Seeing
<1>0. /\ host \in [Names -> Files \cup {None}] /\ call \in [Threads -> Calls]
      /\ call' \in [Threads -> Calls]
  BY DEF Control, TypeOK
<1>1. ASSUME NEW t \in Threads, host' = host, \A u \in Threads \ {t} : call'[u] = call[u],
             Sees(host, call'[t])
      PROVE  Goal
  BY <1>1 DEF Seeing
<1>2. ASSUME UNCHANGED <<host, call>> PROVE Goal
  BY <1>2 DEF Seeing
\* A call that has come to a dentry has seen what it wanted to.
<1>3. ASSUME NEW t \in Threads, call[t].cur # None PROVE ~call[t].seen
  BY <1>3 DEF Seeing, Sees
<1>4. ASSUME NEW t \in Threads, Ends(t), host' = host PROVE Goal
  BY <1>1, <1>4, Ending, IdleCall DEF Sees
<1>5. ASSUME NEW t \in Threads, NEW d \in Dentries, NEW there \in BOOLEAN, host' = host,
             call[t].at \in {"walk", "looked", "answered"}, call[t].op \in Changes \cup {"open"},
             call[t].at # "answered" => call[t].probe = None, Arrives(t, d, there)
      PROVE  Goal
  <2>1. /\ \A u \in Threads \ {t} : call'[u] = call[u]
        /\ \/ call'[t] = Idle
           \/ ~call'[t].seen
           \/ call[t].cur # None /\ (call'[t].seen => call[t].seen)
    BY <1>5, Arriving
  <2> QED BY <1>1, <1>3, <1>5, <2>1, IdleCall DEF Sees
\* A call goes on with the same name.
<1>6. ASSUME NEW t \in Threads, host' = host, \A u \in Threads \ {t} : call'[u] = call[u],
             call'[t].seen => call[t].seen, call'[t].name = call[t].name,
             call'[t].cur = call[t].cur, call'[t].at # "looked"
      PROVE  Goal
  BY <1>1, <1>6 DEF Seeing, Sees
\* The names n are changed, or have been.
<1>7. ASSUME NEW t \in Threads, NEW n \in SUBSET Names, NEW y \in Calls,
             call' = Disturbed([call EXCEPT ![t] = y], n), ~y.seen,
             \A m \in Names \ n : host'[m] = host[m]
      PROVE  Goal
  <2> DEFINE c == [call EXCEPT ![t] = y]
  <2>1. c \in [Threads -> Calls] /\ c[t] = y /\ \A u \in Threads \ {t} : c[u] = call[u]
    BY <1>0
  <2> HIDE DEF c
  <2>2. \A u \in Threads : /\ Alike(c[u], call'[u])
                           /\ call'[u].seen => c[u].seen /\ c[u].name \notin n
    BY <1>7, <2>1, Disturbing DEF c
  <2> SUFFICES ASSUME NEW u \in Threads, call'[u].seen PROVE Sees(host', call'[u])
    BY DEF Sees
  <2>3. c[u].seen /\ u # t
    BY <1>7, <2>1, <2>2
  <2>4. Sees(host, call[u]) /\ call[u].seen /\ Alike(call[u], call'[u]) /\ call[u].name \notin n
    BY <2>1, <2>2, <2>3 DEF Seeing
  <2>5. call[u].name \in Names
    BY <2>4, Existing DEF Sees
  <2> QED BY <1>7, <2>4, <2>5 DEF Sees, Alike
<1>8. ASSUME NEW t \in Threads, NEW n \in Names, Open(t, n) PROVE Goal
  <2> DEFINE y == [Idle EXCEPT !.op = "open", !.at = "walk", !.name = n, !.seen = host[n] # None]
  <2>1. /\ y.at = "walk" /\ y.name = n /\ y.cur = None /\ (y.seen => host[n] # None)
    BY DEF Idle
  <2>2. call' = [call EXCEPT ![t] = y] /\ host' = host
    BY <1>8 DEF Open
  <2> HIDE DEF y
  <2>3. Sees(host, y)
    BY <2>1, Nothing DEF Sees
  <2> QED BY <1>0, <1>1, <2>2, <2>3
<1>9. ASSUME NEW t \in Threads, NEW op, NEW n \in Names, NEW m, NEW k, Change(t, op, n, m, k)
      PROVE  Goal
  <2> DEFINE y == [Idle EXCEPT !.op = op, !.at = "walk", !.name = n, !.to = m, !.kind = k,
                               !.seen = host[n] # None]
  <2>1. /\ y.at = "walk" /\ y.name = n /\ y.cur = None /\ (y.seen => host[n] # None)
    BY DEF Idle
  <2>2. call' = [call EXCEPT ![t] = y] /\ host' = host
    BY <1>9 DEF Change
  <2> HIDE DEF y
  <2>3. Sees(host, y)
    BY <2>1, Nothing DEF Sees
  <2> QED BY <1>0, <1>1, <2>2, <2>3
<1>10. ASSUME NEW t \in Threads, WalkValid(t) PROVE Goal
  <2>1. PICK d \in Dentries : Arrives(t, d, TRUE)
    BY <1>10 DEF WalkValid, Finds, At
  <2>2. /\ call[t].at = "walk" /\ host' = host /\ call[t].op \in Changes \cup {"open"}
        /\ call[t].probe = None
    BY <1>10, Existing DEF WalkValid, Shaped
  <2> QED BY <1>5, <2>1, <2>2
\* A request is built.
<1>11. ASSUME NEW t \in Threads, NEW c \in Calls, NEW d, Builds(t, c, d), host' = host,
              c.seen => call[t].seen /\ c.name = call[t].name /\ c.cur = call[t].cur
       PROVE  Goal
  <2> DEFINE y == [c EXCEPT !.at = "asking", !.probe = d, !.path = de[d].name, !.late = FALSE]
  <2>1. y.name = c.name /\ y.cur = c.cur /\ y.at = "asking" /\ y.seen = c.seen
    BY DEF Calls
  <2>2. call' = [call EXCEPT ![t] = y]
    BY <1>11 DEF Builds
  <2> HIDE DEF y
  <2>3. Sees(host, y)
    BY <1>11, <2>1 DEF Seeing, Sees
  <2> QED BY <1>0, <1>1, <1>11, <2>2, <2>3
<1>12. ASSUME NEW t \in Threads, WalkExpired(t) PROVE Goal
  <2>1. UNCHANGED call \/ \E d : Builds(t, call[t], d)
    BY <1>12 DEF WalkExpired
  <2>2. host' = host
    BY <1>12 DEF WalkExpired
  <2> QED BY <1>0, <1>2, <1>11, <2>1, <2>2
<1>13. ASSUME NEW t \in Threads, WalkMisses(t) PROVE Goal
  <2>1. /\ \A u \in Threads \ {t} : call'[u] = call[u]
        /\ call'[t].seen = call[t].seen /\ call'[t].name = call[t].name
        /\ call'[t].cur = call[t].cur /\ call'[t].at = "looking" /\ host' = host
    BY <1>0, <1>13 DEF WalkMisses, Calls
  <2> QED BY <1>6, <2>1
<1>14. ASSUME NEW t \in Threads, LookServed(t) PROVE Goal
  <2>1. call[t].at = "looking" /\ host' = host
    BY <1>14 DEF LookServed
  <2>2. CASE Ends(t)
    BY <1>4, <2>1, <2>2
  <2>3. CASE ~Ends(t)
    <3>1. /\ \A u \in Threads \ {t} : call'[u] = call[u]
          /\ call'[t].seen = call[t].seen /\ call'[t].name = call[t].name
          /\ call'[t].cur = call[t].cur /\ call'[t].file = host[Wanted(t)]
      BY <1>0, <1>14, <2>3 DEF LookServed, Calls
    <3>2. Sees(host, call'[t])
      BY <3>1 DEF Sees, Seeing, Wanted
    <3> QED BY <1>1, <2>1, <3>1, <3>2
  <2> QED BY <2>2, <2>3
<1>15. ASSUME NEW t \in Threads, LookDone(t) PROVE Goal
  <2>1. PICK d \in Dentries, there \in BOOLEAN : Arrives(t, d, there)
    BY <1>15 DEF LookDone, Finds, FindsNone, Unused
  <2>2. /\ call[t].at = "looked" /\ host' = host /\ call[t].op \in Changes \cup {"open"}
        /\ call[t].probe = None
    BY <1>15, Existing DEF LookDone, Shaped
  <2> QED BY <1>5, <2>1, <2>2
<1>16. ASSUME NEW t \in Threads, Stat(t) PROVE Goal
  <2> DEFINE y == [Idle EXCEPT !.op = "stat"]
  <2>1. y \in Calls /\ ~y.seen
    BY DEF Idle, Calls, Ops, Ats, Kinds, Attrs
  <2>2. Builds(t, y, fd[t]) /\ host' = host
    BY <1>16 DEF Stat
  <2> HIDE DEF y
  <2> QED BY <1>11, <2>1, <2>2
<1>17. ASSUME NEW t \in Threads, AskServed(t) PROVE Goal
  <2>1. /\ \A u \in Threads \ {t} : call'[u] = call[u]
        /\ call'[t].seen = call[t].seen /\ call'[t].name = call[t].name
        /\ call'[t].cur = call[t].cur /\ call'[t].at = "answered" /\ host' = host
    BY <1>0, <1>17 DEF AskServed, Calls
  <2> QED BY <1>6, <2>1
<1>18. ASSUME NEW t \in Threads, AskDone(t) PROVE Goal
  <2>1. /\ call[t].at = "answered" /\ call[t].op \in Changes \cup {"open", "stat"}
        /\ call[t].probe \in Dentries /\ host' = host
    BY <1>18, Existing DEF AskDone, Shaped
  <2> DEFINE y == [Rested(call[t]) EXCEPT !.at = "walk"]
  <2>2. \/ Ends(t)
        \/ call[t].op # "stat" /\ Arrives(t, call[t].probe, TRUE)
        \/ call' = [call EXCEPT ![t] = y]
    BY <1>18 DEF AskDone, Finds
  <2>3. CASE Ends(t)
    BY <1>4, <2>1, <2>3
  <2>4. CASE call[t].op # "stat" /\ Arrives(t, call[t].probe, TRUE)
    BY <1>5, <2>1, <2>4
  <2>5. CASE call' = [call EXCEPT ![t] = y]
    <3> DEFINE r == Rested(call[t])
    <3>1. r \in Calls /\ r.name = call[t].name /\ r.cur = call[t].cur /\ r.seen = call[t].seen
      BY <1>0, Resting
    <3>2. call'[t] = [r EXCEPT !.at = "walk"] /\ \A u \in Threads \ {t} : call'[u] = call[u]
      BY <1>0, <2>5
    <3> HIDE DEF r
    <3>3. /\ call'[t].seen = call[t].seen /\ call'[t].name = call[t].name
          /\ call'[t].cur = call[t].cur /\ call'[t].at = "walk"
      BY <3>1, <3>2 DEF Calls
    <3> QED BY <1>6, <2>1, <3>2, <3>3
  <2> QED BY <2>2, <2>3, <2>4, <2>5
<1>19. ASSUME NEW t \in Threads, Setattr(t) PROVE Goal
  <2>1. PICK a, s :
          call' = [call EXCEPT ![t] = [Idle EXCEPT !.op = "setattr", !.at = "setting",
                     !.path = de[fd[t]].name, !.ask = a, !.set = s]]
    BY <1>19 DEF Setattr
  <2>2. call'[t].seen = FALSE /\ \A u \in Threads \ {t} : call'[u] = call[u]
    BY <1>0, <2>1 DEF Idle
  <2> QED BY <1>1, <1>19, <2>2 DEF Setattr, Sees
<1>20. ASSUME NEW t \in Threads, SetServed(t) PROVE Goal
  <2>1. /\ \A u \in Threads \ {t} : call'[u] = call[u]
        /\ call'[t].seen = call[t].seen /\ call'[t].name = call[t].name
        /\ call'[t].cur = call[t].cur /\ call'[t].at = "set" /\ host' = host
    BY <1>0, <1>20 DEF SetServed, Calls
  <2> QED BY <1>6, <2>1
<1>21. ASSUME NEW t \in Threads, SetDone(t) PROVE Goal
  BY <1>4, <1>21 DEF SetDone
<1>22. ASSUME NEW t \in Threads, CreateServed(t) PROVE Goal
  <2>1. call[t].at = "create" /\ call[t].name \in Names /\ call[t].cur # None
    BY <1>22, Existing DEF CreateServed, Shaped, Changes
  <2>2. CASE Ends(t) /\ host' = host
    BY <1>4, <2>2
  <2>3. CASE \E f \in Files \cup {None} :
               /\ call' = [call EXCEPT ![t].at = "created", ![t].file = f]
               /\ host' = host \/ (f \in Files /\ host' = [host EXCEPT ![call[t].name] = f])
    <3>1. PICK f \in Files \cup {None} :
               /\ call' = [call EXCEPT ![t].at = "created", ![t].file = f]
               /\ host' = host \/ (f \in Files /\ host' = [host EXCEPT ![call[t].name] = f])
      BY <2>3
    <3>2. /\ \A u \in Threads \ {t} : call'[u] = call[u]
          /\ call'[t].seen = call[t].seen
      BY <1>0, <3>1 DEF Calls
    <3>3. \A m \in Names : host[m] # None => host'[m] # None
      BY <1>0, <2>1, <3>1, Nothing
    <3>4. ~call'[t].seen
      BY <1>3, <2>1, <3>2
    <3>5. ASSUME NEW u \in Threads, u # t PROVE Sees(host', call'[u])
      <4>1. call[u].name # None => call[u].name \in Names
        BY Existing
      <4> QED BY <3>2, <3>3, <3>5, <4>1 DEF Seeing, Sees
    <3> QED BY <3>4, <3>5 DEF Sees
  <2>4. host[call[t].name] \in Files \cup {None}
    BY <1>0, <2>1
  <2> QED BY <1>22, <2>2, <2>3, <2>4 DEF CreateServed
<1>23. ASSUME NEW t \in Threads, CreateDone(t) PROVE Goal
  BY <1>4, <1>23 DEF CreateDone
<1>24. ASSUME NEW t \in Threads, RemoveServed(t) PROVE Goal
  <2>1. /\ call[t].at = "unlink" /\ call[t].name \in Names /\ call[t].cur # None
        /\ call[t] \in Calls /\ "removed" \in Ats
    BY <1>0, <1>24, Existing DEF RemoveServed, Shaped, Changes, Ats
  <2>2. CASE Ends(t) /\ host' = host
    BY <1>4, <2>2
  <2>3. CASE /\ host' = [host EXCEPT ![call[t].name] = None]
             /\ call' = Disturbed([call EXCEPT ![t].at = "removed"], {call[t].name})
    <3> DEFINE y == [call[t] EXCEPT !.at = "removed"]
    <3>1. y \in Calls /\ y.seen = call[t].seen
      BY <2>1 DEF Calls
    <3>2. call' = Disturbed([call EXCEPT ![t] = y], {call[t].name})
      BY <2>3
    <3> HIDE DEF y
    <3>3. ~y.seen
      BY <1>3, <2>1, <3>1
    <3>4. \A m \in Names \ {call[t].name} : host'[m] = host[m]
      BY <1>0, <2>3
    <3> QED BY <1>7, <2>1, <3>1, <3>2, <3>3, <3>4
  <2> QED BY <1>24, <2>2, <2>3 DEF RemoveServed
<1>25. ASSUME NEW t \in Threads, RemoveDone(t) PROVE Goal
  <2>1. call[t].name \in Names
    BY <1>25, Existing DEF RemoveDone, Shaped, Changes
  <2> QED BY <1>7, <1>25, <2>1, IdleCall DEF RemoveDone
<1>26. ASSUME NEW t \in Threads, RenameServed(t) PROVE Goal
  <2>1. /\ call[t].at = "rename" /\ call[t].name \in Names /\ call[t].to \in Names
        /\ call[t].cur # None /\ call[t] \in Calls /\ "renamed" \in Ats
    BY <1>0, <1>26, Existing DEF RenameServed, Shaped, Changes, Ats
  <2>2. CASE /\ host' = [host EXCEPT ![call[t].to] = host[call[t].name], ![call[t].name] = None]
             /\ call' = Disturbed([call EXCEPT ![t].at = "renamed", ![t].ok = TRUE],
                                  {call[t].name, call[t].to})
    <3> DEFINE y == [call[t] EXCEPT !.at = "renamed", !.ok = TRUE]
    <3>1. y \in Calls /\ y.seen = call[t].seen
      BY <2>1 DEF Calls
    <3>2. call' = Disturbed([call EXCEPT ![t] = y], {call[t].name, call[t].to})
      <4>1. [call EXCEPT ![t].at = "renamed", ![t].ok = TRUE] = [call EXCEPT ![t] = y]
        BY <1>0
      <4> QED BY <2>2, <4>1
    <3> HIDE DEF y
    <3>3. ~y.seen
      BY <1>3, <2>1, <3>1
    <3>4. \A m \in Names \ {call[t].name, call[t].to} : host'[m] = host[m]
      BY <1>0, <2>2
    <3> QED BY <1>7, <2>1, <3>1, <3>2, <3>3, <3>4
  <2>3. CASE call' = [call EXCEPT ![t].at = "renamed"] /\ host' = host
    <3>1. /\ \A u \in Threads \ {t} : call'[u] = call[u]
          /\ call'[t].seen = call[t].seen /\ call'[t].name = call[t].name
          /\ call'[t].cur = call[t].cur /\ call'[t].at = "renamed"
      BY <1>0, <2>3 DEF Calls
    <3> QED BY <1>6, <2>3, <3>1
  <2> QED BY <1>26, <2>2, <2>3 DEF RenameServed
<1>27. ASSUME NEW t \in Threads, RenameDone(t) PROVE Goal
  <2>1. {call[t].name, call[t].to} \in SUBSET Names /\ host' = host
    BY <1>27, Existing DEF RenameDone, Shaped, Changes
  <2>2. CASE call' = Disturbed([call EXCEPT ![t] = Idle], {call[t].name, call[t].to})
    BY <1>7, <2>1, <2>2, IdleCall
  <2>3. CASE call' = [call EXCEPT ![t] = Idle]
    BY <1>0, <1>1, <2>1, <2>3, IdleCall DEF Sees
  <2> QED BY <1>27, <2>2, <2>3 DEF RenameDone
<1>28. ASSUME NEW n \in Names, HostNames(n) PROVE Goal
  <2>1. call' = Disturbed(call, {n}) /\ \A m \in Names \ {n} : host'[m] = host[m]
    BY <1>0, <1>28 DEF HostNames
  <2> SUFFICES ASSUME NEW u \in Threads, call'[u].seen PROVE Sees(host', call'[u])
    BY DEF Sees
  <2>2. Alike(call[u], call'[u]) /\ call[u].seen /\ call[u].name \notin {n}
    BY <1>0, <2>1, Disturbing
  <2>3. Sees(host, call[u]) /\ (call[u].name # None => call[u].name \in Names)
    BY Existing DEF Seeing
  <2> QED BY <2>1, <2>2, <2>3 DEF Sees, Alike
<1>29. ASSUME NEW n \in Names, HostAttributes(n) PROVE Goal
  BY <1>2, <1>29 DEF HostAttributes
<1>30. CASE UNCHANGED vars
  BY <1>2, <1>30 DEF vars
<1>31. ASSUME NEW t \in Threads, Close(t) PROVE Goal
  BY <1>2, <1>31 DEF Close
<1>32. ASSUME NEW t \in Threads, NEW n \in Names
       PROVE  /\ \A k \in Kinds : Change(t, "create", n, None, k) => Goal
              /\ Change(t, "unlink", n, None, "reg") => Goal
              /\ \A m \in Names : n # m /\ Change(t, "rename", n, m, "reg") => Goal
  BY <1>9
<1> HIDE DEF Goal
<1> QED BY <1>8, <1>10, <1>12, <1>13, <1>14, <1>15, <1>16, <1>17, <1>18, <1>19, <1>20, <1>21, <1>22,
           <1>23, <1>24, <1>25, <1>26, <1>27, <1>28, <1>29, <1>30, <1>31, <1>32 DEF Next

\* A request in time is about the dentry's file, and what a walk has not found is not there.
LEMMA WrongNext ==
  Control /\ Sound(de, host, call, fd) /\ Seeing /\ NoneStrays /\ NoneMissed /\ [Next]_vars
    => NoneStrays' /\ NoneMissed'
<1> SUFFICES ASSUME Control, Sound(de, host, call, fd), Seeing, NoneStrays, NoneMissed, [Next]_vars
             PROVE  wrong' = wrong
  BY DEF NoneStrays, NoneMissed
<1>0. /\ host \in [Names -> Files \cup {None}] /\ call \in [Threads -> Calls]
      /\ fd \in [Threads -> Dentries \cup {None}]
  BY DEF Control, TypeOK
\* The host serves a request about d.
<1>1. ASSUME NEW t \in Threads, NEW d \in Dentries, call[t].path \in Names, host[call[t].path] # None,
             ~call[t].late => call[t].path = de[d].name /\ ~de[d].unlinked,
             de[d].file # None, Strays(t, d, host[call[t].path])
      PROVE  wrong' = wrong
  <2>1. ~de[d].loose /\ ~call[t].late => host[call[t].path] = de[d].file
    BY <1>1 DEF Sound, Named
  <2> QED BY <1>1, <2>1 DEF Strays
<1>2. ASSUME NEW t \in Threads, AskServed(t) PROVE wrong' = wrong
  <2>1. call[t].at = "asking" /\ call[t].probe \in Dentries /\ call[t].path \in Names
    BY <1>2, Existing DEF AskServed, Shaped
  <2>2. /\ ~call[t].late => call[t].path = de[call[t].probe].name /\ ~de[call[t].probe].unlinked
        /\ de[call[t].probe].file # None
    BY <2>1, Nothing DEF Sound, InTime, Knows
  <2>3. \/ wrong' = wrong
        \/ host[call[t].path] # None /\ Strays(t, call[t].probe, host[call[t].path])
    BY <1>2 DEF AskServed
  <2> QED BY <1>1, <2>1, <2>2, <2>3
<1>3. ASSUME NEW t \in Threads, SetServed(t) PROVE wrong' = wrong
  <2>1. call[t].at = "setting" /\ fd[t] \in Dentries /\ call[t].path \in Names
    BY <1>0, <1>3, Existing DEF SetServed, Shaped, Control, Locked
  <2>2. /\ ~call[t].late => call[t].path = de[fd[t]].name /\ ~de[fd[t]].unlinked
        /\ de[fd[t]].file # None
    BY <2>1, Nothing DEF Sound, InTime
  <2>3. \/ wrong' = wrong
        \/ host[call[t].path] # None /\ Strays(t, fd[t], host[call[t].path])
    BY <1>3 DEF SetServed
  <2> QED BY <1>1, <2>1, <2>2, <2>3
<1>4. ASSUME NEW t \in Threads, LookDone(t) PROVE wrong' = wrong
  <2>1. call[t].file = None => ~call[t].seen
    BY <1>4 DEF LookDone, Seeing, Sees
  <2> QED BY <1>4, <2>1 DEF LookDone, Finds, FindsNone
<1>5. ASSUME NEW t \in Threads
      PROVE  /\ \A n : Open(t, n) => wrong' = wrong
             /\ \A op, n, m, k : Change(t, op, n, m, k) => wrong' = wrong
             /\ Close(t) => wrong' = wrong
             /\ WalkValid(t) => wrong' = wrong
             /\ WalkExpired(t) => wrong' = wrong
             /\ WalkMisses(t) => wrong' = wrong
             /\ LookServed(t) => wrong' = wrong
             /\ Stat(t) => wrong' = wrong
             /\ AskDone(t) => wrong' = wrong
             /\ Setattr(t) => wrong' = wrong
             /\ SetDone(t) => wrong' = wrong
             /\ CreateServed(t) => wrong' = wrong
             /\ CreateDone(t) => wrong' = wrong
             /\ RemoveServed(t) => wrong' = wrong
             /\ RemoveDone(t) => wrong' = wrong
             /\ RenameServed(t) => wrong' = wrong
             /\ RenameDone(t) => wrong' = wrong
  BY DEF Open, Change, Close, WalkValid, WalkExpired, WalkMisses, LookServed, Stat, AskDone, Setattr,
         SetDone, CreateServed, CreateDone, RemoveServed, RemoveDone, RenameServed, RenameDone, Finds
<1>6. ASSUME NEW n \in Names PROVE (HostNames(n) => wrong' = wrong) /\ (HostAttributes(n) => wrong' = wrong)
  BY DEF HostNames, HostAttributes
<1>7. CASE UNCHANGED vars
  BY <1>7 DEF vars
<1> QED BY <1>2, <1>3, <1>4, <1>5, <1>6, <1>7 DEF Next

-----------------------------------------------------------------------------
\* A directory nobody has looked at yet.
LEMMA InitInv == Init => IInv
<1> SUFFICES ASSUME Init PROVE IInv
  OBVIOUS
<1>0. /\ host \in [Names -> Files \cup {None}] /\ file \in [Files -> [kind : Kinds, attrs : {{}}]]
      /\ de = [d \in Dentries |-> Blank] /\ call = [t \in Threads |-> Idle]
      /\ fd = [t \in Threads |-> None] /\ lock = None /\ wrong = {}
  BY DEF Init
<1>1. TypeOK
  <2>1. file \in [Files -> Infos]
    BY <1>0 DEF Infos, Attrs
  <2> QED BY <1>0, <2>1, BlankEntry, IdleCall DEF TypeOK
<1>2. Control
  BY <1>0, <1>1, IdleCall DEF Control, Locked, Changes
<1>3. Sound(de, host, call, fd)
  <2>1. Kept(de) /\ Named(de, host, call)
    BY <1>0, BlankEntry DEF Kept, Named
  <2>2. \A t \in Threads : Knows(de, call[t]) /\ InTime(de, call[t], fd[t])
    BY <1>0, IdleCall DEF Knows, InTime
  <2> QED BY <1>0, <2>1, <2>2 DEF Sound
<1>4. Fresh(de, file, call, fd) /\ Seeing /\ NoneStrays /\ NoneMissed
  BY <1>0, BlankEntry, IdleCall DEF Fresh, Good, Seeing, Sees, NoneStrays, NoneMissed
<1> QED BY <1>2, <1>3, <1>4 DEF IInv

\* Every step of the threads and of the host keeps what there is to rely on.
LEMMA Inductive == IInv /\ [Next]_vars => IInv'
<1> SUFFICES ASSUME IInv, [Next]_vars PROVE IInv'
  OBVIOUS
<1>1. Control'
  BY ControlNext DEF IInv
<1>2. Sound(de', host', call', fd')
  BY <1>1, SoundNext DEF IInv
<1>3. Fresh(de', file', call', fd')
  BY <1>1, FreshNext DEF IInv
<1>4. Seeing'
  BY <1>1, SeeingNext DEF IInv
<1>5. NoneStrays' /\ NoneMissed'
  BY WrongNext DEF IInv
<1>6. Sound(de, host, call, fd)' /\ Fresh(de, file, call, fd)'
  BY <1>2, <1>3 DEF Sound, Fresh, Kept, Named, Parting, Knows, Owns, Target, InTime, BeingSet, Good
<1> QED BY <1>1, <1>4, <1>5, <1>6 DEF IInv

\* What inode.c has at every step: who holds the directory's lock, what each
\* call knows of its dentries, which names and attributes the host shares.
THEOREM Invariance == Spec => []IInv
BY InitInv, Inductive, PTL DEF Spec

\* A request about an inode (prlfs_getattr, d_revalidate, prlfs_setattr) that
\* carries the name of the dentry is served for the inode's file, whatever
\* creations, removals and renames go on, but for the known races.
THEOREM NoRequestStrays == Spec => []NoneStrays
<1>1. IInv => NoneStrays
  BY DEF IInv
<1> QED BY <1>1, Invariance, PTL

\* Within the ttl the attributes of an inode that are taken from the host are
\* the host's, setattr's lost bits included.
THEOREM FreshOnesAgree == Spec => []FreshAgrees
<1>1. IInv => FreshAgrees
  BY DEF IInv, Fresh, Good, BeingSet, FreshAgrees, Positive
<1> QED BY <1>1, Invariance, PTL

\* prlfs_lookup and d_revalidate never let a walk miss a name that has had a
\* file all the time.
THEOREM NoNameMissed == Spec => []NoneMissed
<1>1. IInv => NoneMissed
  BY DEF IInv
<1> QED BY <1>1, Invariance, PTL

\* While nobody holds the directory's lock, a positive dentry the kernel finds
\* by its name is the only one and of the host's file, but for what the host
\* has done by itself and for dropped and replaced ones.
THEOREM KernelNamesAgree == Spec => []NamesAgree
<1>1. IInv => NamesAgree
  <2> SUFFICES ASSUME IInv, lock = None, NEW d \in Dentries, de[d].hashed, de[d].file # None
               PROVE  (de[d].loose \/ host[de[d].name] = de[d].file) /\ At(de[d].name) = {d}
    BY DEF NamesAgree, Positive, IInv, Control
  <2>1. ~de[d].unlinked /\ At(de[d].name) = {d}
    BY DEF IInv, Sound, Kept, At
  <2>2. ~Parting(call, d)
    <3> SUFFICES ASSUME NEW t \in Threads, call[t].at \in {"removed", "renamed"} PROVE FALSE
      BY DEF Parting
    <3> QED BY Nothing DEF IInv, Control, Locked, Shaped, Changes
  <2>3. de[d].loose \/ host[de[d].name] = de[d].file
    BY <2>1, <2>2 DEF IInv, Sound, Named
  <2> QED BY <2>1, <2>3
<1> QED BY <1>1, Invariance, PTL
=============================================================================
