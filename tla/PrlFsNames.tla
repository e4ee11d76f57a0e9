----------------------------- MODULE PrlFsNames -----------------------------
(***************************************************************************)
(* prl_fs: the names of a directory of a shared folder and the attributes  *)
(* of its files (inode.c).  The host knows a file by its path alone: a     *)
(* request about a dentry carries the path the dentry has when the request *)
(* is built, and the host serves it for whatever file is there by then.    *)
(* Attributes and names are trusted for a ttl after the host gave them.    *)
(*                                                                         *)
(* Walks, creations, removals and renames hold the directory's lock, but a *)
(* walk that finds its dentry holds nothing, and neither does a stat; the  *)
(* lock of an inode is held by setattr and by the removal or the rename    *)
(* that ends its name.  The host may change the directory by itself.       *)
(***************************************************************************)
EXTENDS Integers, FiniteSets

CONSTANTS
  Threads, Names, None,
  Dentries,   \* bound: dentries in memory at a time
  Files,      \* bound: files of the host that exist or are remembered
  Asks,       \* the sets of attributes a setattr is asked for
  Plain,      \* the mount has "plain": owners are the host's
  MaxEvents   \* bound: changes made by the threads and by the host, and failures

Attrs == {"mode", "uid", "gid"}

ASSUME NamesAssumption ==
  /\ None \notin Threads \cup Names \cup Dentries \cup Files
  /\ Asks \subseteq SUBSET Attrs \ {{}} /\ Plain \in BOOLEAN
  /\ MaxEvents \in Nat

Kinds == {"reg", "dir"}

VARIABLES
  host,     \* the file each name has at the host, or None
  file,     \* its kind and the attributes that were changed
  de,       \* the dentries with their inodes
  call,     \* what each thread is doing
  fd,       \* the dentry of the file each thread has open
  lock,     \* holder of the directory's lock
  events,   \* counts what MaxEvents bounds
  wrong     \* what went wrong that no known race explains

vars == <<host, file, de, call, fd, lock, events, wrong>>

Counted == events < MaxEvents /\ events' = events + 1
Fails == Counted   \* a request or an allocation fails

\* A dentry is negative when its inode is of no file.  timed: d_time is not 0,
\* so the name and the attributes may be within their ttl.  loose: the name and the
\* file are known to have parted; stale: so are the inode's and the file's
\* attributes (neither is visible to the code).
Blank == [name |-> None, file |-> None, hashed |-> FALSE, unlinked |-> FALSE,
          timed |-> FALSE, bad |-> FALSE, kind |-> "reg", attrs |-> {},
          loose |-> FALSE, stale |-> FALSE]

\* late: a name of the call's path has been changed since it was built;
\* seen: the name walked to has had a file all the time.
Idle == [op |-> "none", at |-> "idle", name |-> None, to |-> None, kind |-> "reg",
         cur |-> None, tgt |-> None, probe |-> None, path |-> None,
         ask |-> {}, set |-> {}, file |-> None, attrs |-> {}, ok |-> FALSE,
         late |-> FALSE, seen |-> FALSE]

Infos   == [kind : Kinds, attrs : SUBSET Attrs]
Entries == [name : Names \cup {None}, file : Files \cup {None}, hashed : BOOLEAN,
            unlinked : BOOLEAN, timed : BOOLEAN, bad : BOOLEAN, kind : Kinds,
            attrs : SUBSET Attrs, loose : BOOLEAN, stale : BOOLEAN]
Ops     == {"none", "open", "create", "unlink", "rename", "stat", "setattr"}
Ats     == {"idle", "walk", "looking", "looked", "asking", "answered", "setting", "set",
            "create", "created", "unlink", "removed", "rename", "renamed"}
Calls   == [op : Ops, at : Ats, name : Names \cup {None}, to : Names \cup {None}, kind : Kinds,
            cur : Dentries \cup {None}, tgt : Dentries \cup {None},
            probe : Dentries \cup {None}, path : Names \cup {None},
            ask : SUBSET Attrs, set : SUBSET Attrs, file : Files \cup {None},
            attrs : SUBSET Attrs, ok : BOOLEAN, late : BOOLEAN, seen : BOOLEAN]

TypeOK ==
  /\ host \in [Names -> Files \cup {None}]
  /\ file \in [Files -> Infos]
  /\ de \in [Dentries -> Entries]
  /\ call \in [Threads -> Calls]
  /\ fd \in [Threads -> Dentries \cup {None}]
  /\ lock \in Threads \cup {None}
  /\ wrong \subseteq {"stray", "missed"}

NoFile == [kind |-> "reg", attrs |-> {}]

Init ==
  /\ host \in [Names -> Files \cup {None}]
  /\ \A n, m \in Names : host[n] = host[m] => n = m \/ host[n] = None
  /\ file \in [Files -> [kind : Kinds, attrs : {{}}]]
  /\ \A f \in Files : (\A n \in Names : host[n] # f) => file[f] = NoFile
  /\ de = [d \in Dentries |-> Blank]
  /\ call = [t \in Threads |-> Idle]
  /\ fd = [t \in Threads |-> None]
  /\ lock = None /\ events = 0 /\ wrong = {}

HeldIn(d, calls, fds) ==
  \E t \in Threads : d \in {fds[t], calls[t].cur, calls[t].tgt, calls[t].probe}

\* The attributes an inode takes from the host.
Taken == IF Plain THEN Attrs ELSE {"mode"}

\* What nobody can look at any more is forgotten: dentries neither hashed nor
\* held, the attributes of expired ones, files the host and the guest are
\* through with.
Settle(des, files) ==
  /\ de' = [d \in Dentries |->
       IF ~des[d].hashed /\ ~HeldIn(d, call', fd') THEN Blank
       ELSE IF des[d].timed THEN des[d]
       ELSE [des[d] EXCEPT !.attrs = @ \ Taken, !.stale = FALSE]]
  /\ file' = [f \in Files |->
       IF \/ \E n \in Names : host'[n] = f
          \/ \E d \in Dentries : de'[d].file = f
          \/ \E t \in Threads : call'[t].file = f
         THEN files[f] ELSE NoFile]

Dentry(des) == Settle(des, file)

Positive(d) == de[d].file # None
At(n) == {d \in Dentries : de[d].hashed /\ de[d].name = n}

\* When memory is short a dentry that nobody holds makes room.
Unused ==
  LET free == {d \in Dentries : ~de[d].hashed /\ ~HeldIn(d, call, fd)}
  IN IF free # {} THEN free ELSE {d \in Dentries : ~HeldIn(d, call, fd)}

\* The directory's names n are about to be changed, or have just been.
Disturbed(calls, n) ==
  [u \in Threads |-> [calls[u] EXCEPT
     !.late = @ \/ calls[u].path \in n,
     !.seen = @ /\ calls[u].name \notin n]]

\* The inode's lock.
InodeLocked(d) ==
  \E u \in Threads :
    \/ call[u].at \in {"setting", "set"} /\ fd[u] = d
    \/ call[u].at = "removed" /\ call[u].cur = d
    \/ /\ call[u].at = "renamed"
       /\ call[u].tgt = d \/ (call[u].cur = d /\ de[d].kind = "reg")

Ends(t) ==
  /\ call' = [call EXCEPT ![t] = Idle]
  /\ lock' = IF lock = t THEN None ELSE lock

-----------------------------------------------------------------------------
(* The calls.                                                              *)

Open(t, n) ==
  /\ call[t].at = "idle" /\ fd[t] = None
  /\ call' = [call EXCEPT ![t] = [Idle EXCEPT !.op = "open", !.at = "walk",
                                    !.name = n, !.seen = host[n] # None]]
  /\ UNCHANGED <<host, file, de, fd, lock, events, wrong>>

\* create, mkdir, unlink, rmdir and rename.
Change(t, op, n, m, k) ==
  /\ call[t].at = "idle" /\ fd[t] = None /\ lock = None
  /\ Counted
  /\ lock' = t
  /\ call' = [call EXCEPT ![t] = [Idle EXCEPT !.op = op, !.at = "walk", !.name = n,
                                    !.to = m, !.kind = k, !.seen = host[n] # None]]
  /\ UNCHANGED <<host, file, de, fd, wrong>>

Close(t) ==
  /\ call[t].at = "idle" /\ fd[t] # None
  /\ fd' = [fd EXCEPT ![t] = None]
  /\ UNCHANGED <<host, call, lock, events, wrong>>
  /\ Dentry(de)

-----------------------------------------------------------------------------
(* A walk to a name.                                                       *)

Wanted(t) == IF call[t].cur = None THEN call[t].name ELSE call[t].to

\* What a call keeps of a walk's requests: nothing.
Rested(c) == [c EXCEPT !.probe = None, !.path = None, !.file = None, !.attrs = {},
                       !.ok = FALSE, !.late = FALSE]

\* The walk has come to dentry d, which has a file or not.
Arrives(t, d, there) ==
  LET c == Rested(call[t]) IN
  \/ /\ c.op = "open"
     /\ Ends(t)
     /\ fd' = IF there THEN [fd EXCEPT ![t] = d] ELSE fd
  \/ /\ c.op # "open"
     /\ UNCHANGED fd
     /\ \/ /\ c.op = "rename" /\ c.cur # None
           /\ call' = [call EXCEPT ![t] = [c EXCEPT
                         !.tgt = d, !.at = "rename"]]
           /\ UNCHANGED lock
        \/ /\ c.cur = None /\ there = (c.op # "create")
           /\ call' = [call EXCEPT ![t] = [c EXCEPT !.cur = d, !.seen = FALSE,
                         !.at = IF c.op = "rename" THEN "walk" ELSE c.op]]
           /\ UNCHANGED lock
        \/ /\ c.cur = None /\ there # (c.op # "create")
           /\ Ends(t)

\* The walk ends with d, or with nothing at a name that has a file.
Finds(t, d) == Arrives(t, d, TRUE) /\ UNCHANGED wrong
FindsNone(t, d) ==
  /\ Arrives(t, d, FALSE)
  /\ wrong' = IF call[t].seen THEN wrong \cup {"missed"} ELSE wrong

\* A request for the attributes of dentry d is built.
Builds(t, c, d) ==
  call' = [call EXCEPT ![t] = [c EXCEPT
             !.at = "asking", !.probe = d, !.path = de[d].name, !.late = FALSE]]

\* Seeded fault: a negative dentry is good for a ttl too.
WalkValid_Negative(t) ==
  /\ call[t].at = "walk"
  /\ UNCHANGED <<host, events>>
  /\ \E d \in At(Wanted(t)) :
       /\ de[d].timed
       /\ IF Positive(d) THEN Finds(t, d) ELSE FindsNone(t, d)
       /\ Dentry(de)

\* d_revalidate keeps a dentry for the ttl, but never a negative one.
WalkValid(t) ==
  /\ call[t].at = "walk"
  /\ UNCHANGED <<host, events>>
  /\ \E d \in At(Wanted(t)) :
       /\ Positive(d) /\ de[d].timed
       /\ Finds(t, d)
       /\ Dentry(de)

\* After the ttl it asks the host; a negative dentry is dropped, also one
\* that is just being created.
WalkExpired(t) ==
  /\ call[t].at = "walk"
  /\ UNCHANGED <<host, fd, lock, events, wrong>>
  /\ \E d \in At(Wanted(t)) :
       \/ /\ Positive(d)
          /\ Builds(t, call[t], d)
          /\ UNCHANGED <<file, de>>
       \/ /\ ~Positive(d)
          /\ UNCHANGED call
          /\ Dentry([de EXCEPT ![d].hashed = FALSE])

WalkMisses(t) ==
  /\ call[t].at = "walk"
  /\ At(Wanted(t)) = {}
  /\ lock \in {None, t} /\ lock' = t
  /\ call' = [call EXCEPT ![t].at = "looking"]
  /\ UNCHANGED <<host, file, de, fd, events, wrong>>

\* prlfs_lookup.
LookServed(t) ==
  /\ call[t].at = "looking"
  /\ LET f == host[Wanted(t)] IN
     \/ /\ call' = [call EXCEPT ![t].at = "looked", ![t].file = f,
                      ![t].attrs = IF f = None THEN {} ELSE file[f].attrs]
        /\ UNCHANGED <<lock, events>>
     \/ Fails /\ Ends(t)
  /\ UNCHANGED <<host, fd, wrong>>
  /\ Dentry(de)

\* The attributes the inode of dentry e has after an answer for file f.
Changed(e, f, a) ==
  [e EXCEPT !.attrs = (a \cap Taken) \cup (@ \ Taken),
            !.timed = TRUE,
            !.stale = f # e.file \/ file[f].attrs # a]

\* Without an inode the dentry is left negative though the name has a file.
LookDone(t) ==
  /\ call[t].at = "looked"
  /\ UNCHANGED host
  /\ \E d \in Unused :
       LET n == Wanted(t)
           f == call[t].file
           new == [Blank EXCEPT !.name = n, !.hashed = TRUE, !.timed = TRUE]
           e == [new EXCEPT !.file = f, !.kind = file[f].kind, !.loose = host[n] # f]
       IN \/ /\ f = None
             /\ FindsNone(t, d)
             /\ Dentry([de EXCEPT ![d] = new])
             /\ UNCHANGED events
          \/ /\ f # None
             /\ Finds(t, d)
             /\ Dentry([de EXCEPT ![d] = Changed(e, f, call[t].attrs)])
             /\ UNCHANGED events
          \/ /\ f # None /\ Fails
             /\ Arrives(t, d, FALSE) /\ UNCHANGED wrong
             /\ Dentry([de EXCEPT ![d] = new])

-----------------------------------------------------------------------------
(* Attributes: revalidation, getattr and setattr.                          *)

\* getattr; the cached attributes will do for a ttl.
Stat(t) ==
  /\ call[t].at = "idle" /\ fd[t] # None
  /\ LET d == fd[t] IN
     /\ ~de[d].unlinked /\ ~de[d].bad
     /\ Builds(t, [Idle EXCEPT !.op = "stat"], d)
  /\ UNCHANGED <<host, file, de, fd, lock, events, wrong>>

\* The host serves, for the file f its path has now, a request about dentry d.
Strays(t, d, f) ==
  wrong' = IF f # de[d].file /\ ~de[d].loose /\ ~call[t].late
             THEN wrong \cup {"stray"} ELSE wrong

AskServed(t) ==
  /\ call[t].at = "asking"
  /\ LET f == host[call[t].path] IN
     \/ /\ f # None
        /\ call' = [call EXCEPT ![t].at = "answered", ![t].ok = TRUE,
                      ![t].file = f, ![t].attrs = file[f].attrs]
        /\ Strays(t, call[t].probe, f)
        /\ UNCHANGED events
     \/ /\ call' = [call EXCEPT ![t].at = "answered", ![t].ok = FALSE]
        /\ UNCHANGED wrong
        /\ IF f = None THEN UNCHANGED events ELSE Fails
  /\ UNCHANGED <<host, file, de, fd, lock>>

\* The inode has been used as one of another kind: it is bad from now on, and
\* a bad inode is a regular file to the next comparison.
MadeBad(e) == [e EXCEPT !.bad = TRUE, !.kind = "reg", !.timed = TRUE, !.stale = TRUE]

\* A walk whose dentry is not valid drops it and starts again.
AskDone(t) ==
  /\ call[t].at = "answered"
  /\ UNCHANGED <<host, events>>
  /\ LET c == call[t]
         d == c.probe
         fits == c.ok /\ de[d].kind = file[c.file].kind
         e == IF fits THEN Changed(de[d], c.file, c.attrs)
              ELSE IF c.ok THEN MadeBad(de[d]) ELSE de[d]
     IN \/ /\ c.op = "stat"
           /\ Ends(t)
           /\ UNCHANGED <<fd, wrong>>
           /\ Dentry([de EXCEPT ![d] = e])
        \/ /\ c.op # "stat" /\ fits
           /\ Finds(t, d)
           /\ Dentry([de EXCEPT ![d] = e])
        \/ /\ c.op # "stat" /\ ~fits
           /\ call' = [call EXCEPT ![t] = [Rested(c) EXCEPT !.at = "walk"]]
           /\ UNCHANGED <<fd, lock, wrong>>
           /\ Dentry([de EXCEPT ![d] = [e EXCEPT !.hashed = FALSE, !.loose = TRUE]])

\* attr_to_pattr: the owner's bit replaces the bits that were set before it.
Sent(ask) == IF "gid" \in ask THEN {"gid"} ELSE IF "uid" \in ask THEN {"uid"} ELSE ask

Setattr(t) ==
  /\ call[t].at = "idle" /\ fd[t] # None
  /\ Counted
  /\ LET d == fd[t] IN
     /\ ~de[d].bad /\ ~de[d].unlinked /\ ~InodeLocked(d)
     /\ \E a \in Asks : \E s \in {{}, a} :
          call' = [call EXCEPT ![t] = [Idle EXCEPT !.op = "setattr", !.at = "setting",
                     !.path = de[d].name, !.ask = a, !.set = s]]
  /\ UNCHANGED <<host, file, de, fd, lock, wrong>>

\* The host changes the file; other inodes there are of it do not learn it.
SetServed(t) ==
  /\ call[t].at = "setting"
  /\ UNCHANGED <<host, fd, lock>>
  /\ LET f == host[call[t].path]
         sent == Sent(call[t].ask)
     IN \/ /\ f # None
           /\ call' = [call EXCEPT ![t].at = "set", ![t].ok = TRUE]
           /\ Settle([d \in Dentries |-> [de[d] EXCEPT
                        !.stale = @ \/ (de[d].file = f /\ d # fd[t])]],
                     [file EXCEPT ![f].attrs = (@ \ sent) \cup (call[t].set \cap sent)])
           /\ Strays(t, fd[t], f)
           /\ UNCHANGED events
        \/ /\ call' = [call EXCEPT ![t].at = "set"]
           /\ IF f = None THEN UNCHANGED events ELSE Fails
           /\ UNCHANGED <<file, de, wrong>>

\* Seeded fault: the cached attributes stay good after a setattr.
SetDone_Fresh(t) ==
  /\ call[t].at = "set"
  /\ Ends(t)
  /\ UNCHANGED <<host, fd, events, wrong>>
  /\ Dentry([de EXCEPT ![fd[t]].attrs =
               IF call[t].ok THEN (@ \ call[t].ask) \cup call[t].set ELSE @])

\* The inode gets all that was asked for, whatever was sent, and is expired.
SetDone(t) ==
  /\ call[t].at = "set"
  /\ Ends(t)
  /\ UNCHANGED <<host, fd, events, wrong>>
  /\ Dentry([de EXCEPT ![fd[t]].timed = FALSE,
                       ![fd[t]].attrs =
               IF call[t].ok THEN (@ \ call[t].ask) \cup call[t].set ELSE @])

-----------------------------------------------------------------------------
(* Changes of the directory, under its lock.                               *)

\* A file that is forgotten everywhere.
Forgotten(f) ==
  /\ \A n \in Names : host[n] # f
  /\ \A d \in Dentries : de[d].file # f
  /\ \A t \in Threads : call[t].file # f

\* create and mkdir open the path at the host with O_CREAT; a regular file
\* that is there already is as good.
CreateServed(t) ==
  /\ call[t].at = "create"
  /\ UNCHANGED <<fd, wrong>>
  /\ LET n == call[t].name
         k == call[t].kind
     IN \/ /\ host[n] = None
           /\ \E f \in Files :
                /\ Forgotten(f)
                /\ host' = [host EXCEPT ![n] = f]
                /\ call' = [call EXCEPT ![t].at = "created", ![t].file = f]
                /\ Settle(de, [file EXCEPT ![f].kind = k])
           /\ UNCHANGED <<lock, events>>
        \/ /\ host[n] # None /\ k = "reg" /\ file[host[n]].kind = "reg"
           /\ call' = [call EXCEPT ![t].at = "created", ![t].file = host[n]]
           /\ UNCHANGED <<host, file, de, lock, events>>
        \/ /\ Ends(t)
           /\ IF host[n] = None /\ \E f \in Files : Forgotten(f) THEN Fails ELSE UNCHANGED events
           /\ UNCHANGED host
           /\ Dentry(de)

\* mknod: the inode starts expired.  Without one the call fails though the
\* host has the file by now.
CreateDone(t) ==
  /\ call[t].at = "created"
  /\ UNCHANGED <<host, wrong>>
  /\ LET f == call[t].file
         d == call[t].cur
     IN \/ /\ Ends(t)
           /\ UNCHANGED <<fd, events>>
           /\ Dentry([de EXCEPT ![d] = [@ EXCEPT !.file = f, !.kind = call[t].kind,
                        !.timed = FALSE, !.loose = ~de[d].hashed \/ host[call[t].name] # f]])
        \/ /\ Ends(t) /\ Fails
           /\ UNCHANGED fd
           /\ Dentry([de EXCEPT ![d].timed = FALSE])

\* unlink and rmdir.
RemoveServed(t) ==
  /\ call[t].at = "unlink" /\ ~InodeLocked(call[t].cur)
  /\ LET n == call[t].name IN
     \/ /\ host[n] # None
        /\ host' = [host EXCEPT ![n] = None]
        /\ call' = Disturbed([call EXCEPT ![t].at = "removed"], {n})
        /\ UNCHANGED <<lock, events>>
     \/ /\ Ends(t)
        /\ IF host[n] = None THEN UNCHANGED events ELSE Fails
        /\ UNCHANGED host
  /\ UNCHANGED <<fd, wrong>>
  /\ Dentry(de)

\* Seeded fault: the dentry is not marked.
RemoveDone_Unmarked(t) ==
  /\ call[t].at = "removed"
  /\ call' = Disturbed([call EXCEPT ![t] = Idle], {call[t].name})
  /\ lock' = None
  /\ UNCHANGED <<host, fd, events, wrong>>
  /\ Dentry([de EXCEPT ![call[t].cur].hashed = FALSE])

\* The marked dentry, if somebody holds it, is of no more use for requests.
RemoveDone(t) ==
  /\ call[t].at = "removed"
  /\ call' = Disturbed([call EXCEPT ![t] = Idle], {call[t].name})
  /\ lock' = None
  /\ UNCHANGED <<host, fd, events, wrong>>
  /\ Dentry([de EXCEPT ![call[t].cur].unlinked = TRUE, ![call[t].cur].hashed = FALSE])

\* The file that had the new name is not marked: whoever has it open reaches
\* the renamed one from now on.
RenameServed(t) ==
  /\ call[t].at = "rename"
  /\ UNCHANGED <<fd, lock, wrong>>
  /\ LET c == call[t] IN
     /\ ~InodeLocked(c.tgt) /\ (de[c.cur].kind = "reg" => ~InodeLocked(c.cur))
     /\ \/ /\ host[c.name] # None
           /\ Positive(c.tgt) => de[c.tgt].kind = de[c.cur].kind
           /\ host' = [host EXCEPT ![c.to] = host[c.name], ![c.name] = None]
           /\ call' = Disturbed([call EXCEPT ![t].at = "renamed", ![t].ok = TRUE],
                                {c.name, c.to})
           /\ Dentry([de EXCEPT ![c.tgt].loose = TRUE])
           /\ UNCHANGED events
        \/ /\ call' = [call EXCEPT ![t].at = "renamed"]
           /\ IF host[c.name] = None \/ Positive(c.tgt) THEN UNCHANGED events ELSE Fails
           /\ UNCHANGED <<host, file, de>>

\* Seeded fault: the host's refusal is not passed on.
RenameDone_Refused(t) ==
  /\ call[t].at = "renamed"
  /\ LET c == call[t] IN
     /\ lock' = None
     /\ call' = Disturbed([call EXCEPT ![t] = Idle], {c.name, c.to})
     /\ UNCHANGED <<host, fd, events, wrong>>
     /\ Dentry([de EXCEPT
          ![c.cur] = [@ EXCEPT !.name = c.to, !.timed = FALSE, !.hashed = TRUE],
          ![c.tgt] = [@ EXCEPT !.hashed = FALSE, !.timed = FALSE]])

\* Both dentries are expired, and if all went well the kernel moves the name.
RenameDone(t) ==
  /\ call[t].at = "renamed"
  /\ LET c == call[t] IN
     /\ lock' = None
     /\ UNCHANGED <<host, fd, events, wrong>>
     /\ \/ /\ c.ok
           /\ call' = Disturbed([call EXCEPT ![t] = Idle], {c.name, c.to})
           /\ LET loose == de[c.cur].loose \/ host[c.to] # de[c.cur].file IN
              Dentry([de EXCEPT
                ![c.cur] = [@ EXCEPT !.name = c.to, !.timed = FALSE, !.hashed = TRUE,
                                     !.loose = loose],
                ![c.tgt] = [@ EXCEPT !.hashed = FALSE, !.timed = FALSE]])
        \/ /\ ~c.ok
           /\ call' = [call EXCEPT ![t] = Idle]
           /\ Dentry([de EXCEPT ![c.cur].timed = FALSE, ![c.tgt].timed = FALSE])

-----------------------------------------------------------------------------
(* The host by itself.                                                     *)

\* The name n is given another file or none.
HostNames(n) ==
  /\ Counted
  /\ UNCHANGED <<fd, lock, wrong>>
  /\ call' = Disturbed(call, {n})
  /\ LET parted == [d \in Dentries |-> [de[d] EXCEPT
                     !.loose = @ \/ (de[d].name = n /\ Positive(d))]]
     IN \/ /\ host[n] # None
           /\ host' = [host EXCEPT ![n] = None]
           /\ Dentry(parted)
        \/ \E f \in Files : \E k \in Kinds :
             /\ Forgotten(f)
             /\ host' = [host EXCEPT ![n] = f]
             /\ Settle(parted, [file EXCEPT ![f] = [kind |-> k, attrs |-> {"mode"}]])

HostAttributes(n) ==
  /\ Counted
  /\ host[n] # None
  /\ UNCHANGED <<host, call, fd, lock, wrong>>
  /\ Settle([d \in Dentries |-> [de[d] EXCEPT !.stale = @ \/ de[d].file = host[n]]],
            [file EXCEPT ![host[n]].attrs = {"mode"} \ @])

-----------------------------------------------------------------------------
Next ==
  \/ \E t \in Threads :
       \/ \E n \in Names : Open(t, n)
       \/ \E n \in Names : \E k \in Kinds : Change(t, "create", n, None, k)
       \/ \E n \in Names : Change(t, "unlink", n, None, "reg")
       \/ \E n, m \in Names : n # m /\ Change(t, "rename", n, m, "reg")
       \/ Close(t)
       \/ WalkValid(t) \/ WalkExpired(t) \/ WalkMisses(t)
       \/ LookServed(t) \/ LookDone(t)
       \/ Stat(t) \/ AskServed(t) \/ AskDone(t)
       \/ Setattr(t) \/ SetServed(t) \/ SetDone(t)
       \/ CreateServed(t) \/ CreateDone(t)
       \/ RemoveServed(t) \/ RemoveDone(t)
       \/ RenameServed(t) \/ RenameDone(t)
  \/ \E n \in Names : HostNames(n) \/ HostAttributes(n)

Spec == Init /\ [][Next]_vars

-----------------------------------------------------------------------------
(* A request about an inode reaches its file.  The code sends a path and   *)
(* marks only unlinked dentries, so the exceptions are: the name was       *)
(* changed while the request was under way, a rename has replaced the      *)
(* dentry, a failed revalidation has dropped it, the host gave its name    *)
(* away.                                                                   *)
NoneStrays == "stray" \notin wrong

(* What the code shows of a file within the ttl is what the host has,      *)
(* however setattr, stats and walks of several threads overlap, setattr's  *)
(* lost bits included; unless the host changed the file, the answer was    *)
(* overtaken, or the change was made through another inode of the file.    *)
FreshAgrees ==
  \A d \in Dentries :
    de[d].timed /\ Positive(d) /\ ~de[d].stale
    /\ (\A t \in Threads : ~(call[t].at = "set" /\ fd[t] = d))
      => \A a \in Taken :
           a \in de[d].attrs <=> a \in file[de[d].file].attrs

(* A name that has had a file during the whole of a walk is not reported   *)
(* missing, though creations fail after the host has done its part.        *)
NoneMissed == "missed" \notin wrong

(* When nobody changes the directory, a name the kernel knows is of the    *)
(* host's file, through refused and failed creations, removals and renames;*)
(* and it knows no name twice.  (With the type invariant.)                 *)
NamesAgree ==
  /\ TypeOK
  /\ lock = None =>
       \A d \in Dentries : de[d].hashed /\ Positive(d) =>
         /\ de[d].loose \/ host[de[d].name] = de[d].file
         /\ At(de[d].name) = {d}
=============================================================================
