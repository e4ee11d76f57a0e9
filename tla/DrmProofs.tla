----------------------------- MODULE DrmProofs -----------------------------
(***************************************************************************)
(* The two parts of prldrm.c.                                              *)
(*                                                                         *)
(* The display, for any number of threads, requests, areas and             *)
(* framebuffers: no drawn area is lost; unless two calls start or stop to  *)
(* share at once, one request is outstanding at most and none is cancelled *)
(* twice; and mode_cur is the mode of the head, unless it has strayed.     *)
(* The argument: without a race one call at a time is between its look at  *)
(* `pending' and its end, and where it is says where the one request is    *)
(* (Sharing).  The head shows the framebuffer of the call that has set the *)
(* mode and not noted it, or else what is noted (Heading).                 *)
(*                                                                         *)
(* The images, for any number of files, objects, owners and pbuffers:      *)
(* owners are counted right, no image loses its pbuffer, and nothing is    *)
(* left when all files are closed.  The argument: an object has no more    *)
(* references than images that are bound to it, an image has as many as    *)
(* it counts of different owners, all open, and no two have one pbuffer    *)
(* (Kept).                                                                 *)
(***************************************************************************)
EXTENDS DrmDisplay, DrmImages, TLAPS, FiniteSetTheorems, WellFoundedInduction

Outstanding == {"held", "answered"}

\* A busy call and the request.
Sharing ==
  ~raced =>
    /\ ~corrupt
    /\ \A t, u \in Threads : at[t].pc \in Busy /\ at[u].pc \in Busy => t = u
    /\ \A t \in Threads :
         /\ at[t].pc = "new" => phase[at[t].req] = "new" /\ pending = None
         /\ at[t].pc = "sent" => phase[at[t].req] \in Outstanding /\ pending = None
         /\ at[t].pc = "stop" => pending # None /\ phase[pending] \in Outstanding
         /\ at[t].pc = "cancel" => pending = at[t].req /\ phase[pending] \in Outstanding
         /\ at[t].pc = "freed" => /\ \A r \in Reqs : phase[r] = "idle"
                                  /\ pending # None => pending = at[t].req
    /\ pending # None =>
         phase[pending] \in Outstanding \/ \E t \in Threads : at[t].pc = "freed"
    /\ \A r \in Reqs : phase[r] # "idle" =>
         r = pending \/ \E t \in Threads : at[t].pc \in {"new", "sent"} /\ at[t].req = r
    /\ removed => pending = None /\ \A t \in Threads : at[t].pc \notin Busy

\* What the head shows.
Heading ==
  /\ \A t \in Threads : at[t].pc = "off" => at[t].fb = 0
  /\ ~strayed =>
       /\ \A t \in Threads : at[t].pc = "cache" => shown = at[t].fb
       /\ modeCur # 0 /\ (\A t \in Threads : at[t].pc # "cache") => shown = modeCur

IInv == TypeOK /\ Sharing /\ NoDirtLost /\ Heading

-----------------------------------------------------------------------------
LEMMA TypeInit == Init => TypeOK
<1> SUFFICES ASSUME Init PROVE TypeOK
  OBVIOUS
<1>1. /\ raced \in BOOLEAN /\ strayed \in BOOLEAN /\ corrupt \in BOOLEAN
      /\ removed \in BOOLEAN /\ svga \in BOOLEAN
  BY DEF Init
<1>2. at \in [Threads -> Ops]
  BY DEF Init, Quiet, Ops, PCs, Kinds
<1> QED BY <1>1, <1>2 DEF Init, TypeOK, Quiet, C!CInit, C!Phases

\* Whoever has sent or cancels a request has one.
Named == \A t \in Threads : at[t].pc \in {"new", "sent", "cancel"} => at[t].req # None

LEMMA QuietOp == Quiet \in Ops /\ Quiet.pc = "idle"
BY DEF Quiet, Ops, PCs, Kinds

LEMMA AtChanged ==
  ASSUME at \in [Threads -> Ops], Named,
         NEW t \in Threads, NEW o \in Ops, at' = [at EXCEPT ![t] = o],
         o.pc \in {"new", "sent", "cancel"} => o.req # None
  PROVE  at' \in [Threads -> Ops] /\ Named'
BY DEF Named

\* The calls whose next place depends on what they find.
LEMMA AtNext ==
  ASSUME TypeOK, NEW t \in Threads,
         \/ Started(t)
         \/ \E kind \in {"unmap", "drop", "remove"} : Stop(t, kind)
         \/ Cancel(t) \/ LeaveMode(t)
  PROVE  at' \in [Threads -> Ops] /\ Named'
<1>1. at \in [Threads -> Ops] /\ Named /\ pending \in Reqs \cup {None}
  BY DEF TypeOK, Named
<1>2. CASE Started(t)
  <2>1. \/ at' = [at EXCEPT ![t] = Quiet]
        \/ at' = [at EXCEPT ![t] = [at[t] EXCEPT !.pc = "offset", !.req = None]]
    BY <1>1, <1>2 DEF Started, Then
  <2>2. CASE at' = [at EXCEPT ![t] = Quiet]
    BY <1>1, <2>2, QuietOp, AtChanged
  <2>3. CASE at' = [at EXCEPT ![t] = [at[t] EXCEPT !.pc = "offset", !.req = None]]
    <3> DEFINE n == [at[t] EXCEPT !.pc = "offset", !.req = None]
    <3>1. n \in Ops /\ n.pc = "offset"
      <4>1. "offset" \in PCs /\ at[t] \in Ops
        BY <1>1 DEF PCs
      <4> QED BY <4>1 DEF Ops
    <3> HIDE DEF n
    <3>2. at' = [at EXCEPT ![t] = n]
      BY <2>3 DEF n
    <3> QED BY <1>1, <3>1, <3>2, AtChanged
  <2> QED BY <2>1, <2>2, <2>3
<1>3. ASSUME NEW kind \in {"unmap", "drop", "remove"}, Stop(t, kind)
      PROVE  at' \in [Threads -> Ops] /\ Named'
  <2>1. \/ at' = [at EXCEPT ![t] = [Quiet EXCEPT !.pc = "stop", !.kind = kind]]
        \/ at' = [at EXCEPT ![t] = [Quiet EXCEPT !.pc = "leave", !.kind = kind]]
        \/ at' = [at EXCEPT ![t] = Quiet]
    BY <1>3 DEF Stop, Leave
  <2>2. kind \in Kinds
    BY <1>3 DEF Kinds
  <2>3. CASE at' = [at EXCEPT ![t] = Quiet]
    BY <1>1, <2>3, QuietOp, AtChanged
  <2>4. ASSUME NEW pc \in {"stop", "leave"},
               at' = [at EXCEPT ![t] = [Quiet EXCEPT !.pc = pc, !.kind = kind]]
        PROVE  at' \in [Threads -> Ops] /\ Named'
    <3> DEFINE n == [Quiet EXCEPT !.pc = pc, !.kind = kind]
    <3>1. n \in Ops /\ n.pc = pc
      <4>1. pc \in PCs
        BY DEF PCs
      <4>2. Quiet \in Ops
        BY QuietOp
      <4> QED BY <2>2, <4>1, <4>2 DEF Ops
    <3> HIDE DEF n
    <3>2. at' = [at EXCEPT ![t] = n]
      BY <2>4 DEF n
    <3> QED BY <1>1, <3>1, <3>2, AtChanged
  <2> QED BY <2>1, <2>3, <2>4
<1>4. CASE Cancel(t)
  <2>1. \/ at' = [at EXCEPT ![t] = [at[t] EXCEPT !.pc = "freed", !.req = pending]]
        \/ at' = [at EXCEPT ![t] = [at[t] EXCEPT !.pc = "cancel", !.req = pending]] /\ pending # None
    BY <1>1, <1>4 DEF Cancel
  <2>2. ASSUME NEW pc \in {"freed", "cancel"}, pc = "cancel" => pending # None,
               at' = [at EXCEPT ![t] = [at[t] EXCEPT !.pc = pc, !.req = pending]]
        PROVE  at' \in [Threads -> Ops] /\ Named'
    <3> DEFINE n == [at[t] EXCEPT !.pc = pc, !.req = pending]
    <3>1. n \in Ops /\ n.pc = pc /\ n.req = pending
      <4>1. pc \in PCs /\ at[t] \in Ops
        BY <1>1 DEF PCs
      <4> QED BY <1>1, <4>1 DEF Ops
    <3> HIDE DEF n
    <3>2. at' = [at EXCEPT ![t] = n]
      BY <2>2 DEF n
    <3> QED BY <1>1, <2>2, <3>1, <3>2, AtChanged
  <2> QED BY <2>1, <2>2
<1>5. CASE LeaveMode(t)
  <2>1. \/ at' = [at EXCEPT ![t] = [at[t] EXCEPT !.pc = "mode", !.fb = 1]]
        \/ at' = [at EXCEPT ![t] = Quiet]
    BY <1>1, <1>5 DEF LeaveMode
  <2>2. CASE at' = [at EXCEPT ![t] = Quiet]
    BY <1>1, <2>2, QuietOp, AtChanged
  <2>3. CASE at' = [at EXCEPT ![t] = [at[t] EXCEPT !.pc = "mode", !.fb = 1]]
    <3> DEFINE n == [at[t] EXCEPT !.pc = "mode", !.fb = 1]
    <3>1. n \in Ops /\ n.pc = "mode"
      <4>1. "mode" \in PCs /\ at[t] \in Ops /\ 1 \in Fbs \cup {0}
        BY <1>1, DisplayAssumption DEF PCs
      <4> QED BY <4>1 DEF Ops
    <3> HIDE DEF n
    <3>2. at' = [at EXCEPT ![t] = n]
      BY <2>3 DEF n
    <3> QED BY <1>1, <3>1, <3>2, AtChanged
  <2> QED BY <2>1, <2>2, <2>3
<1> QED BY <1>2, <1>3, <1>4, <1>5

LEMMA TypeNext == TypeOK /\ [Next]_vars => TypeOK'
<1> SUFFICES ASSUME TypeOK, [Next]_vars PROVE TypeOK'
  OBVIOUS
<1> USE DisplayAssumption DEF TypeOK, Ops, PCs, Kinds, Quiet, request, sharing, head, At, Idle,
      C!Step, C!Phases, C!Answers
<1>1. ASSUME NEW t \in Threads, NEW kind \in Kinds, NEW fb \in Fbs \cup {0},
             NEW area \in SUBSET Areas, Start(t, kind, fb, area)
      PROVE  TypeOK'
  <2>1. raced' \in BOOLEAN
    BY <1>1, Zenon DEF Start
  <2> QED BY <1>1, <2>1 DEF Start, C!Begin
<1>2. ASSUME NEW t \in Threads, Submit(t) PROVE TypeOK'
  BY <1>2 DEF Submit, C!Hand
<1>3. ASSUME NEW t \in Threads, Started(t) PROVE TypeOK'
  <2>1. at' \in [Threads -> Ops] /\ Named'
    BY <1>3, AtNext
  <2>2. pending' \in Reqs \cup {None}
    BY <1>3 DEF Started
  <2>3. phase' \in [Reqs -> C!Phases] /\ answer' \in [Reqs -> C!Answers \cup {"PENDING"}]
    BY <1>3 DEF Started, C!Return
  <2> QED BY <1>3, <2>1, <2>2, <2>3 DEF Started, Named
<1>4. ASSUME NEW t \in Threads, NEW fb \in Fbs, NEW area \in SUBSET Areas, Shared(t, fb, area)
      PROVE  TypeOK'
  BY <1>4 DEF Shared
<1>5. ASSUME NEW t \in Threads, NEW kind \in {"unmap", "drop", "remove"}, Stop(t, kind)
      PROVE  TypeOK'
  <2>1. raced' \in BOOLEAN /\ removed' \in BOOLEAN
    BY <1>5, Zenon DEF Stop
  <2>2. at' \in [Threads -> Ops] /\ Named'
    BY <1>5, AtNext
  <2> QED BY <1>5, <2>1, <2>2 DEF Stop, Named
<1>6. ASSUME NEW t \in Threads, Cancel(t) PROVE TypeOK'
  <2>1. at' \in [Threads -> Ops] /\ Named'
    BY <1>6, AtNext
  <2> QED BY <1>6, <2>1 DEF Cancel, Named
<1>7. ASSUME NEW t \in Threads, Cancelled(t) PROVE TypeOK'
  <2>1. at' = [at EXCEPT ![t] = [@ EXCEPT !.pc = "freed"]]
    BY <1>7 DEF Cancelled
  <2>2. corrupt' \in BOOLEAN
    BY <1>7 DEF Cancelled
  <2>3. phase' \in [Reqs -> C!Phases] /\ answer' \in [Reqs -> C!Answers \cup {"PENDING"}]
    BY <1>7 DEF Cancelled, C!Return
  <2> QED BY SMTT(40), <1>7, <2>1, <2>2, <2>3 DEF Cancelled
<1>8. ASSUME NEW t \in Threads, Stopped(t) PROVE TypeOK'
  <2>1. removed' \in BOOLEAN
    BY <1>8, Zenon DEF Stopped
  <2> QED BY <1>8, <2>1 DEF Stopped, Leave
<1>9. ASSUME NEW t \in Threads, SetOffset(t) PROVE TypeOK'
  <2>1. strayed' \in BOOLEAN
    BY <1>9, Zenon DEF SetOffset
  <2> QED BY <1>9, <2>1 DEF SetOffset, DirtyOffset
<1>10. ASSUME NEW t \in Threads, ReadBounds(t) PROVE TypeOK'
  BY <1>10 DEF ReadBounds
<1>11. ASSUME NEW t \in Threads, WriteBounds(t) PROVE TypeOK'
  BY <1>11 DEF WriteBounds
<1>12. ASSUME NEW t \in Threads, NEW fb \in Fbs, Flip(t, fb) PROVE TypeOK'
  BY <1>12 DEF Flip
<1>13. ASSUME NEW t \in Threads, LeaveMode(t) PROVE TypeOK'
  <2>1. at' \in [Threads -> Ops] /\ Named'
    BY <1>13, AtNext
  <2>2. svga' \in BOOLEAN
    BY <1>13 DEF LeaveMode
  <2> QED BY <1>13, <2>1, <2>2 DEF LeaveMode, Named
<1>14. ASSUME NEW t \in Threads, SetMode(t) PROVE TypeOK'
  <2>1. strayed' \in BOOLEAN
    BY <1>14, Zenon DEF SetMode, Setting
  <2>2. svga' \in BOOLEAN
    BY <1>14 DEF SetMode
  <2>3. shown' \in Fbs \cup {0}
    BY <1>14 DEF SetMode
  <2> QED BY <1>14, <2>1, <2>2, <2>3 DEF SetMode
<1>15. ASSUME NEW t \in Threads, NoteMode(t) PROVE TypeOK'
  BY <1>15 DEF NoteMode
<1>16. ASSUME NEW t \in Threads, Disable(t) PROVE TypeOK'
  BY <1>16 DEF Disable
<1>17. ASSUME NEW t \in Threads, DisableHost(t) PROVE TypeOK'
  <2>1. strayed' \in BOOLEAN
    BY <1>17, Zenon DEF DisableHost
  <2> QED BY <1>17, <2>1 DEF DisableHost
<1>18. ASSUME NEW t \in Threads, Activate(t) PROVE TypeOK'
  BY <1>18 DEF Activate
<1>19. ASSUME HostTakes PROVE TypeOK'
  BY <1>19 DEF HostTakes
<1>20. ASSUME HostRequest PROVE TypeOK'
  BY <1>20 DEF HostRequest, C!HostAnswers, C!Again
<1>21. ASSUME UNCHANGED vars PROVE TypeOK'
  BY <1>21 DEF vars
<1>22. ASSUME NEW t \in Threads, Sharers(t) PROVE TypeOK'
  BY <1>1, <1>4, <1>22 DEF Sharers, Draws, Moves
<1> QED
  BY <1>2, <1>3, <1>5, <1>6, <1>7, <1>8, <1>9, <1>10, <1>11, <1>12, <1>13, <1>14, <1>15, <1>16,
     <1>17, <1>18, <1>19, <1>20, <1>21, <1>22
  DEF Next

\* What a call does that stops sharing, or finds nothing to stop.
LEMMA StopAt ==
  ASSUME at \in [Threads -> Ops], NEW t \in Threads,
         NEW kind \in {"unmap", "drop", "remove"}, Stop(t, kind)
  PROVE  /\ at[t].pc = "idle"
         /\ \A u \in Threads \ {t} : at'[u] = at[u]
         /\ pending # None => at'[t].pc = "stop"
         /\ pending = None => at'[t].pc \in {"idle", "leave"}
<1>1. ASSUME NEW pc, at' = [at EXCEPT ![t] = [Quiet EXCEPT !.pc = pc, !.kind = kind]]
      PROVE  at'[t].pc = pc /\ \A u \in Threads \ {t} : at'[u] = at[u]
  <2> DEFINE n == [Quiet EXCEPT !.pc = pc, !.kind = kind]
  <2>1. n.pc = pc
    BY DEF Quiet
  <2> HIDE DEF n
  <2>2. at' = [at EXCEPT ![t] = n]
    BY <1>1 DEF n
  <2> QED BY <2>1, <2>2
<1>2. CASE at' = [at EXCEPT ![t] = Quiet] /\ pending = None
  <2>1. at'[t].pc = "idle" /\ \A u \in Threads \ {t} : at'[u] = at[u]
    BY <1>2, QuietOp
  <2> QED BY <1>2, <2>1 DEF Stop, Idle, At
<1>3. \/ pending # None /\ at' = [at EXCEPT ![t] = [Quiet EXCEPT !.pc = "stop", !.kind = kind]]
      \/ pending = None /\ at' = [at EXCEPT ![t] = [Quiet EXCEPT !.pc = "leave", !.kind = kind]]
      \/ pending = None /\ at' = [at EXCEPT ![t] = Quiet]
  BY DEF Stop, Leave
<1>4. at[t].pc = "idle"
  BY DEF Stop, Idle, At
<1> QED BY <1>1, <1>2, <1>3, <1>4

-----------------------------------------------------------------------------
LEMMA HeadingNext == TypeOK /\ Heading /\ [Next]_vars => Heading'
<1> SUFFICES ASSUME TypeOK, Heading, [Next]_vars PROVE Heading'
  OBVIOUS
<1> at \in [Threads -> Ops]
  BY DEF TypeOK
<1> USE DisplayAssumption DEF Heading, Ops, PCs, Kinds, Quiet, sharing, head, At, Idle
<1>1. ASSUME NEW t \in Threads, NEW kind \in Kinds, NEW fb \in Fbs \cup {0},
             NEW area \in SUBSET Areas, Start(t, kind, fb, area)
      PROVE  Heading'
  BY <1>1 DEF Start
<1>2. ASSUME NEW t \in Threads, Submit(t) PROVE Heading'
  BY <1>2 DEF Submit
<1>3. ASSUME NEW t \in Threads, Started(t) PROVE Heading'
  BY <1>3 DEF Started, Then
<1>4. ASSUME NEW t \in Threads, NEW fb \in Fbs, NEW area \in SUBSET Areas, Shared(t, fb, area)
      PROVE  Heading'
  BY <1>4 DEF Shared
<1>5. ASSUME NEW t \in Threads, NEW kind \in {"unmap", "drop", "remove"}, Stop(t, kind)
      PROVE  Heading'
  <2>1. shown' = shown /\ modeCur' = modeCur /\ strayed' = strayed
    BY <1>5 DEF Stop
  <2>2. at'[t].pc \notin {"off", "cache"} /\ at[t].pc # "cache"
    BY <1>5, StopAt
  <2>3. \A u \in Threads \ {t} : at'[u] = at[u]
    BY <1>5, StopAt
  <2> QED BY <2>1, <2>2, <2>3
<1>6. ASSUME NEW t \in Threads, Cancel(t) PROVE Heading'
  BY <1>6 DEF Cancel
<1>7. ASSUME NEW t \in Threads, Cancelled(t) PROVE Heading'
  BY <1>7 DEF Cancelled
<1>8. ASSUME NEW t \in Threads, Stopped(t) PROVE Heading'
  BY <1>8 DEF Stopped, Leave
<1>9. ASSUME NEW t \in Threads, SetOffset(t) PROVE Heading'
  BY <1>9 DEF SetOffset
<1>10. ASSUME NEW t \in Threads, ReadBounds(t) PROVE Heading'
  BY <1>10 DEF ReadBounds
<1>11. ASSUME NEW t \in Threads, WriteBounds(t) PROVE Heading'
  BY <1>11 DEF WriteBounds
<1>12. ASSUME NEW t \in Threads, NEW fb \in Fbs, Flip(t, fb) PROVE Heading'
  BY <1>12 DEF Flip
<1>13. ASSUME NEW t \in Threads, LeaveMode(t) PROVE Heading'
  BY <1>13 DEF LeaveMode
<1>14. ASSUME NEW t \in Threads, SetMode(t) PROVE Heading'
  BY ZenonT(40), <1>14 DEF SetMode, Setting
<1>15. ASSUME NEW t \in Threads, NoteMode(t) PROVE Heading'
  BY <1>15 DEF NoteMode
<1>16. ASSUME NEW t \in Threads, Disable(t) PROVE Heading'
  BY <1>16 DEF Disable
<1>17. ASSUME NEW t \in Threads, DisableHost(t) PROVE Heading'
  <2>1. at' = [at EXCEPT ![t] = Quiet] /\ at[t].fb = 0 /\ modeCur' = modeCur
    BY <1>17 DEF DisableHost
  <2>2. CASE strayed'
    BY <1>17, <2>1, <2>2
  <2>3. CASE ~strayed'
    <3>1. ~strayed /\ ~Setting(t) /\ modeCur = 0
      BY <1>17, <2>1, <2>3 DEF DisableHost
    <3>2. \A u \in Threads : at'[u].pc # "cache"
      BY <1>17, <2>1, <3>1 DEF DisableHost, Setting
    <3> QED BY <2>1, <3>1, <3>2
  <2> QED BY <2>2, <2>3
<1>18. ASSUME NEW t \in Threads, Activate(t) PROVE Heading'
  BY <1>18 DEF Activate
<1>19. ASSUME HostTakes \/ HostRequest \/ UNCHANGED vars PROVE Heading'
  BY <1>19 DEF HostTakes, HostRequest, vars
<1>20. ASSUME NEW t \in Threads, Sharers(t) PROVE Heading'
  BY <1>1, <1>4, <1>20 DEF Sharers, Draws, Moves
<1> QED
  BY <1>2, <1>3, <1>5, <1>6, <1>7, <1>8, <1>9, <1>10, <1>11, <1>12, <1>13, <1>14, <1>15, <1>16,
     <1>17, <1>18, <1>19, <1>20
  DEF Next

-----------------------------------------------------------------------------
LEMMA SharingNext == TypeOK /\ Sharing /\ [Next]_vars => Sharing'
<1> SUFFICES ASSUME TypeOK, Sharing, [Next]_vars PROVE Sharing'
  OBVIOUS
<1>a. /\ at \in [Threads -> Ops] /\ Named
      /\ phase \in [Reqs -> C!Phases] /\ pending \in Reqs \cup {None}
  BY DEF TypeOK, Named
<1> USE DisplayAssumption, <1>a DEF Sharing, Outstanding, Named, Ops, Quiet, Busy, request,
      sharing, head, At, Idle, C!Step, C!Phases
<1>1. ASSUME NEW t \in Threads, NEW kind, NEW fb, NEW area, Start(t, kind, fb, area)
      PROVE  Sharing'
  <2>1. PICK r \in Reqs :
           /\ phase[r] = "idle" /\ phase' = [phase EXCEPT ![r] = "new"]
           /\ at' = [at EXCEPT ![t] = [pc |-> "new", kind |-> kind, req |-> r,
                                       fb |-> fb, area |-> area, cmp |-> {}]]
    BY <1>1 DEF Start, C!Begin
  <2>2. /\ at'[t].pc = "new" /\ at'[t].req = r /\ at[t].pc = "idle"
        /\ \A u \in Threads \ {t} : at'[u] = at[u]
    BY <1>1, <2>1 DEF Start
  <2>3. /\ pending = None /\ pending' = None /\ ~removed /\ ~removed' /\ ~corrupt /\ ~corrupt'
        /\ raced' = (raced \/ Overlaps(t))
    BY <1>1 DEF Start
  <2>4. CASE raced \/ Overlaps(t)
    BY <2>3, <2>4
  <2>5. CASE ~raced /\ ~Overlaps(t)
    <3>1. \A u \in Threads : at[u].pc \notin Busy
      BY <2>2, <2>5 DEF Overlaps
    <3>2. \A q \in Reqs : phase[q] = "idle"
      BY <2>3, <2>5, <3>1
    <3> QED BY <2>1, <2>2, <2>3, <3>1, <3>2
  <2> QED BY <2>4, <2>5
<1>2. ASSUME NEW t \in Threads, Submit(t) PROVE Sharing'
  BY <1>2 DEF Submit, C!Hand
<1>3. ASSUME NEW t \in Threads, Started(t) PROVE Sharing'
  BY <1>3 DEF Started, Then, Answered, C!Return
<1>4. ASSUME NEW t \in Threads, NEW fb, NEW area, Shared(t, fb, area) PROVE Sharing'
  BY <1>4 DEF Shared
<1>5. ASSUME NEW t \in Threads, NEW kind \in {"unmap", "drop", "remove"}, Stop(t, kind)
      PROVE  Sharing'
  <2>1. /\ at[t].pc = "idle" /\ \A u \in Threads \ {t} : at'[u] = at[u]
        /\ pending # None => at'[t].pc = "stop"
        /\ pending = None => at'[t].pc \in {"idle", "leave"}
    BY <1>5, StopAt
  <2>2. phase' = phase /\ pending' = pending /\ corrupt' = corrupt
    BY <1>5 DEF Stop
  <2>3. CASE pending # None
    <3>1. removed' = removed /\ raced' = (raced \/ Overlaps(t))
      BY <1>5, <2>3 DEF Stop
    <3>2. CASE raced \/ Overlaps(t)
      BY <3>1, <3>2
    <3>3. CASE ~raced /\ ~Overlaps(t)
      <4>1. \A u \in Threads : at[u].pc \notin Busy
        BY <2>1, <3>3 DEF Overlaps
      <4>2. phase[pending] \in Outstanding /\ \A r \in Reqs : phase[r] # "idle" => r = pending
        BY <2>3, <3>3, <4>1
      <4> QED BY <2>1, <2>2, <2>3, <3>1, <3>3, <4>1, <4>2
    <3> QED BY <3>2, <3>3
  <2>4. CASE pending = None
    <3>1. raced' = raced /\ (removed' => \A u \in Threads \ {t} : at[u].pc = "idle")
      BY <1>5, <2>4 DEF Stop, Unregistered
    <3> QED BY <2>1, <2>2, <2>4, <3>1
  <2> QED BY <2>3, <2>4
<1>6. ASSUME NEW t \in Threads, Cancel(t) PROVE Sharing'
  BY <1>6 DEF Cancel
<1>7. ASSUME NEW t \in Threads, Cancelled(t) PROVE Sharing'
  BY <1>7 DEF Cancelled, Answered, C!Return
<1>8. ASSUME NEW t \in Threads, Stopped(t) PROVE Sharing'
  BY <1>8 DEF Stopped, Leave
<1>9. ASSUME NEW t \in Threads, SetOffset(t) \/ ReadBounds(t) \/ WriteBounds(t) PROVE Sharing'
  BY <1>9 DEF SetOffset, ReadBounds, WriteBounds
<1>10. ASSUME NEW t \in Threads, NEW fb, Flip(t, fb) PROVE Sharing'
  BY <1>10 DEF Flip
<1>11. ASSUME NEW t \in Threads, LeaveMode(t) PROVE Sharing'
  BY SMTT(40), <1>11 DEF LeaveMode
<1>12. ASSUME NEW t \in Threads, SetMode(t) \/ NoteMode(t) \/ DisableHost(t) PROVE Sharing'
  BY <1>12 DEF SetMode, NoteMode, DisableHost
<1>16. ASSUME NEW t \in Threads, Disable(t) PROVE Sharing'
  <2>1. /\ at[t].pc = "idle" /\ at'[t].pc = "off"
        /\ \A u \in Threads \ {t} : at'[u] = at[u]
    BY <1>16 DEF Disable
  <2> QED BY <1>16, <2>1 DEF Disable
<1>13. ASSUME NEW t \in Threads, Activate(t) PROVE Sharing'
  BY <1>13 DEF Activate
<1>14. ASSUME HostTakes \/ UNCHANGED vars PROVE Sharing'
  BY <1>14 DEF HostTakes, vars
<1>15. ASSUME HostRequest PROVE Sharing'
  BY <1>15 DEF HostRequest, C!HostAnswers, C!Again
<1>17. ASSUME NEW t \in Threads, Sharers(t) PROVE Sharing'
  BY <1>1, <1>4, <1>17 DEF Sharers, Draws, Moves
<1> HIDE DisplayAssumption, <1>a DEF Sharing, Outstanding, Named, Ops, Quiet, Busy, request, sharing, head
<1> QED
  BY <1>2, <1>3, <1>5, <1>6, <1>7, <1>8, <1>9, <1>10, <1>11, <1>12, <1>13, <1>14, <1>15, <1>16,
     <1>17
  DEF Next

-----------------------------------------------------------------------------
LEMMA InitInv == Init => IInv
<1> SUFFICES ASSUME Init PROVE IInv
  OBVIOUS
<1>1. \A t \in Threads : at[t].pc = "idle"
  BY DEF Init, Quiet
<1> QED
  BY <1>1, TypeInit DEF Init, IInv, Sharing, Heading, NoDirtLost, Busy, C!CInit

\* The bounds only grow, but for what the host takes.
LEMMA DirtNext == NoDirtLost /\ [Next]_vars => NoDirtLost'
<1> SUFFICES ASSUME NoDirtLost, [Next]_vars PROVE NoDirtLost'
  OBVIOUS
<1> USE DEF NoDirtLost, sharing
<1>1. ASSUME NEW t \in Threads, ReadBounds(t) \/ WriteBounds(t) PROVE NoDirtLost'
  BY <1>1 DEF ReadBounds, WriteBounds
<1>2. ASSUME HostTakes PROVE NoDirtLost'
  BY <1>2 DEF HostTakes
<1>3. ASSUME dirt' = dirt, bounds' = bounds PROVE NoDirtLost'
  BY <1>3
<1> QED
  BY <1>1, <1>2, <1>3
  DEF Next, Sharers, Draws, Moves, Start, Shared, Submit, Started, Stop, Cancel, Cancelled, Stopped,
      SetOffset, Flip, LeaveMode, SetMode, NoteMode, Disable, DisableHost, Activate, HostRequest, vars

LEMMA Inductive == Spec => []IInv
<1>1. IInv /\ [Next]_vars => IInv'
  BY TypeNext, SharingNext, DirtNext, HeadingNext DEF IInv
<1> QED BY InitInv, <1>1, PTL DEF Spec

\* One request at most is outstanding, and it is known, unless two calls start
\* or stop to share at once (prl_drm_share_state_start, _stop).
THEOREM OneIsShared == Spec => []OneShared
<1>1. IInv => OneShared
  <2> SUFFICES ASSUME IInv, ~raced, NEW r \in Reqs, phase[r] # "idle"
               PROVE  /\ ~removed
                      /\ \A q \in Reqs \ {r} : phase[q] = "idle"
                      /\ r = pending \/ InHand(r)
    BY DEF IInv, OneShared
  <2>1. \A q \in Reqs : phase[q] # "idle" =>
           q = pending \/ \E t \in Threads : at[t].pc \in {"new", "sent"} /\ at[t].req = q
    BY DEF IInv, Sharing
  <2>2. ~removed
    BY <2>1, DisplayAssumption DEF IInv, Sharing, Busy
  <2>3. r = pending \/ InHand(r)
    BY <2>1 DEF InHand, Busy
  <2>4. ASSUME NEW q \in Reqs, phase[q] # "idle" PROVE q = r
    <3>1. \A t \in Threads : at[t].pc \in {"new", "sent"} => pending = None
      BY DEF IInv, Sharing
    <3>2. \A t, u \in Threads : at[t].pc \in {"new", "sent"} /\ at[u].pc \in {"new", "sent"} => t = u
      BY DEF IInv, Sharing, Busy
    <3> QED BY <2>1, <2>4, <3>1, <3>2, DisplayAssumption
  <2> QED BY <2>2, <2>3, <2>4
<1> QED BY Inductive, <1>1, PTL

\* The pending request is in memory, and none is cancelled twice, unless two
\* calls start or stop to share at once (prl_drm_share_state_stop).
THEOREM PendingLives == Spec => []PendingLive
<1>1. IInv => PendingLive
  BY DEF IInv, Sharing, Outstanding, PendingLive, InHand, Busy
<1> QED BY Inductive, <1>1, PTL

\* The loop of prl_fb_dirty loses nothing that another call has merged.
THEOREM NoDirtIsLost == Spec => []NoDirtLost
<1>1. IInv => NoDirtLost
  BY DEF IInv
<1> QED BY Inductive, <1>1, PTL

\* A flip that prl_drm_display_set_mode leaves out would change nothing, unless
\* the head has strayed from mode_cur.
THEOREM ModeIsKnown == Spec => []ModeKnown
<1>1. IInv => ModeKnown
  BY DEF IInv, Heading, ModeKnown
<1> QED BY Inductive, <1>1, PTL

-----------------------------------------------------------------------------
(* The images.                                                             *)

\* The owners of an image are these files, none of them twice, and are counted.
Holders(img) == {k \in 1..MaxOwner : img.owners[k] # Nil}
Counted(img, files) ==
  /\ img.num = Cardinality(Holders(img))
  /\ \A k, j \in Holders(img) : img.owners[k] = img.owners[j] => k = j
  /\ \A k \in Holders(img) : img.owners[k] \in files

\* The images bound to an object.
Bound(list, o) == {p \in DOMAIN list : list[p].go = o}

\* What images keep: owners, pbuffers of their own, and no more references to
\* an object than are bound to it.
Kept(list, files, host, r) ==
  /\ files \subseteq Files /\ host \subseteq Buffers /\ r \in [Objects -> Int]
  /\ DOMAIN list \subseteq 1..MaxPlace /\ list \in [DOMAIN list -> Images]
  /\ \A p \in DOMAIN list : Counted(list[p], files) /\ list[p].pbuffer \in host
  /\ \A p, q \in DOMAIN list : list[p].pbuffer = list[q].pbuffer => p = q
  /\ \A o \in Objects : r[o] <= Cardinality(Bound(list, o))

\* A set of numbers that is not empty has a smallest one.
LEMMA Smallest ==
  ASSUME NEW S \in SUBSET Nat, S # {}
  PROVE  \E i \in S : \A j \in S : i <= j
<1>1. PICK i \in S : \A j \in S : <<j, i>> \notin OpToRel(<, Nat)
  BY NatLessThanWellFounded, WFMin
<1>2. \A j \in S : ~(j < i)
  BY <1>1 DEF OpToRel
<1> QED BY <1>2

\* One that has a bound has a largest one.
LEMMA Largest ==
  ASSUME NEW m \in Nat, NEW S \in SUBSET (1..m), S # {}
  PROVE  \E i \in S : \A j \in S : i >= j
<1> DEFINE T == {m - i : i \in S}
<1>1. T \in SUBSET Nat /\ T # {}
  <2>1. \A i \in S : m - i \in Nat
    OBVIOUS
  <2> QED BY <2>1
<1>2. PICK t \in T : \A u \in T : t <= u
  BY <1>1, Smallest
<1>3. PICK i \in S : t = m - i
  BY <1>2
<1>4. \A j \in S : m - i <= m - j
  BY <1>2, <1>3
<1>5. \A j \in S : i >= j
  BY <1>4
<1> QED BY <1>5

\* The first slot is one.
LEMMA SlotIn ==
  ASSUME NEW img, NEW x, Slots(img, x) # {}
  PROVE  /\ Slot(img, x) \in 1..MaxOwner
         /\ img.owners[Slot(img, x)] = x
<1> DEFINE S == Slots(img, x)
<1>1. S \in SUBSET Nat /\ S # {}
  BY ImageAssumption DEF Slots
<1>2. \E k \in S : \A j \in S : k <= j
  BY <1>1, Smallest
<1>3. Slot(img, x) \in S
  BY <1>2 DEF Slot
<1> QED BY <1>3 DEF Slots

\* So is the first image that fits.
LEMMA FirstIn ==
  ASSUME DOMAIN images \subseteq 1..MaxPlace, NEW d, Fitting(d) # {}
  PROVE  First(d) \in DOMAIN images
<1> DEFINE S == Fitting(d)
<1>1. S \in SUBSET (1..MaxPlace) /\ MaxPlace \in Nat
  BY ImageAssumption DEF Fitting
<1>2. \E i \in S : \A j \in S : i >= j
  BY <1>1, Largest
<1>3. First(d) \in S
  BY <1>2 DEF First
<1> QED BY <1>3 DEF Fitting

\* Slots and places are finitely many.
LEMMA Finite ==
  /\ \A img : IsFiniteSet(Holders(img)) /\ Cardinality(Holders(img)) \in 0..MaxOwner
  /\ \A list, o : DOMAIN list \subseteq 1..MaxPlace =>
       IsFiniteSet(Bound(list, o)) /\ Cardinality(Bound(list, o)) \in Nat
<1>1. /\ IsFiniteSet(1..MaxOwner) /\ Cardinality(1..MaxOwner) = MaxOwner
      /\ IsFiniteSet(1..MaxPlace)
  BY FS_Interval, ImageAssumption
<1>2. ASSUME NEW img
      PROVE  IsFiniteSet(Holders(img)) /\ Cardinality(Holders(img)) \in 0..MaxOwner
  <2>1. Holders(img) \in SUBSET (1..MaxOwner)
    BY DEF Holders
  <2>2. IsFiniteSet(Holders(img)) /\ Cardinality(Holders(img)) <= MaxOwner
    BY <1>1, <2>1, FS_Subset
  <2>3. Cardinality(Holders(img)) \in Nat
    BY <2>2, FS_CardinalityType
  <2> QED BY <2>2, <2>3, ImageAssumption
<1>3. ASSUME NEW list, NEW o, DOMAIN list \subseteq 1..MaxPlace
      PROVE  IsFiniteSet(Bound(list, o)) /\ Cardinality(Bound(list, o)) \in Nat
  <2>1. Bound(list, o) \in SUBSET (1..MaxPlace)
    BY <1>3 DEF Bound
  <2> QED BY <1>1, <2>1, FS_Subset, FS_CardinalityType
<1> QED BY <1>2, <1>3

\* One of several owners leaves an image.
LEMMA Leaves ==
  ASSUME NEW img \in Images, NEW files, Counted(img, files),
         NEW f \in Files, Owns(f, img), img.num # 1
  PROVE  LET left == LeaveImg(img, f) IN
         /\ left \in Images /\ left.pbuffer = img.pbuffer /\ left.go = img.go
         /\ Counted(left, files \ {f})
<1> DEFINE s == Slot(img, f)
           left == LeaveImg(img, f)
<1>1. /\ s \in 1..MaxOwner /\ img.owners[s] = f /\ f # Nil /\ s \in Holders(img)
  BY SlotIn, ImageAssumption DEF Owns, Holders
<1> HIDE DEF s
<1>2. /\ img.owners \in [1..MaxOwner -> Files \cup {Nil}] /\ img.num \in 1..MaxOwner
      /\ MaxOwner \in Nat
  BY ImageAssumption DEF Images
<1>3. left = [img EXCEPT !.owners[s] = Nil, !.num = img.num - 1]
  BY DEF LeaveImg, s
<1> HIDE DEF left
<1>4. /\ left.owners = [img.owners EXCEPT ![s] = Nil] /\ left.num = img.num - 1
      /\ left.pbuffer = img.pbuffer /\ left.go = img.go
      /\ left.handle = img.handle /\ left.geo = img.geo /\ left.format = img.format
  BY <1>3 DEF Images
<1>5. img.num - 1 \in 1..MaxOwner /\ [img.owners EXCEPT ![s] = Nil] \in [1..MaxOwner -> Files \cup {Nil}]
  <2>1. img.num - 1 \in 1..MaxOwner
    BY <1>2
  <2>2. [img.owners EXCEPT ![s] = Nil] \in [1..MaxOwner -> Files \cup {Nil}]
    BY <1>2
  <2> QED BY <2>1, <2>2
<1>6. left \in Images
  BY <1>3, <1>5 DEF Images
<1>7. \A k \in 1..MaxOwner : left.owners[k] = IF k = s THEN Nil ELSE img.owners[k]
  BY <1>2, <1>4
<1>8. Holders(left) = Holders(img) \ {s}
  BY <1>1, <1>7 DEF Holders
<1>9. Cardinality(Holders(left)) = Cardinality(Holders(img)) - 1
  BY <1>1, <1>8, Finite, FS_RemoveElement
<1>10. \A k \in Holders(left) : k \in Holders(img) /\ k # s /\ left.owners[k] = img.owners[k]
  BY <1>7, <1>8 DEF Holders
<1>11. \A k \in Holders(left) : left.owners[k] \in files \ {f}
  BY <1>1, <1>10 DEF Counted
<1>12. Counted(left, files \ {f})
  BY <1>4, <1>9, <1>10, <1>11 DEF Counted
<1> QED BY <1>4, <1>6, <1>12 DEF left

\* A file joins an image it does not own.
LEMMA Joins ==
  ASSUME NEW img \in Images, NEW files, Counted(img, files),
         NEW f \in files, f \in Files, ~Owns(f, img), Slots(img, Nil) # {}
  PROVE  LET joint == Join(img, f) IN
         /\ joint \in Images /\ joint.pbuffer = img.pbuffer /\ joint.go = img.go
         /\ Counted(joint, files)
<1> DEFINE s == Slot(img, Nil)
           joint == Join(img, f)
<1>1. /\ s \in 1..MaxOwner /\ img.owners[s] = Nil /\ f # Nil /\ s \notin Holders(img)
  BY SlotIn, ImageAssumption DEF Holders
<1> HIDE DEF s
<1>2. /\ img.owners \in [1..MaxOwner -> Files \cup {Nil}] /\ img.num \in 1..MaxOwner
      /\ MaxOwner \in Nat
  BY ImageAssumption DEF Images
<1>3. joint = [img EXCEPT !.owners[s] = f, !.num = img.num + 1]
  BY DEF Join, s
<1> HIDE DEF joint
<1>4. /\ joint.owners = [img.owners EXCEPT ![s] = f] /\ joint.num = img.num + 1
      /\ joint.pbuffer = img.pbuffer /\ joint.go = img.go
      /\ joint.handle = img.handle /\ joint.geo = img.geo /\ joint.format = img.format
  BY <1>3 DEF Images
<1>5. \A k \in 1..MaxOwner : joint.owners[k] = IF k = s THEN f ELSE img.owners[k]
  BY <1>2, <1>4
<1>6. Holders(joint) = Holders(img) \cup {s}
  BY <1>1, <1>5 DEF Holders
<1>7. Cardinality(Holders(joint)) = img.num + 1 /\ img.num + 1 \in 1..MaxOwner
  <2>1. Cardinality(Holders(joint)) = Cardinality(Holders(img)) + 1
    BY <1>1, <1>6, Finite, FS_AddElement
  <2>2. Cardinality(Holders(joint)) \in 0..MaxOwner
    BY Finite
  <2> QED BY <1>2, <2>1, <2>2 DEF Counted
<1>8. joint \in Images
  <2>1. [img.owners EXCEPT ![s] = f] \in [1..MaxOwner -> Files \cup {Nil}]
    BY <1>2
  <2> QED BY <1>3, <1>7, <2>1 DEF Images
<1>9. \A k \in Holders(img) : k # s /\ joint.owners[k] = img.owners[k] /\ img.owners[k] # f
  <2> TAKE k \in Holders(img)
  <2>1. k \in 1..MaxOwner /\ k # s
    BY <1>1 DEF Holders
  <2>2. img.owners[k] # f
    BY <2>1 DEF Owns, Slots
  <2> QED BY <1>5, <2>1, <2>2
<1>10. joint.owners[s] = f
  BY <1>1, <1>5
<1>11. Counted(joint, files)
  BY <1>4, <1>6, <1>7, <1>9, <1>10 DEF Counted
<1> QED BY <1>4, <1>8, <1>11 DEF joint

\* An image is replaced by one with the same pbuffer; the references to the
\* object it was and the one it is bound to follow.
LEMMA Replaced ==
  ASSUME NEW list, NEW files, NEW host, NEW r, Kept(list, files, host, r),
         NEW i \in DOMAIN list, NEW x \in Images, x.pbuffer = list[i].pbuffer, Counted(x, files),
         NEW r1 \in [Objects -> Int],
         \A o \in Objects : r1[o] <= r[o] + (IF x.go = o THEN 1 ELSE 0) - (IF list[i].go = o THEN 1 ELSE 0)
  PROVE  Kept([list EXCEPT ![i] = x], files, host, r1)
<1> DEFINE new == [list EXCEPT ![i] = x]
<1>1. /\ list \in [DOMAIN list -> Images] /\ DOMAIN list \subseteq 1..MaxPlace
      /\ r \in [Objects -> Int]
  BY DEF Kept
<1>2. DOMAIN new = DOMAIN list /\ new \in [DOMAIN list -> Images]
      /\ \A p \in DOMAIN list : new[p] = IF p = i THEN x ELSE list[p]
  BY <1>1
<1> HIDE DEF new
<1>3. \A p \in DOMAIN list : new[p].pbuffer = list[p].pbuffer /\ Counted(new[p], files)
  BY <1>2 DEF Kept
<1>4. ASSUME NEW o \in Objects PROVE r1[o] <= Cardinality(Bound(new, o))
  <2> DEFINE was == Bound(list, o)
             now == Bound(new, o)
  <2>1. IsFiniteSet(was) /\ Cardinality(was) \in Nat /\ r[o] <= Cardinality(was) /\ r[o] \in Int /\ r1[o] \in Int
    BY <1>1, Finite DEF Kept
  <2>2. CASE x.go = o /\ list[i].go = o
    <3>1. now = was
      BY <1>2, <2>2 DEF Bound
    <3>2. r1[o] <= r[o]
      BY <2>1, <2>2
    <3> QED BY <2>1, <3>1, <3>2
  <2>3. CASE x.go # o /\ list[i].go # o
    <3>1. now = was
      BY <1>2, <2>3 DEF Bound
    <3>2. r1[o] <= r[o]
      BY <2>1, <2>3
    <3> QED BY <2>1, <3>1, <3>2
  <2>4. CASE x.go = o /\ list[i].go # o
    <3>1. now = was \cup {i} /\ i \notin was
      BY <1>2, <2>4 DEF Bound
    <3>2. Cardinality(now) = Cardinality(was) + 1
      <4> HIDE DEF was, now
      <4> QED BY <2>1, <3>1, FS_AddElement
    <3>3. r1[o] <= r[o] + 1
      BY <2>1, <2>4
    <3> QED BY <2>1, <3>2, <3>3
  <2>5. CASE x.go # o /\ list[i].go = o
    <3>1. now = was \ {i} /\ i \in was
      BY <1>2, <2>5 DEF Bound
    <3>2. Cardinality(now) = Cardinality(was) - 1
      <4> HIDE DEF was, now
      <4> QED BY <2>1, <3>1, FS_RemoveElement
    <3>3. r1[o] <= r[o] - 1
      BY <2>1, <2>5
    <3> QED BY <2>1, <3>2, <3>3
  <2> QED BY <2>2, <2>3, <2>4, <2>5
<1>5. Kept(new, files, host, r1)
  <2>1. files \subseteq Files /\ host \subseteq Buffers
    BY DEF Kept
  <2>2. \A p \in DOMAIN list : new[p].pbuffer \in host
    BY <1>3 DEF Kept
  <2>3. \A p, q \in DOMAIN list : new[p].pbuffer = new[q].pbuffer => p = q
    BY <1>3 DEF Kept
  <2> QED BY <1>1, <1>2, <1>3, <1>4, <2>1, <2>2, <2>3 DEF Kept
<1> QED BY <1>5 DEF new

\* References given back and taken.
LEMMA PutGet ==
  ASSUME NEW r \in [Objects -> Int], NEW x \in Objects \cup {Nil}
  PROVE  /\ Put(r, x) \in [Objects -> Int] /\ Get(r, x) \in [Objects -> Int]
         /\ \A o \in Objects : /\ Put(r, x)[o] = r[o] - (IF x = o THEN 1 ELSE 0)
                               /\ Get(r, x)[o] = r[o] + (IF x = o THEN 1 ELSE 0)
<1>1. CASE x = Nil
  BY <1>1, ImageAssumption DEF Put, Get
<1>2. CASE x # Nil
  <2>1. Put(r, x) = [r EXCEPT ![x] = r[x] - 1] /\ Get(r, x) = [r EXCEPT ![x] = r[x] + 1]
    BY <1>2 DEF Put, Get
  <2> QED BY <1>2, <2>1
<1> QED BY <1>1, <1>2

\* Fewer references are kept no less, more pbuffers neither.
LEMMA Weaker ==
  ASSUME NEW list, NEW files, NEW host, NEW r, Kept(list, files, host, r),
         NEW host1 \in SUBSET Buffers, host \subseteq host1,
         NEW r1 \in [Objects -> Int], \A o \in Objects : r1[o] <= r[o]
  PROVE  Kept(list, files, host1, r1)
<1>1. \A o \in Objects : r1[o] <= Cardinality(Bound(list, o))
  <2> TAKE o \in Objects
  <2>1. r1[o] \in Int /\ r[o] \in Int /\ r1[o] <= r[o] /\ r[o] <= Cardinality(Bound(list, o))
    BY DEF Kept
  <2>2. Cardinality(Bound(list, o)) \in Nat
    BY Finite DEF Kept
  <2> QED BY <2>1, <2>2
<1> QED BY <1>1 DEF Kept

\* A new image comes before all others.
LEMMA Adds ==
  ASSUME NEW list, NEW files, NEW host, NEW r, Kept(list, files, host, r),
         MaxPlace \notin DOMAIN list, NEW b \in Buffers \ host, NEW f \in files,
         NEW handle \in Handles \cup {0}, NEW d, d.handle = handle, d.geo \in Geos, d.format \in Formats,
         NEW go \in Objects \cup {Nil}
  PROVE  Kept(Added(list, NewImg(b, d, go, f)), files, host \cup {b}, Get(r, go))
<1> DEFINE n == CHOOSE n \in 1..MaxPlace : \A p \in DOMAIN list : p < n
           x == NewImg(b, d, go, f)
           new == Added(list, x)
<1>1. /\ list \in [DOMAIN list -> Images] /\ DOMAIN list \subseteq 1..MaxPlace
      /\ r \in [Objects -> Int] /\ f \in Files /\ f # Nil
  BY ImageAssumption DEF Kept
<1>2. n \in 1..MaxPlace /\ n \notin DOMAIN list
  <2>1. MaxPlace \in 1..MaxPlace /\ \A p \in DOMAIN list : p < MaxPlace
    BY <1>1, ImageAssumption
  <2>2. n \in 1..MaxPlace /\ \A p \in DOMAIN list : p < n
    BY <2>1
  <2> HIDE DEF n
  <2> QED BY <2>2
<1>3. new = [p \in DOMAIN list \cup {n} |-> IF p = n THEN x ELSE list[p]]
  BY DEF Added
<1>4. /\ x \in Images /\ x.pbuffer = b /\ x.go = go
      /\ x.num = 1 /\ x.owners = [k \in 1..MaxOwner |-> IF k = 1 THEN f ELSE Nil]
  <2>1. [k \in 1..MaxOwner |-> IF k = 1 THEN f ELSE Nil] \in [1..MaxOwner -> Files \cup {Nil}]
    BY <1>1
  <2>2. 1 \in 1..MaxOwner
    BY ImageAssumption
  <2> QED BY <2>1, <2>2 DEF Images, NewImg
<1> HIDE DEF n, x, new
<1>5. Counted(x, files)
  <2>1. Holders(x) = {1}
    <3>1. \A k \in 1..MaxOwner : x.owners[k] = IF k = 1 THEN f ELSE Nil
      BY <1>4
    <3>2. 1 \in 1..MaxOwner
      BY ImageAssumption
    <3> QED BY <1>1, <3>1, <3>2 DEF Holders
  <2>2. x.owners[1] = f
    BY <1>4, ImageAssumption
  <2> QED BY <1>4, <2>1, <2>2, FS_Singleton DEF Counted
<1>6. /\ DOMAIN new = DOMAIN list \cup {n} /\ new \in [DOMAIN new -> Images]
      /\ new[n] = x /\ \A p \in DOMAIN list : new[p] = list[p]
  BY <1>1, <1>2, <1>3, <1>4
<1>7. \A p \in DOMAIN list : list[p].pbuffer # b
  BY DEF Kept
<1>8. ASSUME NEW o \in Objects PROVE Get(r, go)[o] <= Cardinality(Bound(new, o))
  <2> DEFINE was == Bound(list, o)
             now == Bound(new, o)
  <2>1. /\ IsFiniteSet(was) /\ Cardinality(was) \in Nat /\ r[o] <= Cardinality(was) /\ r[o] \in Int
        /\ Get(r, go)[o] = r[o] + (IF go = o THEN 1 ELSE 0)
    BY <1>1, Finite, PutGet DEF Kept
  <2>2. CASE go = o
    <3>1. now = was \cup {n} /\ n \notin was
      BY <1>2, <1>4, <1>6, <2>2 DEF Bound
    <3>2. Cardinality(now) = Cardinality(was) + 1
      <4> HIDE DEF was, now
      <4> QED BY <2>1, <3>1, FS_AddElement
    <3> QED BY <2>1, <2>2, <3>2
  <2>3. CASE go # o
    <3>1. now = was
      BY <1>2, <1>4, <1>6, <2>3 DEF Bound
    <3> QED BY <2>1, <2>3, <3>1
  <2> QED BY <2>2, <2>3
<1>9. Kept(new, files, host \cup {b}, Get(r, go))
  <2>1. Get(r, go) \in [Objects -> Int]
    BY <1>1, PutGet
  <2>2. files \subseteq Files /\ host \cup {b} \subseteq Buffers /\ DOMAIN new \subseteq 1..MaxPlace
    BY <1>2, <1>6 DEF Kept
  <2>3. \A p \in DOMAIN new : Counted(new[p], files) /\ new[p].pbuffer \in host \cup {b}
    BY <1>4, <1>5, <1>6 DEF Kept
  <2>4. \A p, q \in DOMAIN new : new[p].pbuffer = new[q].pbuffer => p = q
    BY <1>4, <1>6, <1>7 DEF Kept
  <2> QED BY <1>6, <1>8, <2>1, <2>2, <2>3, <2>4 DEF Kept
<1> QED BY <1>9 DEF new, x

\* A file's request for an image of its own.
LEMMA Makes ==
  ASSUME NEW f \in open, NEW d \in Descs, NEW list, NEW r,
         Kept(list, open, bufs, r), NewImage(f, d, list, r)
  PROVE  Kept(images', open, bufs', refs')
<1>0. bufs \in SUBSET Buffers /\ r \in [Objects -> Int] /\ \A o \in Objects : r[o] <= r[o]
  BY DEF Kept
<1>1. /\ d.handle \in Handles \cup {0} /\ d.geo \in Geos /\ d.format \in Formats
      /\ Found(d.handle) \subseteq Objects \cup {Nil}
  BY DEF Descs, Found
<1>2. CASE images' = list /\ refs' = r /\ UNCHANGED bufs
  BY <1>2
<1>3. ASSUME NEW b \in Buffers \ bufs, NEW go \in Found(d.handle),
             MaxPlace \notin DOMAIN list, images' = Added(list, NewImg(b, d, go, f)),
             refs' = Get(r, go), bufs' = bufs \cup {b}
      PROVE  Kept(images', open, bufs', refs')
  <2>1. go \in Objects \cup {Nil}
    BY <1>1
  <2> QED BY <1>1, <1>3, <2>1, Adds
<1>4. ASSUME NEW b \in Buffers \ bufs, images' = list, refs' = r, bufs' \in {bufs, bufs \cup {b}}
      PROVE  Kept(images', open, bufs', refs')
  <2>1. bufs' \in SUBSET Buffers /\ bufs \subseteq bufs'
    BY <1>0, <1>4
  <2> QED BY <1>0, <1>4, <2>1, Weaker
<1> QED BY <1>2, <1>3, <1>4 DEF NewImage

\* A file is done with images: with some, or with all when it is closed.
LEMMA Parts ==
  ASSUME Kept(images, open, bufs, refs), NEW f \in Files,
         NEW places \in SUBSET (DOMAIN images), NEW files,
         files = open \/ (files = open \ {f} /\ places = DOMAIN images),
         GiveBack(f, places), Parted(f, places)
  PROVE  Kept(images', files, bufs', refs')
<1> DEFINE dead == Dead(f, places)
           left == DOMAIN images \ dead
<1>1. /\ images \in [DOMAIN images -> Images] /\ DOMAIN images \subseteq 1..MaxPlace
      /\ refs \in [Objects -> Int] /\ open \subseteq Files /\ bufs \subseteq Buffers
      /\ dead \subseteq DOMAIN images /\ files \subseteq Files /\ files \subseteq open
  BY DEF Kept, Dead
<1>2. images' = [i \in left |-> IF i \in places /\ Owns(f, images[i])
                                THEN LeaveImg(images[i], f) ELSE images[i]]
  BY DEF Parted
<1> HIDE DEF dead
<1>3. ASSUME NEW i \in left
      PROVE  /\ images'[i] \in Images /\ Counted(images'[i], files)
             /\ images'[i].pbuffer = images[i].pbuffer /\ images'[i].go = images[i].go
  <2>1. images[i] \in Images /\ Counted(images[i], open)
    BY <1>1 DEF Kept
  <2>2. CASE i \in places /\ Owns(f, images[i])
    <3>1. images[i].num # 1
      BY <2>2 DEF dead, Dead, Dies
    <3>2. images'[i] = LeaveImg(images[i], f)
      BY <1>2, <2>2
    <3>3. /\ images'[i] \in Images /\ Counted(images'[i], open \ {f})
          /\ images'[i].pbuffer = images[i].pbuffer /\ images'[i].go = images[i].go
      BY <2>1, <2>2, <3>1, <3>2, Leaves
    <3>4. Counted(images'[i], files)
      BY <3>3 DEF Counted
    <3> QED BY <3>3, <3>4
  <2>3. CASE ~(i \in places /\ Owns(f, images[i]))
    <3>1. images'[i] = images[i]
      BY <1>2, <2>3
    <3>2. Counted(images[i], files)
      <4>1. CASE files = open
        BY <2>1, <4>1
      <4>2. CASE files = open \ {f} /\ places = DOMAIN images
        <5>1. ~Owns(f, images[i])
          BY <2>3, <4>2
        <5>2. \A k \in Holders(images[i]) : images[i].owners[k] # f
          BY <5>1 DEF Holders, Owns, Slots
        <5> QED BY <2>1, <4>2, <5>2 DEF Counted
      <4> QED BY <4>1, <4>2
    <3> QED BY <2>1, <3>1, <3>2
  <2> QED BY <2>2, <2>3
<1>4. DOMAIN images' = left /\ images' \in [left -> Images] /\ left \subseteq 1..MaxPlace
  BY <1>1, <1>2, <1>3
<1>5. \A p, q \in left : images'[p].pbuffer = images'[q].pbuffer => p = q
  BY <1>3 DEF Kept
<1>6. bufs' \subseteq bufs /\ \A p \in left : images'[p].pbuffer \in bufs'
  <2>1. PICK told \in SUBSET {images[i].pbuffer : i \in dead} : bufs' = bufs \ told
    BY DEF GiveBack, dead
  <2>2. \A p \in left : images[p].pbuffer \in bufs /\ images[p].pbuffer \notin told
    BY <1>1, <2>1 DEF Kept
  <2> QED BY <1>3, <2>1, <2>2
<1>7. refs' \in [Objects -> Int] /\ \A o \in Objects : refs'[o] <= Cardinality(Bound(images', o))
  <2> DEFINE D(o) == {i \in dead : images[i].go = o}
             B(o) == Bound(images, o)
  <2>1. refs' = [o \in Objects |-> refs[o] - Cardinality(D(o))]
    BY DEF GiveBack, dead
  <2>2. ASSUME NEW o \in Objects
        PROVE  /\ Cardinality(D(o)) \in Nat /\ refs[o] \in Int
               /\ refs[o] - Cardinality(D(o)) <= Cardinality(Bound(images', o))
    <3>1. IsFiniteSet(B(o)) /\ Cardinality(B(o)) \in Nat /\ refs[o] <= Cardinality(B(o)) /\ refs[o] \in Int
      BY <1>1, Finite DEF Kept
    <3>2. D(o) \in SUBSET B(o)
      BY <1>1 DEF Bound
    <3>3. Bound(images', o) = B(o) \ D(o)
      BY <1>1, <1>3, <1>4 DEF Bound
    <3>4. IsFiniteSet(D(o)) /\ Cardinality(D(o)) \in Nat
      BY <3>1, <3>2, FS_Subset, FS_CardinalityType
    <3>5. Cardinality(B(o) \ D(o)) = Cardinality(B(o)) - Cardinality(D(o))
      <4>1. B(o) \cap D(o) = D(o)
        BY <3>2
      <4>2. Cardinality(B(o) \ D(o)) = Cardinality(B(o)) - Cardinality(B(o) \cap D(o))
        BY <3>1, FS_Difference
      <4> QED BY <4>1, <4>2
    <3> QED BY <3>1, <3>3, <3>4, <3>5
  <2> QED BY <2>1, <2>2
<1> QED BY <1>1, <1>3, <1>4, <1>5, <1>6, <1>7 DEF Kept

\* What is kept of the images, and their types.
ImgInv == ImgTypeOK /\ Kept(images, open, bufs, refs)

\* No image at first.
LEMMA ImgInitially == ImgInit => ImgInv
<1> SUFFICES ASSUME ImgInit PROVE ImgInv
  OBVIOUS
<1>1. DOMAIN images = {} /\ images \in [{} -> Images]
  BY DEF ImgInit
<1>2. \A o \in Objects : refs[o] <= Cardinality(Bound(images, o))
  <2> TAKE o \in Objects
  <2>1. Bound(images, o) = {}
    BY <1>1 DEF Bound
  <2> QED BY <2>1, FS_EmptySet DEF ImgInit
<1>3. open = {} /\ bufs = {} /\ refs \in [Objects -> Int]
  BY DEF ImgInit
<1> QED BY <1>1, <1>2, <1>3 DEF ImgInv, Kept, ImgTypeOK

\* The only owner's changes of an image.
LEMMA Changes ==
  ASSUME ImgInv, NEW d \in Descs, NEW i \in DOMAIN images, Change(d, i)
  PROVE  Kept(images', open, bufs', refs')
<1> DEFINE img == images[i]
<1>1. /\ img \in Images /\ Counted(img, open) /\ refs \in [Objects -> Int] /\ bufs' = bufs
      /\ Kept(images, open, bufs, refs)
  BY DEF ImgInv, Kept, Change
<1>2. ASSUME NEW handle \in Handles \cup {0}, NEW go \in Objects \cup {Nil},
             Redescribe(i, d, handle, go),
             \/ img.go = Nil /\ refs' = Get(refs, go)
             \/ go = Nil /\ refs' = Put(refs, img.go)
             \/ go = img.go /\ refs' = refs
      PROVE  Kept(images', open, bufs', refs')
  <2> DEFINE x == [img EXCEPT !.handle = handle, !.geo = d.geo, !.format = d.format, !.go = go]
  <2>1. d.geo \in Geos /\ d.format \in Formats
    BY DEF Descs
  <2>2. x \in Images /\ x.go = go /\ x.pbuffer = img.pbuffer /\ x.num = img.num /\ x.owners = img.owners
    BY <1>1, <2>1 DEF Images
  <2>3. images' = [images EXCEPT ![i] = x]
    BY <1>2 DEF Redescribe
  <2> HIDE DEF x
  <2>4. Counted(x, open)
    BY <1>1, <2>2 DEF Counted, Holders
  <2>5. img.go \in Objects \cup {Nil} /\ Nil \notin Objects
    BY <1>1, ImageAssumption DEF Images
  <2>6. /\ refs' \in [Objects -> Int]
        /\ \A o \in Objects : refs'[o] <= refs[o] + (IF x.go = o THEN 1 ELSE 0) - (IF img.go = o THEN 1 ELSE 0)
    <3>1. CASE img.go = Nil /\ refs' = Get(refs, go)
      BY <1>1, <2>2, <2>5, <3>1, PutGet
    <3>2. CASE go = Nil /\ refs' = Put(refs, img.go)
      BY <1>1, <2>2, <2>5, <3>2, PutGet
    <3>3. CASE go = img.go /\ refs' = refs
      BY <1>1, <2>2, <3>3
    <3> QED BY <1>2, <3>1, <3>2, <3>3
  <2> QED BY <1>1, <2>2, <2>3, <2>4, <2>6, Replaced
<1>3. d.handle \in Handles \cup {0} /\ 0 \in Handles \cup {0} /\ img.go \in Objects \cup {Nil}
      /\ Found(d.handle) \subseteq Objects \cup {Nil}
  BY <1>1 DEF Descs, Images, Found
<1>4. ASSUME NEW go \in Found(d.handle) \ {Nil}, img.go = Nil,
             Redescribe(i, d, d.handle, go), refs' = Get(refs, go)
      PROVE  Kept(images', open, bufs', refs')
  <2>1. go \in Objects \cup {Nil}
    BY <1>3
  <2> QED BY <1>2, <1>3, <1>4, <2>1
<1>5. CASE Redescribe(i, d, 0, Nil) /\ refs' = Put(refs, img.go)
  BY <1>2, <1>3, <1>5
<1>6. CASE Redescribe(i, d, d.handle, img.go) /\ refs' = refs
  BY <1>2, <1>3, <1>6
<1> QED BY <1>4, <1>5, <1>6 DEF Change

\* The ioctl, in all its cases.
LEMMA Creates ==
  ASSUME ImgInv, NEW f \in Files, NEW d \in Descs, Create(f, d)
  PROVE  Kept(images', open', bufs', refs')
<1>0. /\ f \in open /\ open' = open /\ Kept(images, open, bufs, refs)
      /\ images \in [DOMAIN images -> Images] /\ DOMAIN images \subseteq 1..MaxPlace
      /\ refs \in [Objects -> Int]
  BY DEF ImgInv, Kept, Create
<1>1. CASE NewImage(f, d, images, refs)
  BY <1>0, <1>1, Makes
<1>2. ASSUME NEW i \in DOMAIN images, Owns(f, images[i]), images[i].num # 1, Drop(f, d, i)
      PROVE  Kept(images', open', bufs', refs')
  <2> DEFINE x == LeaveImg(images[i], f)
             list == [images EXCEPT ![i] = x]
             r == Put(refs, images[i].go)
  <2>1. images[i] \in Images /\ Counted(images[i], open) /\ images[i].go \in Objects \cup {Nil}
    BY <1>0 DEF Kept, Images
  <2>2. x \in Images /\ x.pbuffer = images[i].pbuffer /\ x.go = images[i].go /\ Counted(x, open \ {f})
    BY <1>2, <2>1, Leaves
  <2>3. Counted(x, open)
    BY <2>2 DEF Counted
  <2>4. /\ r \in [Objects -> Int]
        /\ \A o \in Objects : r[o] = refs[o] - (IF images[i].go = o THEN 1 ELSE 0)
    BY <1>0, <2>1, PutGet
  <2> HIDE DEF x, r
  <2>5. \A o \in Objects :
          r[o] <= refs[o] + (IF x.go = o THEN 1 ELSE 0) - (IF images[i].go = o THEN 1 ELSE 0)
    BY <1>0, <2>2, <2>4
  <2>6. Kept(list, open, bufs, r)
    BY <1>0, <2>2, <2>3, <2>4, <2>5, Replaced
  <2> QED BY <1>0, <1>2, <2>6, Makes DEF Drop, x, r
<1>3. ASSUME NEW i \in DOMAIN images, ~Owns(f, images[i]), Export(f, i)
      PROVE  Kept(images', open', bufs', refs')
  <2> DEFINE x == Join(images[i], f)
  <2>1. images[i] \in Images /\ Counted(images[i], open)
    BY <1>0 DEF Kept
  <2>2. x \in Images /\ x.pbuffer = images[i].pbuffer /\ x.go = images[i].go /\ Counted(x, open)
    BY <1>0, <1>3, <2>1, Joins DEF Export
  <2>3. images' = [images EXCEPT ![i] = x] /\ refs' = refs /\ bufs' = bufs
    BY <1>3 DEF Export
  <2> HIDE DEF x
  <2>4. \A o \in Objects :
          refs[o] <= refs[o] + (IF x.go = o THEN 1 ELSE 0) - (IF images[i].go = o THEN 1 ELSE 0)
    BY <1>0, <2>2
  <2> QED BY <1>0, <2>2, <2>3, <2>4, Replaced
<1>4. Fitting(d) # {} => First(d) \in DOMAIN images
  BY <1>0, FirstIn
<1>5. ASSUME NEW i \in DOMAIN images, Change(d, i)
      PROVE  Kept(images', open', bufs', refs')
  BY <1>0, <1>5, Changes
<1> QED BY <1>1, <1>2, <1>3, <1>4, <1>5 DEF Create

\* Every step keeps it.
LEMMA ImgSteps ==
  ASSUME ImgInv, [ImgNext]_imgVars
  PROVE  ImgInv'
<1>1. Kept(images, open, bufs, refs)
  BY DEF ImgInv
<1>2. ASSUME NEW f \in Files, NEW d \in Descs, Create(f, d)
      PROVE  Kept(images', open', bufs', refs')
  BY <1>2, Creates
<1>3. ASSUME NEW f \in Files, NEW i \in DOMAIN images, Release(f, i)
      PROVE  Kept(images', open', bufs', refs')
  <2>1. {i} \in SUBSET (DOMAIN images) /\ open' = open
    BY <1>3 DEF Release
  <2> QED BY <1>1, <1>3, <2>1, Parts DEF Release
<1>4. ASSUME NEW f \in Files, Open(f)
      PROVE  Kept(images', open', bufs', refs')
  <2>1. open' = open \cup {f} /\ images' = images /\ bufs' = bufs /\ refs' = refs
    BY <1>4 DEF Open
  <2>2. \A p \in DOMAIN images : Counted(images[p], open \cup {f})
    BY <1>1 DEF Kept, Counted
  <2> QED BY <1>1, <2>1, <2>2 DEF Kept
<1>5. ASSUME NEW f \in Files, Close(f)
      PROVE  Kept(images', open', bufs', refs')
  <2>1. DOMAIN images \in SUBSET (DOMAIN images) /\ open' = open \ {f}
    BY <1>5 DEF Close
  <2> QED BY <1>1, <1>5, <2>1, Parts DEF Close
<1>6. ASSUME UNCHANGED imgVars
      PROVE  Kept(images', open', bufs', refs')
  BY <1>1, <1>6 DEF imgVars
<1>7. Kept(images', open', bufs', refs')
  BY <1>2, <1>3, <1>4, <1>5, <1>6 DEF ImgNext
<1> QED BY <1>7 DEF ImgInv, Kept, ImgTypeOK

\* num_owners counts the owners of an image, none twice and all of them open
\* files (prldrm.c:187-196, 1612-1640, 2304-2339, 2386-2403).
THEOREM OwnersAreCounted == ImgSpec => []OwnersCounted
<1>1. ImgInv => OwnersCounted
  BY DEF ImgInv, Kept, Counted, Holders, OwnersCounted
<1>2. ImgInv /\ [ImgNext]_imgVars => ImgInv'
  BY ImgSteps
<1> QED BY <1>1, <1>2, ImgInitially, PTL DEF ImgSpec

\* Every image has a pbuffer of its own that the host still has
\* (prldrm.c:578, 612, 2283).
THEOREM PbuffersStayLive == ImgSpec => []PbuffersLive
<1>1. ImgInv => PbuffersLive
  BY DEF ImgInv, Kept, PbuffersLive
<1>2. ImgInv /\ [ImgNext]_imgVars => ImgInv'
  BY ImgSteps
<1> QED BY <1>1, <1>2, ImgInitially, PTL DEF ImgSpec

\* Files that are all closed have left no image, and keep no object
\* (prldrm.c:1612-1634).
THEOREM NothingIsKept == ImgSpec => []NothingKept
<1>1. ImgInv => NothingKept
  <2> SUFFICES ASSUME ImgInv, open = {} PROVE DOMAIN images = {} /\ \A o \in Objects : refs[o] <= 0
    BY DEF NothingKept
  <2>1. ASSUME NEW p \in DOMAIN images PROVE FALSE
    <3>1. images[p] \in Images /\ Counted(images[p], {})
      BY DEF ImgInv, Kept
    <3>2. images[p].num \in 1..MaxOwner /\ Holders(images[p]) = {}
      BY <3>1 DEF Counted, Images
    <3>3. Cardinality({}) = 0 /\ images[p].num = Cardinality({})
      BY <3>1, <3>2, FS_EmptySet DEF Counted
    <3> QED BY <3>2, <3>3
  <2>2. DOMAIN images = {}
    BY <2>1
  <2>3. \A o \in Objects : Bound(images, o) = {}
    BY <2>2 DEF Bound
  <2>4. \A o \in Objects : refs[o] <= Cardinality({})
    BY <2>3 DEF ImgInv, Kept
  <2> QED BY <2>2, <2>4, FS_EmptySet
<1>2. ImgInv /\ [ImgNext]_imgVars => ImgInv'
  BY ImgSteps
<1> QED BY <1>1, <1>2, ImgInitially, PTL DEF ImgSpec
=============================================================================
