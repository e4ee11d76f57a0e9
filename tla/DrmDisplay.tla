----------------------------- MODULE DrmDisplay -----------------------------
(***************************************************************************)
(* prldrm.c: what the guest and the host share of the display.  A page has *)
(* the bounds of what was drawn and not shown yet, and the mouse position; *)
(* one request, kept outstanding as long as somebody draws, gives it to    *)
(* the host (prl_drm_shared_state).  A head shows a framebuffer in a mode, *)
(* of which the guest keeps a copy, mode_cur, to set it only if it changes.*)
(*                                                                         *)
(* No lock protects `pending', the outstanding request; modeset locks      *)
(* serialise flips, but not the drop of the master with them.  The request *)
(* goes through the phases of TgContract; the host may end it at any time, *)
(* and a suspend does (prl_tg_suspend_common).                             *)
(***************************************************************************)
EXTENDS Integers, FiniteSets

CONSTANTS
  Threads,
  Reqs,      \* the requests in memory
  Areas,     \* what can be drawn on
  Fbs,       \* framebuffers, each named by its place in video memory, from 1
  Aperture,  \* PRLVID_CAPABILITY_APERTURE_ONLY: buffers are in the aperture
  None

ASSUME DisplayAssumption ==
  /\ None \notin Reqs /\ Fbs \subseteq Nat \ {0} /\ 1 \in Fbs
  /\ Aperture \in BOOLEAN

VARIABLES
  phase, answer,  \* of each request (TgContract)
  pending,  \* shared_state.pending
  bounds,   \* update_bounds: the areas in the shared page
  dirt,     \* the areas drawn by finished calls that the host has not taken
  removed,  \* the device is removed, the shared page freed
  svga,     \* get_vga_state
  shown,    \* of the host: the framebuffer the head shows; 0: disabled
  modeCur,  \* prl_drm_head.mode_cur: the framebuffer last set; 0: cleared
  at,       \* what each thread is doing
  raced,    \* a start or a stop began while another was not over
  strayed,  \* what the head shows was changed otherwise than through modeCur
  corrupt   \* a request was cancelled twice

request == <<phase, answer>>
sharing == <<pending, bounds, dirt, removed>>
head    == <<svga, shown, modeCur, strayed>>
vars    == <<request, sharing, head, at, raced, corrupt>>

C == INSTANCE TgContract WITH Restart <- Reqs

PCs == {"idle", "new", "sent", "offset", "read", "write", "stop", "cancel", "freed",
        "leave", "mode", "cache", "off"}
Kinds == {"none", "dirty", "move", "unmap", "drop", "flip", "remove"}
Ops == [pc : PCs, kind : Kinds, req : Reqs \cup {None}, fb : Fbs \cup {0},
        area : SUBSET Areas, cmp : SUBSET Areas]
Quiet == [pc |-> "idle", kind |-> "none", req |-> None, fb |-> 0, area |-> {}, cmp |-> {}]

TypeOK ==
  /\ phase \in [Reqs -> C!Phases]
  /\ answer \in [Reqs -> C!Answers \cup {"PENDING"}]
  /\ pending \in Reqs \cup {None}
  /\ removed \in BOOLEAN /\ svga \in BOOLEAN
  /\ bounds \subseteq Areas /\ dirt \subseteq Areas
  /\ shown \in Fbs \cup {0} /\ modeCur \in Fbs \cup {0}
  /\ at \in [Threads -> Ops]
  /\ \A t \in Threads : at[t].pc \in {"new", "sent", "cancel"} => at[t].req # None
  /\ raced \in BOOLEAN /\ strayed \in BOOLEAN /\ corrupt \in BOOLEAN

\* prl_drm_probe and prl_drm_driver_load.
Init ==
  /\ C!CInit
  /\ pending = None
  /\ bounds = {} /\ dirt = {} /\ removed = FALSE
  /\ svga = FALSE /\ shown = 0 /\ modeCur = 0
  /\ at = [t \in Threads |-> Quiet]
  /\ raced = FALSE /\ strayed = FALSE /\ corrupt = FALSE

-----------------------------------------------------------------------------
At(t, pc)   == at[t].pc = pc /\ ~corrupt
Idle(t)     == At(t, "idle") /\ ~removed
Busy        == {"new", "sent", "stop", "cancel", "freed"}
Overlaps(t) == \E u \in Threads \ {t} : at[u].pc \in Busy
Answered(r) == phase[r] = "answered"

\* What a call does once the state is shared, or could not be.
Then(t, kind) ==
  IF kind = "dirty" /\ pending' # None THEN [at[t] EXCEPT !.pc = "offset", !.req = None]
                                       ELSE Quiet

-----------------------------------------------------------------------------
(* Sharing: prl_drm_share_state_start and _stop, and their callers.        *)

\* A caller finds nothing pending and starts: tg_req_create may fail.
Start(t, kind, fb, area) ==
  /\ Idle(t) /\ pending = None
  /\ \E r \in Reqs :
       /\ C!Begin(r)
       /\ at' = [at EXCEPT ![t] = [pc |-> "new", kind |-> kind, req |-> r,
                                   fb |-> fb, area |-> area, cmp |-> {}]]
  /\ raced' = (raced \/ Overlaps(t))
  /\ UNCHANGED <<sharing, head, corrupt>>

Submit(t) ==
  /\ At(t, "new") /\ C!Hand(at[t].req)
  /\ at' = [at EXCEPT ![t].pc = "sent"]
  /\ UNCHANGED <<sharing, head, raced, corrupt>>

\* Unless the host has ended it at once, the request becomes the pending one.
Started(t) ==
  LET r == at[t].req IN
  /\ At(t, "sent")
  /\ \/ ~Answered(r) /\ pending' = r /\ UNCHANGED request
     \/ /\ answer[r] # "SUCCESS"   \* else it is given to the host again
        /\ C!Return(r) /\ pending' = None
  /\ at' = [at EXCEPT ![t] = Then(t, at[t].kind)]
  /\ UNCHANGED <<bounds, dirt, removed, head, raced, corrupt>>

\* A call to draw finds the state shared.
Shared(t, fb, area) ==
  /\ Idle(t) /\ pending # None
  /\ at' = [at EXCEPT ![t] = [Quiet EXCEPT !.pc = "offset", !.kind = "dirty", !.fb = fb,
                                          !.area = area]]
  /\ UNCHANGED <<request, sharing, head, raced, corrupt>>

\* prl_fb_dirty.
Draws(t) ==
  \E fb \in Fbs, area \in SUBSET Areas \ {{}} :
    Start(t, "dirty", fb, area) \/ Shared(t, fb, area)

\* prl_kms_atomic_update_cursor_plane_helper only starts to share ...
Moves(t) == Start(t, "move", 0, {})

\* ... as does a mapping of the page that is opened or touched, or a master
\* that is set and has one.
Sharers(t) == Draws(t) \/ Moves(t)

\* When sharing has stopped, prl_drm_master_drop goes on with the mode.
Leave(kind) == IF kind = "drop" THEN [Quiet EXCEPT !.pc = "leave", !.kind = kind] ELSE Quiet

\* The device is unregistered before it stops sharing: nobody is in a call.
Unregistered(t) == \A u \in Threads \ {t} : At(u, "idle")

\* The mapping is closed, the master dropped while there is no console of the
\* driver's, or the device removed.
Stop(t, kind) ==
  /\ Idle(t)
  /\ kind = "remove" => Unregistered(t)
  /\ \/ /\ pending # None
        /\ at' = [at EXCEPT ![t] = [Quiet EXCEPT !.pc = "stop", !.kind = kind]]
        /\ raced' = (raced \/ Overlaps(t))
        /\ UNCHANGED removed
     \/ /\ pending = None
        /\ removed' = (kind = "remove")
        /\ at' = [at EXCEPT ![t] = Leave(kind)]
        /\ UNCHANGED raced
  /\ UNCHANGED <<request, pending, bounds, dirt, head, corrupt>>

\* Seeded fault: nobody waits for the host to let go of the request.
Cancel_NoWait(t) ==
  /\ At(t, "stop")
  /\ at' = [at EXCEPT ![t].pc = "freed"]
  /\ UNCHANGED <<request, sharing, head, raced, corrupt>>

\* call_tg_async_cancel waits for the host to let go of what is pending now.
Cancel(t) ==
  /\ At(t, "stop")
  /\ at' = [at EXCEPT ![t].pc = IF pending = None THEN "freed" ELSE "cancel",
                      ![t].req = pending]
  /\ UNCHANGED <<request, sharing, head, raced, corrupt>>

Cancelled(t) ==
  LET r == at[t].req IN
  /\ At(t, "cancel")
  /\ \/ Answered(r) /\ C!Return(r) /\ UNCHANGED corrupt
     \/ phase[r] = "idle" /\ corrupt' = TRUE /\ UNCHANGED request
  /\ at' = [at EXCEPT ![t].pc = "freed"]
  /\ UNCHANGED <<sharing, head, raced>>

\* Seeded fault: the pointer to the cancelled request is kept.
Stopped_Dangling(t) ==
  LET kind == at[t].kind IN
  /\ At(t, "freed")
  /\ removed' = (kind = "remove")
  /\ at' = [at EXCEPT ![t] = Leave(kind)]
  /\ UNCHANGED <<request, pending, bounds, dirt, head, raced, corrupt>>

Stopped(t) ==
  LET kind == at[t].kind IN
  /\ At(t, "freed")
  /\ pending' = None
  /\ removed' = (kind = "remove")
  /\ at' = [at EXCEPT ![t] = Leave(kind)]
  /\ UNCHANGED <<request, bounds, dirt, head, raced, corrupt>>

-----------------------------------------------------------------------------
(* prl_fb_dirty, once the state is shared.                                 *)

\* Where prl_drm_display_set_offset points the head: a buffer that is not in
\* the aperture has no aperture address, and the first one is shown.
DirtyOffset(fb) == IF Aperture THEN fb ELSE 1

SetOffset(t) ==
  /\ At(t, "offset")
  /\ shown' \in {shown, IF shown = 0 THEN 0 ELSE DirtyOffset(at[t].fb)}
  /\ strayed' = (strayed \/ shown' # shown)
  /\ at' = [at EXCEPT ![t].pc = "read"]
  /\ UNCHANGED <<request, sharing, svga, modeCur, raced, corrupt>>

\* The bounds are read; they may have it all.
ReadBounds(t) ==
  LET area == at[t].area IN
  /\ At(t, "read")
  /\ \/ /\ area \subseteq bounds
        /\ dirt' = dirt \cup area
        /\ at' = [at EXCEPT ![t] = Quiet]
     \/ /\ ~(area \subseteq bounds)
        /\ at' = [at EXCEPT ![t].pc = "write", ![t].cmp = bounds]
        /\ UNCHANGED dirt
  /\ UNCHANGED <<request, pending, bounds, removed, head, raced, corrupt>>

\* Seeded fault: the merged bounds are stored, not exchanged.
WriteBounds_Store(t) ==
  /\ At(t, "write")
  /\ bounds' = at[t].cmp \cup at[t].area
  /\ dirt' = dirt \cup at[t].area
  /\ at' = [at EXCEPT ![t] = Quiet]
  /\ UNCHANGED <<request, pending, removed, head, raced, corrupt>>

\* atomic64_cmpxchg of the merged bounds, tried again if they have changed.
WriteBounds(t) ==
  LET area == at[t].area IN
  /\ At(t, "write")
  /\ \/ /\ bounds = at[t].cmp
        /\ bounds' = bounds \cup area
        /\ dirt' = dirt \cup area
        /\ at' = [at EXCEPT ![t] = Quiet]
     \/ /\ bounds # at[t].cmp
        /\ at' = [at EXCEPT ![t].pc = "read"]
        /\ UNCHANGED <<bounds, dirt>>
  /\ UNCHANGED <<request, pending, removed, head, raced, corrupt>>

-----------------------------------------------------------------------------
(* The head.                                                               *)

Setting(t) == \E u \in Threads \ {t} : at[u].pc \in {"mode", "cache"}

\* prl_kms_atomic_update_primary_plane_helper, under the modeset locks, unless
\* prl_drm_display_set_mode finds nothing to change.
Flip(t, fb) ==
  /\ Idle(t) /\ \A u \in Threads : at[u].kind # "flip"
  /\ ~(svga /\ modeCur = fb)
  /\ at' = [at EXCEPT ![t] = [Quiet EXCEPT !.pc = "mode", !.kind = "flip", !.fb = fb]]
  /\ UNCHANGED <<request, sharing, head, raced, corrupt>>

\* The dropped master leaves the console another driver has, or text mode.
LeaveMode(t) ==
  /\ At(t, "leave")
  /\ \/ at' = [at EXCEPT ![t].pc = "mode", ![t].fb = 1] /\ UNCHANGED svga
     \/ svga' = FALSE /\ at' = [at EXCEPT ![t] = Quiet]
  /\ UNCHANGED <<request, sharing, shown, modeCur, strayed, raced, corrupt>>

\* The host sets the mode, or fails to, of which call_tg_sync does not tell.
SetMode(t) ==
  /\ At(t, "mode")
  /\ \/ shown' = at[t].fb /\ svga' = TRUE /\ strayed' = Setting(t)
     \/ UNCHANGED <<shown, svga>> /\ strayed' = TRUE
  /\ at' = [at EXCEPT ![t].pc = "cache"]
  /\ UNCHANGED <<request, sharing, modeCur, raced, corrupt>>

NoteMode(t) ==
  /\ At(t, "cache")
  /\ modeCur' = at[t].fb
  /\ at' = [at EXCEPT ![t] = Quiet]
  /\ UNCHANGED <<request, sharing, svga, shown, strayed, raced, corrupt>>

\* Seeded fault: a disabled head keeps its current mode.
Disable_Keeps(t) ==
  /\ Idle(t) /\ \A u \in Threads : ~At(u, "off")
  /\ at' = [at EXCEPT ![t] = [Quiet EXCEPT !.pc = "off", !.fb = modeCur]]
  /\ UNCHANGED <<request, sharing, head, raced, corrupt>>

\* prl_drm_enable_heads_ioctl for a head to be disabled, under another lock
\* than a flip: the mode is cleared, then the host is told.
Disable(t) ==
  /\ Idle(t) /\ \A u \in Threads : ~At(u, "off")
  /\ modeCur' = 0
  /\ at' = [at EXCEPT ![t] = [Quiet EXCEPT !.pc = "off", !.fb = modeCur']]
  /\ UNCHANGED <<request, sharing, svga, shown, strayed, raced, corrupt>>

DisableHost(t) ==
  /\ At(t, "off")
  /\ shown' \in {shown, 0}
  /\ strayed' = (strayed \/ Setting(t) \/ modeCur # at[t].fb)
  /\ at' = [at EXCEPT ![t] = Quiet]
  /\ UNCHANGED <<request, sharing, svga, modeCur, raced, corrupt>>

\* prl_drm_activate_svga_ioctl.
Activate(t) ==
  /\ Idle(t) /\ svga' \in BOOLEAN \ {svga}
  /\ UNCHANGED <<request, sharing, shown, modeCur, strayed, at, raced, corrupt>>

-----------------------------------------------------------------------------
\* The host shows what is in the bounds and clears them.
HostTakes ==
  /\ bounds # {} /\ ~removed /\ ~corrupt
  /\ \E r \in Reqs : phase[r] = "held"
  /\ bounds' = {} /\ dirt' = dirt \ bounds
  /\ UNCHANGED <<request, pending, removed, head, at, raced, corrupt>>

\* The host answers (that it failed is as good as cancelled); what has
\* succeeded is given to it again.
HostRequest ==
  /\ ~corrupt
  /\ \/ \E r \in Reqs : C!HostAnswers(r) /\ answer'[r] # "FAILED"
     \/ \E r \in Reqs : C!Again({r}) /\ phase'[r] = "held"
  /\ UNCHANGED <<sharing, head, at, raced, corrupt>>

Next ==
  \/ \E t \in Threads :
       \/ Sharers(t) \/ Submit(t) \/ Started(t)
       \/ \E kind \in {"unmap", "drop", "remove"} : Stop(t, kind)
       \/ Cancel(t) \/ Cancelled(t) \/ Stopped(t)
       \/ SetOffset(t) \/ ReadBounds(t) \/ WriteBounds(t)
       \/ \E fb \in Fbs : Flip(t, fb)
       \/ LeaveMode(t) \/ SetMode(t) \/ NoteMode(t)
       \/ Disable(t) \/ DisableHost(t) \/ Activate(t)
  \/ HostTakes \/ HostRequest

Spec == Init /\ [][Next]_vars

-----------------------------------------------------------------------------
(* Properties.                                                             *)

InHand(r) == \E t \in Threads : at[t].pc \in Busy /\ at[t].req = r

\* As long as no two calls start or stop at once, at most one request is
\* outstanding, it is the pending one or on its way to be or to be cancelled,
\* and the host does not write to the page once it is freed
\* (prldrm.c:223-257, 810, 969, 1551, 1574, 1915, 1930, 1943, 2637).
OneShared ==
  /\ TypeOK
  /\ ~raced =>
       \A r \in Reqs :
         phase[r] # "idle" =>
           /\ ~removed
           /\ \A q \in Reqs \ {r} : phase[q] = "idle"
           /\ r = pending \/ InHand(r)

\* A pending request is one that was not freed, and no request is cancelled
\* twice, unless two calls did start or stop at once (prldrm.c:251-257).
PendingLive ==
  ~raced =>
    /\ ~corrupt
    /\ pending # None => phase[pending] \in {"held", "answered"} \/ InHand(pending)

\* What a call has said was drawn is in the bounds until the host takes it,
\* however many calls merge their bounds at once (prldrm.c:818-844).
NoDirtLost == dirt \subseteq bounds

\* mode_cur is what the head shows: a flip it makes superfluous is one.  It is
\* not after a failed request, an offset set by a dirty call or a head that is
\* set by two calls at once, until the mode is set again
\* (prldrm.c:321, 379-388, 910-934, 2190, 392-418).
ModeKnown ==
  ~strayed /\ modeCur # 0 /\ (\A t \in Threads : at[t].pc \notin {"mode", "cache", "off"})
    => shown = modeCur
=============================================================================
