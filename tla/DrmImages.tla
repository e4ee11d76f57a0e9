----------------------------- MODULE DrmImages -----------------------------
(***************************************************************************)
(* prldrm.c: the images of the video device.  An image is a pbuffer of the *)
(* host, a description (GEM handle, geometry, format), the GEM object      *)
(* bound to it, and up to MaxOwner owners, the open files that share it.   *)
(* Every operation runs under img_lock, so each is one step.               *)
(*                                                                         *)
(* A handle names an object only within its file and until it is closed,   *)
(* so looking one up finds any object, or none.  0 is no handle and no     *)
(* pbuffer.  Names with Img tell this module's from DrmDisplay's, whose    *)
(* file prldrm.c is as well.                                               *)
(***************************************************************************)
EXTENDS Integers, FiniteSets

CONSTANTS
  Files,     \* open files of the device
  Objects,   \* GEM objects
  Handles,   \* GEM handles
  Geos,      \* width, height and offset
  Formats,   \* pixel formats
  MaxOwner,  \* PRL_DRM_IMAGE_MAX_OWNER
  Buffers,   \* bound: the pbuffers the host can have at a time
  MaxPlace,  \* bound: the places of images on the list
  MaxOver,   \* bound: an object is given back no more often than this too often
  Nil       \* no file, no object

ASSUME ImageAssumption ==
  /\ Nil \notin Files \cup Objects
  /\ 0 \notin Handles \cup Buffers
  /\ MaxOwner \in Nat \ {0} /\ MaxPlace \in Nat \ {0} /\ MaxOver \in Nat

VARIABLES
  open,    \* the files that are open
  images,  \* img_list: places, counted from its end, to images
  refs,    \* references to each object that images have taken, less those given back
  bufs     \* the pbuffers the host has

imgVars == <<open, images, refs, bufs>>

Images ==
  [pbuffer : Buffers, handle : Handles \cup {0}, geo : Geos, format : Formats,
   go : Objects \cup {Nil}, num : 1..MaxOwner,
   owners : [1..MaxOwner -> Files \cup {Nil}]]

ImgTypeOK ==
  /\ open \subseteq Files
  /\ DOMAIN images \subseteq 1..MaxPlace
  /\ images \in [DOMAIN images -> Images]
  /\ refs \in [Objects -> Int]
  /\ bufs \subseteq Buffers

ImgInit ==
  /\ open = {}
  /\ images = [p \in {} |-> {}]
  /\ refs = [o \in Objects |-> 0]
  /\ bufs = {}

-----------------------------------------------------------------------------
Slots(img, x) == {k \in 1..MaxOwner : img.owners[k] = x}
Slot(img, x)  == CHOOSE k \in Slots(img, x) : \A j \in Slots(img, x) : k <= j
Owns(f, img)  == Slots(img, f) # {}

\* A reference of an object is given back; there may be no object.
Put(r, o) == IF o = Nil THEN r ELSE [r EXCEPT ![o] = @ - 1]
Get(r, o) == IF o = Nil THEN r ELSE [r EXCEPT ![o] = @ + 1]

\* drm_gem_object_lookup.
Found(handle) == IF handle = 0 THEN {Nil} ELSE Objects \cup {Nil}

\* A file leaves an image that it does not own alone.
LeaveImg(img, f) ==
  [img EXCEPT !.owners[Slot(img, f)] = Nil, !.num = img.num - 1]

\* Seeded fault: the new owner is not counted.
Join_Uncounted(img, f) == [img EXCEPT !.owners[Slot(img, Nil)] = f]

Join(img, f) == [img EXCEPT !.owners[Slot(img, Nil)] = f, !.num = img.num + 1]

NewImg(b, d, go, f) ==
  [pbuffer |-> b, handle |-> d.handle, geo |-> d.geo, format |-> d.format, go |-> go,
   num |-> 1, owners |-> [k \in 1..MaxOwner |-> IF k = 1 THEN f ELSE Nil]]

\* list_add: before all others.
Added(list, img) ==
  LET n == CHOOSE n \in 1..MaxPlace : \A p \in DOMAIN list : p < n
  IN  [p \in DOMAIN list \cup {n} |-> IF p = n THEN img ELSE list[p]]

\* prl_drm_create_image, on the list and the references given: the pbuffer,
\* then the object, then the list.  Without the object the pbuffer is given
\* back, of which the host may not get to know.
NewImage(f, d, list, r) ==
  \/ images' = list /\ refs' = r /\ UNCHANGED bufs
  \/ \E b \in Buffers \ bufs, go \in Found(d.handle) :
       \/ /\ go # Nil \/ d.handle = 0
          /\ MaxPlace \notin DOMAIN list
          /\ images' = Added(list, NewImg(b, d, go, f))
          /\ refs' = Get(r, go)
          /\ bufs' = bufs \cup {b}
       \/ /\ go = Nil /\ d.handle # 0
          /\ images' = list /\ refs' = r
          /\ bufs' \in {bufs, bufs \cup {b}}

-----------------------------------------------------------------------------
\* prl_drm_open.
Open(f) ==
  /\ f \notin open /\ open' = open \cup {f}
  /\ UNCHANGED <<images, refs, bufs>>

(* prl_drm_image_create_ioctl: the first image that fits decides.          *)

Same(d, img) == d.handle = img.handle /\ d.geo = img.geo
Fits(d, img) == d.pbuffer = img.pbuffer \/ (d.pbuffer = 0 /\ Same(d, img))
Fitting(d)   == {i \in DOMAIN images : Fits(d, images[i])}
First(d)     == CHOOSE i \in Fitting(d) : \A j \in Fitting(d) : i >= j

\* The description of an image is replaced.
Redescribe(i, d, handle, go) ==
  images' = [images EXCEPT ![i] = [images[i] EXCEPT
               !.handle = handle, !.geo = d.geo, !.format = d.format, !.go = go]]

\* The only owner binds, unbinds, resizes or changes the format, or gives
\* the bound image another handle.
Change(d, i) ==
  LET img == images[i] IN
  /\ \/ /\ d.handle # img.handle /\ img.go = Nil
        /\ \E go \in Found(d.handle) \ {Nil} :
             Redescribe(i, d, d.handle, go) /\ refs' = Get(refs, go)
     \/ /\ d.handle # img.handle /\ img.go # Nil
        /\ d.handle = 0
        /\ Redescribe(i, d, 0, Nil)
        /\ refs' = Put(refs, img.go)
     \/ /\ d.handle # img.handle /\ img.go # Nil
        /\ d.handle # 0
        /\ Redescribe(i, d, d.handle, img.go)
        /\ UNCHANGED refs
     \/ /\ d.handle = img.handle /\ d.geo # img.geo
        /\ Redescribe(i, d, 0, Nil)
        /\ refs' = Put(refs, img.go)
     \/ /\ d.handle = img.handle /\ d.geo = img.geo /\ d.format # img.format
        /\ Redescribe(i, d, d.handle, img.go)
        /\ UNCHANGED refs
  /\ UNCHANGED bufs

\* One of several owners gives the object back, leaves, and has an image of
\* its own made.
Drop(f, d, i) ==
  /\ images[i].go # Nil => refs[images[i].go] > -MaxOver
  /\ ~(Same(d, images[i]) /\ d.format = images[i].format)
  /\ NewImage(f, d, [images EXCEPT ![i] = LeaveImg(images[i], f)], Put(refs, images[i].go))

Export(f, i) ==
  /\ Slots(images[i], Nil) # {}
  /\ images' = [images EXCEPT ![i] = Join(images[i], f)]
  /\ UNCHANGED <<refs, bufs>>

\* (What fails or finds nothing to change leaves everything as it is.)
Create(f, d) ==
  /\ f \in open
  /\ \/ /\ Fitting(d) = {}
        /\ NewImage(f, d, images, refs)
     \/ /\ Fitting(d) # {}
        /\ LET i == First(d) IN
           \/ d.pbuffer # 0 /\ Owns(f, images[i]) /\ images[i].num = 1 /\ Change(d, i)
           \/ d.pbuffer # 0 /\ Owns(f, images[i]) /\ images[i].num # 1 /\ Drop(f, d, i)
           \/ d.pbuffer = 0 /\ Owns(f, images[i]) /\ NewImage(f, d, images, refs)
           \/ d.pbuffer = 0 /\ ~Owns(f, images[i]) /\ Export(f, i)
  /\ UNCHANGED open

-----------------------------------------------------------------------------
(* The end of images.                                                      *)

\* prl_drm_destroy_image is for the last owner.
Dies(f, img) == Owns(f, img) /\ img.num = 1

\* f is done with the images at these places: those it owns alone go, it
\* leaves the others.
Dead(f, places) == {i \in places : Dies(f, images[i])}
Parted(f, places) ==
  images' = [i \in DOMAIN images \ Dead(f, places) |->
               IF i \in places /\ Owns(f, images[i]) THEN LeaveImg(images[i], f) ELSE images[i]]

\* Seeded fault: the pbuffer goes with any owner.
GiveBack_Owned(f, places) ==
  /\ refs' = [o \in Objects |->
                refs[o] - Cardinality({i \in Dead(f, places) : images[i].go = o})]
  /\ bufs' = bufs \ {images[i].pbuffer : i \in {k \in places : Owns(f, images[k])}}

\* The objects and the pbuffers of those that die are given back; the host
\* may not get to know of the pbuffer.
GiveBack(f, places) ==
  /\ refs' = [o \in Objects |->
                refs[o] - Cardinality({i \in Dead(f, places) : images[i].go = o})]
  /\ \E told \in SUBSET {images[i].pbuffer : i \in Dead(f, places)} :
       bufs' = bufs \ told

\* prl_drm_image_release_ioctl.
Release(f, i) ==
  /\ f \in open
  /\ Owns(f, images[i])
  /\ GiveBack(f, {i}) /\ Parted(f, {i})
  /\ UNCHANGED open

\* Seeded fault: the walk ends with the first image of the file.
Close_First(f) ==
  LET mine == {i \in DOMAIN images : Owns(f, images[i])}
      here == {i \in mine : \A j \in mine : i >= j}
  IN  /\ f \in open /\ open' = open \ {f}
      /\ GiveBack(f, here) /\ Parted(f, here)

\* prl_drm_postclose.
Close(f) ==
  /\ f \in open /\ open' = open \ {f}
  /\ GiveBack(f, DOMAIN images) /\ Parted(f, DOMAIN images)

Descs ==
  [pbuffer : Buffers \cup {0},
   handle : Handles \cup {0}, geo : Geos, format : Formats]

ImgNext ==
  \E f \in Files :
    \/ \E d \in Descs : Create(f, d)
    \/ \E i \in DOMAIN images : Release(f, i)
    \/ Open(f)
    \/ Close(f)

ImgSpec == ImgInit /\ [][ImgNext]_imgVars

-----------------------------------------------------------------------------
(* Properties.                                                             *)

\* num_owners counts the owners, no file owns an image twice, and every owner
\* is an open file (prldrm.c:187-196, 1612-1640, 2304-2339, 2386-2403).
OwnersCounted ==
  /\ ImgTypeOK
  /\ \A i \in DOMAIN images :
       LET holders == {k \in 1..MaxOwner : images[i].owners[k] # Nil} IN
       /\ images[i].num = Cardinality(holders)
       /\ \A k, j \in holders : images[i].owners[k] = images[i].owners[j] => k = j
       /\ \A k \in holders : images[i].owners[k] \in open

\* Every image has a pbuffer of its own, and the host still has it
\* (prldrm.c:578, 612, 2283).
PbuffersLive ==
  \A i, j \in DOMAIN images :
    /\ images[i].pbuffer \in bufs
    /\ images[i].pbuffer = images[j].pbuffer => i = j

\* When every file is closed, no image is left and no object is kept from
\* being freed (prldrm.c:1612-1634).
NothingKept == open = {} => DOMAIN images = {} /\ \A o \in Objects : refs[o] <= 0
=============================================================================
