---------------------------- MODULE PvmNetProofs ----------------------------
(***************************************************************************)
(* For any ring sizes, packets and cables: nobody is left asleep, the       *)
(* carrier, the queue and the interrupt agree with the cable and with      *)
(* whether the device is open, and no packet is written over another.      *)
(*                                                                         *)
(* The argument: an event is at each moment at one of three places, the    *)
(* device, the handler that has read it and not yet seen to it, or what    *)
(* the handler has made of it (Attached, Awake).  The handler runs only    *)
(* while the interrupt is requested (Quiet), and every run of it ends with *)
(* the interrupt enabled.  The packets of a ring lie one behind the other, *)
(* in distances from the head, for as far as the tail (Laid); distances of *)
(* less than Units that are apart are places that are apart, as offsets    *)
(* wrap at a multiple of Units (PlaceIs, Apart).                           *)
(***************************************************************************)
EXTENDS PvmNet, TLAPS, SequenceTheorems

\* The handler has read this event and not yet seen to it.
Holds(e) == isr.pc = "events" /\ e \in isr.status

\* What closing the device leaves behind: no handler, and nothing enabled
\* unless the handler ran since.
Quiet ==
  /\ phase \in {"absent", "closed", "request"} => isr.pc = "idle"
  /\ phase \in {"absent", "closed", "request"} /\ ~late => ~mask /\ ~queue /\ ~carrier
  /\ phase \in {"stop", "sync"} /\ ~late => isr.pc = "idle" /\ ~mask
  /\ phase = "sync" /\ ~late => ~queue /\ ~carrier
  /\ phase \in {"start", "carrier", "open"} => mask \/ isr.pc # "idle"

\* What is known of the cable.
Attached ==
  /\ Holds("cable") => isr.up = connected \/ "cable" \in pending
  /\ phase \in {"request", "enable", "start", "carrier"} =>
       link = connected \/ overtaken \/ Holds("cable") \/ "cable" \in pending
  /\ phase = "open" =>
       carrier = connected \/ overtaken \/ Holds("cable") \/ "cable" \in pending

\* Who sees to packets that were sent or received, and to a stopped queue.
Awake ==
  /\ present => kicked \/ xmit.pc = "flush"
  /\ sent # <<>> => kicked \/ xmit.pc \in {"flag", "set", "flush"}
  /\ isr.pc = "move" => isr.offset = tail \/ "received" \in pending
  /\ rcvd # <<>> =>
       asleep \/ "received" \in pending \/ Holds("received") \/ isr.pc \in {"read", "move"}
  /\ phase \in {"carrier", "open"} /\ ~queue /\ connected =>
       \/ xmit.pc = "notify" \/ wanted
       \/ \E e \in {"space", "cable"} : e \in pending \/ Holds(e)

\* A ring's packets lie one behind the other from head to tail.
Laid(from, to, ring) ==
  /\ Used(from, to) <= Units
  /\ from = IF ring = <<>> THEN to ELSE ring[1].at
  /\ \A i \in DOMAIN ring :
       /\ Past(ring[i].at, RxSize(ring[i])) = IF i = Len(ring) THEN to ELSE ring[i + 1].at
       /\ Used(from, ring[i].at) + RxSize(ring[i]) <= Used(from, to)
       /\ \A j \in DOMAIN ring : i < j =>
            Used(from, ring[i].at) + RxSize(ring[i]) <= Used(from, ring[j].at)

Sizes == SUBSET ((1..Units) \cap (1..TailRoom + 1))

\* Both rings are filled so, a packet that is written fits, and the handler is
\* where a packet begins or at the tail.
Filled ==
  /\ Laid(sendHead, sendTail, sent) /\ Laid(head, tail, rcvd)
  /\ xmit.pc = "write" => xmit.units <= Units - Used(sendHead, sendTail)
  /\ isr.pc \in {"read", "move"} =>
       isr.offset = tail \/ \E i \in DOMAIN rcvd : rcvd[i].at = isr.offset

\* A packet that is being written has a size.
Typed == TypeOK /\ (xmit.pc = "write" => xmit.units \in SendSizes)

IInv == Typed /\ Quiet /\ Attached /\ Awake /\ Filled

-----------------------------------------------------------------------------
(* Offsets.                                                                *)

\* What is left after a division.
LEMMA Remainder ==
  ASSUME NEW w \in Nat \ {0}, NEW q \in Int, NEW r \in 0..(w - 1)
  PROVE  (w * q + r) % w = r
OBVIOUS

\* There is a quotient.
LEMMA Divided ==
  ASSUME NEW w \in Nat \ {0}, NEW x \in Int
  PROVE  \E q \in Int : x = w * q + (x % w)
<1> WITNESS x \div w \in Int
<1> QED OBVIOUS

\* A multiple is one of something.
LEMMA Multiple ==
  ASSUME NEW w \in Nat \ {0}, NEW x \in Int, x % w = 0
  PROVE  \E q \in Int : x = w * q
<1> WITNESS x \div w \in Int
<1> QED OBVIOUS

\* The distance between two offsets, and an offset moved past a packet.
LEMMA UsedIs ==
  ASSUME NEW x \in Offsets, NEW y \in Offsets
  PROVE  Used(x, y) = IF x <= y THEN y - x ELSE y - x + Wrap
<1> USE NetAssumption DEF Offsets
<1>1. CASE x <= y
  BY <1>1 DEF Used
<1>2. CASE x > y
  BY <1>2 DEF Used
<1> QED BY <1>1, <1>2

\* An offset that wraps at most once.
LEMMA PastIs ==
  ASSUME NEW o \in Offsets, NEW u \in 0..Units
  PROVE  /\ Past(o, u) = IF o + u < Wrap THEN o + u ELSE o + u - Wrap
         /\ Past(o, u) \in Offsets
<1> USE NetAssumption DEF Offsets
<1>1. CASE o + u < Wrap
  BY <1>1 DEF Past
<1>2. CASE o + u >= Wrap
  BY <1>2 DEF Past
<1> QED BY <1>1, <1>2

\* Where an offset lies, from where one before it does: buffers wrap with offsets.
LEMMA PlaceIs ==
  ASSUME NEW from \in Offsets, NEW x \in Offsets, Used(from, x) <= Units
  PROVE  /\ Place(from) \in 0..(Units - 1)
         /\ Place(x) = IF Place(from) + Used(from, x) < Units
                       THEN Place(from) + Used(from, x) ELSE Place(from) + Used(from, x) - Units
<1> DEFINE d == Used(from, x)
           p == Place(from)
           r == IF p + d < Units THEN p + d ELSE p + d - Units
<1>1. Units \in Nat \ {0} /\ from \in Int /\ x \in Int /\ Wrap \in Int
  BY NetAssumption DEF Offsets
<1>2. p \in 0..(Units - 1)
  BY <1>1 DEF Place
<1>3. d \in 0..Units /\ (x = from + d \/ x = from + d - Wrap)
  <2>1. Used(from, x) = IF from <= x THEN x - from ELSE x - from + Wrap
    BY UsedIs
  <2> QED BY <1>1, <2>1, NetAssumption DEF Offsets
<1>4. PICK a \in Int : from = Units * a + p
  BY <1>1, Divided DEF Place
<1>5. PICK m \in Int : Wrap = Units * m
  BY <1>1, NetAssumption, Multiple
<1> HIDE DEF d, p
<1>6. r \in 0..(Units - 1) /\ (p + d = r \/ p + d = Units + r)
  BY <1>1, <1>2, <1>3
<1> HIDE DEF r
<1>7. \E q \in Int : x = Units * q + r
  <2>1. x \in {Units * a + r, Units * a + Units + r, Units * a + r - Units * m, Units * a + Units + r - Units * m}
    BY <1>1, <1>2, <1>3, <1>4, <1>5, <1>6
  <2>2. /\ Units * a + Units + r = Units * (a + 1) + r
        /\ Units * a + r - Units * m = Units * (a - m) + r
        /\ Units * a + Units + r - Units * m = Units * (a + 1 - m) + r
    BY <1>1, <1>6
  <2>3. a \in Int /\ a + 1 \in Int /\ a - m \in Int /\ a + 1 - m \in Int
    OBVIOUS
  <2> QED BY <2>1, <2>2, <2>3
<1>8. x % Units = r
  <2>1. PICK q \in Int : x = Units * q + r
    BY <1>7
  <2> QED BY <1>1, <1>6, <2>1, Remainder
<1> QED BY <1>2, <1>8 DEF Place, r, p, d

(* Rings.                                                                  *)

\* What a packet takes of the ring.
LEMMA RxSizeFits ==
  ASSUME NEW S \in Sizes, NEW F \in SUBSET BOOLEAN, NEW p \in Packets(S, F)
  PROVE  p.at \in Offsets /\ RxSize(p) \in 1..Units /\ RxSize(p) <= TailRoom + 1
<1>1. p.at \in Offsets /\ p.units \in S /\ p.fixed \in F
  BY DEF Packets
<1>2. RxSize(p) \in S \cup {Fixed}
  BY <1>1 DEF RxSize
<1>3. S \cup {Fixed} \subseteq (1..Units) \cap (1..TailRoom + 1)
  BY NetAssumption DEF Sizes
<1>4. RxSize(p) \in 1..Units /\ RxSize(p) \in 1..TailRoom + 1
  BY <1>2, <1>3
<1> QED BY <1>1, <1>4, NetAssumption

\* Distances and offsets are numbers.
LEMMA Numbers ==
  /\ Units \in Nat /\ Units > 0 /\ TailRoom \in Nat /\ Wrap \in Nat /\ Units < Wrap
  /\ \A x \in Offsets : x \in Nat /\ x < Wrap
  /\ \A x, y \in Offsets : Used(x, y) \in Nat
<1>1. /\ Units \in Nat /\ Units > 0 /\ TailRoom \in Nat /\ Wrap \in Nat /\ Units < Wrap
      /\ \A x \in Offsets : x \in Nat /\ x < Wrap
  BY NetAssumption DEF Offsets
<1>2. ASSUME NEW x \in Offsets, NEW y \in Offsets PROVE Used(x, y) \in Nat
  <2>1. Used(x, y) = IF x <= y THEN y - x ELSE y - x + Wrap
    BY UsedIs
  <2> QED BY <1>1, <2>1
<1> QED BY <1>1, <1>2

\* Two packets of which one begins behind the other's end do not meet in the buffer.
LEMMA Apart ==
  ASSUME NEW u \in Nat, NEW p \in 0..(u - 1), NEW d \in Nat, NEW s \in Nat, NEW e \in Nat, NEW t \in Nat,
         d + s <= e, e + t <= u, s > 0, t > 0
  PROVE  LET x == IF p + d < u THEN p + d ELSE p + d - u
             y == IF p + e < u THEN p + e ELSE p + e - u
         IN  x + s <= y \/ y + t <= x
OBVIOUS

\* The sizes and flags of packets that are sent and received.
LEMMA Kinds ==
  /\ SendSizes \in Sizes /\ RecvSizes \in Sizes
  /\ {FALSE} \in SUBSET BOOLEAN /\ BOOLEAN \in SUBSET BOOLEAN
BY NetAssumption DEF Sizes

\* A received packet.
LEMMA Received ==
  ASSUME NEW p \in Receives
  PROVE  p.at \in Offsets /\ RxSize(p) \in 0..Units
<1>1. RxSize(p) \in 1..Units /\ p.at \in Offsets
  BY Kinds, RxSizeFits DEF Receives
<1> QED BY <1>1, NetAssumption

\* Laid so, packets do not overlap in the buffer.
LEMMA LaidIsSound ==
  ASSUME NEW S \in Sizes, NEW F \in SUBSET BOOLEAN, NEW ring \in Seq(Packets(S, F)),
         NEW from \in Offsets, NEW to \in Offsets, Laid(from, to, ring)
  PROVE  Sound(from, to, ring)
<1>1. \A i \in DOMAIN ring :
        ring[i].at \in Offsets /\ RxSize(ring[i]) \in 1..Units /\ RxSize(ring[i]) <= TailRoom + 1
  <2> TAKE i \in DOMAIN ring
  <2>1. ring[i] \in Packets(S, F)
    OBVIOUS
  <2> QED BY <2>1, RxSizeFits
<1>2. Units \in Nat /\ TailRoom \in Nat /\ Wrap \in Nat /\ Units > 0 /\ Used(from, to) \in Nat
      /\ Used(from, to) <= Units
  <2>1. Used(from, to) \in Nat
    BY Numbers
  <2> QED BY <2>1, Numbers DEF Laid
<1> DEFINE d(i) == Used(from, ring[i].at)
           at(i) == Place(ring[i].at)
           s(i) == RxSize(ring[i])
<1>3. \A i \in DOMAIN ring : d(i) \in Nat /\ d(i) + s(i) <= Units
  <2> TAKE i \in DOMAIN ring
  <2>1. d(i) \in Nat
    BY <1>1, Numbers
  <2> QED BY <1>1, <1>2, <2>1 DEF Laid
<1>4. \A i \in DOMAIN ring :
        at(i) = IF Place(from) + d(i) < Units THEN Place(from) + d(i) ELSE Place(from) + d(i) - Units
  <2> TAKE i \in DOMAIN ring
  <2>1. d(i) <= Units
    BY <1>1, <1>2, <1>3
  <2> QED BY <1>1, <2>1, PlaceIs
<1>5. Place(from) \in 0..Units - 1
  BY NetAssumption DEF Offsets, Place
<1>6. \A i, j \in DOMAIN ring : i < j => d(i) + s(i) <= d(j)
  BY DEF Laid
<1>7. \A i \in DOMAIN ring : s(i) \in 1..Units /\ s(i) <= TailRoom + 1
  BY <1>1
<1>8. ASSUME NEW i \in DOMAIN ring
      PROVE  at(i) \in 0..Units - 1 /\ at(i) + s(i) <= Units + TailRoom
  <2> HIDE DEF at, d, s
  <2> QED BY SMTT(40), <1>2, <1>3, <1>4, <1>5, <1>7
<1>9. ASSUME NEW i \in DOMAIN ring, NEW j \in DOMAIN ring, i < j
      PROVE  at(i) + s(i) <= at(j) \/ at(j) + s(j) <= at(i)
  <2>1. d(i) + s(i) <= d(j)
    BY <1>6, <1>9
  <2>2. /\ Units \in Nat /\ Place(from) \in 0..(Units - 1)
        /\ d(i) \in Nat /\ s(i) \in Nat /\ s(i) > 0
        /\ d(j) \in Nat /\ s(j) \in Nat /\ s(j) > 0 /\ d(j) + s(j) <= Units
    BY <1>2, <1>3, <1>5, <1>7
  <2>3. /\ at(i) = IF Place(from) + d(i) < Units THEN Place(from) + d(i) ELSE Place(from) + d(i) - Units
        /\ at(j) = IF Place(from) + d(j) < Units THEN Place(from) + d(j) ELSE Place(from) + d(j) - Units
    BY <1>4
  <2> HIDE DEF at, d, s
  <2> QED BY SMTT(40), <2>1, <2>2, <2>3, Apart
<1>10. ASSUME NEW i \in DOMAIN ring, NEW j \in DOMAIN ring \ {i}
       PROVE  at(i) + s(i) <= at(j) \/ at(j) + s(j) <= at(i)
  <2>1. i \in Int /\ j \in Int /\ (i < j \/ j < i)
    OBVIOUS
  <2> HIDE DEF at, d, s
  <2> QED BY <1>9, <2>1
<1> QED BY <1>2, <1>8, <1>10 DEF Laid, Sound

\* An empty ring.
LEMMA LaidEmpty ==
  ASSUME NEW from \in Offsets
  PROVE  Laid(from, from, <<>>) /\ Used(from, from) = 0
<1>1. Used(from, from) = 0
  BY UsedIs, Numbers
<1> QED BY <1>1, Numbers DEF Laid

\* A packet is put behind the others.
LEMMA LaidAppend ==
  ASSUME NEW S \in Sizes, NEW F \in SUBSET BOOLEAN, NEW ring \in Seq(Packets(S, F)),
         NEW from \in Offsets, NEW to \in Offsets, Laid(from, to, ring),
         NEW p \in Packets(S, F), p.at = to, RxSize(p) <= Units - Used(from, to)
  PROVE  Laid(from, Past(to, RxSize(p)), Append(ring, p))
<1> DEFINE new == Append(ring, p)
           end == Past(to, RxSize(p))
           n   == Len(ring)
<1>1. /\ new \in Seq(Packets(S, F)) /\ Len(new) = n + 1 /\ n \in Nat /\ new[n + 1] = p
      /\ DOMAIN ring = 1..n /\ DOMAIN new = 1..(n + 1)
      /\ \A i \in 1..n : new[i] = ring[i]
      /\ new # <<>>
  OBVIOUS
<1>2. RxSize(p) \in 1..Units
  BY RxSizeFits
<1>3. Used(from, to) \in Nat /\ Units \in Nat /\ Units < Wrap /\ Wrap \in Nat
  BY Numbers
<1>4. end \in Offsets /\ Used(from, end) = Used(from, to) + RxSize(p)
  <2>1. end \in Offsets /\ end = IF to + RxSize(p) < Wrap THEN to + RxSize(p) ELSE to + RxSize(p) - Wrap
    BY <1>2, PastIs
  <2>2. /\ Used(from, to) = IF from <= to THEN to - from ELSE to - from + Wrap
        /\ Used(from, end) = IF from <= end THEN end - from ELSE end - from + Wrap
    BY <2>1, UsedIs
  <2>3. from \in Nat /\ from < Wrap /\ to \in Nat /\ to < Wrap
    BY Numbers
  <2> HIDE DEF end
  <2> QED BY SMTT(40), <1>2, <1>3, <2>1, <2>2, <2>3
<1>5. from = new[1].at
  BY <1>1 DEF Laid
<1>6. \A i \in 1..n : ring[i].at \in Offsets /\ RxSize(ring[i]) \in 1..Units /\ Used(from, ring[i].at) \in Nat
  <2> TAKE i \in 1..n
  <2>1. ring[i] \in Packets(S, F)
    BY <1>1
  <2>2. ring[i].at \in Offsets /\ RxSize(ring[i]) \in 1..Units
    BY <2>1, RxSizeFits
  <2> QED BY <2>2, Numbers
<1>7. Used(from, end) <= Units
  BY <1>2, <1>3, <1>4
<1>8. ASSUME NEW i \in 1..n + 1
      PROVE  /\ Past(new[i].at, RxSize(new[i])) = IF i = n + 1 THEN end ELSE new[i + 1].at
             /\ Used(from, new[i].at) + RxSize(new[i]) <= Used(from, end)
             /\ \A j \in 1..n + 1 : i < j => Used(from, new[i].at) + RxSize(new[i]) <= Used(from, new[j].at)
  <2>1. CASE i = n + 1
    <3>1. new[i] = p /\ ~\E j \in 1..n + 1 : i < j
      BY <1>1, <2>1
    <3>2. Past(p.at, RxSize(p)) = end
      OBVIOUS
    <3>3. Used(from, p.at) + RxSize(p) <= Used(from, end)
      BY <1>2, <1>3, <1>4
    <3> HIDE DEF new, end
    <3> QED BY <2>1, <3>1, <3>2, <3>3
  <2>2. CASE i \in 1..n
    <3>0. n \in Nat
      OBVIOUS
    <3> HIDE DEF new
    <3>1. /\ Past(ring[i].at, RxSize(ring[i])) = IF i = n THEN to ELSE ring[i + 1].at
          /\ Used(from, ring[i].at) + RxSize(ring[i]) <= Used(from, to)
          /\ \A j \in 1..n : i < j => Used(from, ring[i].at) + RxSize(ring[i]) <= Used(from, ring[j].at)
      BY <1>1, <2>2 DEF Laid
    <3>2. new[i] = ring[i] /\ i # n + 1 /\ (i # n => new[i + 1] = ring[i + 1]) /\ new[n + 1].at = to
      <4>1. i \in 1..n + 1 /\ i # n + 1 /\ (i # n => i + 1 \in 1..n)
        <5> HIDE DEF n
        <5> QED BY <2>2, <3>0
      <4> HIDE DEF n
      <4> QED BY <1>1, <2>2, <4>1
    <3>3. Past(new[i].at, RxSize(new[i])) = IF i = n + 1 THEN end ELSE new[i + 1].at
      BY <3>1, <3>2
    <3>4. Used(from, new[i].at) + RxSize(new[i]) <= Used(from, end)
      BY <1>2, <1>3, <1>4, <1>6, <2>2, <3>1, <3>2
    <3>5. ASSUME NEW j \in 1..n + 1, i < j
          PROVE  Used(from, new[i].at) + RxSize(new[i]) <= Used(from, new[j].at)
      <4>1. j = n + 1 \/ (j \in 1..n /\ new[j] = ring[j])
        <5> HIDE DEF n
        <5> QED BY <1>1, <3>0
      <4>2. CASE j = n + 1
        <5>1. Used(from, ring[i].at) + RxSize(ring[i]) <= Used(from, to)
          BY <3>1
        <5> HIDE DEF n
        <5> QED BY <3>2, <4>2, <5>1
      <4>3. CASE j \in 1..n /\ new[j] = ring[j]
        <5> HIDE DEF n
        <5> QED BY <3>1, <3>2, <3>5, <4>3
      <4> QED BY <4>1, <4>2, <4>3
    <3> QED BY <3>3, <3>4, <3>5
  <2> QED BY <1>1, <2>1, <2>2
<1> QED BY <1>1, <1>5, <1>7, <1>8 DEF Laid

\* The packets before one are taken.
LEMMA LaidFrom ==
  ASSUME NEW S \in Sizes, NEW F \in SUBSET BOOLEAN, NEW ring \in Seq(Packets(S, F)),
         NEW from \in Offsets, NEW to \in Offsets, Laid(from, to, ring), NEW k \in DOMAIN ring
  PROVE  /\ Laid(ring[k].at, to, SubSeq(ring, k, Len(ring)))
         /\ Used(ring[k].at, to) <= Used(from, to)
<1> DEFINE new == SubSeq(ring, k, Len(ring))
           n   == Len(ring)
           top == ring[k].at
<1>1. /\ n \in Nat /\ DOMAIN ring = 1..n /\ k \in 1..n
      /\ Len(new) = n - k + 1 /\ DOMAIN new = 1..(n - k + 1)
      /\ \A i \in 1..(n - k + 1) : new[i] = ring[i + k - 1]
      /\ new # <<>>
  <2>1. n \in Nat /\ DOMAIN ring = 1..n /\ k \in 1..n /\ \A i \in k..n : ring[i] \in Packets(S, F)
    OBVIOUS
  <2>2. Len(new) = n - k + 1 /\ new \in Seq(Packets(S, F)) /\ \A i \in 1..(n - k + 1) : new[i] = ring[k + i - 1]
    BY <2>1, SubSeqProperties
  <2> HIDE DEF new
  <2> QED BY SMTT(40), <2>1, <2>2
<1>2. \A i \in 1..n : ring[i].at \in Offsets /\ RxSize(ring[i]) \in 1..Units
  <2> TAKE i \in 1..n
  <2>1. ring[i] \in Packets(S, F)
    BY <1>1
  <2> QED BY <2>1, RxSizeFits
<1>3. Units \in Nat /\ Wrap \in Nat /\ Units < Wrap
  BY NetAssumption
<1>4. top \in Offsets /\ Used(from, top) \in Nat
  BY <1>1, <1>2, Numbers
<1>5. ASSUME NEW x \in Offsets, Used(from, top) <= Used(from, x)
      PROVE  Used(top, x) = Used(from, x) - Used(from, top)
  <2>1. /\ Used(from, x) = IF from <= x THEN x - from ELSE x - from + Wrap
        /\ Used(from, top) = IF from <= top THEN top - from ELSE top - from + Wrap
        /\ Used(top, x) = IF top <= x THEN x - top ELSE x - top + Wrap
    BY <1>4, UsedIs
  <2>2. /\ from \in Nat /\ from < Wrap /\ x \in Nat /\ x < Wrap /\ top \in Nat /\ top < Wrap
    BY <1>4, Numbers
  <2> HIDE DEF top
  <2> QED BY <1>3, <1>5, <2>1, <2>2
<1>6. \A i \in k..n : Used(from, ring[i].at) \in Nat /\ Used(from, top) <= Used(from, ring[i].at)
  <2> TAKE i \in k..n
  <2>1. i \in 1..n
    BY <1>1
  <2>2. Used(from, ring[i].at) \in Nat
    BY <1>2, <2>1, Numbers
  <2>3. k < i => Used(from, top) + RxSize(ring[k]) <= Used(from, ring[i].at)
    BY <1>1, <2>1 DEF Laid
  <2> QED BY <1>1, <1>2, <1>4, <2>1, <2>2, <2>3
<1>7. Used(from, to) \in Nat /\ Used(from, top) + RxSize(ring[k]) <= Used(from, to) /\ Used(from, to) <= Units
  <2>1. Used(from, to) \in Nat
    BY Numbers
  <2> QED BY <1>1, <2>1 DEF Laid
<1>8. Used(top, to) = Used(from, to) - Used(from, top)
  BY <1>1, <1>2, <1>4, <1>5, <1>7
<1>9. \A i \in k..n : Used(top, ring[i].at) = Used(from, ring[i].at) - Used(from, top)
  BY <1>1, <1>2, <1>5, <1>6
<1>10. Used(top, to) <= Units /\ Used(top, to) <= Used(from, to)
  BY <1>3, <1>4, <1>7, <1>8
<1>11. top = new[1].at
  BY <1>1
<1>12. ASSUME NEW i \in 1..(n - k + 1)
       PROVE  /\ Past(new[i].at, RxSize(new[i])) = IF i = n - k + 1 THEN to ELSE new[i + 1].at
              /\ Used(top, new[i].at) + RxSize(new[i]) <= Used(top, to)
              /\ \A j \in 1..(n - k + 1) : i < j =>
                   Used(top, new[i].at) + RxSize(new[i]) <= Used(top, new[j].at)
  <2> DEFINE m == i + k - 1
  <2>1. m \in k..n /\ m \in 1..n /\ new[i] = ring[m] /\ (m = n <=> i = n - k + 1)
        /\ (m # n => new[i + 1] = ring[m + 1])
    BY SMTT(40), <1>1
  <2>2. /\ Past(ring[m].at, RxSize(ring[m])) = IF m = n THEN to ELSE ring[m + 1].at
        /\ Used(from, ring[m].at) + RxSize(ring[m]) <= Used(from, to)
        /\ \A j \in 1..n : m < j => Used(from, ring[m].at) + RxSize(ring[m]) <= Used(from, ring[j].at)
    BY <1>1, <2>1 DEF Laid
  <2>3. Past(new[i].at, RxSize(new[i])) = IF i = n - k + 1 THEN to ELSE new[i + 1].at
    BY <2>1, <2>2
  <2>4. Used(top, new[i].at) + RxSize(new[i]) <= Used(top, to)
    <3>1. Used(top, ring[m].at) = Used(from, ring[m].at) - Used(from, top) /\ Used(from, ring[m].at) \in Nat
      BY <1>6, <1>9, <2>1
    <3>2. RxSize(ring[m]) \in Nat
      BY <1>2, <1>3, <2>1
    <3> HIDE DEF m, top, new
    <3> QED BY <1>4, <1>7, <1>8, <2>1, <2>2, <3>1, <3>2
  <2>5. ASSUME NEW j \in 1..(n - k + 1), i < j
        PROVE  Used(top, new[i].at) + RxSize(new[i]) <= Used(top, new[j].at)
    <3>1. j + k - 1 \in k..n /\ j + k - 1 \in 1..n /\ new[j] = ring[j + k - 1] /\ m < j + k - 1
      BY <1>1, <2>5
    <3>2. /\ Used(top, ring[m].at) = Used(from, ring[m].at) - Used(from, top)
          /\ Used(top, new[j].at) = Used(from, new[j].at) - Used(from, top)
          /\ Used(from, ring[m].at) \in Nat /\ Used(from, new[j].at) \in Nat
      BY <1>6, <1>9, <2>1, <3>1
    <3>3. Used(from, ring[m].at) + RxSize(ring[m]) <= Used(from, new[j].at) /\ RxSize(ring[m]) \in Nat
      <4>1. Used(from, ring[m].at) + RxSize(ring[m]) <= Used(from, ring[j + k - 1].at)
        <5> HIDE DEF m, n
        <5> QED BY <2>2, <3>1
      <4>2. RxSize(ring[m]) \in 1..Units
        BY <1>2, <2>1
      <4> HIDE DEF m, new
      <4> QED BY <1>3, <3>1, <4>1, <4>2
    <3> HIDE DEF m, top, new
    <3> QED BY <1>4, <2>1, <3>2, <3>3
  <2> QED BY <2>3, <2>4, <2>5
<1> QED BY <1>1, <1>10, <1>11, <1>12 DEF Laid

-----------------------------------------------------------------------------
\* Packets have sizes, and offsets wrap.
LEMMA TypedNext == Typed /\ [Next]_vars => Typed'
<1> SUFFICES ASSUME Typed, [Next]_vars PROVE Typed'
  OBVIOUS
<1> USE NetAssumption DEF Typed, TypeOK, Events, NoIrq, Offsets, Goto, Done, Irq, netdev, device, rings, host
<1>1. ASSUME PciInit PROVE Typed'
  BY <1>1 DEF PciInit
<1>2. ASSUME PciRemove PROVE Typed'
  BY <1>2 DEF PciRemove
<1>3. ASSUME Open PROVE Typed'
  BY ZenonT(40), <1>3 DEF Open
<1>4. ASSUME RequestIrq PROVE Typed'
  BY <1>4 DEF RequestIrq
<1>5. ASSUME Enable PROVE Typed'
  BY <1>5 DEF Enable
<1>6. ASSUME StartQueue PROVE Typed'
  BY <1>6 DEF StartQueue
<1>7. ASSUME SetCarrier PROVE Typed'
  BY <1>7 DEF SetCarrier
<1>8. ASSUME Close PROVE Typed'
  <2>1. late' = ~(isr.pc = "idle") /\ mask' = FALSE
    BY <1>8 DEF Close
  <2>2. late' \in BOOLEAN
    BY <2>1, Zenon
  <2> QED BY <1>8, <2>1, <2>2 DEF Close
<1>9. ASSUME StopDevice PROVE Typed'
  BY <1>9 DEF StopDevice
<1>10. ASSUME FreeIrq PROVE Typed'
  BY <1>10 DEF FreeIrq
<1>11. ASSUME NEW units \in SendSizes, Look(units) PROVE Typed'
  BY <1>11 DEF Look
<1>12. ASSUME Write PROVE Typed'
  <2>1. xmit.units \in SendSizes
    BY <1>12 DEF Write
  <2>2. sent' \in Seq(Sends)
    <3>1. [at |-> sendTail, units |-> xmit.units, fixed |-> FALSE] \in Sends
      BY <2>1 DEF Sends, Packets
    <3> QED BY <1>12, <3>1 DEF Write
  <2>3. xmit.units \in 0..Units
    BY <2>1
  <2>4. sendTail' \in Offsets
    BY <1>12, <2>3, PastIs DEF Write
  <2>5. xmit' \in [pc : {"idle", "write", "flag", "set", "flush", "full", "notify"},
                   units : SendSizes \cup {0}]
    BY <1>12 DEF Write
  <2> QED BY <1>12, <2>1, <2>2, <2>3, <2>4, <2>5 DEF Write
<1>13. ASSUME ReadFlag PROVE Typed'
  <2>1. CASE present
    BY <1>13, <2>1 DEF ReadFlag
  <2>2. CASE ~present
    BY <1>13, <2>2 DEF ReadFlag
  <2> QED BY <1>13, <2>1, <2>2 DEF ReadFlag
<1>14. ASSUME SetFlag PROVE Typed'
  BY <1>14 DEF SetFlag
<1>15. ASSUME Flush PROVE Typed'
  BY <1>15 DEF Flush
<1>16. ASSUME StopQueue PROVE Typed'
  BY <1>16 DEF StopQueue
<1>17. ASSUME Notify PROVE Typed'
  BY <1>17 DEF Notify
<1>18. ASSUME Interrupt PROVE Typed'
  <2>1. (connected /\ "cable" \in pending) \in BOOLEAN
    OBVIOUS
  <2>2. 0 \in Offsets
    OBVIOUS
  <2>3. isr' \in [pc : {"idle", "events", "read", "enable", "move"}, status : SUBSET Events,
                  up : BOOLEAN, offset : Offsets]
    BY <1>18, <2>1, <2>2 DEF Interrupt
  <2>4. late' \in BOOLEAN
    BY <1>18 DEF Interrupt
  <2> QED BY ZenonT(40), <1>18, <2>1, <2>2, <2>3, <2>4 DEF Interrupt
<1>19. ASSUME SeeEvents PROVE Typed'
  <2>1. isr' \in [pc : {"idle", "events", "read", "enable", "move"}, status : SUBSET Events,
                  up : BOOLEAN, offset : Offsets]
    <3>1. 0 \in Offsets /\ {} \in SUBSET Events /\ head \in Offsets
      OBVIOUS
    <3>2. \/ isr' = [pc |-> "read", status |-> {}, up |-> FALSE, offset |-> head]
          \/ isr' = [pc |-> "enable", status |-> {}, up |-> FALSE, offset |-> 0]
      BY <1>19 DEF SeeEvents
    <3>3. CASE isr' = [pc |-> "read", status |-> {}, up |-> FALSE, offset |-> head]
      BY <3>1, <3>3
    <3>4. CASE isr' = [pc |-> "enable", status |-> {}, up |-> FALSE, offset |-> 0]
      BY <3>1, <3>4
    <3> QED BY <3>2, <3>3, <3>4
  <2>2. CASE "cable" \in isr.status
    <3>1. carrier' = isr.up /\ queue' = (isr.up \/ "space" \in isr.status)
      BY <1>19, <2>2 DEF SeeEvents
    <3>2. isr.up \in BOOLEAN /\ (isr.up \/ "space" \in isr.status) \in BOOLEAN
      OBVIOUS
    <3>3. carrier' \in BOOLEAN /\ queue' \in BOOLEAN
      BY <3>1, <3>2, Zenon
    <3>4. overtaken' \in BOOLEAN
      BY <1>19, <2>2 DEF SeeEvents
    <3> QED BY <1>19, <2>1, <3>3, <3>4 DEF SeeEvents
  <2>3. CASE "cable" \notin isr.status
    <3>1. queue' = (queue \/ "space" \in isr.status)
      BY <1>19, <2>3 DEF SeeEvents
    <3>2. queue' \in BOOLEAN
      BY <3>1, Zenon
    <3> QED BY <1>19, <2>1, <2>3, <3>2 DEF SeeEvents
  <2> QED BY <1>19, <2>1, <2>2, <2>3 DEF SeeEvents
<1>20. ASSUME ReadPacket PROVE Typed'
  <2>1. PICK i \in DOMAIN rcvd : isr' = [isr EXCEPT !.offset = Past(isr.offset, RxSize(rcvd[i]))]
    BY <1>20 DEF ReadPacket
  <2>2. RxSize(rcvd[i]) \in 0..Units /\ isr.offset \in Offsets
    BY Received
  <2>3. Past(isr.offset, RxSize(rcvd[i])) \in Offsets
    BY <2>2, PastIs
  <2>4. isr' \in [pc : {"idle", "events", "read", "enable", "move"}, status : SUBSET Events,
                  up : BOOLEAN, offset : Offsets]
    BY <2>1, <2>3
  <2> QED BY <1>20, <2>1, <2>2, <2>3, <2>4 DEF ReadPacket
<1>21. ASSUME AllRead PROVE Typed'
  BY <1>21 DEF AllRead
<1>22. ASSUME MoveHead PROVE Typed'
  <2>2. rcvd' \in Seq(Receives)
    <3>1. rcvd \in Seq(Receives)
      OBVIOUS
    <3>2. CASE rcvd' = <<>>
      BY <3>2
    <3>3. ASSUME NEW i \in DOMAIN rcvd, rcvd' = SubSeq(rcvd, i, Len(rcvd))
          PROVE  rcvd' \in Seq(Receives)
      <4>1. i \in 1..Len(rcvd) /\ Len(rcvd) \in Nat /\ \A k \in i..Len(rcvd) : rcvd[k] \in Receives
        BY SMTT(40), <3>1
      <4> QED BY <3>1, <3>3, <4>1, SubSeqProperties
    <3> QED BY <1>22, <3>2, <3>3 DEF MoveHead
  <2>3. isr' = NoIrq /\ head' = isr.offset /\ head' \in Offsets
    BY <1>22 DEF MoveHead
  <2>4. 0 \in Offsets
    OBVIOUS
  <2>5. isr' \in [pc : {"idle", "events", "read", "enable", "move"}, status : SUBSET Events,
                  up : BOOLEAN, offset : Offsets]
    BY <2>3, <2>4
  <2>6. /\ mask' = TRUE /\ asleep' = FALSE
        /\ UNCHANGED <<phase, link, overtaken, late, queue, carrier, xmit, connected, pending,
                       sendHead, sendTail, sent, tail, host>>
    BY <1>22 DEF MoveHead
  <2>7. {link, queue, carrier, connected, mask, present, kicked, wanted,
          overtaken, late, asleep}' \subseteq BOOLEAN
    BY <2>6
  <2>8. {sendHead, sendTail, head, tail}' \subseteq Offsets
    BY <2>3, <2>6
  <2> QED BY <1>22, <2>2, <2>3, <2>4, <2>5, <2>6, <2>7, <2>8 DEF MoveHead
<1>23. ASSUME EnableIrq PROVE Typed'
  BY <1>23 DEF EnableIrq
<1>24. ASSUME Cable PROVE Typed'
  BY <1>24 DEF Cable
<1>25. ASSUME Send PROVE Typed'
  <2>1. Head(sent) \in Sends /\ Tail(sent) \in Seq(Sends)
    BY <1>25 DEF Send
  <2>2. Head(sent).units \in 0..Units
    BY <2>1 DEF Sends, Packets
  <2>3. sendHead' \in Offsets
    BY <1>25, <2>2, PastIs DEF Send
  <2> QED BY <1>25, <2>1, <2>2, <2>3 DEF Send
<1>26. ASSUME Rest PROVE Typed'
  BY ZenonT(40), <1>26 DEF Rest
<1>27. ASSUME TellSpace PROVE Typed'
  BY ZenonT(40), <1>27 DEF TellSpace
<1>28. ASSUME NEW p \in Receives, Receive(p) PROVE Typed'
  <2>1. rcvd' \in Seq(Receives)
    BY <1>28 DEF Receive
  <2>2. RxSize(p) \in 0..Units
    BY Received
  <2>3. tail' \in Offsets
    BY <1>28, <2>2, PastIs DEF Receive
  <2>4. pending' \subseteq Events
    BY <1>28 DEF Receive
  <2> QED BY <1>28, <2>1, <2>2, <2>3, <2>4 DEF Receive
<1>29. CASE UNCHANGED vars
  BY <1>29 DEF vars
<1> QED BY <1>1, <1>2, <1>3, <1>4, <1>5, <1>6, <1>7, <1>8, <1>9, <1>10, <1>11, <1>12,
     <1>13, <1>14, <1>15, <1>16, <1>17, <1>18, <1>19, <1>20, <1>21, <1>22, <1>23, <1>24,
     <1>25, <1>26, <1>27, <1>28, <1>29 DEF Next, OpenClose, Xmit, Handler

\* Packets are put and taken so that both rings stay filled from head to tail.
LEMMA FilledNext == Typed /\ Filled /\ [Next]_vars => Filled'
<1> SUFFICES ASSUME Typed, Filled, [Next]_vars PROVE Filled'
  OBVIOUS
<1> USE DEF Typed, TypeOK, Filled, Goto, Done, Irq, NoIrq, netdev, device, rings, host
<1>1. ASSUME PciInit PROVE Filled'
  BY <1>1 DEF PciInit
<1>2. ASSUME PciRemove PROVE Filled'
  BY <1>2 DEF PciRemove
<1>3. ASSUME Open PROVE Filled'
  BY <1>3 DEF Open
<1>4. ASSUME RequestIrq PROVE Filled'
  BY <1>4 DEF RequestIrq
<1>5. ASSUME Enable PROVE Filled'
  BY <1>5 DEF Enable
<1>6. ASSUME StartQueue PROVE Filled'
  BY <1>6 DEF StartQueue
<1>7. ASSUME SetCarrier PROVE Filled'
  BY <1>7 DEF SetCarrier
<1>8. ASSUME Close PROVE Filled'
  BY <1>8 DEF Close
<1>9. ASSUME StopDevice PROVE Filled'
  BY <1>9 DEF StopDevice
<1>10. ASSUME FreeIrq PROVE Filled'
  BY <1>10 DEF FreeIrq
<1>11. ASSUME NEW units \in SendSizes, Look(units) PROVE Filled'
  <2>1. UNCHANGED <<isr, sendHead, sendTail, sent, head, tail, rcvd>>
    BY <1>11 DEF Look
  <2>2. /\ Laid(sendHead', sendTail', sent') /\ Laid(head', tail', rcvd')
        /\ isr'.pc \in {"read", "move"} =>
             isr'.offset = tail' \/ \E i \in DOMAIN rcvd' : rcvd'[i].at = isr'.offset
    BY <2>1
  <2>3. CASE units > Units - Used(sendHead, sendTail)
    <3>1. xmit'.pc = "full"
      BY <1>11, <2>3 DEF Look
    <3> QED BY <2>2, <3>1
  <2>4. CASE ~(units > Units - Used(sendHead, sendTail))
    <3>1. xmit'.units = units
      BY <1>11, <2>4 DEF Look
    <3>2. units \in Int /\ Used(sendHead, sendTail) \in Nat /\ Units \in Nat
      BY Numbers, NetAssumption
    <3>3. units <= Units - Used(sendHead, sendTail)
      BY <2>4, <3>2
    <3> QED BY <2>1, <2>2, <3>1, <3>3
  <2> QED BY <2>3, <2>4
<1>12. ASSUME Write PROVE Filled'
  <2>1. /\ xmit.units \in SendSizes /\ xmit.units <= Units - Used(sendHead, sendTail)
        /\ sendHead \in Offsets /\ sendTail \in Offsets /\ sent \in Seq(Sends)
        /\ Laid(sendHead, sendTail, sent)
    BY <1>12 DEF Write
  <2> DEFINE p == [at |-> sendTail, units |-> xmit.units, fixed |-> FALSE]
  <2>2. p \in Packets(SendSizes, {FALSE}) /\ p.at = sendTail /\ RxSize(p) = xmit.units
    BY <2>1 DEF Packets, RxSize
  <2>3. /\ sendTail' = Past(sendTail, RxSize(p)) /\ sent' = Append(sent, p)
        /\ UNCHANGED <<sendHead, head, tail, rcvd, isr>> /\ xmit'.pc = "flag"
    BY <1>12, <2>2 DEF Write
  <2> HIDE DEF p
  <2>4. Laid(sendHead, Past(sendTail, RxSize(p)), Append(sent, p))
    BY <2>1, <2>2, Kinds, LaidAppend DEF Sends
  <2>5. Laid(sendHead', sendTail', sent')
    BY <2>3, <2>4
  <2> QED BY <2>3, <2>5
<1>13. ASSUME ReadFlag PROVE Filled'
  BY <1>13 DEF ReadFlag
<1>14. ASSUME SetFlag PROVE Filled'
  BY <1>14 DEF SetFlag
<1>15. ASSUME Flush PROVE Filled'
  BY <1>15 DEF Flush
<1>16. ASSUME StopQueue PROVE Filled'
  BY <1>16 DEF StopQueue
<1>17. ASSUME Notify PROVE Filled'
  BY <1>17 DEF Notify
<1>18. ASSUME Interrupt PROVE Filled'
  BY <1>18 DEF Interrupt
<1>19. ASSUME SeeEvents PROVE Filled'
  <2>1. isr'.pc = "enable" \/ (isr'.pc = "read" /\ isr'.offset = head)
    BY <1>19 DEF SeeEvents
  <2>2. head = tail \/ \E i \in DOMAIN rcvd : rcvd[i].at = head
    BY DEF Laid
  <2>3. UNCHANGED <<xmit, rings>>
    BY <1>19 DEF SeeEvents
  <2> QED BY <2>1, <2>2, <2>3
<1>20. ASSUME ReadPacket PROVE Filled'
  <2>1. PICK i \in DOMAIN rcvd :
           /\ Place(rcvd[i].at) = Place(isr.offset)
           /\ isr' = [isr EXCEPT !.offset = Past(isr.offset, RxSize(rcvd[i]))]
    BY <1>20 DEF ReadPacket
  <2>2. PICK k \in DOMAIN rcvd : rcvd[k].at = isr.offset
    BY <1>20 DEF ReadPacket
  <2>3. rcvd \in Seq(Packets(RecvSizes, BOOLEAN)) /\ head \in Offsets /\ tail \in Offsets
    BY DEF Receives
  <2>4. Sound(head, tail, rcvd)
    BY <2>3, Kinds, LaidIsSound
  <2>5. i = k
    <3>1. /\ RxSize(rcvd[i]) \in Nat /\ RxSize(rcvd[i]) > 0
          /\ RxSize(rcvd[k]) \in Nat /\ RxSize(rcvd[k]) > 0
      <4>1. rcvd[i] \in Packets(RecvSizes, BOOLEAN) /\ rcvd[k] \in Packets(RecvSizes, BOOLEAN)
        BY <2>3
      <4>2. RxSize(rcvd[i]) \in 1..Units /\ RxSize(rcvd[k]) \in 1..Units
        BY <4>1, Kinds, RxSizeFits
      <4>3. \A s \in 1..Units : s \in Nat /\ s > 0
        BY NetAssumption
      <4> QED BY <4>2, <4>3
    <3>2. Place(rcvd[i].at) = Place(rcvd[k].at) /\ Place(rcvd[k].at) \in Int
      BY SMTT(40), <2>1, <2>2, NetAssumption DEF Place, Offsets
    <3>3. i # k => \/ Place(rcvd[i].at) + RxSize(rcvd[i]) <= Place(rcvd[k].at)
                   \/ Place(rcvd[k].at) + RxSize(rcvd[k]) <= Place(rcvd[i].at)
      BY <2>4 DEF Sound
    <3> QED BY <3>1, <3>2, <3>3
  <2>6. isr'.offset = IF k = Len(rcvd) THEN tail ELSE rcvd[k + 1].at
    <3>1. isr'.offset = Past(rcvd[k].at, RxSize(rcvd[k]))
      BY <2>1, <2>2, <2>5
    <3> QED BY <2>4, <3>1 DEF Sound
  <2>7. k # Len(rcvd) => k + 1 \in DOMAIN rcvd
    BY <2>3
  <2>8. isr'.pc = isr.pc /\ UNCHANGED <<xmit, rings>>
    BY <1>20, <2>1 DEF ReadPacket
  <2> QED BY <2>6, <2>7, <2>8
<1>21. ASSUME AllRead PROVE Filled'
  BY <1>21 DEF AllRead
<1>22. ASSUME MoveHead PROVE Filled'
  <2>1. /\ rcvd \in Seq(Packets(RecvSizes, BOOLEAN)) /\ head \in Offsets /\ tail \in Offsets
        /\ Laid(head, tail, rcvd)
    BY DEF Receives
  <2>2. UNCHANGED <<xmit, sendHead, sendTail, sent, tail>> /\ isr'.pc = "idle" /\ head' = isr.offset
    BY <1>22 DEF MoveHead
  <2>3. CASE isr.offset = tail /\ rcvd' = <<>>
    <3>1. Laid(tail, tail, <<>>)
      BY <2>1, LaidEmpty
    <3> QED BY <2>2, <2>3, <3>1
  <2>4. ASSUME NEW i \in DOMAIN rcvd, rcvd[i].at = isr.offset, rcvd' = SubSeq(rcvd, i, Len(rcvd))
        PROVE  Filled'
    <3>1. Laid(rcvd[i].at, tail, SubSeq(rcvd, i, Len(rcvd)))
      BY <2>1, Kinds, LaidFrom
    <3> QED BY <2>2, <2>4, <3>1
  <2> QED BY <1>22, <2>3, <2>4 DEF MoveHead
<1>23. ASSUME EnableIrq PROVE Filled'
  BY <1>23 DEF EnableIrq
<1>24. ASSUME Cable PROVE Filled'
  BY <1>24 DEF Cable
<1>25. ASSUME Send PROVE Filled'
  <2>1. /\ sent \in Seq(Packets(SendSizes, {FALSE})) /\ sent # <<>> /\ sendHead \in Offsets /\ sendTail \in Offsets
        /\ Laid(sendHead, sendTail, sent)
        /\ sendHead' = Past(sendHead, Head(sent).units) /\ sent' = Tail(sent)
        /\ UNCHANGED <<xmit, isr, sendTail, head, tail, rcvd>>
    BY <1>25 DEF Send, Sends
  <2>2. /\ 1 \in DOMAIN sent /\ Len(sent) \in Nat
        /\ sent[1] \in Packets(SendSizes, {FALSE}) /\ Head(sent) = sent[1]
        /\ Len(sent) # 1 => 2 \in DOMAIN sent
    <3>1. Len(sent) \in Nat /\ Len(sent) > 0 /\ DOMAIN sent = 1..Len(sent)
      BY <2>1
    <3>2. 1 \in DOMAIN sent /\ (Len(sent) # 1 => 2 \in DOMAIN sent)
      BY <3>1
    <3>3. sent[1] \in Packets(SendSizes, {FALSE}) /\ Head(sent) = sent[1]
      BY <2>1, <3>2
    <3> QED BY <3>1, <3>2, <3>3
  <2>3. sendHead' = Past(sent[1].at, RxSize(sent[1]))
    <3>1. sendHead = sent[1].at /\ RxSize(sent[1]) = sent[1].units
      BY <2>1, <2>2 DEF Laid, RxSize, Packets
    <3> QED BY <2>1, <2>2, <3>1
  <2>4. sendHead' = IF Len(sent) = 1 THEN sendTail ELSE sent[2].at
    BY <2>1, <2>2, <2>3 DEF Laid
  <2>5. Laid(sendHead', sendTail, sent') /\ Used(sendHead', sendTail) <= Used(sendHead, sendTail)
        /\ sendHead' \in Offsets
    <3>1. CASE Len(sent) = 1
      <4>1. Tail(sent) = <<>>
        BY <2>1, <3>1
      <4>2. Laid(sendTail, sendTail, <<>>) /\ Used(sendTail, sendTail) = 0 /\ Used(sendHead, sendTail) \in Nat
        BY <2>1, LaidEmpty, Numbers
      <4>3. sendHead' = sendTail /\ sent' = <<>>
        BY <2>1, <2>4, <3>1, <4>1
      <4>4. Used(sendHead', sendTail) = 0
        BY <4>2, <4>3
      <4>5. 0 <= Used(sendHead, sendTail)
        BY <4>2
      <4> QED BY <2>1, <4>2, <4>3, <4>4, <4>5
    <3>2. CASE Len(sent) # 1
      <4>1. Tail(sent) = SubSeq(sent, 2, Len(sent))
        BY <2>1, <2>2, <3>2
      <4>2. /\ Laid(sent[2].at, sendTail, SubSeq(sent, 2, Len(sent)))
            /\ Used(sent[2].at, sendTail) <= Used(sendHead, sendTail)
        BY <2>1, <2>2, <3>2, Kinds, LaidFrom
      <4>3. sent[2] \in Packets(SendSizes, {FALSE})
        BY <2>1, <2>2, <3>2
      <4> QED BY <2>1, <2>4, <3>2, <4>1, <4>2, <4>3 DEF Packets
    <3> QED BY <3>1, <3>2
  <2>6. xmit.pc = "write" => xmit.units <= Units - Used(sendHead', sendTail)
    <3>1. xmit.pc = "write" => xmit.units \in Int /\ xmit.units <= Units - Used(sendHead, sendTail)
      BY NetAssumption
    <3>2. Used(sendHead, sendTail) \in Nat /\ Used(sendHead', sendTail) \in Nat /\ Units \in Nat
      BY <2>1, <2>5, Numbers
    <3> QED BY <2>5, <3>1, <3>2
  <2> QED BY <2>1, <2>5, <2>6
<1>26. ASSUME Rest PROVE Filled'
  BY <1>26 DEF Rest
<1>27. ASSUME TellSpace PROVE Filled'
  BY <1>27 DEF TellSpace
<1>28. ASSUME NEW p \in Receives, Receive(p) PROVE Filled'
  <2>1. /\ p \in Packets(RecvSizes, BOOLEAN) /\ p.at = tail /\ RxSize(p) <= Units - Used(head, tail)
        /\ rcvd \in Seq(Packets(RecvSizes, BOOLEAN)) /\ head \in Offsets /\ tail \in Offsets
        /\ Laid(head, tail, rcvd)
        /\ tail' = Past(tail, RxSize(p)) /\ rcvd' = Append(rcvd, p)
        /\ UNCHANGED <<xmit, isr, sendHead, sendTail, sent, head>>
    BY <1>28 DEF Receive, Receives
  <2>2. Laid(head, Past(tail, RxSize(p)), Append(rcvd, p))
    BY <2>1, Kinds, LaidAppend
  <2>3. ASSUME isr.pc \in {"read", "move"}
        PROVE  \E i \in DOMAIN Append(rcvd, p) : Append(rcvd, p)[i].at = isr.offset
    <3>1. /\ Len(rcvd) + 1 \in DOMAIN Append(rcvd, p) /\ Append(rcvd, p)[Len(rcvd) + 1] = p
          /\ \A i \in DOMAIN rcvd : i \in DOMAIN Append(rcvd, p) /\ Append(rcvd, p)[i] = rcvd[i]
      BY <2>1
    <3>2. CASE isr.offset = tail
      BY <2>1, <3>1, <3>2
    <3>3. CASE \E i \in DOMAIN rcvd : rcvd[i].at = isr.offset
      BY <3>1, <3>3
    <3> QED BY <2>3, <3>2, <3>3
  <2> QED BY <2>1, <2>2, <2>3
<1>29. CASE UNCHANGED vars
  BY <1>29 DEF vars
<1> QED BY <1>1, <1>2, <1>3, <1>4, <1>5, <1>6, <1>7, <1>8, <1>9, <1>10, <1>11, <1>12,
     <1>13, <1>14, <1>15, <1>16, <1>17, <1>18, <1>19, <1>20, <1>21, <1>22, <1>23, <1>24,
     <1>25, <1>26, <1>27, <1>28, <1>29 DEF Next, OpenClose, Xmit, Handler

\* The handler runs only between request_irq and free_irq.
LEMMA QuietNext == Quiet /\ [Next]_vars => Quiet'
<1> SUFFICES ASSUME Quiet, [Next]_vars PROVE Quiet'
  OBVIOUS
<1> USE NetAssumption DEF Quiet, Requested, Goto, Done, Irq, NoIrq, netdev, device, rings, host
<1>1. ASSUME PciInit PROVE Quiet'
  BY <1>1 DEF PciInit
<1>2. ASSUME PciRemove PROVE Quiet'
  BY <1>2 DEF PciRemove
<1>3. ASSUME Open PROVE Quiet'
  BY <1>3 DEF Open
<1>4. ASSUME RequestIrq PROVE Quiet'
  BY <1>4 DEF RequestIrq
<1>5. ASSUME Enable PROVE Quiet'
  BY <1>5 DEF Enable
<1>6. ASSUME StartQueue PROVE Quiet'
  BY <1>6 DEF StartQueue
<1>7. ASSUME SetCarrier PROVE Quiet'
  BY <1>7 DEF SetCarrier
<1>8. ASSUME Close PROVE Quiet'
  BY <1>8 DEF Close
<1>9. ASSUME StopDevice PROVE Quiet'
  BY <1>9 DEF StopDevice
<1>10. ASSUME FreeIrq PROVE Quiet'
  BY <1>10 DEF FreeIrq
<1>11. ASSUME NEW units \in SendSizes, Look(units) PROVE Quiet'
  BY <1>11 DEF Look
<1>12. ASSUME Write PROVE Quiet'
  BY <1>12 DEF Write
<1>13. ASSUME ReadFlag PROVE Quiet'
  BY <1>13 DEF ReadFlag
<1>14. ASSUME SetFlag PROVE Quiet'
  BY <1>14 DEF SetFlag
<1>15. ASSUME Flush PROVE Quiet'
  BY <1>15 DEF Flush
<1>16. ASSUME StopQueue PROVE Quiet'
  BY <1>16 DEF StopQueue
<1>17. ASSUME Notify PROVE Quiet'
  BY <1>17 DEF Notify
<1>18. ASSUME Interrupt PROVE Quiet'
  BY <1>18 DEF Interrupt
<1>19. ASSUME SeeEvents PROVE Quiet'
  BY <1>19 DEF SeeEvents
<1>20. ASSUME ReadPacket PROVE Quiet'
  BY <1>20 DEF ReadPacket
<1>21. ASSUME AllRead PROVE Quiet'
  BY <1>21 DEF AllRead
<1>22. ASSUME MoveHead PROVE Quiet'
  BY <1>22 DEF MoveHead
<1>23. ASSUME EnableIrq PROVE Quiet'
  BY <1>23 DEF EnableIrq
<1>24. ASSUME Cable PROVE Quiet'
  BY <1>24 DEF Cable
<1>25. ASSUME Send PROVE Quiet'
  BY <1>25 DEF Send
<1>26. ASSUME Rest PROVE Quiet'
  BY <1>26 DEF Rest
<1>27. ASSUME TellSpace PROVE Quiet'
  BY <1>27 DEF TellSpace
<1>28. ASSUME NEW p \in Receives, Receive(p) PROVE Quiet'
  BY <1>28 DEF Receive
<1>29. CASE UNCHANGED vars
  BY <1>29 DEF vars
<1> QED BY <1>1, <1>2, <1>3, <1>4, <1>5, <1>6, <1>7, <1>8, <1>9, <1>10, <1>11, <1>12,
     <1>13, <1>14, <1>15, <1>16, <1>17, <1>18, <1>19, <1>20, <1>21, <1>22, <1>23, <1>24,
     <1>25, <1>26, <1>27, <1>28, <1>29 DEF Next, OpenClose, Xmit, Handler

\* Reading the status, by the handler or by open, loses no change of the cable.
LEMMA AttachedNext == Typed /\ Quiet /\ Attached /\ [Next]_vars => Attached'
<1> SUFFICES ASSUME Typed, Quiet, Attached, [Next]_vars PROVE Attached'
  OBVIOUS
<1> USE NetAssumption DEF Typed, TypeOK, Quiet, Attached, Holds, Goto, Done, Irq, NoIrq, netdev, device, rings, host
<1>1. ASSUME PciInit PROVE Attached'
  BY <1>1 DEF PciInit
<1>2. ASSUME PciRemove PROVE Attached'
  BY <1>2 DEF PciRemove
<1>3. ASSUME Open PROVE Attached'
  BY <1>3 DEF Open
<1>4. ASSUME RequestIrq PROVE Attached'
  BY <1>4 DEF RequestIrq
<1>5. ASSUME Enable PROVE Attached'
  BY <1>5 DEF Enable
<1>6. ASSUME StartQueue PROVE Attached'
  BY <1>6 DEF StartQueue
<1>7. ASSUME SetCarrier PROVE Attached'
  BY <1>7 DEF SetCarrier
<1>8. ASSUME Close PROVE Attached'
  BY <1>8 DEF Close
<1>9. ASSUME StopDevice PROVE Attached'
  BY <1>9 DEF StopDevice
<1>10. ASSUME FreeIrq PROVE Attached'
  BY <1>10 DEF FreeIrq
<1>11. ASSUME NEW units \in SendSizes, Look(units) PROVE Attached'
  BY <1>11 DEF Look
<1>12. ASSUME Write PROVE Attached'
  BY <1>12 DEF Write
<1>13. ASSUME ReadFlag PROVE Attached'
  BY <1>13 DEF ReadFlag
<1>14. ASSUME SetFlag PROVE Attached'
  BY <1>14 DEF SetFlag
<1>15. ASSUME Flush PROVE Attached'
  BY <1>15 DEF Flush
<1>16. ASSUME StopQueue PROVE Attached'
  BY <1>16 DEF StopQueue
<1>17. ASSUME Notify PROVE Attached'
  BY <1>17 DEF Notify
<1>18. ASSUME Interrupt PROVE Attached'
  BY <1>18 DEF Interrupt
<1>19. ASSUME SeeEvents PROVE Attached'
  BY <1>19 DEF SeeEvents
<1>20. ASSUME ReadPacket PROVE Attached'
  BY <1>20 DEF ReadPacket
<1>21. ASSUME AllRead PROVE Attached'
  BY <1>21 DEF AllRead
<1>22. ASSUME MoveHead PROVE Attached'
  BY <1>22 DEF MoveHead
<1>23. ASSUME EnableIrq PROVE Attached'
  BY <1>23 DEF EnableIrq
<1>24. ASSUME Cable PROVE Attached'
  BY <1>24 DEF Cable
<1>25. ASSUME Send PROVE Attached'
  BY <1>25 DEF Send
<1>26. ASSUME Rest PROVE Attached'
  BY <1>26 DEF Rest
<1>27. ASSUME TellSpace PROVE Attached'
  BY <1>27 DEF TellSpace
<1>28. ASSUME NEW p \in Receives, Receive(p) PROVE Attached'
  BY <1>28 DEF Receive
<1>29. CASE UNCHANGED vars
  BY <1>29 DEF vars
<1> QED BY <1>1, <1>2, <1>3, <1>4, <1>5, <1>6, <1>7, <1>8, <1>9, <1>10, <1>11, <1>12,
     <1>13, <1>14, <1>15, <1>16, <1>17, <1>18, <1>19, <1>20, <1>21, <1>22, <1>23, <1>24,
     <1>25, <1>26, <1>27, <1>28, <1>29 DEF Next, OpenClose, Xmit, Handler

\* No event is taken that nobody sees to.
LEMMA AwakeNext == Typed /\ Quiet /\ Attached /\ Awake /\ [Next]_vars => Awake'
<1> SUFFICES ASSUME Typed, Quiet, Attached, Awake, [Next]_vars PROVE Awake'
  OBVIOUS
<1> USE NetAssumption DEF Typed, TypeOK, Quiet, Attached, Awake, Holds, Goto, Done, Irq, NoIrq, netdev, device, rings, host
<1>1. ASSUME PciInit PROVE Awake'
  BY <1>1 DEF PciInit
<1>2. ASSUME PciRemove PROVE Awake'
  BY <1>2 DEF PciRemove
<1>3. ASSUME Open PROVE Awake'
  BY <1>3 DEF Open
<1>4. ASSUME RequestIrq PROVE Awake'
  BY <1>4 DEF RequestIrq
<1>5. ASSUME Enable PROVE Awake'
  BY <1>5 DEF Enable
<1>6. ASSUME StartQueue PROVE Awake'
  BY <1>6 DEF StartQueue
<1>7. ASSUME SetCarrier PROVE Awake'
  BY <1>7 DEF SetCarrier
<1>8. ASSUME Close PROVE Awake'
  BY <1>8 DEF Close
<1>9. ASSUME StopDevice PROVE Awake'
  BY <1>9 DEF StopDevice
<1>10. ASSUME FreeIrq PROVE Awake'
  BY <1>10 DEF FreeIrq
<1>11. ASSUME NEW units \in SendSizes, Look(units) PROVE Awake'
  BY <1>11 DEF Look
<1>12. ASSUME Write PROVE Awake'
  BY <1>12 DEF Write
<1>13. ASSUME ReadFlag PROVE Awake'
  BY <1>13 DEF ReadFlag
<1>14. ASSUME SetFlag PROVE Awake'
  BY <1>14 DEF SetFlag
<1>15. ASSUME Flush PROVE Awake'
  BY <1>15 DEF Flush
<1>16. ASSUME StopQueue PROVE Awake'
  BY <1>16 DEF StopQueue
<1>17. ASSUME Notify PROVE Awake'
  BY <1>17 DEF Notify
<1>18. ASSUME Interrupt PROVE Awake'
  BY <1>18 DEF Interrupt
<1>19. ASSUME SeeEvents PROVE Awake'
  BY <1>19 DEF SeeEvents
<1>20. ASSUME ReadPacket PROVE Awake'
  BY <1>20 DEF ReadPacket
<1>21. ASSUME AllRead PROVE Awake'
  BY <1>21 DEF AllRead
<1>22. ASSUME MoveHead PROVE Awake'
  BY <1>22 DEF MoveHead
<1>23. ASSUME EnableIrq PROVE Awake'
  BY <1>23 DEF EnableIrq
<1>24. ASSUME Cable PROVE Awake'
  BY <1>24 DEF Cable
<1>25. ASSUME Send PROVE Awake'
  BY <1>25 DEF Send
<1>26. ASSUME Rest PROVE Awake'
  BY <1>26 DEF Rest
<1>27. ASSUME TellSpace PROVE Awake'
  BY <1>27 DEF TellSpace
<1>28. ASSUME NEW p \in Receives, Receive(p) PROVE Awake'
  BY <1>28 DEF Receive
<1>29. CASE UNCHANGED vars
  BY <1>29 DEF vars
<1> QED BY <1>1, <1>2, <1>3, <1>4, <1>5, <1>6, <1>7, <1>8, <1>9, <1>10, <1>11, <1>12,
     <1>13, <1>14, <1>15, <1>16, <1>17, <1>18, <1>19, <1>20, <1>21, <1>22, <1>23, <1>24,
     <1>25, <1>26, <1>27, <1>28, <1>29 DEF Next, OpenClose, Xmit, Handler

\* Initially nothing is requested, enabled or in a ring.
LEMMA InitInv == Init => IInv
<1> SUFFICES ASSUME Init PROVE IInv
  OBVIOUS
<1> USE DEF Init
<1>1. Typed
  <2>1. 0 \in Offsets
    BY NetAssumption DEF Offsets
  <2>2. isr \in [pc : {"idle", "events", "read", "enable", "move"}, status : SUBSET Events,
                 up : BOOLEAN, offset : Offsets]
    BY <2>1 DEF NoIrq
  <2>3. xmit \in [pc : {"idle", "write", "flag", "set", "flush", "full", "notify"},
                  units : SendSizes \cup {0}]
    OBVIOUS
  <2>4. connected \in BOOLEAN
    BY NetAssumption
  <2>5. sent \in Seq(Sends) /\ rcvd \in Seq(Receives)
    OBVIOUS
  <2> QED BY <2>1, <2>2, <2>3, <2>4, <2>5 DEF Typed, TypeOK
<1>2. Quiet
  BY DEF Quiet, NoIrq
<1>3. Attached /\ Awake
  BY DEF Attached, Awake, Holds, NoIrq
<1>4. Filled
  <2>1. 0 \in Offsets
    BY NetAssumption DEF Offsets
  <2>2. Laid(0, 0, <<>>)
    BY <2>1, LaidEmpty
  <2> QED BY <2>2 DEF Filled, NoIrq
<1> QED BY <1>1, <1>2, <1>3, <1>4 DEF IInv

\* The invariants together are inductive.
LEMMA Inductive == Spec => []IInv
<1>1. IInv /\ [Next]_vars => IInv'
  BY TypedNext, QuietNext, AttachedNext, AwakeNext, FilledNext DEF IInv
<1> QED BY InitInv, <1>1, PTL DEF Spec

\* Every variable keeps its type: offsets wrap, packets have sizes
\* (pvmnet_hw.h:57-88, 106-162).
THEOREM TypeCorrect == Spec => []TypeOK
<1>1. IInv => TypeOK
  BY DEF IInv, Typed
<1> QED BY Inductive, <1>1, PTL

\* Wherever offsets wrap and whatever packets pass the end: none is written over
\* one that was not taken, and the handler reads packets only where they begin
\* (pvmnet_hw.h:57-88, 106-162, pvmnet.c:258-297).
THEOREM RingsAreSound == Spec => []RingsSound
<1>1. IInv => RingsSound
  <2> SUFFICES ASSUME IInv PROVE RingsSound
    OBVIOUS
  <2>1. /\ TypeOK
        /\ Laid(sendHead, sendTail, sent) /\ sent \in Seq(Packets(SendSizes, {FALSE}))
        /\ Laid(head, tail, rcvd) /\ rcvd \in Seq(Packets(RecvSizes, BOOLEAN))
        /\ sendHead \in Offsets /\ sendTail \in Offsets /\ head \in Offsets /\ tail \in Offsets
    BY DEF IInv, Typed, TypeOK, Filled, Sends, Receives
  <2>2. Sound(sendHead, sendTail, sent) /\ Sound(head, tail, rcvd)
    BY <2>1, Kinds, LaidIsSound
  <2> QED BY <2>1, <2>2 DEF IInv, Filled, RingsSound
<1> QED BY Inductive, <1>1, PTL

\* Nobody waits for an event that was taken already (pvmnet.c:225-333, 361).
THEOREM NobodyIsAsleep == Spec => []NoneAsleep
<1>1. IInv => NoneAsleep
  BY DEF IInv, Quiet, Awake, Holds, NoneAsleep
<1> QED BY Inductive, <1>1, PTL

\* The carrier is the cable's, and a closed device is quiet
\* (pvmnet.c:237-247, 361-375, 382-388).
THEOREM AdapterInStep == Spec => []InStep
<1>1. IInv => InStep
  BY DEF IInv, Quiet, Attached, Holds, InStep
<1> QED BY Inductive, <1>1, PTL
=============================================================================
