-------------------------- MODULE RangeRelay_proofs --------------------------
(***************************************************************************)
(* Theorems about RangeRelay, for every set of layouts without gaps, every *)
(* range, every way upstream may cut its answers, and every size of the    *)
(* channel and of an upstream range.                                       *)
(***************************************************************************)
EXTENDS RangeRelay, FiniteSetTheorems, WellFoundedInduction, TLAPS

(* The answer is of the range that was asked for.                          *)
AnswerFits ==
  /\ player = "asking" => layout = NoLayout /\ start = 0 /\ end = 0
  /\ player = "refused" => layout \in Layouts /\ Wanted = {}
  /\ player \notin {"asking", "refused"} =>
       layout \in Layouts /\ start <= end /\ end < layout.total /\ start .. end = Wanted

(* The producer runs only for a player that reads.                         *)
StageFits ==
  /\ player \in {"asking", "refused"} => stage = "unread" /\ got = <<>> /\ queue = <<>>
  /\ player \in {"whole", "broken", "gone"} => stage = "done"
  /\ stage # "done" => \A k \in 1 .. Len(queue) : queue[k] # Fault

(* The frames in the channel continue what the player has, without a gap:  *)
(* place[k] is where in the file the k-th begins.                          *)
Size(f) == f.to - f.from + 1
Carries(f, p) == \A j \in 0 .. f.to - f.from : IsByte(p + j, <<f.source, f.from + j>>)

Flow(g, q, place) ==
  /\ place \in [1 .. Len(q) + 1 -> Nat]
  /\ place[1] = start + Len(g)
  /\ \A k \in 1 .. Len(q) : /\ Size(q[k]) \in Nat
                            /\ place[k + 1] = place[k] + Size(q[k])
                            /\ Carries(q[k], place[k])
  /\ \A k \in 1 .. Len(q) + 1 : place[k] <= place[Len(q) + 1]

Delivered(g) == \A k \in 1 .. Len(g) : IsByte(start + k - 1, g[k])

(* What has been put in the channel goes up to position p.                 *)
FlowsTo(g, q, p) == \E place : Flow(g, q, place) /\ place[Len(q) + 1] = p

(* A part from piece n to piece m: they are of one file and ascend.        *)
PartFits(n, m) ==
  /\ m \in Touched /\ n \in 1 .. m + 1
  /\ \A i \in n .. m :
       /\ i \in Touched
       /\ layout.pieces[i].source = layout.pieces[m].source
       /\ i > n => To(i - 1) < From(i)

Resume(i) == IF i \in Touched THEN CutFirst(i) ELSE end + 1

(* The next byte of the part to be kept is at p.                           *)
Reached(p, n, m, a) ==
  /\ n <= m => a <= To(n) /\ p = CutFirst(n) + ((IF From(n) > a THEN From(n) ELSE a) - From(n))
  /\ n > m => p = CutLast(m) + 1

(* Where the producer may stand when the next byte to be sent is at p.     *)
ProducerFits(p, pl, st, n, m, a, c, q) ==
  /\ st \in {"unread", "inline"} => p = start
  /\ st = "inline" => start < layout.head /\ n = 1
  /\ st = "part" => p = Resume(n)
  /\ st \in {"asked", "reading", "chunk"} => PartFits(n, m) /\ Reached(p, n, m, a)
  /\ st = "chunk" => a < c /\ c <= To(m) + 1
  /\ st = "done" /\ pl \in {"reading", "whole"} =>
       p = end + 1 \/ \E k \in 1 .. Len(q) : q[k] = Fault
  /\ pl = "whole" => q = <<>>

IInv ==
  /\ TypeOK
  /\ AnswerFits
  /\ StageFits
  /\ Delivered(got)
  /\ \E p \in start .. end + 1 :
       /\ FlowsTo(got, queue, p)
       /\ ProducerFits(p, player, stage, next, last, at, chunkEnd, queue)

USE RelayAssumption

----------------------------------------------------------------------------
(* Sets of numbers, sequences, frames.                                     *)

(* A set of numbers that is not empty has a least one, which Min names.    *)
LEMMA MinIsLeast ==
  ASSUME NEW S \in SUBSET Nat, S # {}
  PROVE  Min(S) \in S /\ \A y \in S : Min(S) <= y
<1> DEFINE Less == OpToRel(<, Nat)
<1>1. \A x, y \in Nat : y < x => <<y, x>> \in Less
  BY DEF OpToRel
<1>2. IsWellFoundedOn(Less, Nat)
  BY NatLessThanWellFounded
<1> HIDE DEF Less
<1>3. \E x \in S : \A y \in S : ~(<<y, x>> \in Less)
  BY <1>2, WFMin
<1>4. PICK x \in S : \A y \in S : ~(<<y, x>> \in Less)
  BY <1>3
<1>5. ASSUME NEW y \in S PROVE x <= y
  <2>1. ~(y < x)
    BY <1>1, <1>4
  <2> QED
    BY <2>1
<1>6. \E m \in S : \A y \in S : m <= y
  BY <1>5
<1> QED
  BY <1>6 DEF Min

FrameType == [source : Sources \cup {"head"}, from : Nat, to : Nat]

(* One more frame, of bytes that belong where the channel ends.            *)
LEMMA FlowSent ==
  ASSUME NEW g, NEW q \in Seq(FrameType \cup {Fault}), NEW p \in Nat, FlowsTo(g, q, p),
         NEW f \in FrameType \cup {Fault}, Size(f) \in Nat, Carries(f, p)
  PROVE  FlowsTo(g, Append(q, f), p + Size(f))
<1>1. PICK place : Flow(g, q, place) /\ place[Len(q) + 1] = p
  BY DEF FlowsTo
<1> DEFINE n == Len(q)
           r == Append(q, f)
           new == [k \in 1 .. n + 2 |-> IF k <= n + 1 THEN place[k] ELSE p + Size(f)]
<1>2. n \in Nat /\ Len(r) = n + 1 /\ r[n + 1] = f /\ \A k \in 1 .. n : r[k] = q[k]
  OBVIOUS
<1>3. /\ place \in [1 .. n + 1 -> Nat] /\ place[n + 1] = p
      /\ place[1] = start + Len(g)
      /\ \A k \in 1 .. n : /\ Size(q[k]) \in Nat /\ place[k + 1] = place[k] + Size(q[k])
                           /\ Carries(q[k], place[k])
      /\ \A k \in 1 .. n + 1 : place[k] <= p
  BY <1>1 DEF Flow
<1> HIDE DEF n, r
<1>4. new \in [1 .. Len(r) + 1 -> Nat] /\ new[1] = start + Len(g) /\ new[n + 2] = p + Size(f)
  BY <1>2, <1>3
<1>5. ASSUME NEW k \in 1 .. Len(r)
      PROVE  /\ Size(r[k]) \in Nat /\ new[k + 1] = new[k] + Size(r[k])
             /\ Carries(r[k], new[k])
  <2>1. CASE k = n + 1
    BY <1>2, <1>3, <2>1
  <2>2. CASE k # n + 1
    <3>1. k \in 1 .. n /\ k + 1 <= n + 1
      BY <1>2, <2>2
    <3>2. new[k] = place[k] /\ new[k + 1] = place[k + 1] /\ r[k] = q[k]
      BY <1>2, <3>1
    <3> QED
      BY <1>3, <3>1, <3>2
  <2> QED
    BY <2>1, <2>2
<1>6. ASSUME NEW k \in 1 .. Len(r) + 1 PROVE new[k] <= p + Size(f)
  <2>1. CASE k <= n + 1
    <3>1. k \in 1 .. n + 1 /\ new[k] = place[k]
      BY <1>2, <2>1
    <3> HIDE DEF new
    <3> QED
      BY <1>3, <3>1
  <2>2. CASE k > n + 1
    <3>1. k = n + 2
      BY <1>2, <2>2
    <3> HIDE DEF new
    <3> QED
      BY <1>4, <3>1
  <2> QED
    BY <1>2, <2>1, <2>2
<1> HIDE DEF new
<1>7. new[Len(r) + 1] = p + Size(f)
  BY <1>2, <1>4
<1>8. Flow(g, r, new)
  BY <1>4, <1>5, <1>6, <1>7 DEF Flow
<1> QED
  BY <1>7, <1>8 DEF FlowsTo, r

ByteType == (Sources \cup {"head"}) \X Nat

(* Two sequences, one after the other.                                     *)
LEMMA OneAfterTheOther ==
  ASSUME NEW a \in Seq(ByteType), NEW b \in Seq(ByteType)
  PROVE  /\ a \o b \in Seq(ByteType) /\ Len(a \o b) = Len(a) + Len(b)
         /\ \A k \in 1 .. Len(a) : (a \o b)[k] = a[k]
         /\ \A k \in 1 .. Len(b) : (a \o b)[Len(a) + k] = b[k]
OBVIOUS

(* The bytes of a frame.                                                   *)
LEMMA FrameBytes ==
  ASSUME NEW f \in FrameType \cup {Fault}, Size(f) \in Nat
  PROVE  /\ BytesOf(f) \in Seq(ByteType) /\ Len(BytesOf(f)) = Size(f)
         /\ \A j \in 1 .. Size(f) : BytesOf(f)[j] = <<f.source, f.from + j - 1>>
<1>1. f.from \in Nat /\ f.to \in Nat
  BY DEF FrameType, Fault, Frame
<1>2. BytesOf(f) = [i \in 1 .. Size(f) |-> <<f.source, f.from + i - 1>>]
  BY DEF BytesOf, Size
<1>3. CASE f = Fault
  <2>1. Size(f) = 0
    BY <1>3 DEF Size, Fault, Frame
  <2> QED
    BY <1>2, <2>1
<1>4. CASE f # Fault
  <2>1. f.source \in Sources \cup {"head"}
    BY <1>4 DEF FrameType
  <2>2. \A i \in 1 .. Size(f) : <<f.source, f.from + i - 1>> \in ByteType
    BY <1>1, <2>1 DEF ByteType
  <2> DEFINE N == Size(f)
  <2>3. N \in Nat
    OBVIOUS
  <2> HIDE DEF N
  <2>4. [i \in 1 .. N |-> <<f.source, f.from + i - 1>>] \in Seq(ByteType)
    BY <2>2, <2>3 DEF N
  <2> QED
    BY <1>2, <2>3, <2>4 DEF N
<1> QED
  BY <1>3, <1>4

(* The first frame goes to the player.                                     *)
LEMMA FlowTaken ==
  ASSUME NEW g \in Seq(ByteType), NEW q \in Seq(FrameType \cup {Fault}), q # <<>>, NEW p,
         FlowsTo(g, q, p), Delivered(g), start \in Nat
  PROVE  /\ g \o BytesOf(Head(q)) \in Seq(ByteType)
         /\ FlowsTo(g \o BytesOf(Head(q)), Tail(q), p)
         /\ Delivered(g \o BytesOf(Head(q)))
<1>1. PICK place : Flow(g, q, place) /\ place[Len(q) + 1] = p
  BY DEF FlowsTo
<1> DEFINE n == Len(q)
           f == Head(q)
           b == BytesOf(f)
           h == g \o b
           t == Tail(q)
           new == [k \in 1 .. n |-> place[k + 1]]
<1>2. /\ n \in Nat /\ n >= 1 /\ f = q[1] /\ Len(t) = n - 1
      /\ \A k \in 1 .. n - 1 : t[k] = q[k + 1]
  OBVIOUS
<1>3. /\ place \in [1 .. n + 1 -> Nat] /\ place[n + 1] = p
      /\ place[1] = start + Len(g)
      /\ \A k \in 1 .. n : /\ Size(q[k]) \in Nat /\ place[k + 1] = place[k] + Size(q[k])
                           /\ Carries(q[k], place[k])
      /\ \A k \in 1 .. n + 1 : place[k] <= p
  BY <1>1 DEF Flow
<1>4. /\ f \in FrameType \cup {Fault} /\ f.from \in Nat /\ f.to \in Nat
      /\ Size(f) \in Nat /\ Carries(f, start + Len(g)) /\ place[2] = start + Len(g) + Size(f)
  <2>1. f \in FrameType \cup {Fault}
    BY <1>2
  <2>2. f.from \in Nat /\ f.to \in Nat
    BY <2>1 DEF FrameType, Fault, Frame
  <2> QED
    BY <1>2, <1>3, <2>1, <2>2
<1>5. /\ b \in Seq(ByteType) /\ Len(b) = Size(f)
      /\ \A j \in 1 .. Size(f) : b[j] = <<f.source, f.from + j - 1>>
  BY <1>4, FrameBytes
<1> HIDE DEF b
<1>6. /\ h \in Seq(ByteType) /\ Len(h) = Len(g) + Size(f)
      /\ \A k \in 1 .. Len(g) : h[k] = g[k]
      /\ \A k \in 1 .. Size(f) : h[Len(g) + k] = b[k]
  <2>1. /\ h \in Seq(ByteType) /\ Len(h) = Len(g) + Len(b)
        /\ \A k \in 1 .. Len(g) : h[k] = g[k]
        /\ \A k \in 1 .. Len(b) : h[Len(g) + k] = b[k]
    BY <1>5, OneAfterTheOther
  <2> HIDE DEF h, f
  <2> QED
    BY <1>5, <2>1
<1> HIDE DEF n, f, b, h, t
<1>7. Delivered(h)
  <2>1. ASSUME NEW k \in 1 .. Len(h) PROVE IsByte(start + k - 1, h[k])
    <3>1. Len(g) \in Nat
      OBVIOUS
    <3>2. CASE k <= Len(g)
      BY <1>6, <3>1, <3>2 DEF Delivered
    <3>3. CASE k > Len(g)
      <4> DEFINE j == k - Len(g)
      <4>1. j \in 1 .. Size(f) /\ k = Len(g) + j
        BY <1>4, <1>6, <3>1, <3>3
      <4>2. h[k] = <<f.source, f.from + (j - 1)>>
        BY <1>4, <1>5, <1>6, <4>1
      <4>3. j - 1 \in 0 .. f.to - f.from /\ start + k - 1 = start + Len(g) + (j - 1)
        BY <1>4, <3>1, <4>1 DEF Size
      <4> HIDE DEF j
      <4> QED
        BY <1>4, <4>2, <4>3 DEF Carries
    <3> QED
      BY <3>1, <3>2, <3>3, <1>4, <1>6
  <2> QED
    BY <2>1 DEF Delivered
<1>8. new \in [1 .. Len(t) + 1 -> Nat] /\ new[1] = start + Len(h) /\ new[Len(t) + 1] = p
  <2>1. Len(t) + 1 = n /\ Len(g) \in Nat
    BY <1>2
  <2>2. new \in [1 .. n -> Nat] /\ new[1] = place[1 + 1] /\ new[n] = place[n + 1]
    <3>1. 1 \in 1 .. n /\ n \in 1 .. n /\ \A k \in 1 .. n : k + 1 \in 1 .. n + 1
      BY <1>2
    <3>2. \A k \in 1 .. n : place[k + 1] \in Nat
      BY <1>3, <3>1
    <3> QED
      BY <3>1, <3>2
  <2>3. place[1 + 1] = start + Len(h)
    <3>1. place[2] = start + Len(g) + Size(f) /\ Len(h) = Len(g) + Size(f) /\ Size(f) \in Nat
      BY <1>4, <1>6
    <3>2. place[1 + 1] = place[2]
      OBVIOUS
    <3> QED
      BY <2>1, <3>1, <3>2
  <2> HIDE DEF new
  <2> QED
    BY <1>3, <2>1, <2>2, <2>3
<1>9. ASSUME NEW k \in 1 .. Len(t)
      PROVE  /\ Size(t[k]) \in Nat /\ new[k + 1] = new[k] + Size(t[k])
             /\ Carries(t[k], new[k])
  <2>1. k + 1 \in 1 .. n /\ k \in 1 .. n /\ t[k] = q[k + 1]
    BY <1>2
  <2>2. new[k] = place[k + 1] /\ new[k + 1] = place[k + 1 + 1]
    BY <2>1
  <2> QED
    BY <1>3, <2>1, <2>2
<1>10. \A k \in 1 .. Len(t) + 1 : new[k] <= p
  BY <1>2, <1>3
<1>11. Flow(h, t, new)
  <2> HIDE DEF new
  <2> QED
    BY <1>8, <1>9, <1>10 DEF Flow
<1> QED
  BY <1>6, <1>7, <1>8, <1>11 DEF FlowsTo, h, t, b, f

----------------------------------------------------------------------------
(* Pieces and parts.                                                       *)

Served ==
  layout \in Layouts /\ start \in Nat /\ end \in Nat /\ start <= end /\ end < layout.total

EndOf(i) == layout.pieces[i].at + layout.pieces[i].len

(* What a layout is made of, and that it has no gaps.                      *)
LEMMA LayoutFacts ==
  ASSUME layout \in Layouts
  PROVE  /\ layout.head \in Nat \ {0} /\ layout.total \in Nat /\ Len(layout.pieces) \in Nat
         /\ \A i \in Pieces : /\ layout.pieces[i].at \in Nat
                              /\ layout.pieces[i].from \in Nat
                              /\ layout.pieces[i].len \in Nat \ {0}
                              /\ layout.pieces[i].source \in Sources
                              /\ EndOf(i) \in Nat
         /\ Len(layout.pieces) = 0 => layout.total = layout.head
         /\ Len(layout.pieces) # 0 => /\ layout.pieces[1].at = layout.head
                                      /\ layout.total = EndOf(Len(layout.pieces))
         /\ \A i \in Pieces : i + 1 \in Pieces => layout.pieces[i + 1].at = EndOf(i)
<1>1. Tiled(layout)
  OBVIOUS
<1>2. layout \in [head : Nat \ {0}, pieces : Seq(Piece), total : Nat]
  BY <1>1 DEF Tiled
<1>3. \A i \in Pieces : layout.pieces[i] \in Piece
  BY <1>2 DEF Pieces
<1>4. \A i \in 2 .. Len(layout.pieces) : layout.pieces[i].at = EndOf(i - 1)
  BY <1>1 DEF Tiled, EndOf
<1>5. ASSUME NEW i \in Pieces, i + 1 \in Pieces PROVE layout.pieces[i + 1].at = EndOf(i)
  <2>1. i + 1 \in 2 .. Len(layout.pieces) /\ (i + 1) - 1 = i
    BY <1>2, <1>5 DEF Pieces
  <2> QED
    BY <1>4, <2>1
<1>6. /\ Len(layout.pieces) = 0 => layout.total = layout.head
      /\ Len(layout.pieces) # 0 => /\ layout.pieces[1].at = layout.head
                                   /\ layout.total = EndOf(Len(layout.pieces))
  BY <1>1 DEF Tiled, EndOf
<1>7. \A i \in Pieces : /\ layout.pieces[i].at \in Nat /\ layout.pieces[i].from \in Nat
                        /\ layout.pieces[i].len \in Nat \ {0}
                        /\ layout.pieces[i].source \in Sources
  BY <1>3 DEF Piece
<1>8. \A i \in Pieces : EndOf(i) \in Nat
  BY <1>7 DEF EndOf
<1>9. layout.head \in Nat \ {0} /\ layout.total \in Nat /\ Len(layout.pieces) \in Nat
  BY <1>2
<1> QED
  BY <1>5, <1>6, <1>7, <1>8, <1>9

(* What is served of a piece: some of it, and where it lies.               *)
LEMMA Cuts ==
  ASSUME Served, NEW i \in Touched
  PROVE  /\ i \in Pieces
         /\ CutFirst(i) \in Nat /\ CutLast(i) \in Nat /\ From(i) \in Nat /\ To(i) \in Nat
         /\ start <= CutFirst(i) /\ CutFirst(i) <= CutLast(i) /\ CutLast(i) <= end
         /\ To(i) - From(i) = CutLast(i) - CutFirst(i)
         /\ CutLast(i) < EndOf(i)
         /\ \A q \in CutFirst(i) .. CutLast(i) :
              IsByte(q, <<layout.pieces[i].source, From(i) + (q - CutFirst(i))>>)
<1> DEFINE a == layout.pieces[i].at
           f == layout.pieces[i].from
           n == layout.pieces[i].len
           src == layout.pieces[i].source
<1>1. /\ i \in Pieces /\ a \in Nat /\ f \in Nat /\ n \in Nat \ {0} /\ start \in Nat /\ end \in Nat
      /\ a + n > start /\ a <= end /\ start <= end
  BY LayoutFacts DEF Served, Touched
<1>2. /\ CutFirst(i) = IF start > a THEN start ELSE a
      /\ CutLast(i) = IF end < a + n - 1 THEN end ELSE a + n - 1
      /\ From(i) = f + (CutFirst(i) - a) /\ To(i) = f + (CutLast(i) - a)
      /\ EndOf(i) = a + n
  BY DEF CutFirst, CutLast, From, To, EndOf
<1>3. ASSUME NEW q \in CutFirst(i) .. CutLast(i)
      PROVE  IsByte(q, <<src, From(i) + (q - CutFirst(i))>>)
  <2>1. q \in a .. a + n - 1 /\ From(i) + (q - CutFirst(i)) = f + (q - a)
    <3> HIDE DEF a, n, f
    <3> QED
      BY <1>1, <1>2
  <2> QED
    BY <1>1, <2>1 DEF IsByte
<1> HIDE DEF a, n, f, src
<1>4. /\ CutFirst(i) \in Nat /\ CutLast(i) \in Nat /\ From(i) \in Nat /\ To(i) \in Nat
      /\ start <= CutFirst(i) /\ CutFirst(i) <= CutLast(i) /\ CutLast(i) <= end
      /\ To(i) - From(i) = CutLast(i) - CutFirst(i)
      /\ CutLast(i) < EndOf(i)
  BY <1>1, <1>2
<1> QED
  BY <1>1, <1>3, <1>4 DEF src

(* After a piece that is touched comes the next, or the end of the range.  *)
LEMMA NextCut ==
  ASSUME Served, NEW i \in Touched
  PROVE  Resume(i + 1) = CutLast(i) + 1
<1> DEFINE n == Len(layout.pieces)
<1>1. /\ i \in 1 .. n /\ n \in Nat /\ start \in Nat /\ end \in Nat
      /\ EndOf(i) > start /\ EndOf(i) \in Nat /\ layout.pieces[i].at <= end
      /\ end < layout.total
  BY LayoutFacts DEF Served, Touched, Pieces, EndOf
<1>2. CutLast(i) = IF end < EndOf(i) - 1 THEN end ELSE EndOf(i) - 1
  <2> DEFINE over == layout.pieces[i].at + layout.pieces[i].len - 1
  <2>1. CutLast(i) = IF end < over THEN end ELSE over
    BY Zenon DEF CutLast
  <2>2. EndOf(i) - 1 = over
    <3>1. layout.pieces[i].at \in Nat /\ layout.pieces[i].len \in Nat
      BY LayoutFacts DEF Served, Touched
    <3> QED
      BY <3>1 DEF EndOf
  <2> HIDE DEF over
  <2> QED
    BY <2>1, <2>2
<1>3. CASE i = n
  <2>1. i + 1 \notin Touched
    BY <1>1, <1>3 DEF Touched, Pieces
  <2>2. layout.total = EndOf(i) /\ layout.total \in Nat
    BY <1>1, <1>3, LayoutFacts DEF Served
  <2> QED
    BY <1>1, <1>2, <2>1, <2>2 DEF Resume
<1>4. CASE i # n
  <2>1. i \in Pieces /\ i + 1 \in Pieces
    BY <1>1, <1>4 DEF Pieces
  <2>2. /\ layout.pieces[i + 1].at = EndOf(i) /\ layout.pieces[i + 1].len \in Nat \ {0}
    BY <2>1, LayoutFacts DEF Served
  <2>3. i + 1 \in Touched <=> EndOf(i) <= end
    BY <1>1, <2>1, <2>2 DEF Touched
  <2>4. CutFirst(i + 1) = EndOf(i)
    BY <1>1, <2>2 DEF CutFirst
  <2>5. CASE i + 1 \in Touched
    BY <1>1, <1>2, <2>3, <2>4, <2>5 DEF Resume
  <2>6. CASE i + 1 \notin Touched
    BY <1>1, <1>2, <2>3, <2>6 DEF Resume
  <2> QED
    BY <2>5, <2>6
<1> QED
  BY <1>3, <1>4

(* The first piece past the start is where the answer goes on: behind the  *)
(* header, or in the middle of the media.                                  *)
LEMMA FirstCut ==
  ASSUME Served
  PROVE  /\ FirstPiece(layout, start) \in Nat \ {0}
         /\ start < layout.head => FirstPiece(layout, start) = 1
         /\ start >= layout.head => Resume(FirstPiece(layout, start)) = start
         /\ start < layout.head =>
              Resume(1) = (IF end < layout.head THEN end ELSE layout.head - 1) + 1
<1> DEFINE n == Len(layout.pieces)
           past == {i \in 1 .. n : layout.pieces[i].at + layout.pieces[i].len > start}
           S == past \cup {n + 1}
           m == FirstPiece(layout, start)
<1>1. /\ n \in Nat /\ start \in Nat /\ end \in Nat /\ layout.head \in Nat \ {0}
      /\ layout.total \in Nat /\ end < layout.total /\ start <= end
  BY LayoutFacts DEF Served
<1>2. S \in SUBSET Nat /\ S # {} /\ m = Min(S)
  BY <1>1 DEF FirstPiece
<1>3. m \in S /\ \A y \in S : m <= y
  <2> HIDE DEF S, m
  <2>1. m = Min(S) /\ S \in SUBSET Nat /\ S # {}
    BY <1>2
  <2> QED
    BY <2>1, MinIsLeast
<1>4. m \in Nat \ {0} /\ m <= n + 1
  <2>1. S \subseteq 1 .. n + 1
    BY <1>1
  <2> HIDE DEF S, m
  <2>2. m \in 1 .. n + 1
    BY <1>3, <2>1
  <2> QED
    BY <1>1, <2>2
<1>5. /\ n = 0 => layout.total = layout.head
      /\ n # 0 => layout.pieces[1].at = layout.head /\ layout.total = EndOf(n)
      /\ \A i \in 1 .. n : /\ layout.pieces[i].at \in Nat /\ layout.pieces[i].len \in Nat \ {0}
                           /\ i + 1 \in 1 .. n => layout.pieces[i + 1].at = EndOf(i)
  BY LayoutFacts DEF Served, Pieces
<1>6. ASSUME start < layout.head
      PROVE  m = 1 /\ Resume(1) = (IF end < layout.head THEN end ELSE layout.head - 1) + 1
  <2>1. CASE n = 0
    <3>1. m = 1
      BY <1>4, <2>1
    <3>2. 1 \notin Touched
      BY <2>1 DEF Touched, Pieces
    <3>3. end < layout.head
      BY <1>1, <1>5, <2>1
    <3> QED
      BY <3>1, <3>2, <3>3 DEF Resume
  <2>2. CASE n # 0
    <3>1. 1 \in 1 .. n /\ layout.pieces[1].at = layout.head /\ layout.pieces[1].len \in Nat \ {0}
      BY <1>1, <1>5, <2>2
    <3>2. 1 \in past
      BY <1>1, <1>6, <3>1
    <3>3. m = 1
      BY <1>3, <1>4, <3>2
    <3>4. 1 \in Touched <=> layout.head <= end
      BY <1>1, <1>6, <3>1 DEF Touched, Pieces
    <3>5. CutFirst(1) = layout.head
      BY <1>1, <1>6, <3>1 DEF CutFirst
    <3> QED
      BY <1>1, <3>3, <3>4, <3>5 DEF Resume
  <2> QED
    BY <2>1, <2>2
<1>7. ASSUME start >= layout.head PROVE Resume(m) = start
  <2>1. n # 0
    BY <1>1, <1>5, <1>7
  <2>2. n \in past
    BY <1>1, <1>5, <2>1 DEF EndOf
  <2>3. m \in past
    BY <1>1, <1>3, <2>2
  <2>4. layout.pieces[m].at <= start
    <3>1. CASE m = 1
      BY <1>1, <1>5, <1>7, <2>1, <3>1
    <3>2. CASE m # 1
      <4>1. m - 1 \in 1 .. n /\ m - 1 \notin past /\ (m - 1) + 1 = m /\ m \in 1 .. n
        BY <1>1, <1>3, <1>4, <2>3, <3>2
      <4> DEFINE j == m - 1
      <4>2. layout.pieces[m].at = EndOf(j)
        BY <1>5, <4>1
      <4>3. /\ layout.pieces[j].at \in Nat /\ layout.pieces[j].len \in Nat
            /\ ~(EndOf(j) > start) /\ EndOf(j) = layout.pieces[j].at + layout.pieces[j].len
        BY <1>5, <4>1 DEF EndOf
      <4> HIDE DEF j
      <4> QED
        BY <1>1, <4>2, <4>3
    <3> QED
      BY <3>1, <3>2
  <2>5. m \in Touched /\ CutFirst(m) = start
    BY <1>1, <1>5, <2>3, <2>4 DEF Touched, Pieces, CutFirst
  <2> QED
    BY <2>5 DEF Resume
<1>8. m = FirstPiece(layout, start)
  OBVIOUS
<1> HIDE DEF m, S, past, n
<1> QED
  BY <1>4, <1>6, <1>7, <1>8

(* A part begins with the piece it was asked for, and its pieces are of    *)
(* one file and ascend.                                                    *)
LEMMA PartGrouped ==
  ASSUME Served, NEW i \in Touched
  PROVE  /\ PartEnd(i) \in Touched /\ i <= PartEnd(i)
         /\ \A k \in i .. PartEnd(i) :
              /\ k \in Touched
              /\ layout.pieces[k].source = layout.pieces[PartEnd(i)].source
              /\ k > i => To(k - 1) < From(k)
<1> DEFINE n == Len(layout.pieces)
           S == {k \in Pieces : k >= i /\ ~Joins(i, k + 1)}
           m == PartEnd(i)
<1>1. n \in Nat /\ i \in 1 .. n
  BY LayoutFacts DEF Served, Touched, Pieces
<1>2. n \in S /\ S \in SUBSET Nat
  BY <1>1 DEF Joins, Touched, Pieces
<1>3. m \in S /\ \A y \in S : m <= y
  BY <1>2, MinIsLeast DEF PartEnd
<1>4. m \in 1 .. n /\ i <= m
  BY <1>3 DEF Pieces
<1>5. ASSUME NEW k \in i .. m, k > i PROVE Joins(i, k)
  <2>1. k - 1 \in Pieces /\ k - 1 >= i /\ k - 1 < m /\ (k - 1) + 1 = k
    BY <1>1, <1>4, <1>5 DEF Pieces
  <2>2. k - 1 \notin S
    BY <1>3, <1>4, <2>1
  <2> QED
    BY <2>1, <2>2
<1>6. \A k \in i .. m : /\ k \in Touched
                        /\ layout.pieces[k].source = layout.pieces[i].source
                        /\ k > i => To(k - 1) < From(k)
  BY <1>1, <1>4, <1>5 DEF Joins
<1>7. m \in i .. m
  BY <1>1, <1>4
<1>8. m = PartEnd(i)
  OBVIOUS
<1> HIDE DEF m, S, n
<1>9. m \in Touched /\ layout.pieces[m].source = layout.pieces[i].source
  BY <1>6, <1>7, Zenon
<1>10. ASSUME NEW k \in i .. m
       PROVE  /\ k \in Touched
              /\ layout.pieces[k].source = layout.pieces[m].source
              /\ k > i => To(k - 1) < From(k)
  BY <1>6, <1>9, Zenon
<1> QED
  BY <1>4, <1>8, <1>9, <1>10, Zenon

----------------------------------------------------------------------------
(* Steps.                                                                  *)

(* While a player reads, the answer is a range of a layout.                *)
LEMMA Reading ==
  ASSUME IInv, player = "reading"
  PROVE  Served
BY DEF IInv, AnswerFits, TypeOK, Served

(* A producer that has begun and not ended has a player that reads.        *)
LEMMA Active ==
  ASSUME IInv, stage \notin {"unread", "done"}
  PROVE  player = "reading"
BY DEF IInv, StageFits, TypeOK

(* What a step has to show that leaves the answer alone.                   *)
LEMMA Moves ==
  ASSUME IInv, player = "reading", UNCHANGED answer,
         player' \notin {"asking", "refused"}, TypeOK', StageFits', Delivered(got'),
         NEW p \in start .. end + 1, FlowsTo(got', queue', p),
         ProducerFits(p, player', stage', next', last', at', chunkEnd', queue')
  PROVE  IInv'
<1>1. layout' = layout /\ asked' = asked /\ start' = start /\ end' = end
  BY DEF answer
<1>2. AnswerFits'
  <2>1. Wanted' = Wanted
    BY <1>1 DEF Wanted
  <2> QED
    BY <1>1, <2>1 DEF IInv, AnswerFits
<1>3. Delivered(got)'
  BY <1>1 DEF Delivered, IsByte, Pieces
<1>4. FlowsTo(got, queue, p)'
  <2>1. PICK place : Flow(got', queue', place) /\ place[Len(queue') + 1] = p
    BY DEF FlowsTo
  <2>2. Flow(got, queue, place)'
    BY <1>1, <2>1, ZenonT(60) DEF Flow, Carries, Size, IsByte, Pieces
  <2> QED
    BY <2>1, <2>2, Zenon DEF FlowsTo
<1>5. ProducerFits(p, player, stage, next, last, at, chunkEnd, queue)'
  BY <1>1 DEF ProducerFits, PartFits, Reached, Resume, From, To, CutFirst, CutLast, Touched, Pieces
<1>6. p \in start' .. end' + 1
  BY <1>1
<1> QED
  BY <1>2, <1>3, <1>4, <1>5, <1>6 DEF IInv

(* A step of the producer that puts nothing in the channel.                *)
LEMMA Stays ==
  ASSUME IInv, player = "reading", UNCHANGED <<answer, player, got, queue>>,
         stage' \in Stages \ {"unread"}, stage # "done",
         next' \in Nat, last' \in Nat, at' \in Nat, chunkEnd' \in Nat,
         NEW p \in start .. end + 1, FlowsTo(got, queue, p),
         ProducerFits(p, player, stage', next', last', at', chunkEnd', queue)
  PROVE  IInv'
<1>1. layout' = layout /\ asked' = asked /\ start' = start /\ end' = end
  BY DEF answer
<1>2. TypeOK'
  BY <1>1 DEF IInv, TypeOK
<1>3. StageFits'
  BY DEF IInv, StageFits
<1> QED
  BY <1>2, <1>3, Moves DEF IInv

(* A step of the producer that puts a frame in the channel.                *)
LEMMA Sends ==
  ASSUME IInv, player = "reading", UNCHANGED <<answer, player, got>>,
         Room, NEW f \in FrameType \cup {Fault}, queue' = Append(queue, f),
         stage' \in Stages \ {"unread"}, stage # "done", f = Fault => stage' = "done",
         next' \in Nat, last' \in Nat, at' \in Nat, chunkEnd' \in Nat,
         NEW p \in Nat, FlowsTo(got, queue, p), Size(f) \in Nat, Carries(f, p),
         p + Size(f) \in start .. end + 1,
         ProducerFits(p + Size(f), player, stage', next', last', at', chunkEnd', queue')
  PROVE  IInv'
<1>1. layout' = layout /\ asked' = asked /\ start' = start /\ end' = end
  BY DEF answer
<1>2. queue \in Seq(FrameType \cup {Fault}) /\ Len(queue) \in Nat
  BY DEF IInv, TypeOK, FrameType
<1>3. /\ queue' \in Seq(FrameType \cup {Fault}) /\ Len(queue') = Len(queue) + 1
      /\ queue'[Len(queue) + 1] = f /\ \A k \in 1 .. Len(queue) : queue'[k] = queue[k]
  BY <1>2
<1>4. TypeOK'
  BY <1>1, <1>2, <1>3 DEF IInv, TypeOK, FrameType, Room
<1>5. StageFits'
  BY <1>2, <1>3 DEF IInv, StageFits
<1>6. FlowsTo(got, queue', p + Size(f))
  BY <1>2, FlowSent
<1> QED
  BY <1>4, <1>5, <1>6, Moves DEF IInv

(* The first read starts the producer.                                     *)
LEMMA StartsKeeps == IInv /\ Starts => IInv'
<1> SUFFICES ASSUME IInv, Starts PROVE IInv'
  OBVIOUS
<1>1. PICK p \in start .. end + 1 :
         /\ FlowsTo(got, queue, p)
         /\ ProducerFits(p, player, stage, next, last, at, chunkEnd, queue)
  BY DEF IInv
<1>2. /\ player = "reading" /\ stage = "unread"
      /\ stage' = IF start < layout.head THEN "inline" ELSE "part"
      /\ next' = FirstPiece(layout, start)
      /\ UNCHANGED <<answer, player, got, queue, last, at, chunkEnd>>
  BY DEF Starts
<1>3. Served
  BY <1>2, Reading
<1>4. p = start
  BY <1>1, <1>2 DEF ProducerFits
<1>5. /\ next' \in Nat
      /\ start < layout.head => next' = 1
      /\ start >= layout.head => Resume(next') = start
  BY <1>2, <1>3, FirstCut
<1>6. start \in Nat /\ layout.head \in Nat
  BY <1>3, LayoutFacts DEF Served
<1>7. ProducerFits(p, player, stage', next', last', at', chunkEnd', queue)
  BY <1>2, <1>4, <1>5, <1>6 DEF ProducerFits
<1>8. last' \in Nat /\ at' \in Nat /\ chunkEnd' \in Nat /\ stage' \in Stages \ {"unread"}
  BY <1>2 DEF IInv, TypeOK, Stages
<1> QED
  BY <1>1, <1>2, <1>5, <1>7, <1>8, Stays

(* The header goes out at once.                                            *)
LEMMA SendsHeadKeeps == IInv /\ SendsHead => IInv'
<1> SUFFICES ASSUME IInv, SendsHead PROVE IInv'
  OBVIOUS
<1> DEFINE e == IF end < layout.head THEN end ELSE layout.head - 1
           f == Frame("head", start, e)
<1>1. PICK p \in start .. end + 1 :
         /\ FlowsTo(got, queue, p)
         /\ ProducerFits(p, player, stage, next, last, at, chunkEnd, queue)
  BY DEF IInv
<1>2. /\ stage = "inline" /\ Room /\ queue' = Append(queue, f) /\ stage' = "part"
      /\ UNCHANGED <<answer, player, got, next, last, at, chunkEnd>>
  BY DEF SendsHead, relay
<1>3. player = "reading" /\ Served
  BY <1>2, Active, Reading
<1>4. p = start /\ start < layout.head /\ next = 1
  BY <1>1, <1>2 DEF ProducerFits
<1>5. Resume(1) = e + 1
  BY <1>3, <1>4, FirstCut
<1>6. start \in Nat /\ end \in Nat /\ start <= end /\ layout.head \in Nat
  BY <1>3, LayoutFacts DEF Served
<1>7. e \in Nat /\ start <= e /\ e < layout.head /\ e <= end
  BY <1>4, <1>6
<1>8. f.source = "head" /\ f.from = start /\ f.to = e /\ f \in FrameType /\ f # Fault
  BY <1>6, <1>7 DEF Frame, FrameType, Fault
<1> HIDE DEF e, f
<1>9. Carries(f, start)
  <2>1. ASSUME NEW j \in 0 .. e - start PROVE IsByte(start + j, <<"head", start + j>>)
    BY <1>6, <1>7 DEF IsByte
  <2> QED
    BY <1>8, <2>1 DEF Carries
<1>10. Size(f) \in Nat /\ start + Size(f) = e + 1
  BY <1>6, <1>7, <1>8 DEF Size
<1>11. start + Size(f) \in start .. end + 1
  BY <1>6, <1>7, <1>10
<1>12. ProducerFits(start + Size(f), player, stage', next', last', at', chunkEnd', queue')
  BY <1>2, <1>3, <1>4, <1>5, <1>10 DEF ProducerFits
<1>13. /\ next' \in Nat /\ last' \in Nat /\ at' \in Nat /\ chunkEnd' \in Nat
       /\ stage' \in Stages \ {"unread"}
  BY <1>2 DEF IInv, TypeOK, Stages
<1>14. FlowsTo(got, queue, start)
  BY <1>1, <1>4
<1> QED
  BY <1>2, <1>3, <1>6, <1>8, <1>9, <1>10, <1>11, <1>12, <1>13, <1>14, Sends

(* A part is asked for from where the last one ended.                      *)
LEMMA AsksKeeps == IInv /\ (AsksForPart \/ NoPartLeft) => IInv'
<1> SUFFICES ASSUME IInv, AsksForPart \/ NoPartLeft PROVE IInv'
  OBVIOUS
<1>1. PICK p \in start .. end + 1 :
         /\ FlowsTo(got, queue, p)
         /\ ProducerFits(p, player, stage, next, last, at, chunkEnd, queue)
  BY DEF IInv
<1>2. stage = "part" /\ UNCHANGED <<answer, player, got, queue, next, chunkEnd>>
  BY DEF AsksForPart, NoPartLeft, relay
<1>3. player = "reading" /\ Served
  BY <1>2, Active, Reading
<1>4. p = Resume(next) /\ next \in Nat /\ chunkEnd \in Nat /\ last \in Nat /\ at \in Nat
  BY <1>1, <1>2 DEF ProducerFits, IInv, TypeOK
<1>5. ASSUME AsksForPart PROVE IInv'
  <2>1. next \in Touched /\ stage' = "asked" /\ last' = PartEnd(next) /\ at' = From(next)
    BY <1>5 DEF AsksForPart
  <2>2. last' \in Nat
    <3>1. PartEnd(next) \in Pieces
      BY <1>3, <2>1, PartGrouped DEF Touched
    <3> QED
      BY <1>3, <2>1, <3>1, LayoutFacts DEF Served, Pieces
  <2>3. PartFits(next, last') /\ next <= last'
    <3>1. next \in 1 .. last' + 1
      BY <1>3, <2>1, PartGrouped, LayoutFacts DEF Served, Touched, Pieces
    <3> QED
      BY <1>3, <2>1, <3>1, PartGrouped DEF PartFits
  <2>4. /\ From(next) <= To(next) /\ From(next) \in Nat /\ CutFirst(next) \in Nat
    <3>1. To(next) - From(next) = CutLast(next) - CutFirst(next) /\ To(next) \in Nat
          /\ CutFirst(next) <= CutLast(next) /\ CutLast(next) \in Nat
          /\ From(next) \in Nat /\ CutFirst(next) \in Nat
      BY <1>3, <2>1, Cuts
    <3> QED
      BY <3>1
  <2>5. Reached(p, next, last', at')
    <3>1. p = CutFirst(next)
      BY <1>4, <2>1 DEF Resume
    <3>2. at' = From(next)
      BY <2>1
    <3> QED
      BY <1>4, <2>2, <2>3, <2>4, <3>1, <3>2 DEF Reached
  <2>6. ProducerFits(p, player, stage', next', last', at', chunkEnd', queue)
    BY <1>2, <1>3, <2>1, <2>3, <2>5 DEF ProducerFits
  <2>7. stage' \in Stages \ {"unread"} /\ next' \in Nat /\ at' \in Nat /\ chunkEnd' \in Nat
    BY <1>2, <1>4, <2>1, <2>4 DEF Stages
  <2> QED
    BY <1>1, <1>2, <1>3, <2>2, <2>6, <2>7, Stays
<1>6. ASSUME NoPartLeft PROVE IInv'
  <2>1. next \notin Touched /\ stage' = "done" /\ UNCHANGED <<last, at>>
    BY <1>6 DEF NoPartLeft, relay
  <2>2. ProducerFits(p, player, stage', next', last', at', chunkEnd', queue)
    BY <1>2, <1>3, <1>4, <2>1 DEF ProducerFits, Resume
  <2>3. /\ stage' \in Stages \ {"unread"} /\ next' \in Nat /\ at' \in Nat
        /\ chunkEnd' \in Nat /\ last' \in Nat
    BY <1>2, <1>4, <2>1 DEF Stages
  <2> QED
    BY <1>1, <1>2, <1>3, <2>2, <2>3, Stays
<1> QED
  BY <1>5, <1>6

(* Upstream answers, fails, or sends a chunk.                              *)
LEMMA UpstreamKeeps ==
  IInv /\ (Answers \/ Breaks \/ \E n \in 1 .. MaxChunk : ChunkArrives(n)) => IInv'
<1> SUFFICES ASSUME IInv, Answers \/ Breaks \/ \E n \in 1 .. MaxChunk : ChunkArrives(n)
             PROVE  IInv'
  OBVIOUS
<1>1. PICK p \in start .. end + 1 :
         /\ FlowsTo(got, queue, p)
         /\ ProducerFits(p, player, stage, next, last, at, chunkEnd, queue)
  BY DEF IInv
<1>2. /\ stage \in {"asked", "reading"}
      /\ UNCHANGED <<answer, player, got, queue, next, last, at>>
  BY DEF Answers, Breaks, ChunkArrives, relay
<1>3. player = "reading" /\ Served
  BY <1>2, Active, Reading
<1>4. PartFits(next, last) /\ Reached(p, next, last, at)
  BY <1>1, <1>2 DEF ProducerFits
<1>5. at \in Nat /\ next \in Nat /\ last \in Nat /\ chunkEnd \in Nat
  BY DEF IInv, TypeOK
<1>6. To(last) \in Nat
  BY <1>3, <1>4, Cuts DEF PartFits
<1>7. /\ stage' \in {"reading", "failing", "chunk"} /\ chunkEnd' \in Nat
      /\ stage' = "chunk" => at < chunkEnd' /\ chunkEnd' <= To(last) + 1
  <2>1. CASE Answers \/ Breaks
    BY <2>1, <1>5 DEF Answers, Breaks, relay
  <2>2. ASSUME NEW n \in 1 .. MaxChunk, ChunkArrives(n)
        PROVE  /\ stage' \in {"reading", "failing", "chunk"} /\ chunkEnd' \in Nat
               /\ stage' = "chunk" => at < chunkEnd' /\ chunkEnd' <= To(last) + 1
    BY <1>5, <1>6, <2>2 DEF ChunkArrives
  <2> QED
    BY <2>1, <2>2
<1>8. ProducerFits(p, player, stage', next', last', at', chunkEnd', queue)
  BY <1>2, <1>3, <1>4, <1>7 DEF ProducerFits
<1>9. stage' \in Stages \ {"unread"} /\ next' \in Nat /\ last' \in Nat /\ at' \in Nat
  BY <1>2, <1>5, <1>7 DEF Stages
<1> QED
  BY <1>1, <1>2, <1>3, <1>7, <1>8, <1>9, Stays

(* What is kept of a chunk is what comes next in the file.                 *)
LEMMA KeepsKeeps == IInv /\ Keeps => IInv'
<1> SUFFICES ASSUME IInv, Keeps PROVE IInv'
  OBVIOUS
<1> DEFINE f == Frame(layout.pieces[last].source, KeptFrom, KeptTo)
<1>1. PICK p \in start .. end + 1 :
         /\ FlowsTo(got, queue, p)
         /\ ProducerFits(p, player, stage, next, last, at, chunkEnd, queue)
  BY DEF IInv
<1>2. /\ stage = "chunk" /\ Room /\ next <= last /\ From(next) < chunkEnd
      /\ queue' = Append(queue, f)
      /\ IF To(next) + 1 > chunkEnd
         THEN stage' = "reading" /\ at' = chunkEnd /\ next' = next
         ELSE next' = next + 1 /\ stage' = stage /\ at' = at
      /\ UNCHANGED <<answer, player, got, last, chunkEnd>>
  BY DEF Keeps
<1>3. player = "reading" /\ Served
  BY <1>2, Active, Reading
<1>4. /\ PartFits(next, last) /\ Reached(p, next, last, at)
      /\ at < chunkEnd /\ chunkEnd <= To(last) + 1
  BY <1>1, <1>2 DEF ProducerFits
<1>5. at \in Nat /\ next \in Nat /\ last \in Nat /\ chunkEnd \in Nat
  BY DEF IInv, TypeOK
<1>6. /\ next \in Touched /\ layout.pieces[next].source = layout.pieces[last].source
      /\ last \in Touched
  BY <1>2, <1>4, <1>5 DEF PartFits
<1>7. /\ next \in Pieces /\ CutFirst(next) \in Nat /\ CutLast(next) \in Nat
      /\ From(next) \in Nat /\ To(next) \in Nat
      /\ start <= CutFirst(next) /\ CutFirst(next) <= CutLast(next) /\ CutLast(next) <= end
      /\ To(next) - From(next) = CutLast(next) - CutFirst(next)
      /\ \A q \in CutFirst(next) .. CutLast(next) :
           IsByte(q, <<layout.pieces[next].source, From(next) + (q - CutFirst(next))>>)
  BY <1>3, <1>6, Cuts
<1>8. at <= To(next) /\ p = CutFirst(next) + (KeptFrom - From(next))
  BY <1>2, <1>4 DEF Reached, KeptFrom
<1>9. /\ KeptFrom = IF From(next) > at THEN From(next) ELSE at
      /\ KeptTo = IF To(next) < chunkEnd THEN To(next) ELSE chunkEnd - 1
  BY DEF KeptFrom, KeptTo
<1>10. start \in Nat /\ end \in Nat
  BY <1>3 DEF Served
<1>11. /\ KeptFrom \in Nat /\ KeptTo \in Nat /\ KeptFrom <= KeptTo
       /\ From(next) <= KeptFrom /\ KeptTo <= To(next) /\ p \in Nat
  <2>1. From(next) <= To(next) /\ From(next) \in Nat /\ To(next) \in Nat /\ CutFirst(next) \in Nat
    BY <1>7
  <2>2. /\ KeptFrom \in Nat /\ KeptTo \in Nat /\ KeptFrom <= KeptTo
        /\ From(next) <= KeptFrom /\ KeptTo <= To(next)
    BY <1>2, <1>4, <1>5, <1>8, <1>9, <2>1
  <2> QED
    BY <1>8, <2>1, <2>2
<1>12. /\ f.source = layout.pieces[last].source /\ f.from = KeptFrom /\ f.to = KeptTo
       /\ f \in FrameType /\ f # Fault
  <2>1. layout.pieces[last].source \in Sources
    BY <1>3, <1>6, LayoutFacts DEF Served, Touched
  <2>2. f \in FrameType
    BY <1>11, <2>1 DEF Frame, FrameType
  <2>3. f.from = KeptFrom /\ f.to = KeptTo /\ f.source = layout.pieces[last].source
    BY DEF Frame
  <2>4. Fault.from = 1 /\ Fault.to = 0
    BY DEF Fault, Frame
  <2>5. f # Fault
    BY <1>11, <2>3, <2>4
  <2> QED
    BY <2>2, <2>3, <2>5
<1> HIDE DEF f
<1>13. Carries(f, p)
  <2>1. ASSUME NEW j \in 0 .. KeptTo - KeptFrom
        PROVE  IsByte(p + j, <<layout.pieces[next].source, KeptFrom + j>>)
    <3> DEFINE q == p + j
    <3>1. q \in CutFirst(next) .. CutLast(next)
          /\ From(next) + (q - CutFirst(next)) = KeptFrom + j
      BY <1>7, <1>8, <1>11
    <3> HIDE DEF q
    <3>2. IsByte(q, <<layout.pieces[next].source, From(next) + (q - CutFirst(next))>>)
      BY <1>7, <3>1
    <3>3. IsByte(q, <<layout.pieces[next].source, KeptFrom + j>>)
      BY <3>1, <3>2
    <3> QED
      BY <3>3 DEF q
  <2> QED
    BY <1>6, <1>12, <2>1 DEF Carries
<1>14. Size(f) = KeptTo - KeptFrom + 1 /\ Size(f) \in Nat
  BY <1>11, <1>12 DEF Size
<1>15. p + Size(f) \in start .. end + 1
  BY <1>7, <1>8, <1>10, <1>11, <1>14
<1>16. PartFits(next', last) /\ Reached(p + Size(f), next', last, at')
  <2>1. CASE To(next) + 1 > chunkEnd
    <3>1. at' = chunkEnd /\ next' = next /\ KeptTo = chunkEnd - 1 /\ chunkEnd <= To(next)
      BY <1>2, <1>5, <1>7, <1>9, <2>1
    <3>2. p + Size(f) = CutFirst(next) + (chunkEnd - From(next))
      BY <1>5, <1>7, <1>8, <1>11, <1>14, <3>1
    <3> QED
      BY <1>2, <1>4, <1>5, <1>7, <3>1, <3>2 DEF Reached
  <2>2. CASE ~(To(next) + 1 > chunkEnd)
    <3>1. at' = at /\ next' = next + 1 /\ KeptTo = To(next)
      BY <1>2, <1>5, <1>7, <1>9, <2>2
    <3>2. p + Size(f) = CutLast(next) + 1
      BY <1>7, <1>8, <1>11, <1>14, <3>1
    <3>3. PartFits(next + 1, last)
      BY <1>2, <1>4, <1>5 DEF PartFits
    <3>4. CASE next = last
      BY <1>5, <3>1, <3>2, <3>3, <3>4 DEF Reached
    <3>5. CASE next # last
      <4>1. next + 1 \in Touched /\ To(next) < From(next + 1) /\ next + 1 <= last
        <5>1. next + 1 \in next .. last /\ next + 1 > next /\ (next + 1) - 1 = next
          BY <1>2, <1>5, <3>5
        <5> QED
          BY <1>4, <5>1 DEF PartFits
      <4>2. CutFirst(next + 1) = CutLast(next) + 1
        BY <1>3, <1>6, <4>1, NextCut DEF Resume
      <4>3. /\ From(next + 1) \in Nat /\ To(next + 1) \in Nat /\ CutFirst(next + 1) \in Nat
            /\ From(next + 1) <= To(next + 1)
        <5>1. /\ To(next + 1) - From(next + 1) = CutLast(next + 1) - CutFirst(next + 1)
              /\ CutFirst(next + 1) <= CutLast(next + 1)
              /\ From(next + 1) \in Nat /\ To(next + 1) \in Nat
              /\ CutFirst(next + 1) \in Nat /\ CutLast(next + 1) \in Nat
          BY <1>3, <4>1, Cuts
        <5> QED
          BY <5>1
      <4>4. at < From(next + 1) /\ at <= To(next + 1)
        BY <1>5, <1>7, <1>8, <4>1, <4>3
      <4>5. Reached(p + Size(f), next + 1, last, at)
        BY <1>5, <3>2, <4>1, <4>2, <4>3, <4>4 DEF Reached
      <4> QED
        BY <3>1, <3>3, <4>5
    <3> QED
      BY <3>4, <3>5
  <2> QED
    BY <2>1, <2>2
<1>17. /\ stage' \in {"reading", "chunk"} /\ next' \in Nat /\ at' \in Nat
       /\ stage' = "chunk" => at' = at
  BY <1>2, <1>5
<1>18. ProducerFits(p + Size(f), player, stage', next', last', at', chunkEnd', queue')
  BY <1>2, <1>3, <1>4, <1>16, <1>17 DEF ProducerFits
<1>19. stage' \in Stages \ {"unread"} /\ last' \in Nat /\ chunkEnd' \in Nat
  BY <1>2, <1>5, <1>17 DEF Stages
<1> QED
  BY <1>1, <1>2, <1>3, <1>11, <1>12, <1>13, <1>14, <1>15, <1>17, <1>18, <1>19, Sends

(* A chunk that has been read, or a body that closes, moves nothing.       *)
LEMMA ReadsKeep == IInv /\ (ChunkRead \/ BodyCloses) => IInv'
<1> SUFFICES ASSUME IInv, ChunkRead \/ BodyCloses PROVE IInv'
  OBVIOUS
<1>1. PICK p \in start .. end + 1 :
         /\ FlowsTo(got, queue, p)
         /\ ProducerFits(p, player, stage, next, last, at, chunkEnd, queue)
  BY DEF IInv
<1>2. /\ stage \in {"chunk", "reading"}
      /\ UNCHANGED <<answer, player, got, queue, next, last, chunkEnd>>
  BY DEF ChunkRead, BodyCloses, relay
<1>3. player = "reading" /\ Served
  BY <1>2, Active, Reading
<1>4. PartFits(next, last) /\ Reached(p, next, last, at)
  BY <1>1, <1>2 DEF ProducerFits
<1>5. at \in Nat /\ next \in Nat /\ last \in Nat /\ chunkEnd \in Nat
  BY DEF IInv, TypeOK
<1>6. ASSUME ChunkRead PROVE IInv'
  <2>1. /\ stage = "chunk" /\ stage' = "reading" /\ at' = chunkEnd
        /\ next <= last => From(next) >= chunkEnd
    BY <1>6 DEF ChunkRead, NothingKept
  <2>2. at < chunkEnd
    BY <1>1, <2>1 DEF ProducerFits
  <2>3. Reached(p, next, last, chunkEnd)
    <3>1. CASE next <= last
      <4>1. next \in Touched
        BY <1>4, <1>5, <3>1 DEF PartFits
      <4>2. /\ From(next) \in Nat /\ To(next) \in Nat /\ From(next) <= To(next)
            /\ CutFirst(next) \in Nat
        <5>1. /\ To(next) - From(next) = CutLast(next) - CutFirst(next)
              /\ CutFirst(next) <= CutLast(next) /\ From(next) \in Nat /\ To(next) \in Nat
              /\ CutFirst(next) \in Nat /\ CutLast(next) \in Nat
          BY <1>3, <4>1, Cuts
        <5> QED
          BY <5>1
      <4> QED
        BY <1>4, <1>5, <2>1, <2>2, <3>1, <4>2 DEF Reached
    <3>2. CASE ~(next <= last)
      BY <1>4, <1>5, <3>2 DEF Reached
    <3> QED
      BY <3>1, <3>2
  <2>4. ProducerFits(p, player, stage', next', last', at', chunkEnd', queue)
    BY <1>2, <1>3, <1>4, <2>1, <2>3 DEF ProducerFits
  <2>5. /\ stage' \in Stages \ {"unread"} /\ next' \in Nat /\ last' \in Nat
        /\ at' \in Nat /\ chunkEnd' \in Nat
    BY <1>2, <1>5, <2>1 DEF Stages
  <2> QED
    BY <1>1, <1>2, <1>3, <2>4, <2>5, Stays
<1>7. ASSUME BodyCloses PROVE IInv'
  <2>1. at' = at /\ stage' = IF WholePart THEN "part" ELSE "failing"
    BY <1>7 DEF BodyCloses, relay
  <2>2. WholePart => p = Resume(next)
    <3>1. ASSUME WholePart PROVE p = Resume(next)
      <4>1. next = last + 1 /\ next > last
        BY <1>5, <3>1 DEF WholePart
      <4>2. p = CutLast(last) + 1 /\ last \in Touched
        BY <1>4, <4>1 DEF Reached, PartFits
      <4> QED
        BY <1>3, <4>1, <4>2, NextCut
    <3> QED
      BY <3>1
  <2>3. ProducerFits(p, player, stage', next', last', at', chunkEnd', queue)
    BY <1>2, <1>3, <2>1, <2>2 DEF ProducerFits
  <2>4. /\ stage' \in Stages \ {"unread"} /\ next' \in Nat /\ last' \in Nat
        /\ at' \in Nat /\ chunkEnd' \in Nat
    BY <1>2, <1>5, <2>1 DEF Stages
  <2> QED
    BY <1>1, <1>2, <1>3, <2>3, <2>4, Stays
<1> QED
  BY <1>6, <1>7

(* The error goes into the channel behind what was sent.                   *)
LEMMA FaultKeeps == IInv /\ SendsFault => IInv'
<1> SUFFICES ASSUME IInv, SendsFault PROVE IInv'
  OBVIOUS
<1>1. PICK p \in start .. end + 1 :
         /\ FlowsTo(got, queue, p)
         /\ ProducerFits(p, player, stage, next, last, at, chunkEnd, queue)
  BY DEF IInv
<1>2. /\ stage = "failing" /\ Room /\ queue' = Append(queue, Fault) /\ stage' = "done"
      /\ UNCHANGED <<answer, player, got, next, last, at, chunkEnd>>
  BY DEF SendsFault, relay
<1>3. player = "reading" /\ Served
  BY <1>2, Active, Reading
<1>4. Fault.from = 1 /\ Fault.to = 0
  BY DEF Fault, Frame
<1>5. Size(Fault) = 0 /\ Carries(Fault, p)
  BY <1>4 DEF Size, Carries
<1>6. start \in Nat /\ end \in Nat
  BY <1>3 DEF Served
<1>7. p \in Nat /\ p + Size(Fault) = p
  BY <1>5, <1>6
<1>8. \E k \in 1 .. Len(queue') : queue'[k] = Fault
  <2>1. queue \in Seq(FrameType \cup {Fault})
    BY DEF IInv, TypeOK, FrameType
  <2>2. Len(queue) + 1 \in 1 .. Len(queue') /\ queue'[Len(queue) + 1] = Fault
    BY <1>2, <2>1
  <2> QED
    BY <2>2
<1>9. ProducerFits(p, player, stage', next', last', at', chunkEnd', queue')
  BY <1>2, <1>3, <1>8 DEF ProducerFits
<1>10. /\ stage' \in Stages \ {"unread"} /\ next' \in Nat /\ last' \in Nat
       /\ at' \in Nat /\ chunkEnd' \in Nat
  BY <1>2 DEF IInv, TypeOK, Stages
<1> DEFINE f == Fault
<1>11. f \in FrameType \cup {Fault} /\ Size(f) \in Nat
  BY <1>5
<1> QED
  BY <1>1, <1>2, <1>3, <1>5, <1>7, <1>9, <1>10, <1>11, Sends

(* The player takes a frame, or sees the channel closed.                   *)
LEMMA TakesKeeps == IInv /\ Takes => IInv'
<1> SUFFICES ASSUME IInv, Takes PROVE IInv'
  OBVIOUS
<1>1. PICK p \in start .. end + 1 :
         /\ FlowsTo(got, queue, p)
         /\ ProducerFits(p, player, stage, next, last, at, chunkEnd, queue)
  BY DEF IInv
<1>2. /\ player = "reading" /\ queue # <<>> /\ queue' = Tail(queue)
      /\ player' = IF Head(queue) = Fault THEN "broken" ELSE "reading"
      /\ got' = got \o BytesOf(Head(queue))
      /\ UNCHANGED <<answer, stage, next, last, at, chunkEnd>>
  BY DEF Takes, relay
<1>3. /\ queue \in Seq(FrameType \cup {Fault}) /\ got \in Seq(ByteType) /\ Len(queue) \in Nat
      /\ Len(queue) <= Capacity /\ start \in Nat /\ Delivered(got)
  BY DEF IInv, TypeOK, FrameType, ByteType
<1>4. /\ got' \in Seq(ByteType) /\ FlowsTo(got', queue', p) /\ Delivered(got')
  BY <1>1, <1>2, <1>3, FlowTaken
<1>5. /\ queue' \in Seq(FrameType \cup {Fault}) /\ Len(queue') = Len(queue) - 1
      /\ Len(queue) >= 1 /\ Head(queue) = queue[1]
      /\ \A k \in 1 .. Len(queue) - 1 : queue'[k] = queue[k + 1]
  BY <1>2, <1>3
<1>6. TypeOK'
  BY <1>2, <1>3, <1>4, <1>5 DEF IInv, TypeOK, FrameType, ByteType, answer
<1>7. stage # "done" => \A k \in 1 .. Len(queue) : queue[k] # Fault
  BY DEF IInv, StageFits
<1>8. StageFits'
  <2>1. player' \in {"whole", "broken", "gone"} => stage' = "done"
    BY <1>2, <1>3, <1>5, <1>7
  <2>2. stage' # "done" => \A k \in 1 .. Len(queue') : queue'[k] # Fault
    BY <1>2, <1>3, <1>5, <1>7
  <2>3. player' \notin {"asking", "refused"}
    BY <1>2
  <2> QED
    BY <2>1, <2>2, <2>3 DEF StageFits
<1>9. ASSUME player' = "reading", \E k \in 1 .. Len(queue) : queue[k] = Fault
      PROVE  \E k \in 1 .. Len(queue') : queue'[k] = Fault
  <2>1. PICK k \in 1 .. Len(queue) : queue[k] = Fault
    BY <1>9
  <2>2. k # 1
    BY <1>2, <1>5, <1>9, <2>1
  <2>3. k - 1 \in 1 .. Len(queue') /\ queue'[k - 1] = queue[(k - 1) + 1] /\ (k - 1) + 1 = k
    BY <1>3, <1>5, <2>2
  <2> QED
    BY <2>1, <2>3
<1>10. ProducerFits(p, player', stage', next', last', at', chunkEnd', queue')
  BY <1>1, <1>2, <1>9 DEF ProducerFits
<1> QED
  BY <1>1, <1>2, <1>4, <1>6, <1>8, <1>10, Moves

(* A channel that closes without an error in it closes behind the last     *)
(* byte of the range.                                                      *)
LEMMA EndKeeps == IInv /\ SeesEnd => IInv'
<1> SUFFICES ASSUME IInv, SeesEnd PROVE IInv'
  OBVIOUS
<1>1. PICK p \in start .. end + 1 :
         /\ FlowsTo(got, queue, p)
         /\ ProducerFits(p, player, stage, next, last, at, chunkEnd, queue)
  BY DEF IInv
<1>2. /\ player = "reading" /\ queue = <<>> /\ stage = "done" /\ player' = "whole"
      /\ UNCHANGED <<answer, got, queue, stage, next, last, at, chunkEnd>>
  BY DEF SeesEnd, relay
<1>3. TypeOK'
  BY <1>2 DEF IInv, TypeOK, answer
<1>4. StageFits'
  BY <1>2 DEF StageFits
<1>5. ProducerFits(p, player', stage', next', last', at', chunkEnd', queue')
  BY <1>1, <1>2 DEF ProducerFits
<1>6. FlowsTo(got', queue', p) /\ Delivered(got')
  BY <1>1, <1>2 DEF IInv
<1> QED
  BY <1>1, <1>2, <1>3, <1>4, <1>5, <1>6, Moves

(* What a player that leaves has taken is what it keeps.                   *)
LEMMA LeavesKeeps == IInv /\ Leaves => IInv'
<1> SUFFICES ASSUME IInv, Leaves PROVE IInv'
  OBVIOUS
<1>1. PICK p \in start .. end + 1 : FlowsTo(got, queue, p)
  BY DEF IInv
<1>2. /\ player = "reading" /\ player' = "gone" /\ queue' = <<>> /\ stage' = "done"
      /\ UNCHANGED <<answer, got, next, last, at, chunkEnd>>
  BY DEF Leaves, relay
<1>3. Served
  BY <1>2, Reading
<1>4. got \in Seq(ByteType) /\ Len(queue) \in Nat /\ start \in Nat /\ end \in Nat
  BY DEF IInv, TypeOK, ByteType
<1> DEFINE r == start + Len(got)
           here == [k \in 1 .. 1 |-> r]
<1>5. r \in start .. end + 1
  <2>1. PICK place : Flow(got, queue, place) /\ place[Len(queue) + 1] = p
    BY <1>1 DEF FlowsTo
  <2>2. place[1] = r /\ place[1] <= p
    BY <1>4, <2>1 DEF Flow
  <2> HIDE DEF r
  <2>3. r \in Nat /\ start <= r
    BY <1>4 DEF r
  <2> QED
    BY <1>1, <1>4, <2>2, <2>3
<1>6. FlowsTo(got', queue', r)
  <2>1. Len(queue') = 0
    BY <1>2
  <2>2. r \in Nat
    BY <1>4
  <2>3. Flow(got', queue', here) /\ here[Len(queue') + 1] = r
    BY <1>2, <2>1, <2>2 DEF Flow
  <2> QED
    BY <2>3 DEF FlowsTo
<1>7. TypeOK'
  BY <1>2 DEF IInv, TypeOK, answer, Stages
<1>8. StageFits'
  BY <1>2 DEF StageFits
<1>9. ProducerFits(r, player', stage', next', last', at', chunkEnd', queue')
  BY <1>2 DEF ProducerFits
<1>10. Delivered(got')
  BY <1>2 DEF IInv
<1> HIDE DEF r
<1> QED
  BY <1>2, <1>5, <1>6, <1>7, <1>8, <1>9, <1>10, Moves

----------------------------------------------------------------------------
(* What a Range header asks for.                                           *)

WantedOf(r, size) ==
  {p \in 0 .. size - 1 :
     CASE r.kind = "none" -> TRUE
       [] r.kind = "suffix" -> p >= size - r.b
       [] r.kind = "open" -> p >= r.a
       [] r.kind = "closed" -> p >= r.a /\ p <= r.b}

(* parse_range names the first and the last byte of what is asked for, and *)
(* refuses just when that is nothing.                                      *)
LEMMA ParsedAsWanted ==
  ASSUME NEW r \in RangeType, NEW size \in Nat \ {0}
  PROVE  IF Satisfiable(r, size)
         THEN /\ FirstByte(r, size) \in Nat /\ LastByte(r, size) \in Nat
              /\ FirstByte(r, size) <= LastByte(r, size) /\ LastByte(r, size) < size
              /\ FirstByte(r, size) .. LastByte(r, size) = WantedOf(r, size)
         ELSE WantedOf(r, size) = {}
<1>1. r.kind \in {"none", "open", "closed", "suffix"} /\ r.a \in Nat /\ r.b \in Nat
  BY DEF RangeType
<1>2. CASE r.kind = "none"
  <2>1. FirstByte(r, size) = 0 /\ LastByte(r, size) = size - 1 /\ Satisfiable(r, size)
    BY <1>2 DEF FirstByte, LastByte, Satisfiable
  <2>2. WantedOf(r, size) = 0 .. size - 1
    BY <1>2 DEF WantedOf
  <2> QED
    BY <2>1, <2>2
<1>3. CASE r.kind = "suffix"
  <2>1. /\ FirstByte(r, size) = IF r.b > size THEN 0 ELSE size - r.b
        /\ LastByte(r, size) = size - 1 /\ (Satisfiable(r, size) <=> r.b # 0)
    BY <1>3 DEF FirstByte, LastByte, Satisfiable, SuffixStart
  <2>2. WantedOf(r, size) = {p \in 0 .. size - 1 : p >= size - r.b}
    BY <1>3 DEF WantedOf
  <2>3. CASE r.b = 0
    <3>1. \A p \in 0 .. size - 1 : ~(p >= size - r.b)
      BY <2>3
    <3> QED
      BY <2>1, <2>2, <2>3, <3>1
  <2>4. CASE r.b # 0 /\ r.b > size
    BY <1>1, <2>1, <2>2, <2>4
  <2>5. CASE r.b # 0 /\ ~(r.b > size)
    <3>1. \A p \in Int : p \in size - r.b .. size - 1 <=> p \in 0 .. size - 1 /\ p >= size - r.b
      BY <1>1, <2>5
    <3>2. size - r.b .. size - 1 = WantedOf(r, size)
      BY <2>2, <3>1
    <3> QED
      BY <1>1, <2>1, <2>5, <3>2
  <2> QED
    BY <2>3, <2>4, <2>5
<1>4. CASE r.kind = "open"
  <2>1. /\ FirstByte(r, size) = r.a /\ LastByte(r, size) = size - 1
        /\ (Satisfiable(r, size) <=> r.a < size /\ r.a <= size - 1)
    BY <1>4 DEF FirstByte, LastByte, Satisfiable
  <2>2. WantedOf(r, size) = {p \in 0 .. size - 1 : p >= r.a}
    BY <1>4 DEF WantedOf
  <2> QED
    BY <1>1, <2>1, <2>2
<1>5. CASE r.kind = "closed"
  <2>1. /\ FirstByte(r, size) = r.a
        /\ LastByte(r, size) = IF r.b < size THEN r.b ELSE size - 1
        /\ (Satisfiable(r, size) <=> r.a < size /\ r.a <= LastByte(r, size))
    BY <1>5 DEF FirstByte, LastByte, Satisfiable, ClosedEnd
  <2>2. WantedOf(r, size) = {p \in 0 .. size - 1 : p >= r.a /\ p <= r.b}
    BY <1>5 DEF WantedOf
  <2> QED
    BY <1>1, <2>1, <2>2
<1> QED
  BY <1>1, <1>2, <1>3, <1>4, <1>5

(* No file is empty.                                                       *)
LEMMA NotEmpty == ASSUME NEW l \in Layouts PROVE l.total \in Nat \ {0}
<1>1. Tiled(l)
  OBVIOUS
<1> DEFINE n == Len(l.pieces)
<1>2. /\ l.head \in Nat \ {0} /\ l.pieces \in Seq(Piece) /\ n \in Nat
      /\ n = 0 => l.total = l.head
      /\ n # 0 => l.total = l.pieces[n].at + l.pieces[n].len
  BY <1>1 DEF Tiled
<1>3. CASE n = 0
  BY <1>2, <1>3
<1>4. CASE n # 0
  <2>1. l.pieces[n] \in Piece
    BY <1>2, <1>4
  <2> QED
    BY <1>2, <1>4, <2>1 DEF Piece
<1> QED
  BY <1>3, <1>4

(* A number is in the interval that it begins.                             *)
LEMMA FirstIsWithin == \A a, b \in Nat : a <= b => a \in a .. b + 1
OBVIOUS

(* An empty channel before the first byte.                                 *)
LEMMA NothingYet ==
  ASSUME start \in Nat
  PROVE  FlowsTo(<<>>, <<>>, start) /\ Delivered(<<>>)
<1> DEFINE here == [k \in 1 .. 1 |-> start]
<1>1. Flow(<<>>, <<>>, here) /\ here[Len(<<>>) + 1] = start
  BY DEF Flow
<1> HIDE DEF here
<1> QED
  BY <1>1 DEF FlowsTo, Delivered

----------------------------------------------------------------------------
(* The invariant holds at first, and a request makes it hold of the range  *)
(* that is asked for.                                                      *)
LEMMA InitOk == Init => IInv
<1> SUFFICES ASSUME Init PROVE IInv
  OBVIOUS
<1>1. /\ layout = NoLayout /\ asked = NoRange /\ start = 0 /\ end = 0 /\ player = "asking"
      /\ got = <<>> /\ queue = <<>> /\ stage = "unread"
      /\ next = 1 /\ last = 0 /\ at = 0 /\ chunkEnd = 0
  BY DEF Init
<1>2. TypeOK
  <2>1. asked \in RangeType
    BY <1>1 DEF NoRange, RangeType
  <2> QED
    BY <1>1, <2>1 DEF TypeOK, Stages
<1>3. AnswerFits /\ StageFits
  BY <1>1 DEF AnswerFits, StageFits
<1>4. FlowsTo(got, queue, 0) /\ Delivered(got)
  BY <1>1, NothingYet
<1>5. ProducerFits(0, player, stage, next, last, at, chunkEnd, queue)
  BY <1>1 DEF ProducerFits
<1>6. 0 \in start .. end + 1
  BY <1>1
<1> QED
  BY <1>2, <1>3, <1>4, <1>5, <1>6 DEF IInv

(* What is served of a layout is what was asked for.                       *)
LEMMA ServesKeeps == IInv /\ (\E l \in Layouts, r \in Ranges : Serves(l, r)) => IInv'
<1> SUFFICES ASSUME IInv, NEW l \in Layouts, NEW r \in Ranges, Serves(l, r) PROVE IInv'
  OBVIOUS
<1>1. /\ player = "asking" /\ layout' = l /\ asked' = r
      /\ UNCHANGED <<got, queue, stage, next, last, at, chunkEnd>>
  BY DEF Serves, relay
<1>2. r \in RangeType /\ l.total \in Nat \ {0}
  BY NotEmpty
<1>3. /\ start = 0 /\ end = 0 /\ stage = "unread" /\ got = <<>> /\ queue = <<>>
  BY <1>1 DEF IInv, AnswerFits, StageFits
<1>4. Wanted' = WantedOf(r, l.total)
  BY <1>1 DEF Wanted, WantedOf
<1>5. /\ player' \in {"reading", "refused"} /\ start' \in Nat /\ end' \in Nat
      /\ start' <= end'
      /\ player' = "refused" => Wanted' = {}
      /\ player' = "reading" => end' < l.total /\ start' .. end' = Wanted'
  <2>1. CASE Satisfiable(r, l.total)
    <3>1. /\ player' = "reading"
          /\ start' = FirstByte(r, l.total) /\ end' = LastByte(r, l.total)
      BY <2>1 DEF Serves
    <3> QED
      BY <1>2, <1>4, <2>1, <3>1, ParsedAsWanted
  <2>2. CASE ~Satisfiable(r, l.total)
    <3>1. player' = "refused" /\ start' = start /\ end' = end
      BY <2>2 DEF Serves
    <3>2. Wanted' = {}
      BY <1>2, <1>4, <2>2, ParsedAsWanted
    <3> QED
      BY <1>3, <3>1, <3>2
  <2> QED
    BY <2>1, <2>2
<1>6. TypeOK'
  BY <1>1, <1>2, <1>5 DEF IInv, TypeOK
<1>7. AnswerFits'
  BY <1>1, <1>5 DEF AnswerFits
<1>8. StageFits'
  BY <1>1, <1>3, <1>5 DEF StageFits
<1>9. FlowsTo(got, queue, start)' /\ Delivered(got)'
  <2>1. Len(queue') = 0 /\ Len(got') = 0
    BY <1>1, <1>3
  <2>2. PICK s \in Nat : s = start'
    BY <1>5
  <2> DEFINE here == [k \in 1 .. 1 |-> s]
  <2>3. /\ here \in [1 .. 0 + 1 -> Nat] /\ here[1] = s + 0
        /\ \A k \in 1 .. 0 + 1 : here[k] <= here[0 + 1]
    OBVIOUS
  <2>4. here[0 + 1] = s
    OBVIOUS
  <2>5. \A k \in 1 .. 0 : FALSE
    OBVIOUS
  <2> HIDE DEF here
  <2>6. Flow(got, queue, here)' /\ here[Len(queue') + 1] = start'
    BY <2>1, <2>2, <2>3, <2>4, <2>5, Zenon DEF Flow
  <2>7. Delivered(got)'
    BY <2>1, <2>5, Zenon DEF Delivered
  <2> QED
    BY <2>6, <2>7 DEF FlowsTo
<1>10. ProducerFits(start, player, stage, next, last, at, chunkEnd, queue)'
  BY <1>1, <1>3, <1>5 DEF ProducerFits
<1>11. start' \in start' .. end' + 1
  <2>1. start' \in Nat /\ end' \in Nat /\ start' <= end'
    BY <1>5
  <2> QED
    BY <2>1, FirstIsWithin, Zenon
<1> QED
  BY <1>6, <1>7, <1>8, <1>9, <1>10, <1>11 DEF IInv

(* A step that changes nothing.                                            *)
LEMMA StutterKeeps == IInv /\ UNCHANGED vars => IInv'
<1> SUFFICES ASSUME IInv, UNCHANGED vars PROVE IInv'
  OBVIOUS
<1>1. /\ layout' = layout /\ asked' = asked /\ start' = start /\ end' = end
      /\ player' = player /\ got' = got /\ queue' = queue /\ stage' = stage
      /\ next' = next /\ last' = last /\ at' = at /\ chunkEnd' = chunkEnd
  BY DEF vars
<1>2. TypeOK'
  BY <1>1 DEF IInv, TypeOK
<1>3. AnswerFits' /\ StageFits'
  <2>1. Wanted' = Wanted
    BY <1>1 DEF Wanted
  <2> QED
    BY <1>1, <2>1 DEF IInv, AnswerFits, StageFits
<1>4. Delivered(got)'
  BY <1>1 DEF IInv, Delivered, IsByte, Pieces
<1>5. PICK p \in start .. end + 1 :
         /\ FlowsTo(got, queue, p)
         /\ ProducerFits(p, player, stage, next, last, at, chunkEnd, queue)
  BY DEF IInv
<1>6. FlowsTo(got, queue, p)'
  <2>1. PICK place : Flow(got, queue, place) /\ place[Len(queue) + 1] = p
    BY <1>5 DEF FlowsTo
  <2>2. Flow(got', queue', place) /\ place[Len(queue') + 1] = p
    BY <1>1, <2>1
  <2>3. layout' = layout /\ start' = start
    BY <1>1
  <2>4. Flow(got, queue, place)'
    BY <2>2, <2>3, ZenonT(60) DEF Flow, Carries, Size, IsByte, Pieces
  <2> QED
    BY <2>2, <2>4, Zenon DEF FlowsTo
<1>7. ProducerFits(p, player, stage, next, last, at, chunkEnd, queue)'
  BY <1>1, <1>5 DEF ProducerFits, PartFits, Reached, Resume, From, To, CutFirst, CutLast,
                    Touched, Pieces
<1>8. p \in start' .. end' + 1
  BY <1>1
<1> QED
  BY <1>2, <1>3, <1>4, <1>6, <1>7, <1>8 DEF IInv

(* Every step preserves the invariant.                                     *)
LEMMA NextOk == IInv /\ [Next]_vars => IInv'
<1> SUFFICES ASSUME IInv, [Next]_vars PROVE IInv'
  OBVIOUS
<1>1. CASE \E l \in Layouts, r \in Ranges : Serves(l, r)
  BY <1>1, ServesKeeps
<1>2. CASE Starts
  BY <1>2, StartsKeeps
<1>3. CASE ProducerStep
  <2>1. CASE SendsHead
    BY <2>1, SendsHeadKeeps
  <2>2. CASE AsksForPart \/ NoPartLeft
    BY <2>2, AsksKeeps
  <2>3. CASE Answers \/ Breaks \/ \E n \in 1 .. MaxChunk : ChunkArrives(n)
    BY <2>3, UpstreamKeeps
  <2>4. CASE Keeps
    BY <2>4, KeepsKeeps
  <2>5. CASE ChunkRead \/ BodyCloses
    BY <2>5, ReadsKeep
  <2>6. CASE SendsFault
    BY <2>6, FaultKeeps
  <2> QED
    BY <1>3, <2>1, <2>2, <2>3, <2>4, <2>5, <2>6 DEF ProducerStep
<1>4. CASE Takes
  BY <1>4, TakesKeeps
<1>5. CASE SeesEnd
  BY <1>5, EndKeeps
<1>6. CASE Leaves
  BY <1>6, LeavesKeeps
<1>7. CASE UNCHANGED vars
  BY <1>7, StutterKeeps
<1> QED
  BY <1>1, <1>2, <1>3, <1>4, <1>5, <1>6, <1>7 DEF Next

(* What the player has and what is in the channel for it is a prefix of    *)
(* the range it asked for, and the producer stands at its next byte.       *)
THEOREM Invariant == Spec => []IInv
<1>1. Init => IInv
  BY InitOk
<1>2. IInv /\ [Next]_vars => IInv'
  BY NextOk
<1> QED
  BY <1>1, <1>2, PTL DEF Spec

(* The state of an answer has its type, and the channel holds no more than *)
(* it has room for: the producer waits for the player.                     *)
THEOREM TypeCorrect == Spec => []TypeOK
<1>1. IInv => TypeOK
  BY DEF IInv
<1> QED
  BY <1>1, Invariant, PTL

(* The player is served the range it asked for, byte for byte and in       *)
(* order, whatever upstream does.                                          *)
THEOREM RightBytes == Spec => []ServedIsTheFile
<1>1. ASSUME IInv PROVE ServedIsTheFile
  <2>1. player = "refused" => Wanted = {}
    BY <1>1 DEF IInv, AnswerFits
  <2>2. ASSUME player \notin {"asking", "refused"}
        PROVE  /\ start .. end = Wanted /\ Len(got) <= Cardinality(Wanted)
               /\ \A k \in 1 .. Len(got) : IsByte(start + k - 1, got[k])
    <3>1. start .. end = Wanted /\ start <= end
      BY <1>1, <2>2 DEF IInv, AnswerFits
    <3>2. start \in Nat /\ end \in Nat /\ Len(got) \in Nat /\ Len(queue) \in Nat
      BY <1>1 DEF IInv, TypeOK
    <3>3. Cardinality(start .. end) = end - start + 1
      BY <3>1, <3>2, FS_Interval
    <3>4. Len(got) <= end - start + 1
      <4>1. PICK p \in start .. end + 1 : FlowsTo(got, queue, p)
        BY <1>1 DEF IInv
      <4>2. PICK place : Flow(got, queue, place) /\ place[Len(queue) + 1] = p
        BY <4>1 DEF FlowsTo
      <4>3. place[1] = start + Len(got) /\ place[1] <= p
        BY <3>2, <4>2 DEF Flow
      <4> QED
        BY <3>2, <4>1, <4>3
    <3> QED
      BY <1>1, <3>1, <3>3, <3>4 DEF IInv, Delivered
  <2> QED
    BY <2>1, <2>2 DEF ServedIsTheFile
<1> QED
  BY <1>1, Invariant, PTL

(* An answer that ends without an error is the whole range.                *)
THEOREM CleanEnd == Spec => []CleanEndIsWhole
<1>1. ASSUME IInv, player = "whole" PROVE Len(got) = end - start + 1
  <2>1. PICK p \in start .. end + 1 :
          /\ FlowsTo(got, queue, p)
          /\ ProducerFits(p, player, stage, next, last, at, chunkEnd, queue)
    BY <1>1 DEF IInv
  <2>2. queue = <<>> /\ stage = "done"
    BY <1>1, <2>1 DEF ProducerFits, IInv, StageFits
  <2>3. p = end + 1
    BY <1>1, <2>1, <2>2 DEF ProducerFits
  <2>4. PICK place : Flow(got, queue, place) /\ place[Len(queue) + 1] = p
    BY <2>1 DEF FlowsTo
  <2>5. start + Len(got) = p
    BY <2>2, <2>4 DEF Flow
  <2>6. start \in Nat /\ end \in Nat /\ Len(got) \in Nat
    BY <1>1 DEF IInv, TypeOK
  <2> QED
    BY <2>3, <2>5, <2>6
<1>2. IInv => CleanEndIsWhole
  BY <1>1 DEF CleanEndIsWhole
<1> QED
  BY <1>2, Invariant, PTL
=============================================================================
