----------------------------- MODULE RangeRelay -----------------------------
(***************************************************************************)
(* One answer of /progressive (progressive.rs, httputil.rs): a byte range  *)
(* of a file that exists nowhere.  Its header is in memory, its media in   *)
(* pieces of Google's files; a task of its own fetches what the range      *)
(* needs, several pieces at a time where one upstream range encloses them, *)
(* drops the bytes in between, and hands the rest to the player through a  *)
(* short channel.                                                          *)
(*                                                                         *)
(* A byte is named by where it comes from: the file and its offset there.  *)
(* Upstream cuts its answer into chunks as it likes, refuses, stalls, ends *)
(* early or sends too much; the player reads as it likes and may go.       *)
(***************************************************************************)
EXTENDS Integers, Sequences, FiniteSetsExt

CONSTANTS
  Sources,   \* the files at Google's
  Layouts,   \* what layout() may have made of them
  Ranges,    \* the Range headers a player may send
  Span,      \* RELAY_SPAN_BYTES: how much one upstream range may enclose
  Capacity,  \* of the channel
  MaxChunk   \* bound: bytes that arrive at once

Piece == [at : Nat, source : Sources, from : Nat, len : Nat \ {0}]

(* The pieces follow the header and each other without a gap.              *)
Tiled(l) ==
  LET n == Len(l.pieces)
      EndOf(i) == l.pieces[i].at + l.pieces[i].len
  IN  /\ l \in [head : Nat \ {0}, pieces : Seq(Piece), total : Nat]
      /\ n = 0 => l.total = l.head
      /\ n # 0 => l.pieces[1].at = l.head /\ l.total = EndOf(n)
      /\ \A i \in 2 .. n : l.pieces[i].at = EndOf(i - 1)

(* The loop of layout() over the chunks of the tracks in time order.       *)
LayoutOf(head, chunks) ==
  LET at[i \in 1 .. Len(chunks) + 1] ==
        IF i = 1 THEN head ELSE at[i - 1] + chunks[i - 1].len
      placed == [i \in 1 .. Len(chunks) |->
                  [at |-> at[i], source |-> chunks[i].source,
                   from |-> chunks[i].from, len |-> chunks[i].len]]
  IN  [head |-> head, pieces |-> SelectSeq(placed, LAMBDA p : p.len > 0),
       total |-> at[Len(chunks) + 1]]

(* What a Range header says: one range that is open, closed or a suffix,   *)
(* or nothing that is understood.                                          *)
RangeType == [kind : {"none", "open", "closed", "suffix"}, a : Nat, b : Nat]

ASSUME RelayAssumption ==
  /\ "head" \notin Sources
  /\ \A l \in Layouts : Tiled(l)
  /\ Ranges \subseteq RangeType
  /\ Span \in Nat
  /\ Capacity \in Nat \ {0}
  /\ MaxChunk \in Nat

VARIABLES
  layout,   \* the layout served
  asked,    \* the Range header that counts
  start,    \* of the answer, in the file
  end,      \* its last byte
  player,   \* where the player, or Hyper for it, stands
  got,      \* the bytes the player has received (history)
  queue,    \* the channel
  stage,    \* where the producer stands
  next,     \* the piece it is at
  last,     \* the last piece of the part it relays
  at,       \* how far upstream's answer has been read
  chunkEnd  \* the end of the chunk in hand

vars == <<layout, asked, start, end, player, got, queue, stage, next, last, at, chunkEnd>>
answer == <<layout, asked, start, end>>
relay == <<next, last, at, chunkEnd>>

----------------------------------------------------------------------------
(* parse_range, for a file of some size.                                   *)
SuffixStart(b, size) == IF b > size THEN 0 ELSE size - b
ClosedEnd(b, size) == IF b < size THEN b ELSE size - 1

FirstByte(r, size) ==
  CASE r.kind = "none" -> 0
    [] r.kind = "suffix" -> SuffixStart(r.b, size)
    [] OTHER -> r.a
LastByte(r, size) == IF r.kind = "closed" THEN ClosedEnd(r.b, size) ELSE size - 1
Satisfiable(r, size) ==
  \/ r.kind = "none"
  \/ r.kind = "suffix" /\ r.b # 0
  \/ r.kind \in {"open", "closed"} /\ r.a < size /\ r.a <= LastByte(r, size)

----------------------------------------------------------------------------
(* parts(): the pieces the range touches, cut to it, and which of them go  *)
(* into one upstream range.                                                *)
Pieces == 1 .. Len(layout.pieces)

Touched == {i \in Pieces : /\ layout.pieces[i].at + layout.pieces[i].len > start
                           /\ layout.pieces[i].at <= end}

(* The file offsets of the part of a piece that is served.                 *)
CutFirst(i) == LET p == layout.pieces[i] IN IF start > p.at THEN start ELSE p.at
CutLast(i) ==
  LET p == layout.pieces[i]
  IN  IF end < p.at + p.len - 1 THEN end ELSE p.at + p.len - 1

(* The same in the file the piece is in.                                   *)
From(i) == layout.pieces[i].from + (CutFirst(i) - layout.pieces[i].at)
To(i) == layout.pieces[i].from + (CutLast(i) - layout.pieces[i].at)

JoinsInAnyOrder(first, i) ==  \* faulty: a piece may lie before the last one
  /\ i \in Touched
  /\ layout.pieces[i].source = layout.pieces[first].source
  /\ To(i) - From(first) < Span
Joins(first, i) ==
  /\ i \in Touched
  /\ layout.pieces[i].source = layout.pieces[first].source
  /\ To(i - 1) < From(i)
  /\ To(i) - From(first) < Span

PartEnd(first) == Min({i \in Pieces : i >= first /\ ~Joins(first, i + 1)})

(* partition_point: the first piece that ends past the start.              *)
FirstPiece(l, s) ==
  Min({i \in 1 .. Len(l.pieces) : l.pieces[i].at + l.pieces[i].len > s}
        \cup {Len(l.pieces) + 1})

----------------------------------------------------------------------------
NoLayout == [head |-> 0, pieces |-> <<>>, total |-> 0]
NoRange == [kind |-> "none", a |-> 0, b |-> 0]

(* Bytes of one file, the first and the last of them; and the error.       *)
Frame(source, from, to) == [source |-> source, from |-> from, to |-> to]
Fault == Frame("fault", 1, 0)

BytesOf(f) == [i \in 1 .. f.to - f.from + 1 |-> <<f.source, f.from + i - 1>>]

Room == Len(queue) < Capacity

Init ==
  /\ layout = NoLayout /\ asked = NoRange /\ start = 0 /\ end = 0
  /\ player = "asking"
  /\ got = <<>> /\ queue = <<>>
  /\ stage = "unread"
  /\ next = 1 /\ last = 0 /\ at = 0 /\ chunkEnd = 0

(* serve: a range counts unless an If-Range names another file.            *)
Serves(l, r) ==
  /\ player = "asking"
  /\ layout' = l /\ asked' = r
  /\ IF Satisfiable(r, l.total)
     THEN /\ player' = "reading"
          /\ start' = FirstByte(r, l.total) /\ end' = LastByte(r, l.total)
     ELSE player' = "refused" /\ UNCHANGED <<start, end>>
  /\ UNCHANGED <<got, queue, stage, relay>>

----------------------------------------------------------------------------
(* The producer, started by the first read of the body.                    *)
Starts ==
  /\ player = "reading" /\ stage = "unread"
  /\ stage' = IF start < layout.head THEN "inline" ELSE "part"
  /\ next' = FirstPiece(layout, start)
  /\ UNCHANGED <<answer, player, got, queue, last, at, chunkEnd>>

SendsHead ==
  /\ stage = "inline" /\ Room
  /\ queue' = Append(queue, Frame("head", start,
                       IF end < layout.head THEN end ELSE layout.head - 1))
  /\ stage' = "part"
  /\ UNCHANGED <<answer, player, got, relay>>

AsksForPart ==
  /\ stage = "part" /\ next \in Touched
  /\ stage' = "asked"
  /\ last' = PartEnd(next)
  /\ at' = From(next)
  /\ UNCHANGED <<answer, player, got, queue, next, chunkEnd>>

NoPartLeft ==
  /\ stage = "part" /\ next \notin Touched
  /\ stage' = "done"
  /\ UNCHANGED <<answer, player, got, queue, relay>>

(* 206 and the range that was asked for; anything else is an error.        *)
Answers ==
  /\ stage = "asked"
  /\ stage' = "reading"
  /\ UNCHANGED <<answer, player, got, queue, relay>>

(* Refused, or nothing in time, before the body or in the middle of it.    *)
Breaks ==
  /\ stage \in {"asked", "reading"}
  /\ stage' = "failing"
  /\ UNCHANGED <<answer, player, got, queue, relay>>

ChunkArrives(n) ==
  /\ stage = "reading"
  /\ chunkEnd' = at + n
  /\ stage' = IF at + n > To(last) + 1 THEN "failing" ELSE "chunk"
  /\ UNCHANGED <<answer, player, got, queue, next, last, at>>

(* What is kept of the chunk: of the piece the relay is at, what is in it. *)
(* It is never empty, for the pieces of a part ascend.                     *)
KeptFrom == IF From(next) > at THEN From(next) ELSE at
KeptTo == IF To(next) < chunkEnd THEN To(next) ELSE chunkEnd - 1

Keeps ==
  /\ stage = "chunk" /\ Room
  /\ next <= last /\ From(next) < chunkEnd
  /\ queue' = Append(queue, Frame(layout.pieces[last].source, KeptFrom, KeptTo))
  /\ IF To(next) + 1 > chunkEnd
     THEN stage' = "reading" /\ at' = chunkEnd /\ UNCHANGED next
     ELSE next' = next + 1 /\ UNCHANGED <<stage, at>>
  /\ UNCHANGED <<answer, player, got, last, chunkEnd>>

NextPieceLater == next <= last /\ From(next) >= chunkEnd  \* faulty: the last piece kept
NothingKept == next <= last => From(next) >= chunkEnd

ChunkRead ==
  /\ stage = "chunk"
  /\ NothingKept
  /\ stage' = "reading"
  /\ at' = chunkEnd
  /\ UNCHANGED <<answer, player, got, queue, next, last, chunkEnd>>

(* Upstream closes: the part is whole, or the body is short.               *)
WholePart == at = To(last) + 1 /\ next = last + 1

BodyCloses ==
  /\ stage = "reading"
  /\ stage' = IF WholePart THEN "part" ELSE "failing"
  /\ UNCHANGED <<answer, player, got, queue, relay>>

EndsInSilence ==  \* faulty: a failed part just ends the answer
  /\ stage = "failing"
  /\ stage' = "done"
  /\ UNCHANGED <<answer, player, got, queue, relay>>
SendsFault ==
  /\ stage = "failing" /\ Room
  /\ queue' = Append(queue, Fault)
  /\ stage' = "done"
  /\ UNCHANGED <<answer, player, got, relay>>

----------------------------------------------------------------------------
(* The player, through Hyper.                                              *)
Takes ==
  /\ player = "reading" /\ queue # <<>>
  /\ queue' = Tail(queue)
  /\ player' = IF Head(queue) = Fault THEN "broken" ELSE "reading"
  /\ got' = got \o BytesOf(Head(queue))
  /\ UNCHANGED <<answer, stage, relay>>

SeesEnd ==
  /\ player = "reading" /\ queue = <<>> /\ stage = "done"
  /\ player' = "whole"
  /\ UNCHANGED <<answer, got, queue, stage, relay>>

(* Dropping the body aborts the task; a body nobody read has none.         *)
Leaves ==
  /\ player = "reading"
  /\ player' = "gone"
  /\ queue' = <<>>
  /\ stage' = "done"
  /\ UNCHANGED <<answer, got, relay>>

----------------------------------------------------------------------------
ProducerStep ==
  \/ SendsHead \/ AsksForPart \/ NoPartLeft \/ Answers \/ Breaks
  \/ \E n \in 1 .. MaxChunk : ChunkArrives(n)
  \/ Keeps \/ ChunkRead \/ BodyCloses \/ SendsFault

Next ==
  \/ \E l \in Layouts, r \in Ranges : Serves(l, r)
  \/ Starts \/ ProducerStep
  \/ Takes \/ SeesEnd \/ Leaves

Spec == Init /\ [][Next]_vars

(* The task runs, and each operation of upstream has a timeout.            *)
FairSpec == Spec /\ WF_vars(ProducerStep)

----------------------------------------------------------------------------
Stages == {"unread", "inline", "part", "asked", "reading", "chunk", "failing", "done"}

TypeOK ==
  /\ layout = NoLayout \/ layout \in Layouts
  /\ asked \in RangeType
  /\ start \in Nat /\ end \in Nat
  /\ player \in {"asking", "refused", "reading", "whole", "broken", "gone"}
  /\ got \in Seq((Sources \cup {"head"}) \X Nat)
  /\ queue \in Seq([source : Sources \cup {"head"}, from : Nat, to : Nat] \cup {Fault})
  /\ Len(queue) <= Capacity
  /\ stage \in Stages
  /\ next \in Nat /\ last \in Nat /\ at \in Nat /\ chunkEnd \in Nat

(* What a Range header asks for, by the RFC: the positions of the file it  *)
(* names.                                                                  *)
Wanted ==
  {p \in 0 .. layout.total - 1 :
     CASE asked.kind = "none" -> TRUE
       [] asked.kind = "suffix" -> p >= layout.total - asked.b
       [] asked.kind = "open" -> p >= asked.a
       [] asked.kind = "closed" -> p >= asked.a /\ p <= asked.b}

(* The byte at a position of the file, by the sample tables.               *)
IsByte(p, b) ==
  \/ p < layout.head /\ b = <<"head", p>>
  \/ \E i \in Pieces :
       /\ p \in layout.pieces[i].at .. layout.pieces[i].at + layout.pieces[i].len - 1
       /\ b = <<layout.pieces[i].source, layout.pieces[i].from + (p - layout.pieces[i].at)>>

(* The player is served the range it asked for and receives its bytes,     *)
(* each from the right place, in order, none lost or twice, whatever       *)
(* encloses the pieces upstream and however the answer is cut: up to where *)
(* it has got.                                                             *)
ServedIsTheFile ==
  /\ player = "refused" => Wanted = {}
  /\ player \notin {"asking", "refused"} =>
       /\ start .. end = Wanted
       /\ Len(got) <= Cardinality(Wanted)
       /\ \A k \in 1 .. Len(got) : IsByte(start + k - 1, got[k])

(* A body that ends without an error is all of what Content-Length said:   *)
(* a refusal, a timeout or a short answer of upstream is never shown as    *)
(* the end of the file.                                                    *)
CleanEndIsWhole == player = "whole" => Len(got) = end - start + 1

(* A producer that has begun ends, or waits for the player to read.        *)
ProducerEnds ==
  stage \notin {"unread", "done"} ~> stage = "done" \/ Len(queue) = Capacity
=============================================================================
