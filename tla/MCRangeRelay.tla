---------------------------- MODULE MCRangeRelay ----------------------------
(* RangeRelay for TLC. *)
EXTENDS RangeRelay

Chunk(source, from, len) == [source |-> source, from |-> from, len |-> len]

(* Pieces with a gap between them and without one, of two files, one that  *)
(* is empty, and two that lie in the file in the other order.              *)
MCLayouts ==
  {LayoutOf(2, <<Chunk("video", 1, 2), Chunk("audio", 0, 0), Chunk("video", 4, 2),
                 Chunk("audio", 3, 1), Chunk("video", 6, 1)>>),
   LayoutOf(1, <<Chunk("video", 4, 2), Chunk("video", 1, 2), Chunk("video", 6, 1),
                 Chunk("video", 7, 2)>>),
   LayoutOf(1, <<>>)}

MCRanges ==
  {[kind |-> "none", a |-> 0, b |-> 0]}
    \cup [kind : {"open"}, a : 0 .. 9, b : {0}]
    \cup [kind : {"suffix"}, a : {0}, b : 0 .. 9]
    \cup [kind : {"closed"}, a : 0 .. 9, b : 0 .. 9]
=============================================================================
