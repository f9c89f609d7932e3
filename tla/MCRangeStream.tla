--------------------------- MODULE MCRangeStream ---------------------------
(* Instances of RangeStream for TLC: blocks of three rows, the last short. *)
EXTENDS RangeStream

\* Audio at an edge, across a boundary, touching, at the end, and malformed.
MCLayouts ==
  { {}, {<<0, 3>>}, {<<1, 7>>}, {<<2, 4>>, <<4, 9>>}, {<<5, 11>>}, {<<9, 11>>},
    {<<10, 11>>, <<0, 4>>}, {<<0, 11>>}, {<<4, 2>>, <<3, 12>>, <<6, 9>>} }
=============================================================================
