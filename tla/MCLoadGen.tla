------------------------------ MODULE MCLoadGen -----------------------------
(* Instances of LoadGen for TLC. *)
EXTENDS LoadGen

(* Totals that are powers of two, so that the picks are exact.  The types  *)
(* of weight zero stand in front in Mixed, on both sides in Orders.        *)
Mixed   == <<0, 0, 1, 6, 1>>
Orders  == <<0, 1, 0, 0, 0>>

=============================================================================
