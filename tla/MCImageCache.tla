--------------------------- MODULE MCImageCache ---------------------------
(* ImageCache with more keys than its capacity. *)
EXTENDS ImageCache, TLC
===========================================================================
