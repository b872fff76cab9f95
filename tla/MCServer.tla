----------------------------- MODULE MCServer -----------------------------
(* Server with a few threads and connections. *)
EXTENDS Server

CONSTANTS i1, i2, w1, c1, c2, c3

TwoIoThreads == {i1, i2}
OneWorker == {w1}
TwoConns == {c1, c2}
ThreeConns == {c1, c2, c3}
===========================================================================
