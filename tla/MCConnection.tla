--------------------------- MODULE MCConnection ---------------------------
(* Connection on a few clients and files. *)
EXTENDS Connection, TLC

CONSTANTS c1, c2, c3, pic, other, empty, text, ico

OneConn == {c1}
ThreeConns == {c1, c2, c3}

AllPaths == {pic, empty, text, ico}
TwoPicturesAndIcon == {pic, other, ico}
PicturePaths == {pic, ico}
TwoPictures == {pic, other}

AllRequests == RequestSpace
PictureRequests ==
  {[get |-> TRUE, path |-> p, json |-> FALSE, throws |-> FALSE] : p \in TwoPictures}

(* WebHDFS redirects a read to a datanode, under the same path. *)
ToSamePath == [p \in Paths |-> {p}]
ToSamePathOrFavicon == [p \in Paths |-> {p, Favicon}]

(* Three clients are followed while the pool runs, and through failures of *)
(* connections that read from the cache, or have put an image into it; of  *)
(* the others nobody takes notice (Connection_one has them all).  Pictures *)
(* are alike: of three requests two are for the same, which may be pic.    *)
PoolRuns == ~exit_requested
LostIsNoticed ==
  \A c \in Conns : conn[c].lost =>
    /\ conn[c].image_path # NoPath
    /\ conn[c].content = NoStream \/ \E k \in Paths : map[k] = Source(c)
MostAskForPic ==
  \A c, d \in Conns : conn[c].image_path = other /\ conn[d].image_path = other => c = d
Followed == PoolRuns /\ LostIsNoticed /\ MostAskForPic

Symmetry == Permutations(Conns)
===========================================================================
