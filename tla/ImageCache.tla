----------------------------- MODULE ImageCache -----------------------------
(***************************************************************************)
(* image_cache.h, image_cache.cpp: the map from request path to the image  *)
(* fetched for it, and the queue of map iterators that Push keeps.         *)
(*                                                                         *)
(* Get and Put each run under the cache's timed_mutex; either may give up  *)
(* after a second without it.  An iterator is named by the key it points   *)
(* to.                                                                     *)
(***************************************************************************)
EXTENDS Naturals, Sequences, FiniteSets

CONSTANTS Keys,       \* request paths
          Images,     \* shared_ptr<IOStream> values
          NoImage,    \* the null pointer
          items_cap   \* argument of the constructor

VARIABLES map,        \* [Keys -> Images \cup {NoImage}], NoImage: no such key
          queue       \* sequence of map iterators

cacheVars == <<map, queue>>

(* The values the variables may have: the queue never exceeds items_cap. *)
CacheTypeOK ==
  /\ map \in [Keys -> Images \cup {NoImage}]
  /\ queue \in Seq(Keys) /\ Len(queue) <= items_cap

CacheInit ==
  /\ map = [k \in Keys |-> NoImage]
  /\ queue = <<>>

(* The possible answers of Get(k): the image of a hit, or NoImage for a    *)
(* miss, which the caller gets when there is no entry and also when the    *)
(* lock could not be had in time.                                          *)
GetNearest(k) == {map[j] : j \in Keys} \cup {NoImage}   \* mutant: the key is not compared
Get(k) == {map[k], NoImage}

(* Push: the oldest iterator leaves the queue when there are too many. *)
Push(k) ==
  LET longer == Append(queue, k)
  IN  queue' = IF Len(longer) > items_cap THEN Tail(longer) ELSE longer

(* Put(k, v): insert a new entry, or replace the value of the present one. *)
Put(k, v) ==
  /\ map' = [map EXCEPT ![k] = v]
  /\ IF map[k] = NoImage THEN Push(k) ELSE UNCHANGED queue

(* Put gave up waiting for the lock. *)
PutTimedOut == UNCHANGED cacheVars
----------------------------------------------------------------------------
(* The cache alone, with callers that Put what they like. *)
CacheNext ==
  \/ PutTimedOut
  \/ \E k \in Keys, v \in Images : Put(k, v)

CacheSpec == CacheInit /\ [][CacheNext]_cacheVars

Entries == {k \in Keys : map[k] # NoImage}

(* image_cache.h names the constructor's argument the capacity of the      *)
(* cache in items: there are never more items than that.                   *)
WithinCap == Cardinality(Entries) <= items_cap
=============================================================================
