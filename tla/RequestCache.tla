---------------------------- MODULE RequestCache ----------------------------
(***************************************************************************)
(* The cache with which a node recognises a request it has already         *)
(* executed (MockNode::process_request and insert_cache in                 *)
(* mock_mcu/src/mock_node.cpp; find_cache and insert_cache in              *)
(* firmware/src/core.c).                                                   *)
(*                                                                         *)
(* A cache is the sequence of its entries, oldest first.  The mock drops   *)
(* the front of cache_order_ when it is full; the firmware overwrites its  *)
(* slots in turn (cache_cursor), which drops the oldest as well.  An entry *)
(* keeps the request, to compare a repetition with, and the response.      *)
(***************************************************************************)
EXTENDS Sequences

CONSTANT CacheSize    \* maximum_cached_requests_, CONFIG_REMOTE_REQUEST_CACHE_ENTRIES

SameKey(p, q) == p.session = q.session /\ p.id = q.id

(* The entry found by (session, request id).                               *)
Found(cache, request) == {i \in DOMAIN cache : SameKey(cache[i].request, request)}
Cached(cache, request) == Found(cache, request) # {}

(* A repetition is answered only when it repeats the whole request; other  *)
(* contents under the same key are a conflict and are dropped.             *)
Repeats(cache, request) == \E i \in Found(cache, request) : cache[i].request = request
CachedResponse(cache, request) ==
    cache[CHOOSE i \in Found(cache, request) : TRUE].response

InsertUnbounded(cache, request, response) ==    \* mutant: nothing is ever dropped
    Append(cache, [request |-> request, response |-> response])

InsertWhenRoom(cache, request, response) ==     \* mutant: a full cache stays as it is
    IF Len(cache) = CacheSize THEN cache
    ELSE Append(cache, [request |-> request, response |-> response])

Insert(cache, request, response) ==
    Append(IF Len(cache) = CacheSize THEN Tail(cache) ELSE cache,
           [request |-> request, response |-> response])
=============================================================================
