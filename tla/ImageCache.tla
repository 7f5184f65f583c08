----------------------------- MODULE ImageCache -----------------------------
(***************************************************************************)
(* The image cache of src/image_cache.rs: the images used last, as many as *)
(* a number of entries and a number of bytes allow.  Its mutex makes each  *)
(* operation one step.                                                     *)
(***************************************************************************)
EXTENDS Devices, Naturals, Sequences

CONSTANTS
  Path,       \* what a key names beside its device: file, source and size
  ImageBytes, \* the sizes an image can have (environment)
  Capacity,   \* IMAGE_CACHE_CAPACITY
  MaxBytes    \* IMAGE_CACHE_MAX_BYTES

ASSUME CacheAssumption ==
  ImageBytes \subseteq Nat /\ Capacity \in Nat \ {0} /\ MaxBytes \in Nat

VARIABLES
  entries,          \* the entries, the least recently used first
  estimatedBytes    \* what the cache believes to hold

cacheVars == <<entries, estimatedBytes>>

Key == Udid \X Path
Entry == [key : Key, bytes : ImageBytes]

CacheTypeOK == entries \in Seq(Entry) /\ estimatedBytes \in Nat

CacheInit == entries = <<>> /\ estimatedBytes = 0

-----------------------------------------------------------------------------
(* Totals(es)[n] is the bytes of the first n entries.                      *)
Totals(es) ==
  LET total[n \in 0 .. Len(es)] == IF n = 0 THEN 0 ELSE total[n - 1] + es[n].bytes
  IN total

SumBytes(es) == Totals(es)[Len(es)]

Keys == {entries[i].key : i \in DOMAIN entries}

Minus(a, b) == IF a >= b THEN a - b ELSE 0      \* saturating_sub

(* The entries with one of these keys, in their order.                     *)
Chosen(es, keys) ==
  LET chosen[n \in 0 .. Len(es)] ==
        IF n = 0 THEN <<>>
        ELSE IF es[n].key \in keys THEN Append(chosen[n - 1], es[n]) ELSE chosen[n - 1]
  IN chosen

Only(es, keys) == Chosen(es, keys)[Len(es)]
Without(es, keys) == Only(es, Key \ keys)

(* Mutant of PushedOut: the entry a key had before is not handed back.     *)
PushedOutByCapacity(k) ==
  IF k \notin Keys /\ Len(entries) = Capacity THEN SubSeq(entries, 1, 1) ELSE <<>>

(* LruCache::push hands back the entry the key had, or the one that had to *)
(* make room for it.                                                       *)
PushedOut(k) ==
  IF k \in Keys THEN Only(entries, {k})
  ELSE IF Len(entries) = Capacity THEN SubSeq(entries, 1, 1) ELSE <<>>

Pushed(k, bytes) ==
  LET kept == IF k \notin Keys /\ Len(entries) = Capacity THEN Tail(entries) ELSE entries
  IN Append(Without(kept, {k}), [key |-> k, bytes |-> bytes])

(* Mutant of Evictions: the last entry may go too.                         *)
EvictionsToEmpty(es, total) ==
  CHOOSE n \in 0 .. Len(es) :
    /\ Minus(total, SumBytes(SubSeq(es, 1, n))) <= MaxBytes \/ n = Len(es)
    /\ \A m \in 0 .. n - 1 : Minus(total, SumBytes(SubSeq(es, 1, m))) > MaxBytes

(* Mutant of Evictions: an `if' instead of the `while'.                    *)
OneEviction(es, total) == IF total > MaxBytes /\ Len(es) > 1 THEN 1 ELSE 0

(* How many entries the loop of insert pops: until the bytes fit or one    *)
(* entry is left.                                                          *)
Evictions(es, total) ==
  CHOOSE n \in 0 .. Len(es) :
    /\ Minus(total, SumBytes(SubSeq(es, 1, n))) <= MaxBytes \/ Len(es) - n <= 1
    /\ \A m \in 0 .. n - 1 : /\ Minus(total, SumBytes(SubSeq(es, 1, m))) > MaxBytes
                             /\ Len(es) - m > 1

Insert(k, bytes) ==
  LET es == Pushed(k, bytes)
      total == Minus(estimatedBytes, SumBytes(PushedOut(k))) + bytes
      n == Evictions(es, total)
  IN /\ entries' = SubSeq(es, n + 1, Len(es))
     /\ estimatedBytes' = Minus(total, SumBytes(SubSeq(es, 1, n)))

(* A hit makes the entry the last one to go.                               *)
Get(k) ==
  /\ k \in Keys
  /\ entries' = Without(entries, {k}) \o Only(entries, {k})
  /\ UNCHANGED estimatedBytes

Clear == entries' = <<>> /\ estimatedBytes' = 0

ClearForUdid(u) ==
  LET mine == {k \in Key : k[1] = u}
  IN /\ entries' = Without(entries, mine)
     /\ estimatedBytes' = Minus(estimatedBytes, SumBytes(Only(entries, mine)))

CacheNext ==
  \/ \E k \in Key : Get(k) \/ \E bytes \in ImageBytes : Insert(k, bytes)
  \/ \E u \in Udid : ClearForUdid(u)
  \/ Clear

CacheSpec == CacheInit /\ [][CacheNext]_cacheVars

-----------------------------------------------------------------------------
(* Properties.                                                             *)

(* The running total is the sum of what is there, after every mixture of   *)
(* replacing, evicting by number and by size, and clearing: an error would *)
(* stay for the life of the program, and make the cache keep one image or  *)
(* outgrow its limit (insert, clear_for_udid).                             *)
BytesExact == estimatedBytes = SumBytes(entries)

(* The cache keeps to both limits, and has one entry per key; only a       *)
(* single image may be larger than the limit.                              *)
CacheBounded ==
  /\ Len(entries) <= Capacity
  /\ SumBytes(entries) <= MaxBytes \/ Len(entries) = 1
  /\ \A i, j \in DOMAIN entries : entries[i].key = entries[j].key => i = j

(* "Keep a single oversized image so the provider's placeholder/reload     *)
(* protocol can still complete" (src/image_cache.rs:67): an image is there *)
(* after its own insert, whatever had to go for it.                        *)
InsertedStays ==
  [][cacheVars' # cacheVars =>
       \A k \in Key, bytes \in ImageBytes :
         Insert(k, bytes) =>
           \E i \in DOMAIN entries' : entries'[i] = [key |-> k, bytes |-> bytes]]_cacheVars
=============================================================================
