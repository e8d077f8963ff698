------------------------------ MODULE TTLCache ------------------------------
(***************************************************************************)
(* The cache of dashboard aggregates and keyword ideas that all threads of *)
(* the process share (utils/cache.py) and its callers: each asks for a     *)
(* key and computes the value itself when it is missing or has expired.    *)
(* get and set hold the lock; the computation between them does not.       *)
(*                                                                         *)
(* A value is the time at which its producer read the database.            *)
(***************************************************************************)
EXTENDS Integers, FiniteSets

CONSTANTS
  CacheThreads,  \* threads that serve requests
  Keys,          \* cache keys
  KeyTtl,        \* KeyTtl[k]: the ttl the callers of k ask for, 0 for none
  DefaultTtl,    \* default_ttl
  MaxSize,       \* max_size
  MaxClock       \* bound: the last tick

ASSUME CacheAssumption ==
  /\ KeyTtl \in [Keys -> Nat]
  /\ DefaultTtl \in Nat \ {0} /\ MaxSize \in Nat \ {0} /\ MaxClock \in Nat

VARIABLES
  store,    \* _store: [key, expires, value, stored], one element per key
  clock,    \* time.monotonic()
  caller,   \* caller[t]: the key that thread t computes, since when, or NoCall
  answer    \* history: age of the value served last, and the time it took to compute

cacheVars == <<store, clock, caller, answer>>

NoCall == [key |-> "none", began |-> 0]

CacheInit ==
  /\ store = {}
  /\ clock = 0
  /\ caller = [t \in CacheThreads |-> NoCall]
  /\ answer = [key |-> "none", age |-> 0, took |-> 0]

Tick ==
  /\ clock < MaxClock
  /\ clock' = clock + 1
  /\ UNCHANGED <<store, caller, answer>>

\* `ttl or default`: no ttl and zero both mean the default.
TtlOf(k) == IF KeyTtl[k] = 0 THEN DefaultTtl ELSE KeyTtl[k]

\* Mutant of Expired: an entry lives one tick too long.
ExpiredLate(e) == clock > e.expires

Expired(e) == clock >= e.expires

\* get finds an entry that has not expired.
Hit(t) ==
  /\ caller[t] = NoCall
  /\ \E e \in store :
       /\ ~Expired(e)
       /\ answer' = [key |-> e.key, age |-> clock - e.value, took |-> e.stored - e.value]
  /\ UNCHANGED <<store, clock, caller>>

\* get finds nothing, or drops what has expired; the producer starts.
Miss(t) ==
  /\ caller[t] = NoCall
  /\ \E k \in Keys :
       /\ \A e \in store : e.key = k => Expired(e)
       /\ store' = {e \in store : e.key # k}
       /\ caller' = [caller EXCEPT ![t] = [key |-> k, began |-> clock]]
  /\ UNCHANGED <<clock, answer>>

\* A full store gives up the entry that expires first, also when the key that is
\* set has an entry already.
Evicted(entries) ==
  IF Cardinality(entries) < MaxSize THEN {entries}
  ELSE {entries \ {e} : e \in {x \in entries : \A y \in entries : x.expires <= y.expires}}

\* The producer has finished: its value is set and returned.
Put(t) ==
  /\ caller[t] # NoCall
  /\ \E left \in Evicted(store) :
       store' = {e \in left : e.key # caller[t].key} \cup
         {[key |-> caller[t].key, expires |-> clock + TtlOf(caller[t].key),
           value |-> caller[t].began, stored |-> clock]}
  /\ caller' = [caller EXCEPT ![t] = NoCall]
  /\ UNCHANGED <<clock, answer>>

\* The producer raises: nothing is stored.
Raise(t) ==
  /\ caller[t] # NoCall
  /\ caller' = [caller EXCEPT ![t] = NoCall]
  /\ UNCHANGED <<store, clock, answer>>

CacheNext == Tick \/ \E t \in CacheThreads : Hit(t) \/ Miss(t) \/ Put(t) \/ Raise(t)

CacheSpec == CacheInit /\ [][CacheNext]_cacheVars

-----------------------------------------------------------------------------
(* Properties.                                                             *)

\* Whatever the threads compute, store and read in between, a served value is
\* younger than its ttl plus the time its producer took: neither reads nor the
\* computations of other threads extend its life.  And the store never outgrows
\* max_size, with one entry per key.
CacheBounded ==
  /\ answer.key \in Keys => answer.age < TtlOf(answer.key) + answer.took
  /\ Cardinality(store) <= MaxSize
  /\ \A d, e \in store : d.key = e.key => d = e

=============================================================================
