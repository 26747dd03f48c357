------------------------- MODULE RecommendationCache -------------------------
(***************************************************************************)
(* The cache in front of the recommendation service                        *)
(* (clients/cached_recommendation_client.py over cache.py), as the context *)
(* builder uses it: an ask reads the caller's profile status and, if the   *)
(* profile is active, recommendations under a key that names the profile   *)
(* revision it read.                                                       *)
(*                                                                         *)
(* One user and one set of filters: other users and filters have keys of   *)
(* their own.  The instances of the chatbot share one cache (Redis); with  *)
(* one instance it is also the in-memory cache.  The locks are per process.*)
(***************************************************************************)
EXTENDS Naturals

CONSTANTS
    Asks,
    Instances,      \* chatbot processes
    Home,           \* the instance that serves each ask
    Venue,          \* whether the recommendations asked for are venues
    ProfileTtl,     \* profile_status_ttl_sec
    RecsTtl,        \* beverage_ or venue_recommendations_ttl_sec
    Latency,        \* longest time from the service's reading to the cache
    CacheFaults,    \* whether cache calls may raise
    ServiceFaults,  \* whether calls to the service may raise
    MaxTime,        \* bound: seconds
    MaxRev,         \* bound: profile revisions
    None

Revisions == 0..MaxRev

(* What the service said: the profile revision it worked with, when, and   *)
(* `ok': for a profile that it is active, for recommendations that there   *)
(* are some and every item is fresh and available.                         *)
Values == [rev : Revisions, at : 0..MaxTime, ok : BOOLEAN]

(* Cache keys: <<0>> is profile_status, <<1, r>> the recommendations of    *)
(* profile revision r.                                                     *)
ProfileKey == <<0>>
RecsKey(r) == <<1, r>>
Keys == {ProfileKey} \cup {RecsKey(r) : r \in Revisions}

(* What Cache.set keeps of a response, and until when.                     *)
Entries == [value : Values, expires : Nat]

ASSUME CacheAssumption ==
    /\ Home \in [Asks -> Instances]
    /\ {Venue, CacheFaults, ServiceFaults} \subseteq BOOLEAN
    /\ {ProfileTtl, RecsTtl} \subseteq Nat \ {0}
    /\ {Latency, MaxTime, MaxRev} \subseteq Nat
    /\ None \notin Values \cup Entries \cup Asks

VARIABLES
    now,        \* the clock
    profile,    \* the service's: revision of the profile, and is it active
    cache,      \* what is stored under each key, until when
    lock,       \* _locks of each instance: who holds the lock of a key
    pc,         \* where each ask is
    reply,      \* the service's reply an ask has not stored yet
    seen,       \* the profile status an ask got
    recs,       \* the recommendations an ask got
    floor       \* history: what an ask could know of when it began

vars == <<now, profile, cache, lock, pc, reply, seen, recs, floor>>

Ended == {"done", "failed"}
Filling == {"fill", "store"}

TypeOK ==
    /\ now \in 0..MaxTime
    /\ profile \in [rev : Revisions, ok : BOOLEAN]
    /\ cache \in [Keys -> Entries \cup {None}]
    /\ lock \in [Instances -> [Keys -> Asks \cup {None}]]
    /\ \A i \in Instances, k \in Keys :
          lock[i][k] # None => Home[lock[i][k]] = i /\ pc[lock[i][k]] \in Filling
    /\ pc \in [Asks -> {"new", "peek", "wait"} \cup Filling \cup Ended]
    /\ {reply, seen, recs} \subseteq [Asks -> Values \cup {None}]
    /\ floor \in [Asks -> [rev : Revisions, at : 0..MaxTime]]

Init ==
    /\ now = 0
    /\ profile \in [rev : {0, 1} \cap Revisions, ok : BOOLEAN]
    /\ cache = [k \in Keys |-> None]
    /\ lock = [i \in Instances |-> [k \in Keys |-> None]]
    /\ pc = [a \in Asks |-> "new"]
    /\ reply = [a \in Asks |-> None]
    /\ seen = [a \in Asks |-> None]
    /\ recs = [a \in Asks |-> None]
    /\ floor = [a \in Asks |-> [rev |-> 0, at |-> 0]]

-----------------------------------------------------------------------------
(* build() reads the profile first, then the recommendations of the        *)
(* revision it was told.                                                   *)
WantsProfile(a) == seen[a] = None

(* Mutant: recommendations of all revisions under one key.                 *)
UnversionedKey(a) == IF WantsProfile(a) THEN ProfileKey ELSE RecsKey(0)
Key(a) == IF WantsProfile(a) THEN ProfileKey ELSE RecsKey(seen[a].rev)
Ttl(a) == IF WantsProfile(a) THEN ProfileTtl ELSE RecsTtl

(* Recommendations without a revision are neither cached nor locked.       *)
Bypassed(a) == ~WantsProfile(a) /\ seen[a].rev = 0

(* Cache.get: an entry is live until its expiry.                           *)
(* (mutant: it is still live at its expiry)                                *)
LiveOneMore(k) == cache[k] # None /\ cache[k].expires >= now
Live(k) == cache[k] # None /\ cache[k].expires > now

(* _cache_get finds nothing, or raises and that is swallowed.              *)
Missed(k) == CacheFaults \/ ~Live(k)

(* _venue_response_cacheable; the other responses are always cached.       *)
(* (mutant: so are venues)                                                 *)
CacheAnything(a, v) == TRUE
Cacheable(a, v) == WantsProfile(a) \/ ~Venue \/ v.ok

(* What the service may reply now.                                         *)
Replies(a) ==
    {[rev |-> profile.rev, at |-> now, ok |-> b] :
        b \in IF WantsProfile(a) THEN {profile.ok} ELSE BOOLEAN}

(* The lock of the ask's key in its own process.  asyncio.Lock serves its  *)
(* waiters in order; here whoever waits may be next.                       *)
Free(a) == lock[Home[a]][Key(a)] = None
Leave(a) == lock' = [lock EXCEPT ![Home[a]][Key(a)] = None]

Goto(a, l) == pc' = [pc EXCEPT ![a] = l]

(* The ask resumes with response v: an inactive profile ends the context.  *)
(* (Asks that need no recommendations end there too and are not modelled.) *)
Take(a, v) ==
    IF WantsProfile(a)
    THEN /\ seen' = [seen EXCEPT ![a] = v]
         /\ Goto(a, IF v.ok THEN "peek" ELSE "done")
         /\ recs' = recs
    ELSE /\ recs' = [recs EXCEPT ![a] = v]
         /\ Goto(a, "done")
         /\ seen' = seen

-----------------------------------------------------------------------------
(* An ask begins; what the asks before it were told is noted.              *)
SeenTimes == {0} \cup {seen[b].at : b \in {c \in Asks : seen[c] # None}}

Begin(a) ==
    /\ pc[a] = "new"
    /\ Goto(a, "peek")
    /\ \E t \in SeenTimes :
          /\ \A u \in SeenTimes : u <= t
          /\ floor' = [floor EXCEPT ![a] = [rev |-> profile.rev, at |-> t]]
    /\ UNCHANGED <<now, profile, cache, lock, reply, seen, recs>>

(* get_profile_status, get_*_recommendations: a hit answers at once.       *)
PeekHit(a) ==
    /\ pc[a] = "peek" /\ ~Bypassed(a)
    /\ Live(Key(a))
    /\ Take(a, cache[Key(a)].value)
    /\ UNCHANGED <<now, profile, cache, lock, reply, floor>>

(* ... a miss waits for the lock of the key.                               *)
PeekMiss(a) ==
    /\ pc[a] = "peek" /\ ~Bypassed(a)
    /\ Missed(Key(a))
    /\ Goto(a, "wait")
    /\ UNCHANGED <<now, profile, cache, lock, reply, seen, recs, floor>>

(* Without a revision the service is asked directly.                       *)
Bypass(a) ==
    /\ pc[a] = "peek" /\ Bypassed(a)
    /\ \/ \E v \in Replies(a) : Take(a, v)
       \/ ServiceFaults /\ Goto(a, "done") /\ UNCHANGED <<seen, recs>>
    /\ UNCHANGED <<now, profile, cache, lock, reply, floor>>

(* _get_or_fill_locked: with the lock, the ask looks again, and keeps the  *)
(* lock only if it has to call the service.                                *)
RecheckHit(a) ==
    /\ pc[a] = "wait" /\ Free(a)
    /\ Live(Key(a))
    /\ Take(a, cache[Key(a)].value)
    /\ UNCHANGED <<now, profile, cache, lock, reply, floor>>

(* Mutant: the holder does not look again.                                 *)
FillUnchecked(a) ==
    /\ pc[a] = "wait" /\ Free(a)
    /\ lock' = [lock EXCEPT ![Home[a]][Key(a)] = a]
    /\ Goto(a, "fill")
    /\ UNCHANGED <<now, profile, cache, reply, seen, recs, floor>>

RecheckMiss(a) ==
    /\ pc[a] = "wait" /\ Free(a)
    /\ Missed(Key(a))
    /\ lock' = [lock EXCEPT ![Home[a]][Key(a)] = a]
    /\ Goto(a, "fill")
    /\ UNCHANGED <<now, profile, cache, reply, seen, recs, floor>>

(* Mutant: the lock is left before the reply is stored.                    *)
FillReleasing(a) ==
    /\ pc[a] = "fill"
    /\ \E v \in Replies(a) : reply' = [reply EXCEPT ![a] = v]
    /\ Leave(a)
    /\ Goto(a, "store")
    /\ UNCHANGED <<now, profile, cache, seen, recs, floor>>

(* The service reads its data and replies.                                 *)
Fill(a) ==
    /\ pc[a] = "fill"
    /\ \E v \in Replies(a) : reply' = [reply EXCEPT ![a] = v]
    /\ Goto(a, "store")
    /\ UNCHANGED <<now, profile, cache, lock, seen, recs, floor>>

(* Mutant: the lock stays with an ask whose fill raised.                   *)
FillFailsHolding(a) ==
    /\ pc[a] = "fill" /\ ServiceFaults
    /\ Goto(a, "done")
    /\ UNCHANGED <<now, profile, cache, lock, reply, seen, recs, floor>>

(* RecommendationClientError: the lock is released, the context reports    *)
(* that the service is unavailable.                                        *)
FillFails(a) ==
    /\ pc[a] = "fill" /\ ServiceFaults
    /\ Leave(a)
    /\ Goto(a, "done")
    /\ UNCHANGED <<now, profile, cache, reply, seen, recs, floor>>

Put(a) ==
    cache' = [cache EXCEPT ![Key(a)] =
                 [value |-> reply[a], expires |-> now + Ttl(a)]]

(* The reply is stored, if it may be, and answers the ask.  An exception   *)
(* of the cache is swallowed.                                              *)
Store(a) ==
    /\ pc[a] = "store"
    /\ \/ /\ Cacheable(a, reply[a])
          /\ Put(a)
       \/ /\ CacheFaults \/ ~Cacheable(a, reply[a])
          /\ cache' = cache
    /\ Leave(a)
    /\ Take(a, reply[a])
    /\ reply' = [reply EXCEPT ![a] = None]
    /\ UNCHANGED <<now, profile, floor>>

(* The handler is cancelled where it is suspended, and leaves a lock it    *)
(* holds.  A Cache.set already sent may still take effect.                 *)
Cancel(a) ==
    /\ pc[a] \in {"peek", "wait"} \cup Filling
    /\ IF pc[a] \in Filling THEN Leave(a) ELSE lock' = lock
    /\ \/ cache' = cache
       \/ pc[a] = "store" /\ Cacheable(a, reply[a]) /\ Put(a)
    /\ reply' = [reply EXCEPT ![a] = None]
    /\ Goto(a, "failed")
    /\ UNCHANGED <<now, profile, seen, recs, floor>>

-----------------------------------------------------------------------------
(* The service's side: a survey makes a new revision, and the profile goes *)
(* through pending, stale and failed generations.                          *)
Survey ==
    /\ \E p \in [rev : {profile.rev, profile.rev + 1} \cap Revisions, ok : BOOLEAN] :
          p # profile /\ profile' = p
    /\ UNCHANGED <<now, cache, lock, pc, reply, seen, recs, floor>>

Tick ==
    /\ now < MaxTime
    /\ \A a \in Asks : pc[a] = "store" => now < reply[a].at + Latency
    /\ now' = now + 1
    /\ UNCHANGED <<profile, cache, lock, pc, reply, seen, recs, floor>>

AskStep(a) ==
    \/ PeekHit(a) \/ PeekMiss(a) \/ Bypass(a)
    \/ RecheckHit(a) \/ RecheckMiss(a)
    \/ Fill(a) \/ FillFails(a) \/ Store(a)

Next ==
    \/ \E a \in Asks : Begin(a) \/ AskStep(a) \/ Cancel(a)
    \/ Survey \/ Tick

Spec == Init /\ [][Next]_vars

(* The event loop runs whoever can run; calls to the service and the cache *)
(* return or raise.                                                        *)
FairSpec == Spec /\ \A a \in Asks : WF_vars(AskStep(a))

-----------------------------------------------------------------------------
(* Per-key locking prevents stampedes: while an ask fetches, no other ask  *)
(* of its instance fetches the same key, and nothing live is stored under  *)
(* it.  (With one instance and a cache that does not raise.)               *)
SingleFlight ==
    \A a \in Asks : pc[a] \in Filling =>
        /\ ~Live(Key(a))
        /\ \A b \in Asks \ {a} :
              pc[b] \in Filling /\ Home[b] = Home[a] => Key(b) # Key(a)

(* Recommendations are never older than the profile revision they are      *)
(* presented with, whatever expired, failed or was shared in between.      *)
NeverBehindProfile ==
    \A a \in Asks : recs[a] # None => recs[a].rev >= seen[a].rev

(* A response is handed out for less than its time to live after the       *)
(* service's reading, plus the time that reading took to reach the cache.  *)
BoundedStaleness ==
    [][\A a \in Asks :
          /\ seen'[a] # seen[a] => now < seen'[a].at + ProfileTtl + Latency
          /\ recs'[a] # recs[a] => now < recs'[a].at + RecsTtl + Latency]_vars

(* Stale or unavailable venues reach only the ask that fetched them.       *)
StaleVenuesUnshared ==
    [][Venue => \A a \in Asks :
          recs'[a] # recs[a] /\ ~recs'[a].ok =>
              recs'[a] = reply[a] \/ Bypassed(a)]_vars

(* An ask never sees an older profile than one seen before it began.       *)
(* (With one instance and a cache that does not raise.)                    *)
MonotonicReads ==
    \A a \in Asks : seen[a] # None => seen[a].at >= floor[a].at

(* A change of the profile's revision bypasses what is cached: an ask that *)
(* began after it is not answered from recommendations made before it.     *)
RevisionChangeBypasses ==
    \A a \in Asks : recs[a] # None => recs[a].rev >= floor[a].rev

(* Every ask gets its context or is cancelled, whoever held the lock.      *)
AsksEnd == \A a \in Asks : pc[a] = "peek" ~> pc[a] \in Ended

=============================================================================
