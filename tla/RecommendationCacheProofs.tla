---------------------- MODULE RecommendationCacheProofs ----------------------
(***************************************************************************)
(* Theorems about RecommendationCache, for every number of asks, instances *)
(* and revisions, every time to live and every fault.                      *)
(***************************************************************************)
EXTENDS RecommendationCache, TLAPS

(* A lock names the ask that holds it, under that ask's key.               *)
LockInv ==
    /\ \A a \in Asks : pc[a] \in Filling => lock[Home[a]][Key(a)] = a
    /\ \A i \in Instances, k \in Keys :
          lock[i][k] # None => Key(lock[i][k]) = k

(* A reply is kept exactly while it is on its way to the cache.            *)
ReplyInv == \A a \in Asks : pc[a] = "store" => reply[a] # None

TypeInv == TypeOK /\ LockInv /\ ReplyInv

-----------------------------------------------------------------------------
(* Shapes of keys, values and entries.                                     *)

(* Keys of different revisions differ, and none is the profile's.          *)
LEMMA KeyShape ==
    /\ ProfileKey \in Keys
    /\ \A r \in Revisions : RecsKey(r) \in Keys /\ RecsKey(r) # ProfileKey
    /\ \A r, q \in Revisions : RecsKey(r) = RecsKey(q) => r = q
  BY DEF Keys, ProfileKey, RecsKey

(* An ask always has a key.                                                *)
LEMMA KeyType ==
    ASSUME TypeOK, NEW a \in Asks
    PROVE  Key(a) \in Keys
<1>1. seen[a] # None => seen[a].rev \in Revisions
  BY DEF TypeOK, Values
<1> QED
  BY <1>1, KeyShape DEF Key, WantsProfile

(* Whatever the service may reply is a value of now.                       *)
LEMMA RepliesType ==
    ASSUME TypeOK, NEW a \in Asks, NEW v \in Replies(a)
    PROVE  /\ v \in Values /\ v # None
           /\ v.rev = profile.rev /\ v.at = now
  BY CacheAssumption DEF Replies, TypeOK, Values

(* A live entry holds a value.                                             *)
LEMMA LiveType ==
    ASSUME TypeOK, NEW k \in Keys, Live(k)
    PROVE  /\ cache[k] \in Entries /\ cache[k] # None
           /\ cache[k].value \in Values /\ cache[k].value # None
           /\ now < cache[k].expires
  BY CacheAssumption DEF TypeOK, Live, Entries, Values

(* Everything but one ask's place and one key stays as it was.             *)
Steady(a) ==
    /\ \A b \in Asks \ {a} :
          pc'[b] = pc[b] /\ reply'[b] = reply[b]
          /\ seen'[b] = seen[b] /\ recs'[b] = recs[b]
    /\ UNCHANGED <<now, profile>>

(* The keys of the other asks stay.                                        *)
LEMMA OtherKeys ==
    ASSUME NEW a \in Asks, NEW b \in Asks, seen'[b] = seen[b]
    PROVE  Key(b)' = Key(b)
  BY DEF Key, WantsProfile

(* What resuming with a value does to the ask and to nobody else.          *)
LEMMA TakeType ==
    ASSUME TypeOK, NEW a \in Asks, NEW v \in Values, v # None, Take(a, v)
    PROVE  /\ seen' \in [Asks -> Values \cup {None}]
           /\ recs' \in [Asks -> Values \cup {None}]
           /\ pc' \in [Asks -> {"new", "peek", "wait"} \cup Filling \cup Ended]
           /\ pc'[a] \in {"peek", "done"}
           /\ \A b \in Asks \ {a} :
                 pc'[b] = pc[b] /\ seen'[b] = seen[b] /\ recs'[b] = recs[b]
           /\ WantsProfile(a) => seen'[a] = v /\ recs'[a] = recs[a]
           /\ ~WantsProfile(a) => recs'[a] = v /\ seen'[a] = seen[a]
<1>0. /\ seen \in [Asks -> Values \cup {None}]
      /\ recs \in [Asks -> Values \cup {None}]
      /\ pc \in [Asks -> {"new", "peek", "wait"} \cup Filling \cup Ended]
  BY DEF TypeOK
<1>1. \E l \in {"peek", "done"} : Goto(a, l)
  BY DEF Take
<1>2. /\ pc' \in [Asks -> {"new", "peek", "wait"} \cup Filling \cup Ended]
      /\ pc'[a] \in {"peek", "done"}
      /\ \A b \in Asks \ {a} : pc'[b] = pc[b]
  BY <1>0, <1>1 DEF Goto, Ended
<1>3. CASE WantsProfile(a)
  <2>1. seen' = [seen EXCEPT ![a] = v] /\ recs' = recs
    BY <1>3 DEF Take
  <2> QED
    BY <1>0, <1>2, <1>3, <2>1
<1>4. CASE ~WantsProfile(a)
  <2>1. recs' = [recs EXCEPT ![a] = v] /\ seen' = seen
    BY <1>4 DEF Take
  <2> QED
    BY <1>0, <1>2, <1>4, <2>1
<1> QED
  BY <1>3, <1>4

-----------------------------------------------------------------------------
(* The initial state has the type invariant.                               *)
LEMMA InitType == Init => TypeInv
<1> SUFFICES ASSUME Init PROVE TypeInv
  OBVIOUS
<1>1. TypeOK
  BY CacheAssumption, KeyShape
     DEF Init, TypeOK, Revisions, Filling, Ended
<1>2. LockInv /\ ReplyInv
  BY DEF Init, LockInv, ReplyInv, Filling
<1> QED
  BY <1>1, <1>2 DEF TypeInv

(* A step of ask a outside the lock: it was not filling and is not then.   *)
LEMMA UnlockedStep ==
    ASSUME TypeInv, NEW a \in Asks,
           pc[a] \notin Filling, pc'[a] \notin Filling,
           \A b \in Asks \ {a} : pc'[b] = pc[b] /\ seen'[b] = seen[b],
           lock' = lock, reply' = reply
    PROVE  LockInv' /\ ReplyInv' /\
           \A i \in Instances, k \in Keys :
              lock'[i][k] # None =>
                  Home[lock'[i][k]] = i /\ pc'[lock'[i][k]] \in Filling
<1>1. \A i \in Instances, k \in Keys : lock[i][k] # None =>
         /\ lock[i][k] \in Asks \ {a}
         /\ Home[lock[i][k]] = i /\ pc[lock[i][k]] \in Filling
         /\ Key(lock[i][k]) = k
  BY DEF TypeInv, TypeOK, LockInv
<1>2. \A b \in Asks \ {a} : Key(b)' = Key(b)
  BY DEF Key, WantsProfile
<1>3. \A i \in Instances, k \in Keys :
         lock'[i][k] # None =>
            Home[lock'[i][k]] = i /\ pc'[lock'[i][k]] \in Filling
            /\ (Key(lock[i][k]))' = k
  BY <1>1, <1>2
<1>4. \A b \in Asks : pc'[b] \in Filling => lock'[Home[b]][Key(b)'] = b
  BY <1>2 DEF TypeInv, LockInv
<1>5. \A b \in Asks : pc'[b] = "store" => reply'[b] # None
  BY DEF TypeInv, ReplyInv, Filling
<1> QED
  BY <1>3, <1>4, <1>5 DEF LockInv, ReplyInv

(* The part of TypeOK that relates the locks to where the asks are.        *)
Held ==
    \A i \in Instances, k \in Keys :
        lock[i][k] # None => Home[lock[i][k]] = i /\ pc[lock[i][k]] \in Filling

(* The lock operations keep its type.                                      *)
LEMMA LockType ==
    ASSUME TypeOK, NEW a \in Asks, NEW x \in Asks \cup {None},
           lock' = [lock EXCEPT ![Home[a]][Key(a)] = x]
    PROVE  /\ lock' \in [Instances -> [Keys -> Asks \cup {None}]]
           /\ lock'[Home[a]][Key(a)] = x
           /\ \A i \in Instances, k \in Keys :
                 <<i, k>> # <<Home[a], Key(a)>> => lock'[i][k] = lock[i][k]
<1>1. Home[a] \in Instances /\ Key(a) \in Keys
  BY CacheAssumption, KeyType
<1>2. lock \in [Instances -> [Keys -> Asks \cup {None}]]
  BY DEF TypeOK
<1> QED
  BY <1>1, <1>2

(* An ask that leaves the lock it holds.                                   *)
LEMMA LeavingStep ==
    ASSUME TypeInv, NEW a \in Asks,
           pc[a] \in Filling, pc'[a] \notin Filling, Leave(a),
           \A b \in Asks \ {a} :
              pc'[b] = pc[b] /\ seen'[b] = seen[b] /\ reply'[b] = reply[b]
    PROVE  LockInv' /\ ReplyInv' /\ Held'
           /\ lock' \in [Instances -> [Keys -> Asks \cup {None}]]
<1>0. Home[a] \in Instances /\ Key(a) \in Keys
  BY CacheAssumption, KeyType DEF TypeInv
<1>1. /\ lock' \in [Instances -> [Keys -> Asks \cup {None}]]
      /\ lock'[Home[a]][Key(a)] = None
      /\ \A i \in Instances, k \in Keys :
            <<i, k>> # <<Home[a], Key(a)>> => lock'[i][k] = lock[i][k]
  BY LockType DEF TypeInv, Leave
<1>2. \A b \in Asks \ {a} : Key(b)' = Key(b)
  BY DEF Key, WantsProfile
<1>3. \A i \in Instances, k \in Keys : lock'[i][k] # None =>
         /\ lock'[i][k] = lock[i][k]
         /\ lock[i][k] \in Asks \ {a}
         /\ Home[lock[i][k]] = i /\ pc[lock[i][k]] \in Filling
         /\ Key(lock[i][k]) = k
  <2> SUFFICES ASSUME NEW i \in Instances, NEW k \in Keys, lock'[i][k] # None
               PROVE  /\ lock'[i][k] = lock[i][k]
                      /\ lock[i][k] \in Asks \ {a}
                      /\ Home[lock[i][k]] = i /\ pc[lock[i][k]] \in Filling
                      /\ Key(lock[i][k]) = k
    OBVIOUS
  <2>1. <<i, k>> # <<Home[a], Key(a)>> /\ lock'[i][k] = lock[i][k]
    BY <1>1
  <2>2. /\ lock[i][k] \in Asks
        /\ Home[lock[i][k]] = i /\ pc[lock[i][k]] \in Filling
        /\ Key(lock[i][k]) = k
    BY <2>1 DEF TypeInv, TypeOK, LockInv
  <2> QED
    BY <2>1, <2>2
<1>4. Held'
  BY <1>3 DEF Held
<1>5. \A i \in Instances, k \in Keys : lock'[i][k] # None => (Key(lock[i][k]))' = k
  BY <1>2, <1>3
<1>6. \A b \in Asks : pc'[b] \in Filling => lock'[Home[b]][Key(b)'] = b
  <2> SUFFICES ASSUME NEW b \in Asks, pc'[b] \in Filling
               PROVE  lock'[Home[b]][Key(b)'] = b
    OBVIOUS
  <2>1. b # a /\ Key(b)' = Key(b) /\ lock[Home[b]][Key(b)] = b
    BY <1>2 DEF TypeInv, LockInv
  <2>2. lock[Home[a]][Key(a)] = a
    BY DEF TypeInv, LockInv
  <2>3. Home[b] \in Instances /\ Key(b) \in Keys
    BY CacheAssumption, KeyType DEF TypeInv
  <2> QED
    BY <1>1, <2>1, <2>2, <2>3
<1>7. \A b \in Asks : pc'[b] = "store" => reply'[b] # None
  BY DEF TypeInv, ReplyInv, Filling
<1> QED
  BY <1>1, <1>3, <1>4, <1>5, <1>6, <1>7 DEF LockInv, ReplyInv

-----------------------------------------------------------------------------
(* What the cache holds after a reply was put into it.                     *)
LEMMA PutType ==
    ASSUME TypeInv, NEW a \in Asks, pc[a] = "store", Put(a)
    PROVE  /\ cache' \in [Keys -> Entries \cup {None}]
           /\ cache'[Key(a)] = [value |-> reply[a], expires |-> now + Ttl(a)]
           /\ \A k \in Keys \ {Key(a)} : cache'[k] = cache[k]
<1>1. reply[a] \in Values /\ now + Ttl(a) \in Nat /\ Key(a) \in Keys
  BY CacheAssumption, KeyType DEF TypeInv, TypeOK, ReplyInv, Ttl
<1>2. [value |-> reply[a], expires |-> now + Ttl(a)] \in Entries
  BY <1>1 DEF Entries
<1>3. cache \in [Keys -> Entries \cup {None}]
  BY DEF TypeInv, TypeOK
<1> QED
  BY <1>1, <1>2, <1>3 DEF Put

(* Moving an ask.                                                          *)
LEMMA GotoType ==
    ASSUME TypeOK, NEW a \in Asks,
           NEW l \in {"new", "peek", "wait"} \cup Filling \cup Ended, Goto(a, l)
    PROVE  /\ pc' \in [Asks -> {"new", "peek", "wait"} \cup Filling \cup Ended]
           /\ pc'[a] = l
           /\ \A b \in Asks \ {a} : pc'[b] = pc[b]
  BY DEF TypeOK, Goto

(* The parts of TypeOK one at a time.                                      *)
LEMMA TypeParts ==
    TypeOK <=>
        /\ now \in 0..MaxTime
        /\ profile \in [rev : Revisions, ok : BOOLEAN]
        /\ cache \in [Keys -> Entries \cup {None}]
        /\ lock \in [Instances -> [Keys -> Asks \cup {None}]]
        /\ Held
        /\ pc \in [Asks -> {"new", "peek", "wait"} \cup Filling \cup Ended]
        /\ reply \in [Asks -> Values \cup {None}]
        /\ seen \in [Asks -> Values \cup {None}]
        /\ recs \in [Asks -> Values \cup {None}]
        /\ floor \in [Asks -> [rev : Revisions, at : 0..MaxTime]]
  BY DEF TypeOK, Held

(* A step outside the lock keeps the type invariant.                       *)
LEMMA OutsideType ==
    ASSUME TypeInv, NEW a \in Asks,
           pc[a] \notin Filling, pc'[a] \notin Filling,
           \A b \in Asks \ {a} : pc'[b] = pc[b] /\ seen'[b] = seen[b],
           pc' \in [Asks -> {"new", "peek", "wait"} \cup Filling \cup Ended],
           seen' \in [Asks -> Values \cup {None}],
           recs' \in [Asks -> Values \cup {None}],
           UNCHANGED <<now, profile, cache, lock, reply>>,
           floor' \in [Asks -> [rev : Revisions, at : 0..MaxTime]]
    PROVE  TypeInv'
<1>1. LockInv' /\ ReplyInv' /\ Held'
  BY UnlockedStep DEF Held
<1>2. TypeOK'
  BY <1>1, TypeParts DEF TypeInv, TypeOK, Held
<1> QED
  BY <1>1, <1>2 DEF TypeInv

(* An ask that begins keeps the type invariant.                            *)
LEMMA BeginType ==
    ASSUME TypeInv, NEW a \in Asks, Begin(a)
    PROVE  TypeInv'
<1>1. PICK t \in SeenTimes :
         floor' = [floor EXCEPT ![a] = [rev |-> profile.rev, at |-> t]]
  BY DEF Begin
<1>2. SeenTimes \subseteq 0..MaxTime
  BY CacheAssumption DEF SeenTimes, TypeInv, TypeOK, Values
<1>3. floor' \in [Asks -> [rev : Revisions, at : 0..MaxTime]]
  BY <1>1, <1>2 DEF TypeInv, TypeOK
<1>4. /\ pc[a] \notin Filling
      /\ pc' \in [Asks -> {"new", "peek", "wait"} \cup Filling \cup Ended]
      /\ pc'[a] = "peek" /\ \A b \in Asks \ {a} : pc'[b] = pc[b]
  BY GotoType DEF TypeInv, Begin, Filling
<1>5. UNCHANGED <<now, profile, cache, lock, reply, seen, recs>>
  BY DEF Begin
<1> QED
  BY <1>3, <1>4, <1>5, OutsideType DEF TypeInv, TypeOK, Filling

(* A live entry answers, before the lock or with it.                       *)
LEMMA HitType ==
    ASSUME TypeInv, NEW a \in Asks, PeekHit(a) \/ RecheckHit(a)
    PROVE  TypeInv'
<1>1. /\ pc[a] \notin Filling /\ Live(Key(a)) /\ Take(a, cache[Key(a)].value)
      /\ UNCHANGED <<now, profile, cache, lock, reply, floor>>
  BY DEF PeekHit, RecheckHit, Filling
<1>2. cache[Key(a)].value \in Values /\ cache[Key(a)].value # None
  BY <1>1, KeyType, LiveType DEF TypeInv
<1>3. /\ seen' \in [Asks -> Values \cup {None}]
      /\ recs' \in [Asks -> Values \cup {None}]
      /\ pc' \in [Asks -> {"new", "peek", "wait"} \cup Filling \cup Ended]
      /\ pc'[a] \in {"peek", "done"}
      /\ \A b \in Asks \ {a} : pc'[b] = pc[b] /\ seen'[b] = seen[b]
  BY <1>1, <1>2, TakeType DEF TypeInv
<1> QED
  BY <1>1, <1>3, OutsideType DEF TypeInv, TypeOK, Filling

(* A miss before the lock keeps the type invariant.                        *)
LEMMA PeekMissType ==
    ASSUME TypeInv, NEW a \in Asks, PeekMiss(a)
    PROVE  TypeInv'
<1>1. /\ pc[a] \notin Filling
      /\ pc' \in [Asks -> {"new", "peek", "wait"} \cup Filling \cup Ended]
      /\ pc'[a] = "wait" /\ \A b \in Asks \ {a} : pc'[b] = pc[b]
  BY GotoType DEF TypeInv, PeekMiss, Filling
<1>2. UNCHANGED <<now, profile, cache, lock, reply, seen, recs, floor>>
  BY DEF PeekMiss
<1> QED
  BY <1>1, <1>2, OutsideType DEF TypeInv, TypeOK, Filling

(* A call that bypasses the cache keeps the type invariant.                *)
LEMMA BypassType ==
    ASSUME TypeInv, NEW a \in Asks, Bypass(a)
    PROVE  TypeInv'
<1>1. /\ pc[a] \notin Filling
      /\ UNCHANGED <<now, profile, cache, lock, reply, floor>>
  BY DEF Bypass, Filling
<1>2. /\ seen' \in [Asks -> Values \cup {None}]
      /\ recs' \in [Asks -> Values \cup {None}]
      /\ pc' \in [Asks -> {"new", "peek", "wait"} \cup Filling \cup Ended]
      /\ pc'[a] \in {"peek", "done"}
      /\ \A b \in Asks \ {a} : pc'[b] = pc[b] /\ seen'[b] = seen[b]
  <2>1. CASE \E v \in Replies(a) : Take(a, v)
    BY <2>1, RepliesType, TakeType DEF TypeInv
  <2>2. CASE Goto(a, "done") /\ UNCHANGED <<seen, recs>>
    BY <2>2, GotoType DEF TypeInv, TypeOK, Ended
  <2> QED
    BY <2>1, <2>2 DEF Bypass
<1> QED
  BY <1>1, <1>2, OutsideType DEF TypeInv, TypeOK, Filling

(* The ask that takes the lock.                                            *)
LEMMA RecheckMissType ==
    ASSUME TypeInv, NEW a \in Asks, RecheckMiss(a)
    PROVE  TypeInv'
<1>0. Home[a] \in Instances /\ Key(a) \in Keys
  BY CacheAssumption, KeyType DEF TypeInv
<1>1. /\ pc[a] = "wait" /\ lock[Home[a]][Key(a)] = None
      /\ UNCHANGED <<now, profile, cache, reply, seen, recs, floor>>
  BY DEF RecheckMiss, Free
<1>2. /\ pc' \in [Asks -> {"new", "peek", "wait"} \cup Filling \cup Ended]
      /\ pc'[a] = "fill" /\ \A b \in Asks \ {a} : pc'[b] = pc[b]
  BY GotoType DEF TypeInv, RecheckMiss, Filling
<1>3. /\ lock' \in [Instances -> [Keys -> Asks \cup {None}]]
      /\ lock'[Home[a]][Key(a)] = a
      /\ \A i \in Instances, k \in Keys :
            <<i, k>> # <<Home[a], Key(a)>> => lock'[i][k] = lock[i][k]
  BY LockType DEF TypeInv, RecheckMiss
<1>4. \A b \in Asks : Key(b)' = Key(b)
  BY <1>1 DEF Key, WantsProfile
<1>5. \A i \in Instances, k \in Keys : lock'[i][k] # None =>
         /\ lock'[i][k] \in Asks
         /\ Home[lock'[i][k]] = i /\ pc'[lock'[i][k]] \in Filling
         /\ Key(lock'[i][k]) = k
  <2> SUFFICES ASSUME NEW i \in Instances, NEW k \in Keys, lock'[i][k] # None
               PROVE  /\ lock'[i][k] \in Asks
                      /\ Home[lock'[i][k]] = i /\ pc'[lock'[i][k]] \in Filling
                      /\ Key(lock'[i][k]) = k
    OBVIOUS
  <2>1. CASE <<i, k>> = <<Home[a], Key(a)>>
    BY <1>2, <1>3, <2>1 DEF Filling
  <2>2. CASE <<i, k>> # <<Home[a], Key(a)>>
    <3>1. lock'[i][k] = lock[i][k]
      BY <1>3, <2>2
    <3>2. lock[i][k] \in Asks /\ pc[lock[i][k]] \in Filling
          /\ Home[lock[i][k]] = i /\ Key(lock[i][k]) = k
      BY <3>1 DEF TypeInv, TypeOK, LockInv
    <3>3. lock[i][k] # a
      BY <1>1, <3>2 DEF Filling
    <3> QED
      BY <1>2, <3>1, <3>2, <3>3
  <2> QED
    BY <2>1, <2>2
<1>6. \A i \in Instances, k \in Keys : lock'[i][k] # None => (Key(lock[i][k]))' = k
  BY <1>4, <1>5
<1>7. \A b \in Asks : pc'[b] \in Filling => lock'[Home[b]][Key(b)'] = b
  <2> SUFFICES ASSUME NEW b \in Asks, pc'[b] \in Filling, b # a
               PROVE  lock'[Home[b]][Key(b)'] = b
    BY <1>3, <1>4
  <2>1. lock[Home[b]][Key(b)] = b /\ Home[b] \in Instances /\ Key(b) \in Keys
    BY <1>2, CacheAssumption, KeyType DEF TypeInv, LockInv
  <2>2. b # None
    BY CacheAssumption
  <2> QED
    BY <1>1, <1>3, <1>4, <2>1, <2>2
<1>8. ReplyInv'
  BY <1>1, <1>2 DEF TypeInv, ReplyInv
<1>9. LockInv'
  BY <1>6, <1>7 DEF LockInv
<1>10. Held'
  BY <1>5 DEF Held
<1> QED
  BY <1>1, <1>2, <1>3, <1>8, <1>9, <1>10, TypeParts DEF TypeInv, TypeOK, Held

(* The service's reply keeps the type invariant.                           *)
LEMMA FillType ==
    ASSUME TypeInv, NEW a \in Asks, Fill(a)
    PROVE  TypeInv'
<1>1. /\ pc[a] = "fill"
      /\ UNCHANGED <<now, profile, cache, lock, seen, recs, floor>>
  BY DEF Fill
<1>2. /\ pc' \in [Asks -> {"new", "peek", "wait"} \cup Filling \cup Ended]
      /\ pc'[a] = "store" /\ \A b \in Asks \ {a} : pc'[b] = pc[b]
  BY GotoType DEF TypeInv, Fill, Filling
<1>3. PICK v \in Replies(a) : reply' = [reply EXCEPT ![a] = v]
  BY DEF Fill
<1>4. v \in Values /\ v # None
  BY RepliesType DEF TypeInv
<1>5. /\ reply' \in [Asks -> Values \cup {None}]
      /\ reply'[a] # None
      /\ \A b \in Asks \ {a} : reply'[b] = reply[b]
  BY <1>3, <1>4 DEF TypeInv, TypeOK
<1>6. \A b \in Asks : Key(b)' = Key(b) /\ (pc'[b] \in Filling <=> pc[b] \in Filling)
  BY <1>1, <1>2 DEF Key, WantsProfile, Filling
<1>7. Held'
  BY <1>1, <1>6 DEF Held, TypeInv, TypeOK
<1>8. LockInv'
  <2>1. \A i \in Instances, k \in Keys : lock[i][k] # None =>
           lock[i][k] \in Asks /\ Key(lock[i][k]) = k
    BY DEF TypeInv, TypeOK, LockInv
  <2>2. \A i \in Instances, k \in Keys : lock'[i][k] # None => (Key(lock[i][k]))' = k
    BY <1>1, <1>6, <2>1
  <2>3. \A b \in Asks : pc'[b] \in Filling => lock'[Home[b]][Key(b)'] = b
    BY <1>1, <1>6 DEF TypeInv, LockInv
  <2> QED
    BY <2>2, <2>3 DEF LockInv
<1>9. ReplyInv'
  BY <1>2, <1>5 DEF TypeInv, ReplyInv
<1> QED
  BY <1>1, <1>2, <1>5, <1>7, <1>8, <1>9, TypeParts DEF TypeInv, TypeOK, Held

(* An error of the service keeps the type invariant.                       *)
LEMMA FillFailsType ==
    ASSUME TypeInv, NEW a \in Asks, FillFails(a)
    PROVE  TypeInv'
<1>1. /\ pc[a] \in Filling /\ Leave(a)
      /\ UNCHANGED <<now, profile, cache, reply, seen, recs, floor>>
  BY DEF FillFails, Filling
<1>2. /\ pc' \in [Asks -> {"new", "peek", "wait"} \cup Filling \cup Ended]
      /\ pc'[a] = "done" /\ \A b \in Asks \ {a} : pc'[b] = pc[b]
  BY GotoType DEF TypeInv, FillFails, Ended
<1>3. LockInv' /\ ReplyInv' /\ Held'
      /\ lock' \in [Instances -> [Keys -> Asks \cup {None}]]
  BY <1>1, <1>2, LeavingStep DEF Filling
<1> QED
  BY <1>1, <1>2, <1>3, TypeParts DEF TypeInv, TypeOK, Held

(* A reply on its way, put into the cache or not.                          *)
LEMMA CacheType ==
    ASSUME TypeInv, NEW a \in Asks,
           cache' = cache \/ (pc[a] = "store" /\ Put(a))
    PROVE  cache' \in [Keys -> Entries \cup {None}]
  BY PutType DEF TypeInv, TypeOK

(* Storing the reply keeps the type invariant.                             *)
LEMMA StoreType ==
    ASSUME TypeInv, NEW a \in Asks, Store(a)
    PROVE  TypeInv'
<1>1. /\ pc[a] = "store" /\ pc[a] \in Filling /\ Leave(a) /\ Take(a, reply[a])
      /\ reply' = [reply EXCEPT ![a] = None]
      /\ UNCHANGED <<now, profile, floor>>
      /\ cache' = cache \/ Put(a)
  BY DEF Store, Filling
<1>2. reply[a] \in Values /\ reply[a] # None
  BY <1>1 DEF TypeInv, TypeOK, ReplyInv
<1>3. /\ seen' \in [Asks -> Values \cup {None}]
      /\ recs' \in [Asks -> Values \cup {None}]
      /\ pc' \in [Asks -> {"new", "peek", "wait"} \cup Filling \cup Ended]
      /\ pc'[a] \in {"peek", "done"}
      /\ \A b \in Asks \ {a} : pc'[b] = pc[b] /\ seen'[b] = seen[b]
  BY <1>1, <1>2, TakeType DEF TypeInv
<1>4. /\ reply' \in [Asks -> Values \cup {None}]
      /\ \A b \in Asks \ {a} : reply'[b] = reply[b]
  BY <1>1 DEF TypeInv, TypeOK
<1>5. cache' \in [Keys -> Entries \cup {None}]
  BY <1>1, CacheType
<1>6. LockInv' /\ ReplyInv' /\ Held'
      /\ lock' \in [Instances -> [Keys -> Asks \cup {None}]]
  BY <1>1, <1>3, <1>4, LeavingStep DEF Filling
<1> QED
  BY <1>1, <1>3, <1>4, <1>5, <1>6, TypeParts DEF TypeInv, TypeOK, Held

(* A cancelled handler keeps the type invariant.                           *)
LEMMA CancelType ==
    ASSUME TypeInv, NEW a \in Asks, Cancel(a)
    PROVE  TypeInv'
<1>1. /\ UNCHANGED <<now, profile, seen, recs, floor>>
      /\ reply' = [reply EXCEPT ![a] = None]
      /\ pc[a] \in Filling => Leave(a)
      /\ pc[a] \notin Filling => lock' = lock
      /\ cache' = cache \/ (pc[a] = "store" /\ Put(a))
  BY DEF Cancel
<1>2. /\ pc' \in [Asks -> {"new", "peek", "wait"} \cup Filling \cup Ended]
      /\ pc'[a] = "failed" /\ \A b \in Asks \ {a} : pc'[b] = pc[b]
  BY GotoType DEF TypeInv, Cancel, Ended
<1>3. /\ reply' \in [Asks -> Values \cup {None}]
      /\ \A b \in Asks \ {a} : reply'[b] = reply[b]
  BY <1>1 DEF TypeInv, TypeOK
<1>4. cache' \in [Keys -> Entries \cup {None}]
  BY <1>1, CacheType
<1>5. LockInv' /\ ReplyInv' /\ Held'
      /\ lock' \in [Instances -> [Keys -> Asks \cup {None}]]
  <2>1. CASE pc[a] \in Filling
    BY <1>1, <1>2, <1>3, <2>1, LeavingStep DEF Filling
  <2>2. CASE pc[a] \notin Filling
    <3>1. \A i \in Instances, k \in Keys : lock[i][k] # None =>
             lock[i][k] \in Asks \ {a} /\ Key(lock[i][k]) = k
             /\ Home[lock[i][k]] = i /\ pc[lock[i][k]] \in Filling
      BY <2>2 DEF TypeInv, TypeOK, LockInv
    <3>2. \A b \in Asks : Key(b)' = Key(b)
      BY <1>1 DEF Key, WantsProfile
    <3>3. \A i \in Instances, k \in Keys : lock'[i][k] # None =>
             (Key(lock[i][k]))' = k
      BY <1>1, <2>2, <3>1, <3>2
    <3>4. Held'
      BY <1>1, <1>2, <2>2, <3>1 DEF Held
    <3>5. \A b \in Asks : pc'[b] \in Filling => lock'[Home[b]][Key(b)'] = b
      BY <1>1, <1>2, <2>2, <3>2 DEF TypeInv, LockInv, Filling
    <3>6. ReplyInv'
      BY <1>2, <1>3 DEF TypeInv, ReplyInv
    <3>7. LockInv'
      BY <1>1, <2>2, <3>3, <3>5 DEF LockInv
    <3> QED
      BY <1>1, <2>2, <3>4, <3>6, <3>7 DEF TypeInv, TypeOK
  <2> QED
    BY <2>1, <2>2
<1> QED
  BY <1>1, <1>2, <1>3, <1>4, <1>5, TypeParts DEF TypeInv, TypeOK, Held

(* Time, the service's own changes and stuttering leave the asks alone.    *)
LEMMA OutsiderType ==
    ASSUME TypeInv, Survey \/ Tick \/ UNCHANGED vars
    PROVE  TypeInv'
<1>1. UNCHANGED <<cache, lock, pc, reply, seen, recs, floor>>
  BY DEF Survey, Tick, vars
<1>2. profile' \in [rev : Revisions, ok : BOOLEAN] /\ now' \in 0..MaxTime
  BY CacheAssumption DEF Survey, Tick, vars, TypeInv, TypeOK
<1>3. LockInv' /\ ReplyInv' /\ Held'
  BY <1>1 DEF TypeInv, TypeOK, LockInv, ReplyInv, Held, Key, WantsProfile
<1> QED
  BY <1>1, <1>2, <1>3, TypeParts DEF TypeInv, TypeOK, Held

(* Every step keeps the type invariant.                                    *)
LEMMA NextType == TypeInv /\ [Next]_vars => TypeInv'
<1> SUFFICES ASSUME TypeInv, [Next]_vars PROVE TypeInv'
  OBVIOUS
<1>1. CASE Survey \/ Tick \/ UNCHANGED vars
  BY <1>1, OutsiderType
<1>2. ASSUME NEW a \in Asks, Begin(a) \/ AskStep(a) \/ Cancel(a)
      PROVE  TypeInv'
  BY <1>2, BeginType, HitType, PeekMissType, BypassType, RecheckMissType,
     FillType, FillFailsType, StoreType, CancelType DEF AskStep
<1> QED
  BY <1>1, <1>2 DEF Next

(* Every variable keeps its type, and the lock of a key is held by exactly *)
(* the ask of its process that is fetching that key (TypeOK, with the      *)
(* relation the lock needs; _get_or_fill_locked).                          *)
THEOREM TypeCorrect == Spec => [](TypeOK /\ LockInv)
<1>1. TypeInv => TypeOK /\ LockInv
  BY DEF TypeInv
<1> QED
  BY <1>1, InitType, NextType, PTL DEF Spec

-----------------------------------------------------------------------------
(* What the theorems about data need to know of the steps.                 *)

(* Where a value an ask resumes with can come from.                        *)
Sourced(a, v) ==
    \/ Live(Key(a)) /\ v = cache[Key(a)].value
    \/ pc[a] = "store" /\ v = reply[a]
    \/ v \in Replies(a)

(* All a step of one ask can do to the values: put its own reply into the  *)
(* cache, take the service's reply, or resume with a value from one of the *)
(* three sources.                                                          *)
LEMMA AskEffects ==
    ASSUME TypeInv, NEW a \in Asks, Begin(a) \/ AskStep(a) \/ Cancel(a)
    PROVE  /\ Steady(a)
           /\ cache' = cache \/ (pc[a] = "store" /\ Put(a))
           /\ pc'[a] = "store" => reply'[a] \in Replies(a) /\ seen'[a] = seen[a]
           /\ \/ seen' = seen /\ recs' = recs
              \/ \E v \in Values : v # None /\ Sourced(a, v) /\ Take(a, v)
<1>0. /\ pc \in [Asks -> {"new", "peek", "wait"} \cup Filling \cup Ended]
      /\ reply \in [Asks -> Values \cup {None}]
      /\ seen \in [Asks -> Values \cup {None}]
      /\ recs \in [Asks -> Values \cup {None}]
  BY DEF TypeInv, TypeOK
<1>1. CASE Begin(a) \/ PeekMiss(a) \/ RecheckMiss(a) \/ FillFails(a)
  <2>1. \E l \in {"peek", "wait", "fill", "done"} : Goto(a, l)
    BY <1>1 DEF Begin, PeekMiss, RecheckMiss, FillFails
  <2>2. pc'[a] # "store" /\ \A b \in Asks \ {a} : pc'[b] = pc[b]
    BY <1>0, <2>1 DEF Goto
  <2>3. UNCHANGED <<now, profile, cache, reply, seen, recs>>
    BY <1>1 DEF Begin, PeekMiss, RecheckMiss, FillFails
  <2> QED
    BY <2>2, <2>3 DEF Steady
<1>2. CASE PeekHit(a) \/ RecheckHit(a)
  <2>1. /\ Live(Key(a)) /\ Take(a, cache[Key(a)].value)
        /\ UNCHANGED <<now, profile, cache, lock, reply, floor>>
    BY <1>2 DEF PeekHit, RecheckHit
  <2>2. cache[Key(a)].value \in Values /\ cache[Key(a)].value # None
    BY <2>1, KeyType, LiveType DEF TypeInv
  <2>3. /\ pc'[a] # "store"
        /\ \A b \in Asks \ {a} :
              pc'[b] = pc[b] /\ seen'[b] = seen[b] /\ recs'[b] = recs[b]
    BY <2>1, <2>2, TakeType DEF TypeInv
  <2>4. Sourced(a, cache[Key(a)].value)
    BY <2>1 DEF Sourced
  <2> QED
    BY <2>1, <2>2, <2>3, <2>4 DEF Steady
<1>3. CASE Bypass(a)
  <2>0. UNCHANGED <<now, profile, cache, lock, reply, floor>>
    BY <1>3 DEF Bypass
  <2>1. CASE \E v \in Replies(a) : Take(a, v)
    <3>1. PICK v \in Replies(a) : Take(a, v)
      BY <2>1
    <3>2. v \in Values /\ v # None /\ Sourced(a, v)
      BY RepliesType DEF TypeInv, Sourced
    <3>3. /\ pc'[a] # "store"
          /\ \A b \in Asks \ {a} :
                pc'[b] = pc[b] /\ seen'[b] = seen[b] /\ recs'[b] = recs[b]
      BY <3>1, <3>2, TakeType DEF TypeInv
    <3> QED
      BY <2>0, <3>1, <3>2, <3>3 DEF Steady
  <2>2. CASE Goto(a, "done") /\ UNCHANGED <<seen, recs>>
    BY <1>0, <2>0, <2>2 DEF Goto, Steady
  <2> QED
    BY <1>3, <2>1, <2>2 DEF Bypass
<1>4. CASE Fill(a)
  <2>1. /\ pc' = [pc EXCEPT ![a] = "store"]
        /\ UNCHANGED <<now, profile, cache, lock, seen, recs, floor>>
    BY <1>4 DEF Fill, Goto
  <2>2. PICK v \in Replies(a) : reply' = [reply EXCEPT ![a] = v]
    BY <1>4 DEF Fill
  <2> QED
    BY <1>0, <2>1, <2>2 DEF Steady
<1>5. CASE Store(a)
  <2>1. /\ pc[a] = "store" /\ Take(a, reply[a])
        /\ reply' = [reply EXCEPT ![a] = None]
        /\ UNCHANGED <<now, profile, floor>>
        /\ cache' = cache \/ Put(a)
    BY <1>5 DEF Store
  <2>2. reply[a] \in Values /\ reply[a] # None
    BY <1>0, <2>1 DEF TypeInv, ReplyInv
  <2>3. /\ pc'[a] # "store"
        /\ \A b \in Asks \ {a} :
              pc'[b] = pc[b] /\ seen'[b] = seen[b] /\ recs'[b] = recs[b]
    BY <2>1, <2>2, TakeType DEF TypeInv
  <2>4. Sourced(a, reply[a])
    BY <2>1 DEF Sourced
  <2>5. \A b \in Asks \ {a} : reply'[b] = reply[b]
    BY <1>0, <2>1
  <2> QED
    BY <2>1, <2>2, <2>3, <2>4, <2>5 DEF Steady
<1>6. CASE Cancel(a)
  BY <1>0, <1>6 DEF Cancel, Goto, Steady
<1> QED
  BY <1>1, <1>2, <1>3, <1>4, <1>5, <1>6 DEF AskStep

-----------------------------------------------------------------------------
(* Revisions only grow, and everything stored or handed out is at least as *)
(* new as the revision its key names.                                      *)
CacheRev ==
    \A k \in Keys : cache[k] # None =>
        /\ cache[k].value.rev <= profile.rev
        /\ \A r \in Revisions : k = RecsKey(r) => cache[k].value.rev >= r

AskRev ==
    \A a \in Asks :
        /\ seen[a] # None => seen[a].rev <= profile.rev
        /\ recs[a] # None => seen[a] # None /\ recs[a].rev >= seen[a].rev
        /\ pc[a] = "store" =>
              /\ reply[a].rev <= profile.rev
              /\ seen[a] # None => reply[a].rev >= seen[a].rev

(* A value of any source is no newer than the profile and no older than    *)
(* the revision the ask has seen.                                          *)
LEMMA SourcedRev ==
    ASSUME TypeInv, CacheRev, AskRev, NEW a \in Asks, NEW v \in Values, Sourced(a, v)
    PROVE  v.rev <= profile.rev /\ (seen[a] # None => v.rev >= seen[a].rev)
<1>0. /\ profile.rev \in Nat /\ v.rev \in Nat
      /\ seen[a] # None => seen[a].rev \in Revisions /\ seen[a].rev \in Nat
  BY CacheAssumption DEF TypeInv, TypeOK, Values, Revisions
<1>1. CASE Live(Key(a)) /\ v = cache[Key(a)].value
  <2>1. Key(a) \in Keys /\ cache[Key(a)] # None
    BY <1>1, KeyType DEF TypeInv, Live
  <2>2. seen[a] # None => Key(a) = RecsKey(seen[a].rev)
    BY DEF Key, WantsProfile
  <2> QED
    BY <1>0, <1>1, <2>1, <2>2 DEF CacheRev
<1>2. CASE pc[a] = "store" /\ v = reply[a]
  BY <1>2 DEF AskRev
<1>3. CASE v \in Replies(a)
  BY <1>0, <1>3, RepliesType DEF TypeInv, AskRev
<1> QED
  BY <1>1, <1>2, <1>3 DEF Sourced

(* A step of an ask keeps the revisions in order.                          *)
LEMMA AskStepRev ==
    ASSUME TypeInv, CacheRev, AskRev, NEW a \in Asks,
           Begin(a) \/ AskStep(a) \/ Cancel(a)
    PROVE  CacheRev' /\ AskRev'
<1>0. /\ Steady(a)
      /\ cache' = cache \/ (pc[a] = "store" /\ Put(a))
      /\ pc'[a] = "store" => reply'[a] \in Replies(a) /\ seen'[a] = seen[a]
      /\ \/ seen' = seen /\ recs' = recs
         \/ \E v \in Values : v # None /\ Sourced(a, v) /\ Take(a, v)
  BY AskEffects
<1>1. profile' = profile
  BY <1>0 DEF Steady
<1>2. CacheRev'
  <2>1. CASE cache' = cache
    BY <1>1, <2>1 DEF CacheRev
  <2>2. CASE pc[a] = "store" /\ Put(a)
    <3>1. /\ cache'[Key(a)].value = reply[a]
          /\ \A k \in Keys \ {Key(a)} : cache'[k] = cache[k]
      <4>1. cache'[Key(a)] = [value |-> reply[a], expires |-> now + Ttl(a)]
        BY <2>2, PutType
      <4> QED
        BY <4>1, <2>2, PutType
    <3>2. \A r \in Revisions : Key(a) = RecsKey(r) => seen[a] # None /\ seen[a].rev = r
      <4>1. seen[a] # None => seen[a].rev \in Revisions
        BY DEF TypeInv, TypeOK, Values
      <4> QED
        BY <4>1, KeyShape DEF Key, WantsProfile
    <3>3. /\ reply[a].rev <= profile.rev
          /\ \A r \in Revisions : Key(a) = RecsKey(r) => reply[a].rev >= r
      BY <2>2, <3>2 DEF AskRev
    <3> QED
      BY <1>1, <3>1, <3>3 DEF CacheRev
  <2> QED
    BY <1>0, <2>1, <2>2
<1>3. \A b \in Asks \ {a} :
         pc'[b] = pc[b] /\ reply'[b] = reply[b] /\ seen'[b] = seen[b] /\ recs'[b] = recs[b]
  BY <1>0 DEF Steady
<1>4. /\ seen'[a] # None => seen'[a].rev <= profile'.rev
      /\ recs'[a] # None => seen'[a] # None /\ recs'[a].rev >= seen'[a].rev
  <2>1. CASE seen' = seen /\ recs' = recs
    BY <1>1, <2>1 DEF AskRev
  <2>2. CASE \E v \in Values : v # None /\ Sourced(a, v) /\ Take(a, v)
    <3>1. PICK v \in Values : v # None /\ Sourced(a, v) /\ Take(a, v)
      BY <2>2
    <3>2. v.rev <= profile.rev /\ (seen[a] # None => v.rev >= seen[a].rev)
      BY <3>1, SourcedRev
    <3>3. /\ WantsProfile(a) => seen'[a] = v /\ recs'[a] = recs[a]
          /\ ~WantsProfile(a) => recs'[a] = v /\ seen'[a] = seen[a]
      BY <3>1, TakeType DEF TypeInv
    <3> QED
      BY <1>1, <3>1, <3>2, <3>3 DEF AskRev, WantsProfile
  <2> QED
    BY <1>0, <2>1, <2>2
<1>5. pc'[a] = "store" =>
         /\ reply'[a].rev <= profile'.rev
         /\ seen'[a] # None => reply'[a].rev >= seen'[a].rev
  <2> SUFFICES ASSUME pc'[a] = "store"
               PROVE  /\ reply'[a].rev <= profile'.rev
                      /\ seen'[a] # None => reply'[a].rev >= seen'[a].rev
    OBVIOUS
  <2>1. reply'[a].rev = profile.rev /\ profile.rev \in Nat
    BY <1>0, RepliesType, CacheAssumption DEF TypeInv, TypeOK, Revisions
  <2>2. seen'[a] = seen[a] /\ (seen[a] # None => seen[a].rev <= profile.rev)
    BY <1>0 DEF AskRev
  <2>3. seen[a] # None => seen[a].rev \in Nat
    BY CacheAssumption DEF TypeInv, TypeOK, Values, Revisions
  <2> QED
    BY <1>1, <2>1, <2>2, <2>3
<1>6. AskRev'
  BY <1>1, <1>3, <1>4, <1>5 DEF AskRev
<1> QED
  BY <1>2, <1>6

(* The profile's revision never decreases, so time and surveys keep the    *)
(* order too.                                                              *)
LEMMA OutsiderRev ==
    ASSUME TypeInv, CacheRev, AskRev, Survey \/ Tick \/ UNCHANGED vars
    PROVE  CacheRev' /\ AskRev'
<1>1. UNCHANGED <<cache, pc, reply, seen, recs>>
  BY DEF Survey, Tick, vars
<1>2. /\ profile.rev \in Nat /\ profile'.rev \in Nat /\ profile'.rev >= profile.rev
  BY CacheAssumption DEF Survey, Tick, vars, TypeInv, TypeOK, Revisions
<1>3. CacheRev'
  <2>1. \A k \in Keys : cache[k] # None => cache[k].value.rev \in Nat
    BY CacheAssumption DEF TypeInv, TypeOK, Entries, Values, Revisions
  <2> QED
    BY <1>1, <1>2, <2>1 DEF CacheRev
<1>4. AskRev'
  <2>1. \A a \in Asks :
           /\ seen[a] # None => seen[a].rev \in Nat
           /\ pc[a] = "store" => reply[a].rev \in Nat
    BY CacheAssumption DEF TypeInv, TypeOK, ReplyInv, Values, Revisions
  <2> QED
    BY <1>1, <1>2, <2>1 DEF AskRev
<1> QED
  BY <1>3, <1>4

(* Recommendations are never older than the profile revision they are      *)
(* presented with (ask context of context_builder.build over the cache),   *)
(* for any number of processes sharing the cache and whatever faults.      *)
THEOREM NeverBehindProfileHolds == Spec => []NeverBehindProfile
<1>1. Init => TypeInv /\ CacheRev /\ AskRev
  <2> SUFFICES ASSUME Init PROVE TypeInv /\ CacheRev /\ AskRev
    OBVIOUS
  <2>1. CacheRev /\ AskRev
    BY DEF Init, CacheRev, AskRev
  <2> QED
    BY <2>1, InitType
<1>2. TypeInv /\ CacheRev /\ AskRev /\ [Next]_vars => (TypeInv /\ CacheRev /\ AskRev)'
  <2> SUFFICES ASSUME TypeInv, CacheRev, AskRev, [Next]_vars
               PROVE  TypeInv' /\ CacheRev' /\ AskRev'
    OBVIOUS
  <2>1. ASSUME Survey \/ Tick \/ UNCHANGED vars
        PROVE  CacheRev' /\ AskRev'
    BY <2>1, OutsiderRev
  <2>2. ASSUME NEW a \in Asks, Begin(a) \/ AskStep(a) \/ Cancel(a)
        PROVE  CacheRev' /\ AskRev'
    BY <2>2, AskStepRev
  <2> QED
    BY <2>1, <2>2, NextType DEF Next
<1>3. AskRev => NeverBehindProfile
  BY DEF AskRev, NeverBehindProfile
<1> QED
  BY <1>1, <1>2, <1>3, PTL DEF Spec

-----------------------------------------------------------------------------
(* How old an entry, and a reply on its way, can be.                       *)
KeyTtl(k) == IF k = ProfileKey THEN ProfileTtl ELSE RecsTtl

CacheAge ==
    \A k \in Keys : cache[k] # None =>
        cache[k].expires <= cache[k].value.at + Latency + KeyTtl(k)

ReplyAge == \A a \in Asks : pc[a] = "store" => now <= reply[a].at + Latency

(* The time to live of an ask's key.                                       *)
LEMMA TtlShape ==
    ASSUME TypeOK, NEW a \in Asks
    PROVE  Ttl(a) = KeyTtl(Key(a)) /\ Ttl(a) \in Nat \ {0}
<1>1. seen[a] # None => seen[a].rev \in Revisions
  BY DEF TypeOK, Values
<1> QED
  BY <1>1, KeyShape, CacheAssumption DEF Ttl, KeyTtl, Key, WantsProfile

(* A value of any source was read less than a time to live and a latency   *)
(* ago.                                                                    *)
LEMMA SourcedAge ==
    ASSUME TypeInv, CacheAge, ReplyAge, NEW a \in Asks, NEW v \in Values, Sourced(a, v)
    PROVE  now < v.at + Ttl(a) + Latency
<1>0. /\ now \in Nat /\ v.at \in Nat /\ Latency \in Nat
      /\ Ttl(a) \in Nat \ {0} /\ Ttl(a) = KeyTtl(Key(a)) /\ Key(a) \in Keys
  BY CacheAssumption, TtlShape, KeyType DEF TypeInv, TypeOK, Values
<1>1. CASE Live(Key(a)) /\ v = cache[Key(a)].value
  <2>1. cache[Key(a)].expires \in Nat /\ now < cache[Key(a)].expires
    BY <1>0, <1>1, LiveType DEF TypeInv, Entries
  <2>2. cache[Key(a)].expires <= v.at + Latency + Ttl(a)
    BY <1>0, <1>1 DEF CacheAge, Live
  <2> QED
    BY <1>0, <2>1, <2>2
<1>2. CASE pc[a] = "store" /\ v = reply[a]
  BY <1>0, <1>2 DEF ReplyAge
<1>3. CASE v \in Replies(a)
  BY <1>0, <1>3, RepliesType DEF TypeInv
<1> QED
  BY <1>1, <1>2, <1>3 DEF Sourced

(* A step of an ask keeps the ages.                                        *)
LEMMA AskStepAge ==
    ASSUME TypeInv, CacheAge, ReplyAge, NEW a \in Asks,
           Begin(a) \/ AskStep(a) \/ Cancel(a)
    PROVE  CacheAge' /\ ReplyAge'
<1>0. /\ Steady(a)
      /\ cache' = cache \/ (pc[a] = "store" /\ Put(a))
      /\ pc'[a] = "store" => reply'[a] \in Replies(a)
  BY AskEffects
<1>1. CacheAge'
  <2>1. CASE cache' = cache
    BY <2>1 DEF CacheAge, KeyTtl
  <2>2. CASE pc[a] = "store" /\ Put(a)
    <3>1. /\ cache'[Key(a)] = [value |-> reply[a], expires |-> now + Ttl(a)]
          /\ \A k \in Keys \ {Key(a)} : cache'[k] = cache[k]
      BY <2>2, PutType
    <3>2. now <= reply[a].at + Latency
      BY <2>2 DEF ReplyAge
    <3>3. now \in Nat /\ reply[a].at \in Nat /\ Ttl(a) \in Nat /\ Latency \in Nat
      BY <2>2, CacheAssumption, TtlShape DEF TypeInv, TypeOK, ReplyInv, Values
    <3>4. now + Ttl(a) <= reply[a].at + Latency + KeyTtl(Key(a))
      BY <3>2, <3>3, TtlShape DEF TypeInv
    <3> QED
      BY <3>1, <3>4 DEF CacheAge, KeyTtl
  <2> QED
    BY <1>0, <2>1, <2>2
<1>2. ReplyAge'
  <2>1. now' = now /\ now \in Nat /\ Latency \in Nat
    BY <1>0, CacheAssumption DEF Steady, TypeInv, TypeOK
  <2>2. pc'[a] = "store" => now' <= reply'[a].at + Latency
    BY <1>0, <2>1, RepliesType DEF TypeInv
  <2>3. \A b \in Asks \ {a} : pc'[b] = pc[b] /\ reply'[b] = reply[b]
    BY <1>0 DEF Steady
  <2> QED
    BY <2>1, <2>2, <2>3 DEF ReplyAge
<1> QED
  BY <1>1, <1>2

(* Time passes only while every reply on its way is within its latency.    *)
LEMMA OutsiderAge ==
    ASSUME TypeInv, CacheAge, ReplyAge, Survey \/ Tick \/ UNCHANGED vars
    PROVE  CacheAge' /\ ReplyAge'
<1>1. UNCHANGED <<cache, pc, reply>>
  BY DEF Survey, Tick, vars
<1>2. CacheAge'
  BY <1>1 DEF CacheAge, KeyTtl
<1>3. ReplyAge'
  <2>1. CASE now' = now
    BY <1>1, <2>1 DEF ReplyAge
  <2>2. CASE Tick
    <3>1. /\ now' = now + 1
          /\ \A a \in Asks : pc[a] = "store" => now < reply[a].at + Latency
      BY <2>2 DEF Tick
    <3>2. /\ now \in Nat /\ Latency \in Nat
          /\ \A a \in Asks : pc[a] = "store" => reply[a].at \in Nat
      BY CacheAssumption DEF TypeInv, TypeOK, ReplyInv, Values
    <3> QED
      BY <1>1, <3>1, <3>2 DEF ReplyAge
  <2> QED
    BY <2>1, <2>2 DEF Survey, vars
<1> QED
  BY <1>2, <1>3

(* A profile status or a recommendation is handed out for less than its    *)
(* time to live after the service read it, plus the time that reading took *)
(* to reach the cache (Cache.get's expiry, _cache_set's ttl).              *)
THEOREM BoundedStalenessHolds == Spec => BoundedStaleness
<1> DEFINE Ages == TypeInv /\ CacheAge /\ ReplyAge
           Young(a) ==
              /\ seen'[a] # seen[a] => now < seen'[a].at + ProfileTtl + Latency
              /\ recs'[a] # recs[a] => now < recs'[a].at + RecsTtl + Latency
<1>1. Init => Ages
  <2> SUFFICES ASSUME Init PROVE Ages
    OBVIOUS
  <2>1. CacheAge /\ ReplyAge
    BY DEF Init, CacheAge, ReplyAge
  <2> QED
    BY <2>1, InitType
<1>2. Ages /\ [Next]_vars => Ages'
  <2> SUFFICES ASSUME TypeInv, CacheAge, ReplyAge, [Next]_vars
               PROVE  TypeInv' /\ CacheAge' /\ ReplyAge'
    OBVIOUS
  <2>1. ASSUME Survey \/ Tick \/ UNCHANGED vars
        PROVE  CacheAge' /\ ReplyAge'
    BY <2>1, OutsiderAge
  <2>2. ASSUME NEW a \in Asks, Begin(a) \/ AskStep(a) \/ Cancel(a)
        PROVE  CacheAge' /\ ReplyAge'
    BY <2>2, AskStepAge
  <2> QED
    BY <2>1, <2>2, NextType DEF Next
<1>3. Ages /\ [Next]_vars => [\A a \in Asks : Young(a)]_vars
  <2> SUFFICES ASSUME TypeInv, CacheAge, ReplyAge, Next, NEW b \in Asks
               PROVE  Young(b)
    BY DEF vars
  <2>1. CASE Survey \/ Tick
    BY <2>1 DEF Survey, Tick
  <2>2. ASSUME NEW a \in Asks, Begin(a) \/ AskStep(a) \/ Cancel(a)
        PROVE  Young(b)
    <3>0. /\ Steady(a)
          /\ \/ seen' = seen /\ recs' = recs
             \/ \E v \in Values : v # None /\ Sourced(a, v) /\ Take(a, v)
      BY <2>2, AskEffects
    <3>1. CASE b # a
      BY <3>0, <3>1 DEF Steady
    <3>2. CASE seen' = seen /\ recs' = recs
      BY <3>2
    <3>3. CASE b = a /\ \E v \in Values : v # None /\ Sourced(a, v) /\ Take(a, v)
      <4>1. PICK v \in Values : v # None /\ Sourced(a, v) /\ Take(a, v)
        BY <3>3
      <4>2. now < v.at + Ttl(a) + Latency
        BY <4>1, SourcedAge
      <4>3. /\ WantsProfile(a) => seen'[a] = v /\ recs'[a] = recs[a]
            /\ ~WantsProfile(a) => recs'[a] = v /\ seen'[a] = seen[a]
        BY <4>1, TakeType DEF TypeInv
      <4> QED
        BY <3>3, <4>2, <4>3 DEF Ttl
    <3> QED
      BY <3>0, <3>1, <3>2, <3>3
  <2> QED
    BY <2>1, <2>2 DEF Next
<1> QED
  BY <1>1, <1>2, <1>3, PTL DEF Spec, BoundedStaleness

-----------------------------------------------------------------------------
(* Whoever fetches found nothing live under the key, and holds its lock.   *)
NothingLive == \A a \in Asks : pc[a] \in Filling => ~Live(Key(a))

OneProcess == \A a, b \in Asks : Home[a] = Home[b]

(* Asks of one process that fetch at the same time fetch different keys.   *)
LEMMA KeysDiffer ==
    ASSUME TypeInv, NEW a \in Asks, NEW b \in Asks \ {a}, Home[a] = Home[b],
           pc[a] \in Filling, pc[b] \in Filling
    PROVE  Key(a) # Key(b)
  BY DEF TypeInv, LockInv

(* A step of an ask leaves nothing live where another ask fetches.         *)
LEMMA AskStepLive ==
    ASSUME OneProcess, ~CacheFaults, TypeInv, NothingLive, NEW a \in Asks,
           Begin(a) \/ AskStep(a) \/ Cancel(a)
    PROVE  NothingLive'
<1>0. Steady(a) /\ (cache' = cache \/ (pc[a] = "store" /\ Put(a)))
  BY AskEffects
<1>1. ASSUME NEW b \in Asks \ {a}, pc'[b] \in Filling
      PROVE  ~Live(Key(b))'
  <2>1. /\ pc[b] \in Filling /\ ~Live(Key(b)) /\ Key(b)' = Key(b)
        /\ now' = now /\ Key(b) \in Keys
    BY <1>0, <1>1, OtherKeys, KeyType DEF Steady, NothingLive, TypeInv
  <2>2. cache'[Key(b)] = cache[Key(b)]
    <3>1. CASE cache' = cache
      BY <3>1
    <3>2. CASE pc[a] = "store" /\ Put(a)
      <4>1. Key(a) # Key(b)
        BY <2>1, <3>2, KeysDiffer DEF OneProcess, Filling
      <4> QED
        BY <2>1, <3>2, <4>1, PutType
    <3> QED
      BY <1>0, <3>1, <3>2
  <2> QED
    BY <2>1, <2>2 DEF Live
<1>2. ASSUME pc'[a] \in Filling
      PROVE  ~Live(Key(a))'
  <2>0. pc \in [Asks -> {"new", "peek", "wait"} \cup Filling \cup Ended]
    BY DEF TypeInv, TypeOK
  <2>1. /\ RecheckMiss(a) \/ Fill(a)
    <3>1. CASE PeekHit(a) \/ RecheckHit(a)
      <4>1. cache[Key(a)].value \in Values /\ cache[Key(a)].value # None
        BY <3>1, KeyType, LiveType DEF TypeInv, PeekHit, RecheckHit
      <4>2. pc'[a] \in {"peek", "done"}
        BY <3>1, <4>1, TakeType DEF TypeInv, PeekHit, RecheckHit
      <4> QED
        BY <1>2, <4>2 DEF Filling
    <3>2. CASE Bypass(a)
      <4>1. CASE \E v \in Replies(a) : Take(a, v)
        <5>1. pc'[a] \in {"peek", "done"}
          BY <4>1, RepliesType, TakeType DEF TypeInv
        <5> QED
          BY <1>2, <5>1 DEF Filling
      <4>2. CASE Goto(a, "done")
        BY <1>2, <2>0, <4>2 DEF Goto, Filling
      <4> QED
        BY <3>2, <4>1, <4>2 DEF Bypass
    <3>3. CASE Store(a)
      <4>1. pc[a] = "store" /\ Take(a, reply[a])
        BY <3>3 DEF Store
      <4>2. reply[a] \in Values /\ reply[a] # None
        BY <4>1 DEF TypeInv, TypeOK, ReplyInv
      <4>3. pc'[a] \in {"peek", "done"}
        BY <4>1, <4>2, TakeType DEF TypeInv
      <4> QED
        BY <1>2, <4>3 DEF Filling
    <3>4. CASE Begin(a) \/ PeekMiss(a) \/ FillFails(a) \/ Cancel(a)
      <4>1. \E l \in {"peek", "wait", "done", "failed"} : Goto(a, l)
        BY <3>4 DEF Begin, PeekMiss, FillFails, Cancel
      <4> QED
        BY <1>2, <2>0, <4>1 DEF Goto, Filling
    <3> QED
      BY <3>1, <3>2, <3>3, <3>4 DEF AskStep
  <2>2. UNCHANGED <<now, cache, seen>>
    BY <2>1 DEF RecheckMiss, Fill
  <2>3. ~Live(Key(a))
    BY <2>1 DEF RecheckMiss, Missed, Fill, NothingLive, Filling
  <2> QED
    BY <2>2, <2>3 DEF Live, Key, WantsProfile
<1> QED
  BY <1>1, <1>2 DEF NothingLive

(* Per-key locking prevents stampedes (_get_or_fill_locked): with one      *)
(* process and a cache that does not raise, a key is fetched by one ask at *)
(* a time and never while something live is stored under it.               *)
THEOREM SingleFlightHolds == OneProcess /\ ~CacheFaults => (Spec => []SingleFlight)
<1> SUFFICES ASSUME OneProcess, ~CacheFaults PROVE Spec => []SingleFlight
  OBVIOUS
<1>1. Init => TypeInv /\ NothingLive
  <2> SUFFICES ASSUME Init PROVE TypeInv /\ NothingLive
    OBVIOUS
  <2>1. NothingLive
    BY DEF Init, NothingLive, Filling
  <2> QED
    BY <2>1, InitType
<1>2. TypeInv /\ NothingLive /\ [Next]_vars => TypeInv' /\ NothingLive'
  <2> SUFFICES ASSUME TypeInv, NothingLive, [Next]_vars
               PROVE  TypeInv' /\ NothingLive'
    OBVIOUS
  <2>1. ASSUME Survey \/ Tick \/ UNCHANGED vars
        PROVE  NothingLive'
    <3>1. UNCHANGED <<cache, pc, seen>> /\ now' >= now /\ now \in Nat /\ now' \in Nat
      BY <2>1, CacheAssumption DEF Survey, Tick, vars, TypeInv, TypeOK
    <3>2. \A k \in Keys : cache[k] # None => cache[k].expires \in Nat
      BY DEF TypeInv, TypeOK, Entries
    <3>3. \A k \in Keys : Live(k)' => Live(k)
      BY <3>1, <3>2 DEF Live
    <3>4. \A a \in Asks : Key(a) \in Keys /\ Key(a)' = Key(a)
      BY <3>1, KeyType DEF TypeInv, Key, WantsProfile
    <3> QED
      BY <3>1, <3>2, <3>4 DEF NothingLive, Live
  <2>2. ASSUME NEW a \in Asks, Begin(a) \/ AskStep(a) \/ Cancel(a)
        PROVE  NothingLive'
    BY <2>2, AskStepLive
  <2> QED
    BY <2>1, <2>2, NextType DEF Next
<1>3. TypeInv /\ NothingLive => SingleFlight
  BY KeysDiffer DEF NothingLive, SingleFlight
<1> QED
  BY <1>1, <1>2, <1>3, PTL DEF Spec

-----------------------------------------------------------------------------
(* What the cache holds under the profile's key is as new as anything an   *)
(* ask was told, and no newer than what is on its way there.               *)
CachedBy(t) == cache[ProfileKey] # None /\ t <= cache[ProfileKey].value.at

Ordered ==
    /\ \A a \in Asks : seen[a] # None => CachedBy(seen[a].at)
    /\ \A a \in Asks : floor[a].at # 0 => CachedBy(floor[a].at)
    /\ \A a \in Asks : pc[a] = "store" => reply[a].at <= now
    /\ CachedBy(0) =>
          /\ cache[ProfileKey].value.at <= now
          /\ \A a \in Asks : pc[a] = "store" /\ WantsProfile(a) =>
                cache[ProfileKey].value.at <= reply[a].at

(* An ask that has not begun was told nothing.                             *)
Untold == \A a \in Asks : pc[a] = "new" => seen[a] = None

MonotonicInv == Ordered /\ Untold /\ MonotonicReads

(* The readings compared are natural numbers.                              *)
LEMMA ReadingType ==
    ASSUME TypeInv
    PROVE  /\ now \in Nat
           /\ cache[ProfileKey] # None =>
                 cache[ProfileKey].value.at \in Nat /\ CachedBy(0)
           /\ \A a \in Asks :
                 /\ floor[a].at \in Nat
                 /\ seen[a] # None => seen[a].at \in Nat
                 /\ pc[a] = "store" => reply[a].at \in Nat
<1>1. cache[ProfileKey] # None => cache[ProfileKey].value.at \in Nat
  BY KeyShape, CacheAssumption DEF TypeInv, TypeOK, Entries, Values
<1>2. cache[ProfileKey] # None => CachedBy(0)
  BY <1>1 DEF CachedBy
<1> QED
  BY <1>1, <1>2, CacheAssumption DEF TypeInv, TypeOK, ReplyInv, Values

(* An ask's key is the profile's exactly when it wants the profile.        *)
LEMMA ProfileKeyOnly ==
    ASSUME TypeOK, NEW a \in Asks
    PROVE  Key(a) = ProfileKey <=> WantsProfile(a)
<1>1. seen[a] # None => seen[a].rev \in Revisions
  BY DEF TypeOK, Values
<1> QED
  BY <1>1, KeyShape DEF Key, WantsProfile

(* What a step of an ask does under the profile's key: nothing, or it      *)
(* replaces the profile status by its own newer reply.                     *)
LEMMA ProfileEntry ==
    ASSUME TypeInv, NEW a \in Asks, Begin(a) \/ AskStep(a) \/ Cancel(a)
    PROVE  \/ cache'[ProfileKey] = cache[ProfileKey]
           \/ /\ pc[a] = "store" /\ WantsProfile(a)
              /\ cache'[ProfileKey] # None
              /\ cache'[ProfileKey].value = reply[a]
<1>1. CASE cache' = cache
  BY <1>1
<1>2. CASE pc[a] = "store" /\ Put(a)
  <2>1. /\ cache'[Key(a)] = [value |-> reply[a], expires |-> now + Ttl(a)]
        /\ \A k \in Keys \ {Key(a)} : cache'[k] = cache[k]
    BY <1>2, PutType
  <2>2. [value |-> reply[a], expires |-> now + Ttl(a)] # None
    <3>1. reply[a] \in Values /\ now + Ttl(a) \in Nat
      BY <1>2, CacheAssumption DEF TypeInv, TypeOK, ReplyInv, Ttl
    <3>2. [value |-> reply[a], expires |-> now + Ttl(a)] \in Entries
      BY <3>1 DEF Entries
    <3> QED
      BY <3>2, CacheAssumption
  <2>3. CASE WantsProfile(a)
    BY <1>2, <2>1, <2>2, <2>3, ProfileKeyOnly DEF TypeInv
  <2>4. CASE ~WantsProfile(a)
    BY <2>1, <2>4, ProfileKeyOnly, KeyShape DEF TypeInv
  <2> QED
    BY <2>3, <2>4
<1> QED
  BY <1>1, <1>2, AskEffects

(* An ask is told a profile status that is in the cache once it is told.   *)
LEMMA ToldFromCache ==
    ASSUME ~CacheFaults, TypeInv, NEW a \in Asks,
           Begin(a) \/ AskStep(a) \/ Cancel(a), seen'[a] # seen[a]
    PROVE  /\ WantsProfile(a)
           /\ cache'[ProfileKey] # None
           /\ seen'[a] = cache'[ProfileKey].value
<1>1. PeekHit(a) \/ RecheckHit(a) \/ Bypass(a) \/ Store(a)
  BY DEF AskStep, Begin, PeekMiss, RecheckMiss, Fill, FillFails, Cancel
<1>2. PICK v \in Values : v # None /\ Sourced(a, v) /\ Take(a, v)
  BY AskEffects
<1>3. WantsProfile(a) /\ seen'[a] = v
  BY <1>2, TakeType DEF TypeInv
<1>4. Key(a) = ProfileKey
  BY <1>3, ProfileKeyOnly DEF TypeInv
<1>5. CASE PeekHit(a) \/ RecheckHit(a)
  <2>1. /\ Live(Key(a)) /\ Take(a, cache[Key(a)].value) /\ cache' = cache
    BY <1>5 DEF PeekHit, RecheckHit
  <2>2. cache[ProfileKey].value \in Values /\ cache[ProfileKey].value # None
        /\ cache[ProfileKey] # None
    BY <1>4, <2>1, KeyType, LiveType DEF TypeInv
  <2>3. seen'[a] = cache[ProfileKey].value
    BY <1>3, <1>4, <2>1, <2>2, TakeType DEF TypeInv
  <2> QED
    BY <1>3, <2>1, <2>2, <2>3
<1>6. CASE Bypass(a)
  BY <1>3, <1>6 DEF Bypass, Bypassed
<1>7. CASE Store(a)
  <2>1. pc[a] = "store" /\ Put(a) /\ Take(a, reply[a])
    BY <1>3, <1>7 DEF Store, Cacheable
  <2>2. reply[a] \in Values /\ reply[a] # None
    BY <2>1 DEF TypeInv, TypeOK, ReplyInv
  <2>3. seen'[a] = reply[a]
    BY <1>3, <2>1, <2>2, TakeType DEF TypeInv
  <2>4. cache'[ProfileKey] = [value |-> reply[a], expires |-> now + Ttl(a)]
    BY <1>4, <2>1, PutType
  <2>5. cache'[ProfileKey] # None
    <3>1. now + Ttl(a) \in Nat
      BY CacheAssumption DEF TypeInv, TypeOK, Ttl
    <3>2. [value |-> reply[a], expires |-> now + Ttl(a)] \in Entries
      BY <2>2, <3>1 DEF Entries
    <3> QED
      BY <2>4, <3>2, CacheAssumption
  <2> QED
    BY <1>3, <2>3, <2>4, <2>5
<1> QED
  BY <1>1, <1>5, <1>6, <1>7

(* What an ask could know of when it began was seen by some ask.           *)
LEMMA FloorStep ==
    ASSUME TypeInv, NEW a \in Asks, Begin(a) \/ AskStep(a) \/ Cancel(a)
    PROVE  /\ \A b \in Asks \ {a} : floor'[b] = floor[b]
           /\ \/ floor'[a] = floor[a]
              \/ floor'[a].at = 0 /\ pc[a] = "new" /\ seen' = seen
              \/ \E b \in Asks : /\ seen[b] # None /\ floor'[a].at = seen[b].at
                                 /\ pc[a] = "new" /\ seen' = seen
<1>1. CASE Begin(a)
  <2>1. PICK t \in SeenTimes :
           floor' = [floor EXCEPT ![a] = [rev |-> profile.rev, at |-> t]]
    BY <1>1 DEF Begin
  <2>2. floor'[a].at = t /\ \A b \in Asks \ {a} : floor'[b] = floor[b]
    BY <2>1 DEF TypeInv, TypeOK
  <2>3. pc[a] = "new" /\ seen' = seen
    BY <1>1 DEF Begin
  <2> QED
    BY <2>2, <2>3 DEF SeenTimes
<1>2. CASE AskStep(a) \/ Cancel(a)
  BY <1>2 DEF AskStep, PeekHit, PeekMiss, Bypass, RecheckHit, RecheckMiss,
              Fill, FillFails, Store, Cancel
<1> QED
  BY <1>1, <1>2

(* A step of an ask never makes it new.                                    *)
LEMMA BegunStays ==
    ASSUME TypeInv, NEW a \in Asks, Begin(a) \/ AskStep(a) \/ Cancel(a)
    PROVE  pc'[a] # "new"
<1>0. pc \in [Asks -> {"new", "peek", "wait"} \cup Filling \cup Ended]
  BY DEF TypeInv, TypeOK
<1>1. CASE PeekHit(a) \/ RecheckHit(a) \/ Bypass(a) \/ Store(a)
  BY <1>0, <1>1 DEF PeekHit, RecheckHit, Bypass, Store, Take, Goto
<1>2. CASE Begin(a) \/ PeekMiss(a) \/ RecheckMiss(a) \/ Fill(a) \/ FillFails(a)
           \/ Cancel(a)
  BY <1>0, <1>2 DEF Begin, PeekMiss, RecheckMiss, Fill, FillFails, Cancel, Goto
<1> QED
  BY <1>1, <1>2 DEF AskStep

(* What the cache has under the profile's key only gets newer.             *)
LEMMA CachedStays ==
    ASSUME TypeInv, Ordered, NEW a \in Asks, Begin(a) \/ AskStep(a) \/ Cancel(a),
           NEW t \in Nat, CachedBy(t)
    PROVE  cache'[ProfileKey] # None /\ t <= cache'[ProfileKey].value.at
<1>1. CASE cache'[ProfileKey] = cache[ProfileKey]
  BY <1>1 DEF CachedBy
<1>2. CASE /\ pc[a] = "store" /\ WantsProfile(a)
           /\ cache'[ProfileKey] # None
           /\ cache'[ProfileKey].value = reply[a]
  <2>1. /\ t <= cache[ProfileKey].value.at /\ CachedBy(0)
        /\ cache[ProfileKey].value.at \in Nat /\ reply[a].at \in Nat
    BY <1>2, ReadingType DEF CachedBy
  <2>2. cache[ProfileKey].value.at <= reply[a].at
    BY <1>2, <2>1 DEF Ordered
  <2> QED
    BY <1>2, <2>1, <2>2 DEF CachedBy
<1> QED
  BY <1>1, <1>2, ProfileEntry

(* A step of an ask keeps the order of the readings.                       *)
LEMMA AskStepMonotonic ==
    ASSUME OneProcess, ~CacheFaults, TypeInv, MonotonicInv, NEW a \in Asks,
           Begin(a) \/ AskStep(a) \/ Cancel(a)
    PROVE  MonotonicInv'
<1>0. Ordered /\ Untold /\ MonotonicReads
  BY DEF MonotonicInv
<1>1. /\ Steady(a)
      /\ pc'[a] = "store" => reply'[a] \in Replies(a) /\ seen'[a] = seen[a]
  BY AskEffects
<1>2. TypeInv'
  BY NextType DEF Next
<1>3. \A t \in Nat : CachedBy(t) =>
         cache'[ProfileKey] # None /\ t <= cache'[ProfileKey].value.at
  BY <1>0, CachedStays
<1>4. \A b \in Asks : seen'[b] # None =>
         cache'[ProfileKey] # None /\ seen'[b].at <= cache'[ProfileKey].value.at
  <2> SUFFICES ASSUME NEW b \in Asks, seen'[b] # None
               PROVE  /\ cache'[ProfileKey] # None
                      /\ seen'[b].at <= cache'[ProfileKey].value.at
    OBVIOUS
  <2>1. CASE seen'[b] = seen[b]
    BY <1>0, <1>3, <2>1, ReadingType DEF Ordered
  <2>2. CASE seen'[b] # seen[b]
    <3>1. b = a
      BY <1>1, <2>2 DEF Steady
    <3>2. cache'[ProfileKey] # None /\ seen'[a] = cache'[ProfileKey].value
      BY <2>2, <3>1, ToldFromCache
    <3>3. seen'[a].at \in Nat
      BY <1>2, <3>1, CacheAssumption DEF TypeInv, TypeOK, Values
    <3> QED
      BY <3>1, <3>2, <3>3
  <2> QED
    BY <2>1, <2>2
<1>5. \A b \in Asks : floor'[b].at # 0 =>
         cache'[ProfileKey] # None /\ floor'[b].at <= cache'[ProfileKey].value.at
  <2> SUFFICES ASSUME NEW b \in Asks, floor'[b].at # 0
               PROVE  /\ cache'[ProfileKey] # None
                      /\ floor'[b].at <= cache'[ProfileKey].value.at
    OBVIOUS
  <2>1. CachedBy(floor'[b].at)
    BY <1>0, FloorStep, ReadingType DEF Ordered, CachedBy
  <2>2. floor'[b].at \in Nat
    BY <1>2, CacheAssumption DEF TypeInv, TypeOK
  <2> QED
    BY <1>3, <2>1, <2>2
<1>6. ASSUME CachedBy(0)'
      PROVE  /\ cache'[ProfileKey].value.at <= now'
             /\ \A b \in Asks : pc'[b] = "store" /\ WantsProfile(b)' =>
                   cache'[ProfileKey].value.at <= reply'[b].at
  <2>1. cache'[ProfileKey].value.at <= now'
    <3>1. CASE cache'[ProfileKey] = cache[ProfileKey]
      BY <1>0, <1>1, <1>6, <3>1 DEF Ordered, CachedBy, Steady
    <3>2. CASE pc[a] = "store" /\ cache'[ProfileKey].value = reply[a]
      BY <1>0, <1>1, <3>2 DEF Steady, Ordered
    <3> QED
      BY <3>1, <3>2, ProfileEntry
  <2>2. ASSUME NEW b \in Asks, pc'[b] = "store", WantsProfile(b)'
        PROVE  cache'[ProfileKey].value.at <= reply'[b].at
    <3>1. CASE b = a
      <4>1. reply'[a].at = now /\ now' = now
        BY <1>1, <2>2, <3>1, RepliesType DEF TypeInv, Steady
      <4> QED
        BY <2>1, <3>1, <4>1
    <3>2. CASE b # a
      <4>1. /\ pc[b] = "store" /\ WantsProfile(b) /\ reply'[b] = reply[b]
        BY <1>1, <2>2, <3>2 DEF Steady, WantsProfile
      <4>2. CASE cache'[ProfileKey] = cache[ProfileKey]
        BY <1>0, <1>6, <4>1, <4>2 DEF Ordered, CachedBy
      <4>3. CASE pc[a] = "store" /\ WantsProfile(a)
        <5>1. Key(a) # Key(b)
          BY <3>2, <4>1, <4>3, KeysDiffer DEF OneProcess, Filling
        <5> QED
          BY <4>1, <4>3, <5>1 DEF Key
      <4> QED
        BY <4>2, <4>3, ProfileEntry
    <3> QED
      BY <3>1, <3>2
  <2> QED
    BY <2>1, <2>2
<1>7. Untold'
  BY <1>0, <1>1, BegunStays DEF Untold, Steady
<1>8. MonotonicReads'
  <2> SUFFICES ASSUME NEW b \in Asks, seen'[b] # None
               PROVE  seen'[b].at >= floor'[b].at
    BY DEF MonotonicReads
  <2>1. CASE seen'[b] = seen[b] /\ floor'[b] = floor[b]
    BY <1>0, <2>1 DEF MonotonicReads
  <2>2. CASE seen'[b] # seen[b]
    <3>1. b = a
      BY <1>1, <2>2 DEF Steady
    <3>2. cache'[ProfileKey] # None /\ seen'[a] = cache'[ProfileKey].value
      BY <2>2, <3>1, ToldFromCache
    <3>3. floor'[a].at # 0 => floor'[a].at <= seen'[a].at
      BY <1>5, <3>2
    <3>4. seen'[a].at \in Nat
      BY <1>2, <2>2, <3>1, ReadingType, CacheAssumption DEF TypeInv, TypeOK, Values
    <3>5. floor'[a].at \in Nat
      BY <1>2, CacheAssumption DEF TypeInv, TypeOK
    <3> QED
      BY <3>1, <3>3, <3>4, <3>5
  <2>3. CASE seen'[b] = seen[b] /\ floor'[b] # floor[b]
    BY <1>0, <2>3, FloorStep DEF Untold
  <2> QED
    BY <2>1, <2>2, <2>3
<1>9. \A b \in Asks : pc'[b] = "store" => reply'[b].at <= now'
  <2>1. now' = now /\ now \in Nat
    BY <1>1, ReadingType DEF Steady
  <2>2. pc'[a] = "store" => reply'[a].at <= now'
    BY <1>1, <2>1, RepliesType DEF TypeInv
  <2>3. \A b \in Asks \ {a} : pc'[b] = "store" => reply'[b].at <= now'
    BY <1>0, <1>1, <2>1 DEF Steady, Ordered
  <2> QED
    BY <2>2, <2>3
<1>10. Ordered'
  BY <1>4, <1>5, <1>6, <1>9 DEF Ordered, CachedBy
<1> QED
  BY <1>7, <1>8, <1>10 DEF MonotonicInv

(* An ask never sees an older profile than one an earlier ask was told     *)
(* (get_profile_status): with one process and a cache that does not raise, *)
(* whatever expires, fails or is cancelled in between.                     *)
THEOREM MonotonicReadsHolds ==
    OneProcess /\ ~CacheFaults => (Spec => []MonotonicReads)
<1> SUFFICES ASSUME OneProcess, ~CacheFaults PROVE Spec => []MonotonicReads
  OBVIOUS
<1>1. Init => TypeInv /\ MonotonicInv
  <2> SUFFICES ASSUME Init PROVE TypeInv /\ MonotonicInv
    OBVIOUS
  <2>1. Ordered
    BY KeyShape DEF Init, Ordered, CachedBy
  <2>2. Untold /\ MonotonicReads
    BY DEF Init, Untold, MonotonicReads
  <2> QED
    BY <2>1, <2>2, InitType DEF MonotonicInv
<1>2. TypeInv /\ MonotonicInv /\ [Next]_vars => TypeInv' /\ MonotonicInv'
  <2> SUFFICES ASSUME TypeInv, MonotonicInv, [Next]_vars
               PROVE  TypeInv' /\ MonotonicInv'
    OBVIOUS
  <2>1. ASSUME Survey \/ Tick \/ UNCHANGED vars
        PROVE  MonotonicInv'
    <3>1. UNCHANGED <<cache, pc, reply, seen, floor>> /\ now' >= now /\ now' \in Nat
      BY <2>1, ReadingType DEF Survey, Tick, vars
    <3>2. cache[ProfileKey] # None => cache[ProfileKey].value.at \in Nat
      BY ReadingType
    <3>3. Ordered'
      BY <3>1, <3>2, ReadingType DEF MonotonicInv, Ordered, CachedBy, WantsProfile
    <3> QED
      BY <3>1, <3>3 DEF MonotonicInv, Untold, MonotonicReads
  <2>2. ASSUME NEW a \in Asks, Begin(a) \/ AskStep(a) \/ Cancel(a)
        PROVE  MonotonicInv'
    BY <2>2, AskStepMonotonic
  <2> QED
    BY <2>1, <2>2, NextType DEF Next
<1>3. MonotonicInv => MonotonicReads
  BY DEF MonotonicInv
<1> QED
  BY <1>1, <1>2, <1>3, PTL DEF Spec

-----------------------------------------------------------------------------
(* What the cache holds under a key of recommendations may be shared.      *)
SharedFresh ==
    Venue => \A r \in Revisions :
        cache[RecsKey(r)] # None => cache[RecsKey(r)].value.ok

(* Only venues that may be shared are put into the cache.                  *)
LEMMA AskStepFresh ==
    ASSUME TypeInv, SharedFresh, NEW a \in Asks,
           Begin(a) \/ AskStep(a) \/ Cancel(a)
    PROVE  SharedFresh'
<1>1. CASE cache' = cache
  BY <1>1 DEF SharedFresh
<1>2. CASE cache' # cache
  <2>1. pc[a] = "store" /\ Cacheable(a, reply[a]) /\ Put(a)
    BY <1>2 DEF AskStep, Begin, PeekHit, PeekMiss, Bypass, RecheckHit,
                RecheckMiss, Fill, FillFails, Store, Cancel
  <2>2. /\ cache'[Key(a)] = [value |-> reply[a], expires |-> now + Ttl(a)]
        /\ \A k \in Keys \ {Key(a)} : cache'[k] = cache[k]
    BY <2>1, PutType
  <2>3. ASSUME Venue, NEW r \in Revisions, Key(a) = RecsKey(r)
        PROVE  reply[a].ok
    BY <2>1, <2>3, KeyShape DEF Cacheable, Key
  <2> QED
    BY <2>2, <2>3, KeyShape DEF SharedFresh
<1> QED
  BY <1>1, <1>2

(* Stale or unavailable venues (_venue_response_cacheable) reach the ask   *)
(* that fetched them and no other one, for any number of processes sharing *)
(* the cache and whatever faults.                                          *)
THEOREM StaleVenuesUnsharedHolds == Spec => StaleVenuesUnshared
<1> DEFINE Own(a) == recs'[a] # recs[a] /\ ~recs'[a].ok =>
                         recs'[a] = reply[a] \/ Bypassed(a)
<1>1. Init => TypeInv /\ SharedFresh
  <2> SUFFICES ASSUME Init PROVE TypeInv /\ SharedFresh
    OBVIOUS
  <2>1. SharedFresh
    BY KeyShape DEF Init, SharedFresh
  <2> QED
    BY <2>1, InitType
<1>2. TypeInv /\ SharedFresh /\ [Next]_vars => TypeInv' /\ SharedFresh'
  <2> SUFFICES ASSUME TypeInv, SharedFresh, [Next]_vars
               PROVE  TypeInv' /\ SharedFresh'
    OBVIOUS
  <2>1. ASSUME Survey \/ Tick \/ UNCHANGED vars PROVE SharedFresh'
    BY <2>1 DEF Survey, Tick, vars, SharedFresh
  <2>2. ASSUME NEW a \in Asks, Begin(a) \/ AskStep(a) \/ Cancel(a)
        PROVE  SharedFresh'
    BY <2>2, AskStepFresh
  <2> QED
    BY <2>1, <2>2, NextType DEF Next
<1>3. TypeInv /\ SharedFresh /\ [Next]_vars =>
          [Venue => \A a \in Asks : Own(a)]_vars
  <2> SUFFICES ASSUME TypeInv, SharedFresh, Next, Venue, NEW b \in Asks,
                      recs'[b] # recs[b], ~recs'[b].ok, ~Bypassed(b)
               PROVE  recs'[b] = reply[b]
    BY DEF vars
  <2>1. CASE Survey \/ Tick
    BY <2>1 DEF Survey, Tick
  <2>2. ASSUME NEW a \in Asks, Begin(a) \/ AskStep(a) \/ Cancel(a)
        PROVE  recs'[b] = reply[b]
    <3>1. b = a
      BY <2>2, AskEffects DEF Steady
    <3>2. PeekHit(a) \/ RecheckHit(a) \/ Store(a)
      BY <2>2, <3>1 DEF AskStep, Begin, PeekMiss, Bypass, RecheckMiss, Fill,
                        FillFails, Cancel
    <3>3. CASE PeekHit(a) \/ RecheckHit(a)
      <4>1. Live(Key(a)) /\ Take(a, cache[Key(a)].value)
        BY <3>3 DEF PeekHit, RecheckHit
      <4>2. cache[Key(a)].value \in Values /\ cache[Key(a)].value # None
            /\ cache[Key(a)] # None
        BY <4>1, KeyType, LiveType DEF TypeInv
      <4>3. ~WantsProfile(a) /\ recs'[a] = cache[Key(a)].value
        BY <3>1, <4>1, <4>2, TakeType DEF TypeInv
      <4>4. \E r \in Revisions : Key(a) = RecsKey(r)
        BY <4>3 DEF Key, WantsProfile, TypeInv, TypeOK, Values
      <4>5. cache[Key(a)].value.ok
        BY <4>2, <4>4 DEF SharedFresh
      <4> QED
        BY <3>1, <4>3, <4>5
    <3>4. CASE Store(a)
      <4>1. pc[a] = "store" /\ Take(a, reply[a])
        BY <3>4 DEF Store
      <4>2. reply[a] \in Values /\ reply[a] # None
        BY <4>1 DEF TypeInv, TypeOK, ReplyInv
      <4> QED
        BY <3>1, <4>1, <4>2, TakeType DEF TypeInv
    <3> QED
      BY <3>2, <3>3, <3>4
  <2> QED
    BY <2>1, <2>2 DEF Next
<1> QED
  BY <1>1, <1>2, <1>3, PTL DEF Spec, StaleVenuesUnshared

=============================================================================
