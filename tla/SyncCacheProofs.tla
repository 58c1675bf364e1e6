--------------------------- MODULE SyncCacheProofs ---------------------------
(***************************************************************************)
(* Proofs about SyncCache, for every set of calls, TTL, skew, timeout and   *)
(* set of token lifetimes.                                                  *)
(*                                                                          *)
(* None of the safety properties is inductive alone.  Single flight rests   *)
(* on LockInv: whoever refreshes is the head of the lock's queue.  The      *)
(* freshness of what a call reads after it dropped both locks rests on      *)
(* ReadInv and FlightInv together: a call at the read may have its vault    *)
(* replaced, but only by a fetch that began after the call had checked the  *)
(* cache, because no fetch is in flight while the cache is fresh.           *)
(***************************************************************************)
EXTENDS SyncCache, SequenceTheorems, FiniteSetTheorems, TLAPS

-----------------------------------------------------------------------------
(* The inductive invariant.                                                 *)

\* A vault's timestamps are ordered and within one request timeout.
WellTimed(v) ==
    /\ v.snapshotAt <= v.fetched_at
    /\ v.fetched_at <= v.snapshotAt + RequestTimeout
    /\ v.fetched_at <= now

\* Whoever refreshes holds the refresh lock.
LockInv == \A r \in Req : Refreshing(r) => Holds(r)

\* The cached vault and the start times are in the past.
ClockInv ==
    /\ cache # None => WellTimed(cache)
    /\ \A r \in Req : startedAt[r] <= now

\* A refresh is newer than the cached vault and than the call's own start.
FlightInv ==
    \A q \in Req :
        /\ pc[q] \in {"login", "sync"} =>
              /\ sentAt[q] <= now
              /\ now <= sentAt[q] + RequestTimeout
              /\ startedAt[q] <= sentAt[q]
              /\ cache # None => cache.fetched_at <= sentAt[q]
        /\ pc[q] = "store" =>
              /\ fetched[q] \in CachedVault
              /\ WellTimed(fetched[q])
              /\ startedAt[q] <= fetched[q].snapshotAt
              /\ cache # None => cache.fetched_at <= fetched[q].snapshotAt

\* A call about to read finds a vault, fresh for it; every refresh in flight
\* was sent after the call began.
ReadInv ==
    \A r \in Req : pc[r] = "read" =>
        /\ cache # None
        /\ cache.fetched_at >= startedAt[r] \/ IsFreshAt(cache, startedAt[r])
        /\ ttl = 0 => cache.snapshotAt >= startedAt[r]
        /\ \A q \in Req :
              /\ pc[q] \in {"login", "sync"} => startedAt[r] <= sentAt[q]
              /\ pc[q] = "store" => startedAt[r] <= fetched[q].snapshotAt

\* What was served was fresh when it was read.
ServedInv ==
    \A r \in Req :
        /\ pc[r] = "idle" => served[r] = None
        /\ served[r] # None =>
              /\ WellTimed(served[r])
              /\ \/ served[r].fetched_at >= startedAt[r]
                 \/ IsFreshAt(served[r], startedAt[r])
              /\ ttl = 0 => served[r].snapshotAt >= startedAt[r]

Inv ==
    /\ TypeOK
    /\ LockInv
    /\ NoRedundantRefresh
    /\ ClockInv
    /\ FlightInv
    /\ ReadInv
    /\ NeverMissingCachedSync
    /\ ServedInv
-----------------------------------------------------------------------------
(* The queue of the refresh lock.                                           *)

\* Dropping a waiter that is not at the head keeps the queue well formed and
\* its head, the holder, where it is.
LEMMA RemoveAtKeepsHead ==
    ASSUME NEW S, NEW s \in Seq(S), NEW i \in 1 .. Len(s)
    PROVE  /\ RemoveAt(s, i) \in Seq(S)
           /\ i # 1 => RemoveAt(s, i) # <<>> /\ Head(RemoveAt(s, i)) = Head(s)
<1> DEFINE front == SubSeq(s, 1, i - 1)
           back == SubSeq(s, i + 1, Len(s))
<1>1. front \in Seq(S) /\ Len(front) = i - 1
  OBVIOUS
<1>2. back \in Seq(S)
  OBVIOUS
<1>3. i # 1 => front[1] = s[1]
  OBVIOUS
<1>4. RemoveAt(s, i) = front \o back
  BY DEF RemoveAt
<1>5. s # <<>>
  OBVIOUS
<1> HIDE DEF front, back
<1>6. Len(back) \in Nat
  BY <1>2
<1>7. RemoveAt(s, i) \in Seq(S) /\ Len(RemoveAt(s, i)) = i - 1 + Len(back)
  BY <1>1, <1>2, <1>4, ConcatProperties
<1>8. i # 1 => RemoveAt(s, i)[1] = front[1]
  BY <1>1, <1>2, <1>4, <1>6, ConcatProperties
<1>9. i # 1 => RemoveAt(s, i) # <<>>
  BY <1>6, <1>7
<1> QED  BY <1>3, <1>5, <1>7, <1>8, <1>9

-----------------------------------------------------------------------------
(* Type correctness.                                                        *)

\* A vault built by CachedVault::new has the type of a cached vault.
LEMMA NewCachedVaultType ==
    ASSUME NEW e \in Nat \cup {None}, NEW s \in Nat, NEW f \in Nat
    PROVE  NewCachedVault(e, s, f) \in CachedVault
BY TimeAssumption, NoneAssumption DEF NewCachedVault, ExpiresAt, CachedVault

\* Every step of the client keeps the types of its state.
LEMMA TypeStep == TypeOK /\ LockInv /\ [Next]_vars => TypeOK'
<1> SUFFICES ASSUME TypeOK, LockInv, [Next]_vars PROVE TypeOK'
  OBVIOUS
<1> USE DEF TypeOK, Goto, Active, Final, metrics
<1>1. ASSUME NEW r \in Req, Resolve(r) PROVE TypeOK'
  BY <1>1 DEF Resolve
<1>2. ASSUME NEW r \in Req, CheckHit(r) PROVE TypeOK'
  BY <1>2 DEF CheckHit
<1>3. ASSUME NEW r \in Req, CheckMiss(r) PROVE TypeOK'
  BY <1>3 DEF CheckMiss
<1>4. ASSUME NEW r \in Req, Enqueue(r) PROVE TypeOK'
  BY <1>4 DEF Enqueue
<1>5. ASSUME NEW r \in Req, RecheckHit(r) PROVE TypeOK'
  BY <1>5 DEF RecheckHit, ReleaseRefreshLock, LockInv, Holds, Refreshing
<1>6. ASSUME NEW r \in Req, RecheckMiss(r) PROVE TypeOK'
  BY <1>6 DEF RecheckMiss
<1>7. ASSUME NEW r \in Req, LoginReply(r) PROVE TypeOK'
  BY <1>7, ExpiresInAssumption DEF LoginReply
<1>8. ASSUME NEW r \in Req, Unlock(r) PROVE TypeOK'
  BY <1>8 DEF Unlock
<1>9. ASSUME NEW r \in Req, SyncReply(r) PROVE TypeOK'
  <2> PICK snapshotAt \in sentAt[r] .. now :
          fetched' = [fetched EXCEPT
                        ![r] = NewCachedVault(session[r], snapshotAt, now)]
    BY <1>9 DEF SyncReply
  <2>1. session[r] \in Nat \cup {None} /\ snapshotAt \in Nat /\ now \in Nat
    OBVIOUS
  <2>2. NewCachedVault(session[r], snapshotAt, now) \in CachedVault
    BY <2>1, NewCachedVaultType
  <2> QED  BY <1>9, <2>2 DEF SyncReply
<1>10. ASSUME NEW r \in Req, FetchFails(r) PROVE TypeOK'
  BY <1>10 DEF FetchFails, ReleaseRefreshLock, LockInv, Holds, Refreshing
<1>11. ASSUME NEW r \in Req, Store(r) PROVE TypeOK'
  BY <1>11 DEF Store, ReleaseRefreshLock, LockInv, Holds, Refreshing
<1>12. ASSUME NEW r \in Req, ReadCache(r) PROVE TypeOK'
  BY <1>12 DEF ReadCache
<1>13. ASSUME NEW r \in Req, CancelUnqueued(r) PROVE TypeOK'
  BY <1>13 DEF CancelUnqueued
<1>14. ASSUME NEW r \in Req, CancelWaiting(r) PROVE TypeOK'
  BY <1>14, RemoveAtKeepsHead DEF CancelWaiting
<1>15. ASSUME NEW r \in Req, CancelRefreshing(r) PROVE TypeOK'
  BY <1>15
     DEF CancelRefreshing, ReleaseRefreshLock, LockInv, Holds, Refreshing
<1>16. CASE Tick
  BY <1>16 DEF Tick
<1>17. CASE UNCHANGED vars
  BY <1>17 DEF vars
<1> QED
  BY <1>1, <1>2, <1>3, <1>4, <1>5, <1>6, <1>7, <1>8, <1>9, <1>10, <1>11,
     <1>12, <1>13, <1>14, <1>15, <1>16, <1>17
     DEF Next, Progress, Cancel, Quiescent
-----------------------------------------------------------------------------
(* The inductive steps.                                                     *)

\* The head of the queue is unique, hence so is the call that refreshes.
LEMMA HolderIsUnique == LockInv => SingleFlight
BY DEF LockInv, SingleFlight, Holds

\* Every step leaves the refresh lock with whoever refreshes.
LEMMA LockStep == TypeOK /\ LockInv /\ [Next]_vars => LockInv'
<1> SUFFICES ASSUME TypeOK, LockInv, [Next]_vars PROVE LockInv'
  OBVIOUS
<1> USE DEF LockInv, TypeOK, Refreshing, Holds, Goto, metrics
<1>1. ASSUME NEW r \in Req, Resolve(r) PROVE LockInv'
  BY <1>1 DEF Resolve
<1>2. ASSUME NEW r \in Req, CheckHit(r) PROVE LockInv'
  BY <1>2 DEF CheckHit
<1>3. ASSUME NEW r \in Req, CheckMiss(r) PROVE LockInv'
  BY <1>3 DEF CheckMiss
<1>4. ASSUME NEW r \in Req, Enqueue(r) PROVE LockInv'
  <2>1. /\ refresh_lock' = Append(refresh_lock, r)
        /\ pc' = [pc EXCEPT ![r] = "wait"]
    BY <1>4 DEF Enqueue
  <2>2. refresh_lock # <<>> => Head(refresh_lock') = Head(refresh_lock)
    BY <2>1
  <2>3. refresh_lock' # <<>>
    BY <2>1
  <2> QED  BY <2>1, <2>2, <2>3
<1>5. ASSUME NEW r \in Req, RecheckHit(r) PROVE LockInv'
  BY <1>5 DEF RecheckHit, ReleaseRefreshLock
<1>6. ASSUME NEW r \in Req, RecheckMiss(r) PROVE LockInv'
  BY <1>6 DEF RecheckMiss
<1>7. ASSUME NEW r \in Req, LoginReply(r) PROVE LockInv'
  BY <1>7 DEF LoginReply
<1>8. ASSUME NEW r \in Req, Unlock(r) PROVE LockInv'
  BY <1>8 DEF Unlock
<1>9. ASSUME NEW r \in Req, SyncReply(r) PROVE LockInv'
  BY <1>9 DEF SyncReply
<1>10. ASSUME NEW r \in Req, FetchFails(r) PROVE LockInv'
  BY <1>10 DEF FetchFails, ReleaseRefreshLock
<1>11. ASSUME NEW r \in Req, Store(r) PROVE LockInv'
  BY <1>11 DEF Store, ReleaseRefreshLock
<1>12. ASSUME NEW r \in Req, ReadCache(r) PROVE LockInv'
  BY <1>12 DEF ReadCache
<1>13. ASSUME NEW r \in Req, CancelUnqueued(r) PROVE LockInv'
  BY <1>13 DEF CancelUnqueued
<1>14. ASSUME NEW r \in Req, CancelWaiting(r) PROVE LockInv'
  <2> PICK i \in 1 .. Len(refresh_lock) :
          refresh_lock[i] = r /\ refresh_lock' = RemoveAt(refresh_lock, i)
    BY <1>14 DEF CancelWaiting
  <2>1. CASE i = 1
    BY <1>14, <2>1 DEF CancelWaiting
  <2>2. CASE i # 1
    BY <1>14, <2>2, RemoveAtKeepsHead DEF CancelWaiting
  <2> QED  BY <2>1, <2>2
<1>15. ASSUME NEW r \in Req, CancelRefreshing(r) PROVE LockInv'
  BY <1>15 DEF CancelRefreshing, ReleaseRefreshLock
<1>16. CASE Tick
  BY <1>16 DEF Tick
<1>17. CASE UNCHANGED vars
  BY <1>17 DEF vars
<1> QED
  BY <1>1, <1>2, <1>3, <1>4, <1>5, <1>6, <1>7, <1>8, <1>9, <1>10, <1>11,
     <1>12, <1>13, <1>14, <1>15, <1>16, <1>17
     DEF Next, Progress, Cancel, Quiescent

\* No step makes the cache fresh while another call refreshes.
LEMMA RefreshNeededStep ==
    TypeOK /\ LockInv /\ NoRedundantRefresh /\ [Next]_vars
        => NoRedundantRefresh'
<1> SUFFICES ASSUME TypeOK, LockInv, NoRedundantRefresh, [Next]_vars
             PROVE  NoRedundantRefresh'
  OBVIOUS
<1> USE DEF NoRedundantRefresh, TypeOK, Refreshing, HasFreshCache, IsFreshAt,
            Goto, metrics
<1>1. ASSUME NEW r \in Req, Resolve(r) PROVE NoRedundantRefresh'
  BY <1>1 DEF Resolve
<1>2. ASSUME NEW r \in Req, CheckHit(r) PROVE NoRedundantRefresh'
  BY <1>2 DEF CheckHit
<1>3. ASSUME NEW r \in Req, CheckMiss(r) PROVE NoRedundantRefresh'
  BY <1>3 DEF CheckMiss
<1>4. ASSUME NEW r \in Req, Enqueue(r) PROVE NoRedundantRefresh'
  BY <1>4 DEF Enqueue
<1>5. ASSUME NEW r \in Req, RecheckHit(r) PROVE NoRedundantRefresh'
  BY <1>5 DEF RecheckHit
<1>6. ASSUME NEW r \in Req, RecheckMiss(r) PROVE NoRedundantRefresh'
  BY <1>6 DEF RecheckMiss
<1>7. ASSUME NEW r \in Req, LoginReply(r) PROVE NoRedundantRefresh'
  BY <1>7 DEF LoginReply
<1>8. ASSUME NEW r \in Req, Unlock(r) PROVE NoRedundantRefresh'
  BY <1>8 DEF Unlock
<1>9. ASSUME NEW r \in Req, SyncReply(r) PROVE NoRedundantRefresh'
  BY <1>9 DEF SyncReply
<1>10. ASSUME NEW r \in Req, FetchFails(r) PROVE NoRedundantRefresh'
  BY <1>10 DEF FetchFails
<1>11. ASSUME NEW r \in Req, Store(r) PROVE NoRedundantRefresh'
  BY <1>11, HolderIsUnique DEF Store, SingleFlight
<1>12. ASSUME NEW r \in Req, ReadCache(r) PROVE NoRedundantRefresh'
  BY <1>12 DEF ReadCache
<1>13. ASSUME NEW r \in Req, CancelUnqueued(r) PROVE NoRedundantRefresh'
  BY <1>13 DEF CancelUnqueued
<1>14. ASSUME NEW r \in Req, CancelWaiting(r) PROVE NoRedundantRefresh'
  BY <1>14 DEF CancelWaiting
<1>15. ASSUME NEW r \in Req, CancelRefreshing(r) PROVE NoRedundantRefresh'
  BY <1>15 DEF CancelRefreshing
<1>16. CASE Tick
  <2>1. /\ now \in Nat /\ now' = now + 1 /\ ttl \in Nat /\ ttl' = ttl
        /\ cache' = cache /\ pc' = pc
    BY <1>16 DEF Tick
  <2>2. ASSUME HasFreshCache' PROVE HasFreshCache
    <3>1. cache \in CachedVault /\ IsFreshAt(cache, now + 1)
      BY <2>1, <2>2
    <3>2. IsFreshAt(cache, now)
      BY <2>1, <3>1, TimeAssumption, NoneAssumption DEF CachedVault
    <3> QED  BY <3>1, <3>2, NoneIsNoVault
  <2> QED  BY <2>1, <2>2
<1>17. CASE UNCHANGED vars
  BY <1>17 DEF vars
<1> QED
  BY <1>1, <1>2, <1>3, <1>4, <1>5, <1>6, <1>7, <1>8, <1>9, <1>10, <1>11,
     <1>12, <1>13, <1>14, <1>15, <1>16, <1>17
     DEF Next, Progress, Cancel, Quiescent

\* No step moves a timestamp into the future.
LEMMA ClockStep == TypeOK /\ ClockInv /\ FlightInv /\ [Next]_vars => ClockInv'
<1> SUFFICES ASSUME TypeOK, ClockInv, FlightInv, [Next]_vars PROVE ClockInv'
  OBVIOUS
<1> USE DEF ClockInv, TypeOK, WellTimed, CachedVault, Goto, metrics
<1>1. ASSUME NEW r \in Req, Resolve(r) PROVE ClockInv'
  BY <1>1 DEF Resolve
<1>2. ASSUME NEW r \in Req, CheckHit(r) PROVE ClockInv'
  BY <1>2 DEF CheckHit
<1>3. ASSUME NEW r \in Req, CheckMiss(r) PROVE ClockInv'
  BY <1>3 DEF CheckMiss
<1>4. ASSUME NEW r \in Req, Enqueue(r) PROVE ClockInv'
  BY <1>4 DEF Enqueue
<1>5. ASSUME NEW r \in Req, RecheckHit(r) PROVE ClockInv'
  BY <1>5 DEF RecheckHit
<1>6. ASSUME NEW r \in Req, RecheckMiss(r) PROVE ClockInv'
  BY <1>6 DEF RecheckMiss
<1>7. ASSUME NEW r \in Req, LoginReply(r) PROVE ClockInv'
  BY <1>7 DEF LoginReply
<1>8. ASSUME NEW r \in Req, Unlock(r) PROVE ClockInv'
  BY <1>8 DEF Unlock
<1>9. ASSUME NEW r \in Req, SyncReply(r) PROVE ClockInv'
  BY <1>9 DEF SyncReply
<1>10. ASSUME NEW r \in Req, FetchFails(r) PROVE ClockInv'
  BY <1>10 DEF FetchFails
<1>11. ASSUME NEW r \in Req, Store(r) PROVE ClockInv'
  BY <1>11 DEF Store, FlightInv
<1>12. ASSUME NEW r \in Req, ReadCache(r) PROVE ClockInv'
  BY <1>12 DEF ReadCache
<1>13. ASSUME NEW r \in Req, CancelUnqueued(r) PROVE ClockInv'
  BY <1>13 DEF CancelUnqueued
<1>14. ASSUME NEW r \in Req, CancelWaiting(r) PROVE ClockInv'
  BY <1>14 DEF CancelWaiting
<1>15. ASSUME NEW r \in Req, CancelRefreshing(r) PROVE ClockInv'
  BY <1>15 DEF CancelRefreshing
<1>16. CASE Tick
  BY <1>16 DEF Tick
<1>17. CASE UNCHANGED vars
  BY <1>17 DEF vars
<1> QED
  BY <1>1, <1>2, <1>3, <1>4, <1>5, <1>6, <1>7, <1>8, <1>9, <1>10, <1>11,
     <1>12, <1>13, <1>14, <1>15, <1>16, <1>17
     DEF Next, Progress, Cancel, Quiescent

\* A refresh stays newer than the vault it will replace.
LEMMA FlightStep ==
    TypeOK /\ SingleFlight /\ ClockInv /\ FlightInv /\ [Next]_vars
        => FlightInv'
<1> SUFFICES ASSUME TypeOK, SingleFlight, ClockInv, FlightInv, [Next]_vars
             PROVE  FlightInv'
  OBVIOUS
<1> USE DEF FlightInv, ClockInv, TypeOK, WellTimed, CachedVault, Goto, metrics
<1>1. ASSUME NEW r \in Req, Resolve(r) PROVE FlightInv'
  BY <1>1 DEF Resolve
<1>2. ASSUME NEW r \in Req, CheckHit(r) PROVE FlightInv'
  BY <1>2 DEF CheckHit
<1>3. ASSUME NEW r \in Req, CheckMiss(r) PROVE FlightInv'
  BY <1>3 DEF CheckMiss
<1>4. ASSUME NEW r \in Req, Enqueue(r) PROVE FlightInv'
  BY <1>4 DEF Enqueue
<1>5. ASSUME NEW r \in Req, RecheckHit(r) PROVE FlightInv'
  BY <1>5 DEF RecheckHit
<1>6. ASSUME NEW r \in Req, RecheckMiss(r) PROVE FlightInv'
  BY <1>6, TimeAssumption DEF RecheckMiss
<1>7. ASSUME NEW r \in Req, LoginReply(r) PROVE FlightInv'
  BY <1>7 DEF LoginReply
<1>8. ASSUME NEW r \in Req, Unlock(r) PROVE FlightInv'
  BY <1>8, TimeAssumption DEF Unlock
<1>9. ASSUME NEW r \in Req, SyncReply(r) PROVE FlightInv'
  <2> PICK snapshotAt \in sentAt[r] .. now :
          fetched' = [fetched EXCEPT
                        ![r] = NewCachedVault(session[r], snapshotAt, now)]
    BY <1>9 DEF SyncReply
  <2>1. session[r] \in Nat \cup {None} /\ snapshotAt \in Nat /\ now \in Nat
    OBVIOUS
  <2>2. fetched'[r] = NewCachedVault(session[r], snapshotAt, now)
    OBVIOUS
  <2>3. fetched'[r] \in CachedVault
    BY <2>1, <2>2, NewCachedVaultType
  <2>4. fetched'[r].snapshotAt = snapshotAt /\ fetched'[r].fetched_at = now
    BY <2>2 DEF NewCachedVault
  <2> QED  BY <1>9, <2>1, <2>3, <2>4, TimeAssumption DEF SyncReply
<1>10. ASSUME NEW r \in Req, FetchFails(r) PROVE FlightInv'
  BY <1>10 DEF FetchFails
<1>11. ASSUME NEW r \in Req, Store(r) PROVE FlightInv'
  BY <1>11 DEF Store, SingleFlight, Refreshing
<1>12. ASSUME NEW r \in Req, ReadCache(r) PROVE FlightInv'
  BY <1>12 DEF ReadCache
<1>13. ASSUME NEW r \in Req, CancelUnqueued(r) PROVE FlightInv'
  BY <1>13 DEF CancelUnqueued
<1>14. ASSUME NEW r \in Req, CancelWaiting(r) PROVE FlightInv'
  BY <1>14 DEF CancelWaiting
<1>15. ASSUME NEW r \in Req, CancelRefreshing(r) PROVE FlightInv'
  BY <1>15 DEF CancelRefreshing
<1>16. CASE Tick
  BY <1>16, TimeAssumption DEF Tick
<1>17. CASE UNCHANGED vars
  BY <1>17 DEF vars
<1> QED
  BY <1>1, <1>2, <1>3, <1>4, <1>5, <1>6, <1>7, <1>8, <1>9, <1>10, <1>11,
     <1>12, <1>13, <1>14, <1>15, <1>16, <1>17
     DEF Next, Progress, Cancel, Quiescent

\* What a call is about to read stays fresh for it.
LEMMA ReadStep == 
    /\ TypeOK /\ SingleFlight /\ NoRedundantRefresh /\ ClockInv /\ FlightInv
    /\ ReadInv /\ [Next]_vars
    => ReadInv'
<1> SUFFICES ASSUME TypeOK, SingleFlight, NoRedundantRefresh, ClockInv,
                    FlightInv, ReadInv, [Next]_vars PROVE ReadInv'
  OBVIOUS
<1> USE DEF ReadInv, TypeOK, ClockInv, FlightInv, IsFreshAt, CachedVault, Goto,
            metrics
<1>1. ASSUME NEW r \in Req, Resolve(r) PROVE ReadInv'
  BY <1>1 DEF Resolve
<1>2. ASSUME NEW r \in Req, CheckHit(r) PROVE ReadInv'
  BY <1>2, TimeAssumption, NoneAssumption
     DEF CheckHit, HasFreshCache, IsFreshAt, NoRedundantRefresh, Refreshing
<1>3. ASSUME NEW r \in Req, CheckMiss(r) PROVE ReadInv'
  BY <1>3 DEF CheckMiss
<1>4. ASSUME NEW r \in Req, Enqueue(r) PROVE ReadInv'
  BY <1>4 DEF Enqueue
<1>5. ASSUME NEW r \in Req, RecheckHit(r) PROVE ReadInv'
  BY <1>5, TimeAssumption, NoneAssumption
     DEF RecheckHit, HasFreshCache, IsFreshAt, NoRedundantRefresh,
         Refreshing
<1>6. ASSUME NEW r \in Req, RecheckMiss(r) PROVE ReadInv'
  BY <1>6 DEF RecheckMiss
<1>7. ASSUME NEW r \in Req, LoginReply(r) PROVE ReadInv'
  BY <1>7 DEF LoginReply
<1>8. ASSUME NEW r \in Req, Unlock(r) PROVE ReadInv'
  BY <1>8 DEF Unlock
<1>9. ASSUME NEW r \in Req, SyncReply(r) PROVE ReadInv'
  <2> PICK snapshotAt \in sentAt[r] .. now :
          fetched' = [fetched EXCEPT
                        ![r] = NewCachedVault(session[r], snapshotAt, now)]
    BY <1>9 DEF SyncReply
  <2>1. fetched'[r] = NewCachedVault(session[r], snapshotAt, now)
    OBVIOUS
  <2>2. fetched'[r].snapshotAt = snapshotAt /\ snapshotAt >= sentAt[r]
    BY <2>1 DEF NewCachedVault
  <2> QED  BY <1>9, <2>2 DEF SyncReply, IsFreshAt
<1>10. ASSUME NEW r \in Req, FetchFails(r) PROVE ReadInv'
  BY <1>10 DEF FetchFails
<1>11. ASSUME NEW r \in Req, Store(r) PROVE ReadInv'
  BY <1>11, TimeAssumption, NoneIsNoVault
     DEF Store, SingleFlight, Refreshing, WellTimed
<1>12. ASSUME NEW r \in Req, ReadCache(r) PROVE ReadInv'
  BY <1>12 DEF ReadCache
<1>13. ASSUME NEW r \in Req, CancelUnqueued(r) PROVE ReadInv'
  BY <1>13 DEF CancelUnqueued
<1>14. ASSUME NEW r \in Req, CancelWaiting(r) PROVE ReadInv'
  BY <1>14 DEF CancelWaiting
<1>15. ASSUME NEW r \in Req, CancelRefreshing(r) PROVE ReadInv'
  BY <1>15 DEF CancelRefreshing
<1>16. CASE Tick
  BY <1>16 DEF Tick
<1>17. CASE UNCHANGED vars
  BY <1>17 DEF vars
<1> QED
  BY <1>1, <1>2, <1>3, <1>4, <1>5, <1>6, <1>7, <1>8, <1>9, <1>10, <1>11,
     <1>12, <1>13, <1>14, <1>15, <1>16, <1>17
     DEF Next, Progress, Cancel, Quiescent

\* An answer is computed from what the call was entitled to read.
LEMMA ServedStep ==
    TypeOK /\ ClockInv /\ ReadInv /\ ServedInv /\ [Next]_vars
        => ServedInv'
<1> SUFFICES ASSUME TypeOK, ClockInv, ReadInv, ServedInv, [Next]_vars
             PROVE  ServedInv'
  OBVIOUS
<1> USE DEF ServedInv, TypeOK, WellTimed, IsFreshAt, CachedVault, Goto, metrics
<1>1. ASSUME NEW r \in Req, Resolve(r) PROVE ServedInv'
  BY <1>1 DEF Resolve
<1>2. ASSUME NEW r \in Req, CheckHit(r) PROVE ServedInv'
  BY <1>2 DEF CheckHit
<1>3. ASSUME NEW r \in Req, CheckMiss(r) PROVE ServedInv'
  BY <1>3 DEF CheckMiss
<1>4. ASSUME NEW r \in Req, Enqueue(r) PROVE ServedInv'
  BY <1>4 DEF Enqueue
<1>5. ASSUME NEW r \in Req, RecheckHit(r) PROVE ServedInv'
  BY <1>5 DEF RecheckHit
<1>6. ASSUME NEW r \in Req, RecheckMiss(r) PROVE ServedInv'
  BY <1>6 DEF RecheckMiss
<1>7. ASSUME NEW r \in Req, LoginReply(r) PROVE ServedInv'
  BY <1>7 DEF LoginReply
<1>8. ASSUME NEW r \in Req, Unlock(r) PROVE ServedInv'
  BY <1>8 DEF Unlock
<1>9. ASSUME NEW r \in Req, SyncReply(r) PROVE ServedInv'
  BY <1>9 DEF SyncReply
<1>10. ASSUME NEW r \in Req, FetchFails(r) PROVE ServedInv'
  BY <1>10 DEF FetchFails
<1>11. ASSUME NEW r \in Req, Store(r) PROVE ServedInv'
  BY <1>11 DEF Store
<1>12. ASSUME NEW r \in Req, ReadCache(r) PROVE ServedInv'
  BY <1>12 DEF ReadCache, ClockInv, ReadInv, IsFreshAt
<1>13. ASSUME NEW r \in Req, CancelUnqueued(r) PROVE ServedInv'
  BY <1>13 DEF CancelUnqueued
<1>14. ASSUME NEW r \in Req, CancelWaiting(r) PROVE ServedInv'
  BY <1>14 DEF CancelWaiting
<1>15. ASSUME NEW r \in Req, CancelRefreshing(r) PROVE ServedInv'
  BY <1>15 DEF CancelRefreshing
<1>16. CASE Tick
  BY <1>16 DEF Tick
<1>17. CASE UNCHANGED vars
  BY <1>17 DEF vars
<1> QED
  BY <1>1, <1>2, <1>3, <1>4, <1>5, <1>6, <1>7, <1>8, <1>9, <1>10, <1>11,
     <1>12, <1>13, <1>14, <1>15, <1>16, <1>17
     DEF Next, Progress, Cancel, Quiescent

-----------------------------------------------------------------------------
(* The theorems.                                                            *)

\* The invariant holds initially.
LEMMA InvInit == Init => Inv
BY TimeAssumption, NoneAssumption
   DEF Init, Inv, TypeOK, LockInv, NoRedundantRefresh, ClockInv, FlightInv,
       ReadInv, NeverMissingCachedSync, ServedInv, Refreshing, Active, Final

\* A call never finds the cache empty after it ensured it was fresh.
LEMMA MissingStep ==
    TypeOK /\ ReadInv /\ NeverMissingCachedSync /\ [Next]_vars
        => NeverMissingCachedSync'
<1> SUFFICES ASSUME TypeOK, ReadInv, NeverMissingCachedSync, [Next]_vars
             PROVE  NeverMissingCachedSync'
  OBVIOUS
<1> USE DEF TypeOK, NeverMissingCachedSync, Goto
<1>1. ASSUME NEW r \in Req, ReadCache(r) PROVE NeverMissingCachedSync'
  BY <1>1 DEF ReadCache, ReadInv
<1>2. ASSUME NEW r \in Req, Progress(r), ~ReadCache(r)
      PROVE  NeverMissingCachedSync'
  BY <1>2 DEF Progress, CheckHit, CheckMiss, Enqueue, RecheckHit, RecheckMiss,
              LoginReply, Unlock, SyncReply, FetchFails, Store
<1>3. ASSUME NEW r \in Req, Resolve(r) \/ Cancel(r)
      PROVE  NeverMissingCachedSync'
  BY <1>3 DEF Resolve, Cancel, CancelUnqueued, CancelWaiting, CancelRefreshing
<1>4. CASE Tick \/ UNCHANGED vars
  BY <1>4 DEF Tick, vars
<1> QED  BY <1>1, <1>2, <1>3, <1>4 DEF Next, Quiescent

\* Every step preserves the invariant.
LEMMA InvStep == Inv /\ [Next]_vars => Inv'
BY TypeStep, LockStep, RefreshNeededStep, ClockStep, FlightStep, ReadStep,
   ServedStep, MissingStep, HolderIsUnique
   DEF Inv

\* The invariant holds in every reachable state.
LEMMA Invariance == Spec => []Inv
<1>1. Init => Inv
  BY InvInit
<1>2. Inv /\ [Next]_vars => Inv'
  BY InvStep
<1> QED  BY <1>1, <1>2, PTL DEF Spec

\* Type correctness of the client's state.
THEOREM TypeCorrect == Spec => []TypeOK
<1>1. Inv => TypeOK
  BY DEF Inv
<1> QED  BY <1>1, Invariance, PTL

\* At most one login or sync is outstanding, for any number of callers and
\* whichever of them disconnect.
THEOREM SingleFlightHolds == Spec => []SingleFlight
<1>1. Inv => SingleFlight
  BY HolderIsUnique DEF Inv
<1> QED  BY <1>1, Invariance, PTL

\* No call refreshes a cache that is fresh.
THEOREM NoStampede == Spec => []NoRedundantRefresh
<1>1. Inv => NoRedundantRefresh
  BY DEF Inv
<1> QED  BY <1>1, Invariance, PTL

\* MissingCachedSync is never returned.
THEOREM CacheIsThere == Spec => []NeverMissingCachedSync
<1>1. Inv => NeverMissingCachedSync
  BY DEF Inv
<1> QED  BY <1>1, Invariance, PTL

\* Every answer comes from a vault that was fresh when the call began, or
\* that was fetched later.
THEOREM AnswersAreFresh == Spec => []ServedFresh
<1>1. Inv => ServedFresh
  <2> SUFFICES ASSUME Inv, NEW r \in Req, served[r] # None,
                      ~(served[r].fetched_at >= startedAt[r])
               PROVE  /\ startedAt[r] < served[r].fetched_at + ttl
                      /\ \/ served[r].expires_at = None
                         \/ startedAt[r] + Skew < served[r].expires_at
    BY DEF ServedFresh
  <2>1. served[r] \in CachedVault /\ startedAt[r] \in Nat /\ ttl \in Nat
    BY DEF Inv, TypeOK
  <2>2. IsFreshAt(served[r], startedAt[r])
    BY DEF Inv, ServedInv
  <2> QED  BY <2>1, <2>2, TimeAssumption DEF IsFreshAt, CachedVault
<1> QED  BY <1>1, Invariance, PTL

\* With ttl zero every answer was read from the server after the call began.
THEOREM DisabledMeansNoReuse == Spec => []NoReuseWhenDisabled
<1>1. Inv => NoReuseWhenDisabled
  BY DEF Inv, ServedInv, NoReuseWhenDisabled
<1> QED  BY <1>1, Invariance, PTL

\* The contents of an answer are at most one request timeout and one TTL
\* older than the call.
THEOREM StalenessIsBounded == Spec => []BoundedStaleness
<1>1. Inv => BoundedStaleness
  <2> SUFFICES ASSUME Inv, NEW r \in Req, served[r] # None
               PROVE  startedAt[r] <= served[r].snapshotAt + RequestTimeout + ttl
    BY DEF BoundedStaleness
  <2>1. served[r] \in CachedVault /\ startedAt[r] \in Nat /\ ttl \in Nat
    BY DEF Inv, TypeOK
  <2>2. /\ served[r].fetched_at <= served[r].snapshotAt + RequestTimeout
        /\ \/ served[r].fetched_at >= startedAt[r]
           \/ startedAt[r] - served[r].fetched_at < ttl
    BY DEF Inv, ServedInv, WellTimed, IsFreshAt
  <2> QED  BY <2>1, <2>2, TimeAssumption DEF CachedVault
<1> QED  BY <1>1, Invariance, PTL

\* Only Store writes the cache, and what it stores is newer.
LEMMA RegressionStep ==
    ASSUME Inv, [Next]_vars, cache # None, cache' # cache
    PROVE  cache' # None /\ cache'.snapshotAt >= cache.fetched_at
<1>1. PICK r \in Req : Store(r)
  BY DEF Next, Progress, Cancel, Quiescent, vars, Resolve, CheckHit, CheckMiss,
         Enqueue, RecheckHit, RecheckMiss, LoginReply, Unlock, SyncReply,
         FetchFails, ReadCache, CancelUnqueued, CancelWaiting,
         CancelRefreshing, Tick
<1>2. /\ fetched[r] \in CachedVault
      /\ cache.fetched_at <= fetched[r].snapshotAt
  BY <1>1 DEF Store, Inv, FlightInv
<1>3. cache \in CachedVault
  BY DEF Inv, TypeOK
<1> QED  BY <1>1, <1>2, <1>3, NoneIsNoVault DEF Store, CachedVault

\* The cache is never emptied and never replaced by older contents.
THEOREM NeverRegresses == Spec => CacheNeverRegresses
<1>1. Inv /\ [Next]_vars =>
        [cache # None /\ cache' # cache =>
            cache' # None /\ cache'.snapshotAt >= cache.fetched_at]_vars
  BY RegressionStep
<1> QED  BY <1>1, Invariance, PTL DEF Spec, CacheNeverRegresses

-----------------------------------------------------------------------------
(* Who is in the queue of the refresh lock.                                 *)

\* Steps at which a call waits for the lock or holds it.
QueueLabels == {"wait", "login", "unlock", "sync", "store"}

\* The queue holds calls that wait or refresh, each of them once.
QueueInv ==
    /\ \A i \in 1 .. Len(refresh_lock) : pc[refresh_lock[i]] \in QueueLabels
    /\ \A i, j \in 1 .. Len(refresh_lock) :
          refresh_lock[i] = refresh_lock[j] => i = j

\* What is left when the element at place i is taken out.
LEMMA RemoveAtElements ==
    ASSUME NEW S, NEW s \in Seq(S), NEW i \in 1 .. Len(s)
    PROVE  /\ Len(RemoveAt(s, i)) = Len(s) - 1
           /\ \A j \in 1 .. Len(s) - 1 :
                 RemoveAt(s, i)[j] = IF j < i THEN s[j] ELSE s[j + 1]
<1> DEFINE front == SubSeq(s, 1, i - 1)
           back == SubSeq(s, i + 1, Len(s))
<1>1. /\ front \in Seq(S) /\ Len(front) = i - 1
      /\ \A j \in 1 .. i - 1 : front[j] = s[j]
  OBVIOUS
<1>2. /\ back \in Seq(S) /\ Len(back) = Len(s) - i
      /\ \A j \in 1 .. Len(s) - i : back[j] = s[i + j]
  OBVIOUS
<1>3. RemoveAt(s, i) = front \o back
  BY DEF RemoveAt
<1>4. Len(s) \in Nat
  OBVIOUS
<1> HIDE DEF front, back
<1>8. front \in Seq(S) /\ back \in Seq(S)
  BY <1>1, <1>2
<1>9. /\ Len(front \o back) = Len(front) + Len(back)
      /\ \A j \in 1 .. Len(front) + Len(back) :
            (front \o back)[j] = IF j <= Len(front) THEN front[j]
                                 ELSE back[j - Len(front)]
  BY <1>8, ConcatProperties
<1>5. /\ Len(RemoveAt(s, i)) = Len(front) + Len(back)
      /\ \A j \in 1 .. Len(front) + Len(back) :
            RemoveAt(s, i)[j] = IF j <= Len(front) THEN front[j]
                                ELSE back[j - Len(front)]
  BY <1>3, <1>9, Zenon
<1>6. Len(front) + Len(back) = Len(s) - 1
  BY <1>1, <1>2, <1>4
<1>7. ASSUME NEW j \in 1 .. Len(s) - 1
      PROVE  RemoveAt(s, i)[j] = IF j < i THEN s[j] ELSE s[j + 1]
  <2>1. RemoveAt(s, i)[j] = IF j <= i - 1 THEN front[j] ELSE back[j - (i - 1)]
    BY <1>1, <1>5, <1>6
  <2>2. CASE j < i
    BY <1>1, <1>4, <2>1, <2>2
  <2>3. CASE ~(j < i)
    <3>1. j - (i - 1) \in 1 .. Len(s) - i /\ i + (j - (i - 1)) = j + 1
      BY <1>4, <2>3
    <3> QED  BY <1>2, <1>4, <2>1, <2>3, <3>1
  <2> QED  BY <2>2, <2>3
<1> QED  BY <1>5, <1>6, <1>7

\* A step of a call that leaves the queue alone.
LEMMA QueueKept ==
    ASSUME TypeOK, QueueInv, NEW r \in Req, NEW label, Goto(r, label),
           pc[r] \in QueueLabels => label \in QueueLabels,
           refresh_lock' = refresh_lock
    PROVE  QueueInv'
<1>1. \A i \in 1 .. Len(refresh_lock) : refresh_lock[i] \in Req
  BY DEF TypeOK
<1> QED  BY <1>1 DEF TypeOK, QueueInv, Goto

\* The holder leaves and the next in the queue becomes the holder.
LEMMA QueuePopped ==
    ASSUME TypeOK, QueueInv, NEW r \in Req, NEW label, Goto(r, label),
           Holds(r), ReleaseRefreshLock
    PROVE  QueueInv'
<1>1. refresh_lock \in Seq(Req) /\ refresh_lock # <<>> /\ refresh_lock[1] = r
  BY DEF TypeOK, Holds
<1>2. /\ Len(refresh_lock') = Len(refresh_lock) - 1
      /\ \A i \in 1 .. Len(refresh_lock) - 1 :
            refresh_lock'[i] = refresh_lock[i + 1]
  BY <1>1 DEF ReleaseRefreshLock
<1>3. Len(refresh_lock) \in Nat /\ Len(refresh_lock) > 0
  BY <1>1
<1>4. \A i \in 1 .. Len(refresh_lock) - 1 :
          /\ refresh_lock[i + 1] \in Req
          /\ refresh_lock[i + 1] # r
          /\ pc[refresh_lock[i + 1]] \in QueueLabels
  BY <1>1, <1>3 DEF QueueInv
<1>5. \A q \in Req : q # r => pc'[q] = pc[q]
  BY DEF Goto, TypeOK
<1>6. \A i \in 1 .. Len(refresh_lock') : pc'[refresh_lock'[i]] \in QueueLabels
  BY <1>2, <1>3, <1>4, <1>5
<1>7. \A i, j \in 1 .. Len(refresh_lock') :
          refresh_lock'[i] = refresh_lock'[j] => i = j
  BY <1>2, <1>3 DEF QueueInv
<1> QED  BY <1>6, <1>7 DEF QueueInv

\* A caller in the queue goes away; those behind it move up.
LEMMA QueueRemoved ==
    ASSUME TypeOK, QueueInv, NEW r \in Req, CancelWaiting(r)
    PROVE  QueueInv'
<1>1. PICK k \in 1 .. Len(refresh_lock) :
          refresh_lock[k] = r /\ refresh_lock' = RemoveAt(refresh_lock, k)
  BY DEF CancelWaiting
<1>2. refresh_lock \in Seq(Req) /\ Len(refresh_lock) \in Nat
  BY DEF TypeOK
<1>3. /\ Len(refresh_lock') = Len(refresh_lock) - 1
      /\ \A j \in 1 .. Len(refresh_lock) - 1 :
            refresh_lock'[j] = IF j < k THEN refresh_lock[j]
                               ELSE refresh_lock[j + 1]
  BY <1>1, <1>2, RemoveAtElements
<1>4. \A i \in 1 .. Len(refresh_lock) : i # k =>
          /\ refresh_lock[i] \in Req
          /\ refresh_lock[i] # r
          /\ pc[refresh_lock[i]] \in QueueLabels
  BY <1>1, <1>2 DEF QueueInv
<1>5. \A q \in Req : q # r => pc'[q] = pc[q]
  BY DEF CancelWaiting, Goto, TypeOK
<1>6. \A j \in 1 .. Len(refresh_lock') : pc'[refresh_lock'[j]] \in QueueLabels
  BY <1>2, <1>3, <1>4, <1>5
<1>7. \A i, j \in 1 .. Len(refresh_lock') :
          refresh_lock'[i] = refresh_lock'[j] => i = j
  BY <1>2, <1>3 DEF QueueInv
<1> QED  BY <1>6, <1>7 DEF QueueInv

\* A caller joins the queue.
LEMMA QueueAppended ==
    ASSUME TypeOK, QueueInv, NEW r \in Req, Enqueue(r)
    PROVE  QueueInv'
<1>1. /\ refresh_lock \in Seq(Req) /\ Len(refresh_lock) \in Nat
      /\ refresh_lock' = Append(refresh_lock, r)
  BY DEF TypeOK, Enqueue
<1>2. /\ Len(refresh_lock') = Len(refresh_lock) + 1
      /\ refresh_lock'[Len(refresh_lock) + 1] = r
      /\ \A i \in 1 .. Len(refresh_lock) : refresh_lock'[i] = refresh_lock[i]
  BY <1>1
<1>3. \A i \in 1 .. Len(refresh_lock) :
          /\ refresh_lock[i] \in Req
          /\ refresh_lock[i] # r
          /\ pc[refresh_lock[i]] \in QueueLabels
  BY <1>1 DEF QueueInv, QueueLabels, Enqueue
<1>4. \A q \in Req : q # r => pc'[q] = pc[q]
  BY DEF Enqueue, Goto, TypeOK
<1>5. pc'[r] \in QueueLabels
  BY DEF Enqueue, Goto, TypeOK, QueueLabels
<1>6. \A i \in 1 .. Len(refresh_lock') : pc'[refresh_lock'[i]] \in QueueLabels
  BY <1>1, <1>2, <1>3, <1>4, <1>5
<1>7. \A i, j \in 1 .. Len(refresh_lock') :
          refresh_lock'[i] = refresh_lock'[j] => i = j
  BY <1>1, <1>2, <1>3 DEF QueueInv
<1> QED  BY <1>6, <1>7 DEF QueueInv

\* Every step keeps the queue free of strangers and of repetitions.
LEMMA QueueStep == TypeOK /\ LockInv /\ QueueInv /\ [Next]_vars => QueueInv'
<1> SUFFICES ASSUME TypeOK, LockInv, QueueInv, [Next]_vars PROVE QueueInv'
  OBVIOUS
<1>1. ASSUME NEW r \in Req,
             \/ Resolve(r) \/ CheckHit(r) \/ CheckMiss(r) \/ RecheckMiss(r)
             \/ LoginReply(r) \/ Unlock(r) \/ SyncReply(r) \/ ReadCache(r)
             \/ CancelUnqueued(r)
      PROVE  QueueInv'
  <2>1. /\ refresh_lock' = refresh_lock
        /\ \E label : /\ Goto(r, label)
                      /\ pc[r] \in QueueLabels => label \in QueueLabels
    BY <1>1 DEF Resolve, CheckHit, CheckMiss, RecheckMiss, LoginReply, Unlock,
                SyncReply, ReadCache, CancelUnqueued, QueueLabels
  <2> QED  BY <2>1, QueueKept
<1>2. ASSUME NEW r \in Req,
             RecheckHit(r) \/ FetchFails(r) \/ Store(r) \/ CancelRefreshing(r)
      PROVE  QueueInv'
  <2>1. Holds(r) /\ ReleaseRefreshLock /\ \E label : Goto(r, label)
    BY <1>2 DEF RecheckHit, FetchFails, Store, CancelRefreshing, LockInv,
                Refreshing
  <2> QED  BY <2>1, QueuePopped
<1>3. ASSUME NEW r \in Req, Enqueue(r) \/ CancelWaiting(r) PROVE QueueInv'
  BY <1>3, QueueAppended, QueueRemoved
<1>4. CASE Tick \/ UNCHANGED vars
  BY <1>4 DEF Tick, vars, QueueInv
<1> QED
  BY <1>1, <1>2, <1>3, <1>4 DEF Next, Progress, Cancel, Quiescent

\* The queue of the refresh lock is exact in every reachable state.
LEMMA QueueInvariance == Spec => []QueueInv
<1>1. Init => QueueInv
  BY DEF Init, QueueInv
<1>2. Inv /\ QueueInv /\ [Next]_vars => QueueInv'
  BY QueueStep DEF Inv
<1> QED  BY <1>1, <1>2, Invariance, PTL DEF Spec

-----------------------------------------------------------------------------
(* The cache counters.                                                      *)

\* Calls at one of the given steps.
At(labels) == {r \in Req : pc[r] \in labels}

Decided == {"store", "read", "answered", "refresh_error", "missing_cached_sync"}

Counted == cache_hits + refresh_successes + refresh_failures

\* Finitely many calls have begun, and the counters account for them.
CountInv ==
    /\ IsFiniteSet({r \in Req : pc[r] # "idle"})
    /\ MetricsAccount

\* The sets of calls MetricsAccount counts.
LEMMA AccountSets ==
    MetricsAccount <=>
        /\ Cardinality(At(Decided)) <= Counted
        /\ Counted <= Cardinality(At(Decided)) + Cardinality(At({"cancelled"}))
<1>1. At(Decided) = {r \in Req : pc[r] \in {"store", "read", "answered",
                                   "refresh_error", "missing_cached_sync"}}
  BY DEF At, Decided
<1>2. At({"cancelled"}) = {r \in Req : pc[r] = "cancelled"}
  BY DEF At
<1> QED  BY <1>1, <1>2 DEF MetricsAccount, Counted

\* One call moves: how many calls are at given steps afterwards.
LEMMA CountMoves ==
    ASSUME TypeOK, CountInv, NEW r \in Req, NEW label, Goto(r, label),
           NEW labels, "idle" \notin labels
    PROVE  /\ Cardinality(At(labels)) \in Nat
           /\ pc[r] \in labels /\ label \notin labels =>
                 Cardinality(At(labels)') = Cardinality(At(labels)) - 1
           /\ pc[r] \notin labels /\ label \in labels =>
                 Cardinality(At(labels)') = Cardinality(At(labels)) + 1
           /\ (pc[r] \in labels <=> label \in labels) =>
                 Cardinality(At(labels)') = Cardinality(At(labels))
<1>1. IsFiniteSet(At(labels))
  <2>1. At(labels) \subseteq {q \in Req : pc[q] # "idle"}
    BY DEF At
  <2> QED  BY <2>1, FS_Subset DEF CountInv
<1>2. pc'[r] = label /\ \A q \in Req : q # r => pc'[q] = pc[q]
  BY DEF Goto, TypeOK
<1>3. pc[r] \in labels /\ label \notin labels =>
          At(labels)' = At(labels) \ {r} /\ r \in At(labels)
  BY <1>2 DEF At
<1>4. pc[r] \notin labels /\ label \in labels =>
          At(labels)' = At(labels) \cup {r} /\ r \notin At(labels)
  BY <1>2 DEF At
<1>5. (pc[r] \in labels <=> label \in labels) => At(labels)' = At(labels)
  BY <1>2 DEF At
<1> QED  BY <1>1, <1>3, <1>4, <1>5, FS_CardinalityType, FS_AddElement,
            FS_RemoveElement

\* Only finitely many calls ever begin.
LEMMA BegunStep ==
    ASSUME TypeOK, IsFiniteSet({r \in Req : pc[r] # "idle"}), [Next]_vars
    PROVE  IsFiniteSet({r \in Req : pc[r] # "idle"}')
<1> DEFINE begun == {r \in Req : pc[r] # "idle"}
<1>1. ASSUME NEW r \in Req, NEW label, Goto(r, label), label # "idle"
      PROVE  IsFiniteSet(begun')
  <2>1. begun' = begun \cup {r}
    BY <1>1 DEF Goto, TypeOK
  <2> QED  BY <2>1, FS_AddElement
<1>2. ASSUME NEW r \in Req, Resolve(r) \/ Progress(r) \/ Cancel(r)
      PROVE  \E label : Goto(r, label) /\ label # "idle"
  BY <1>2 DEF Resolve, Progress, Cancel, CheckHit, CheckMiss, Enqueue,
              RecheckHit, RecheckMiss, LoginReply, Unlock, SyncReply,
              FetchFails, Store, ReadCache, CancelUnqueued, CancelWaiting,
              CancelRefreshing
<1>3. CASE Tick \/ UNCHANGED vars
  BY <1>3 DEF Tick, vars
<1> QED  BY <1>1, <1>2, <1>3 DEF Next, Quiescent

\* A call moves a counter exactly when it reaches a decision.
LEMMA CountStep == TypeOK /\ CountInv /\ [Next]_vars => CountInv'
<1> SUFFICES ASSUME TypeOK, CountInv, [Next]_vars PROVE MetricsAccount'
  BY BegunStep DEF CountInv
<1>0. /\ Counted \in Nat
      /\ Cardinality(At(Decided)) <= Counted
      /\ Counted <= Cardinality(At(Decided)) + Cardinality(At({"cancelled"}))
  BY AccountSets DEF CountInv, TypeOK, Counted
<1>a. ASSUME /\ Cardinality(At(Decided)') <= Counted'
             /\ Counted' <= Cardinality(At(Decided)')
                              + Cardinality(At({"cancelled"})')
      PROVE  MetricsAccount'
  <2>1. (MetricsAccount <=>
            /\ Cardinality(At(Decided)) <= Counted
            /\ Counted <= Cardinality(At(Decided))
                            + Cardinality(At({"cancelled"})))'
    BY AccountSets, PTL
  <2> QED  BY <1>a, <2>1
<1>1. ASSUME NEW r \in Req, NEW label, Goto(r, label),
             pc[r] \in Decided <=> label \in Decided,
             pc[r] # "cancelled" /\ label # "cancelled",
             UNCHANGED metrics
      PROVE  MetricsAccount'
  <2>1. /\ Cardinality(At(Decided)') = Cardinality(At(Decided))
        /\ Cardinality(At({"cancelled"})') = Cardinality(At({"cancelled"}))
    BY <1>1, CountMoves DEF Decided
  <2>2. Counted' = Counted
    BY <1>1 DEF Counted, metrics
  <2> QED  BY <1>0, <1>a, <2>1, <2>2
<1>2. ASSUME NEW r \in Req, NEW label, Goto(r, label),
             pc[r] \notin Decided, label \in Decided,
             pc[r] # "cancelled" /\ label # "cancelled",
             Counted' = Counted + 1
      PROVE  MetricsAccount'
  <2>1. /\ Cardinality(At(Decided)) \in Nat
        /\ Cardinality(At({"cancelled"})) \in Nat
        /\ Cardinality(At(Decided)') = Cardinality(At(Decided)) + 1
        /\ Cardinality(At({"cancelled"})') = Cardinality(At({"cancelled"}))
    BY <1>2, CountMoves DEF Decided
  <2> QED  BY <1>0, <1>2, <1>a, <2>1
<1>3. ASSUME NEW r \in Req, Goto(r, "cancelled"), pc[r] # "cancelled",
             UNCHANGED metrics
      PROVE  MetricsAccount'
  <2>1. /\ Cardinality(At(Decided)) \in Nat
        /\ Cardinality(At({"cancelled"})) \in Nat
        /\ Cardinality(At({"cancelled"})') = Cardinality(At({"cancelled"})) + 1
        /\ Cardinality(At(Decided)') \in {Cardinality(At(Decided)),
                                          Cardinality(At(Decided)) - 1}
    BY <1>3, CountMoves DEF Decided
  <2>2. Counted' = Counted
    BY <1>3 DEF Counted, metrics
  <2> QED  BY <1>0, <1>a, <2>1, <2>2
<1>4. ASSUME NEW r \in Req,
             \/ Resolve(r) \/ CheckMiss(r) \/ Enqueue(r) \/ RecheckMiss(r)
             \/ LoginReply(r) \/ Unlock(r) \/ Store(r) \/ ReadCache(r)
      PROVE  MetricsAccount'
  <2>1. \E label : /\ Goto(r, label)
                   /\ pc[r] \in Decided <=> label \in Decided
                   /\ pc[r] # "cancelled" /\ label # "cancelled"
    BY <1>4 DEF Resolve, CheckMiss, Enqueue, RecheckMiss, LoginReply, Unlock,
                Store, ReadCache, Decided
  <2>2. UNCHANGED metrics
    BY <1>4 DEF Resolve, CheckMiss, Enqueue, RecheckMiss, LoginReply, Unlock,
                Store, ReadCache
  <2> QED  BY <1>1, <2>1, <2>2
<1>5. ASSUME NEW r \in Req,
             CheckHit(r) \/ RecheckHit(r) \/ SyncReply(r) \/ FetchFails(r)
      PROVE  MetricsAccount'
  <2>1. \E label : /\ Goto(r, label)
                   /\ pc[r] \notin Decided /\ label \in Decided
                   /\ pc[r] # "cancelled" /\ label # "cancelled"
    BY <1>5 DEF CheckHit, RecheckHit, SyncReply, FetchFails, Decided
  <2>2. Counted' = Counted + 1
    BY <1>5 DEF CheckHit, RecheckHit, SyncReply, FetchFails, Counted, TypeOK
  <2> QED  BY <1>2, <2>1, <2>2
<1>6. ASSUME NEW r \in Req, Cancel(r) PROVE MetricsAccount'
  BY <1>3, <1>6 DEF Cancel, CancelUnqueued, CancelWaiting, CancelRefreshing
<1>7. CASE Tick \/ UNCHANGED vars
  <2>1. pc' = pc /\ UNCHANGED metrics
    BY <1>7 DEF Tick, vars
  <2>2. At(Decided)' = At(Decided) /\ At({"cancelled"})' = At({"cancelled"})
    BY <2>1 DEF At
  <2>3. Counted' = Counted
    BY <2>1 DEF Counted, metrics
  <2> QED  BY <1>0, <1>a, <2>2, <2>3
<1> QED  BY <1>4, <1>5, <1>6, <1>7 DEF Next, Progress, Quiescent

\* The counters account for the calls in every reachable state.
LEMMA CountInvariance == Spec => []CountInv
<1>1. Init => CountInv
  <2> SUFFICES ASSUME Init PROVE CountInv
    OBVIOUS
  <2>1. {r \in Req : pc[r] # "idle"} = {} /\ At(Decided) = {}
          /\ At({"cancelled"}) = {}
    BY DEF Init, At, Decided
  <2>2. IsFiniteSet({}) /\ Cardinality({}) = 0 /\ Counted = 0
    BY FS_EmptySet DEF Init, Counted
  <2> QED  BY <2>1, <2>2, AccountSets DEF CountInv
<1>2. Inv /\ CountInv /\ [Next]_vars => CountInv'
  BY CountStep DEF Inv
<1> QED  BY <1>1, <1>2, Invariance, PTL DEF Spec

\* Every call past the decision of ensure_fresh_cached_sync moved exactly one
\* counter, and only dropped calls can make the counters exceed them, for any
\* number of calls.
THEOREM CountersAccount == Spec => []MetricsAccount
<1>1. CountInv => MetricsAccount
  BY DEF CountInv
<1> QED  BY <1>1, CountInvariance, PTL

\* An answer comes from a vault, and each failed refresh is one failed call.
OutcomeInv ==
    /\ \A r \in Req : pc[r] = "answered" => served[r] # None
    /\ refresh_failures = Cardinality(At({"refresh_error"}))

\* A refresh fails for exactly one caller.
LEMMA OutcomeStep ==
    TypeOK /\ CountInv /\ OutcomeInv /\ [Next]_vars => OutcomeInv'
<1> SUFFICES ASSUME TypeOK, CountInv, OutcomeInv, [Next]_vars
             PROVE  OutcomeInv'
  OBVIOUS
<1>1. ASSUME NEW r \in Req, NEW label, Goto(r, label), served' = served,
             label # "answered",
             pc[r] # "refresh_error", label # "refresh_error",
             refresh_failures' = refresh_failures
      PROVE  OutcomeInv'
  <2>1. Cardinality(At({"refresh_error"})') = Cardinality(At({"refresh_error"}))
    BY <1>1, CountMoves
  <2> QED  BY <1>1, <2>1 DEF OutcomeInv, Goto, TypeOK
<1>2. ASSUME NEW r \in Req, FetchFails(r) PROVE OutcomeInv'
  <2>1. /\ Goto(r, "refresh_error") /\ pc[r] # "refresh_error"
        /\ refresh_failures' = refresh_failures + 1 /\ served' = served
    BY <1>2 DEF FetchFails
  <2>2. Cardinality(At({"refresh_error"})')
          = Cardinality(At({"refresh_error"})) + 1
    BY <2>1, CountMoves
  <2> QED  BY <2>1, <2>2 DEF OutcomeInv, Goto, TypeOK
<1>3. ASSUME NEW r \in Req, ReadCache(r) PROVE OutcomeInv'
  <2>1. PICK label \in {"answered", "missing_cached_sync"} :
            /\ Goto(r, label) /\ pc[r] # "refresh_error"
            /\ label = "answered" => cache # None
            /\ refresh_failures' = refresh_failures
            /\ served' = [served EXCEPT ![r] = cache]
    BY <1>3 DEF ReadCache, metrics
  <2>2. Cardinality(At({"refresh_error"})') = Cardinality(At({"refresh_error"}))
    BY <2>1, CountMoves
  <2> QED  BY <2>1, <2>2 DEF OutcomeInv, Goto, TypeOK
<1>4. ASSUME NEW r \in Req, Resolve(r) \/ Progress(r) \/ Cancel(r),
             ~FetchFails(r), ~ReadCache(r)
      PROVE  OutcomeInv'
  <2>1. /\ served' = served /\ refresh_failures' = refresh_failures
        /\ \E label : /\ Goto(r, label) /\ label # "answered"
                      /\ pc[r] # "refresh_error" /\ label # "refresh_error"
    BY <1>4 DEF Resolve, Progress, Cancel, CheckHit, CheckMiss, Enqueue,
                RecheckHit, RecheckMiss, LoginReply, Unlock, SyncReply, Store,
                CancelUnqueued, CancelWaiting, CancelRefreshing, metrics
  <2> QED  BY <1>1, <2>1
<1>5. CASE Tick \/ UNCHANGED vars
  <2>1. pc' = pc /\ served' = served /\ refresh_failures' = refresh_failures
    BY <1>5 DEF Tick, vars, metrics
  <2> QED  BY <2>1 DEF OutcomeInv, At
<1> QED  BY <1>2, <1>3, <1>4, <1>5 DEF Next, Quiescent

\* Outcomes and counters agree in every reachable state.
LEMMA OutcomeInvariance == Spec => []OutcomeInv
<1>1. Init => OutcomeInv
  <2> SUFFICES ASSUME Init PROVE OutcomeInv
    OBVIOUS
  <2>1. At({"refresh_error"}) = {} /\ refresh_failures = 0
    BY DEF Init, At
  <2> QED  BY <2>1, FS_EmptySet DEF OutcomeInv, Init
<1>2. Inv /\ CountInv /\ OutcomeInv /\ [Next]_vars => OutcomeInv'
  BY OutcomeStep DEF Inv
<1> QED  BY <1>1, <1>2, Invariance, CountInvariance, PTL DEF Spec

-----------------------------------------------------------------------------
(* Refinement: every step of the client is a step of VaultCache, or leaves  *)
(* the slot, the statuses and the answers as they are.                      *)

\* While a call refreshes, the cached vault is not usable.
LEMMA StaleIsUnusable ==
    ASSUME Inv, cache # None, ~HasFreshCache
    PROVE  ~Abstract!Usable(cache, now)
<1>1. /\ cache \in CachedVault /\ cache.fetched_at <= now
      /\ now \in Nat /\ ttl \in Nat
  BY DEF Inv, TypeOK, ClockInv, WellTimed
<1> QED  BY <1>1, TimeAssumption
            DEF HasFreshCache, IsFreshAt, Abstract!Usable, CachedVault

\* A step of the client that keeps the abstract state.
LEMMA StutterSteps ==
    ASSUME Inv, NEW r \in Req,
           \/ CheckHit(r) \/ CheckMiss(r) \/ Enqueue(r) \/ RecheckHit(r)
           \/ RecheckMiss(r) \/ LoginReply(r) \/ Unlock(r) \/ SyncReply(r)
    PROVE  UNCHANGED Abstract!vars
<1>1. /\ pc \in [Req -> {"idle"} \cup Active \cup Final]
      /\ \E label \in Active : pc[r] \in Active /\ pc' = [pc EXCEPT ![r] = label]
  BY DEF Inv, TypeOK, Active, CheckHit, CheckMiss, Enqueue, RecheckHit,
         RecheckMiss, LoginReply, Unlock, SyncReply, Goto
<1>2. \A q \in Req : AbstractStatus(pc'[q]) = AbstractStatus(pc[q])
  BY <1>1 DEF AbstractStatus, Active
<1>3. UNCHANGED <<now, ttl, cache, startedAt, served>>
  BY DEF CheckHit, CheckMiss, Enqueue, RecheckHit, RecheckMiss, LoginReply,
         Unlock, SyncReply
<1> QED  BY <1>2, <1>3 DEF Abstract!vars

\* A call moves from one status to another and the others stay.
LEMMA StatusMove ==
    ASSUME pc \in [Req -> {"idle"} \cup Active \cup Final], NEW r \in Req,
           NEW label, Goto(r, label)
    PROVE  [q \in Req |-> AbstractStatus(pc'[q])] =
             [[q \in Req |-> AbstractStatus(pc[q])]
                EXCEPT ![r] = AbstractStatus(label)]
BY DEF Goto

\* Every step of the client maps to a step of VaultCache or a stutter.
LEMMA RefinementStep ==
    ASSUME Inv, [Next]_vars
    PROVE  [Abstract!Next]_(Abstract!vars)
<1> DEFINE status == [q \in Req |-> AbstractStatus(pc[q])]
<1>0. pc \in [Req -> {"idle"} \cup Active \cup Final]
  BY DEF Inv, TypeOK
<1>1. ASSUME NEW r \in Req, Resolve(r) PROVE Abstract!Next
  <2>1. status[r] = "idle" /\ status' = [status EXCEPT ![r] = "running"]
    BY <1>0, <1>1, StatusMove DEF Resolve, AbstractStatus, Active
  <2>2. Abstract!Begin(r)
    BY <1>1, <2>1 DEF Resolve, Abstract!Begin
  <2> QED  BY <2>2 DEF Abstract!Next
<1>2. ASSUME NEW r \in Req, Progress(r), ~Store(r), ~ReadCache(r), ~FetchFails(r)
      PROVE  UNCHANGED Abstract!vars
  BY <1>2, StutterSteps DEF Progress
<1>3. ASSUME NEW r \in Req, Store(r) PROVE Abstract!Next
  <2>1. status' = status
    <3>1. status[r] = "running" /\ status' = [status EXCEPT ![r] = "running"]
      BY <1>0, <1>3, StatusMove DEF Store, AbstractStatus, Active
    <3> QED  BY <3>1
  <2>2. /\ fetched[r] \in CachedVault
        /\ WellTimed(fetched[r])
        /\ cache # None => cache.fetched_at <= fetched[r].snapshotAt
    BY <1>3 DEF Inv, FlightInv, Store
  <2>3. cache # None => ~Abstract!Usable(cache, now)
    BY <1>3, StaleIsUnusable DEF Inv, NoRedundantRefresh, Refreshing, Store
  <2>4. cache' = fetched[r] /\ UNCHANGED <<now, ttl, startedAt, served>>
    BY <1>3 DEF Store
  <2>5. Abstract!Refresh
    BY <2>1, <2>2, <2>3, <2>4
       DEF Abstract!Refresh, Abstract!Vault, CachedVault, WellTimed
  <2> QED  BY <2>5 DEF Abstract!Next
<1>4. ASSUME NEW r \in Req, ReadCache(r) PROVE Abstract!Next
  <2>1. /\ cache # None
        /\ cache.fetched_at >= startedAt[r] \/ IsFreshAt(cache, startedAt[r])
    BY <1>4 DEF ReadCache, Inv, ReadInv
  <2>2. status[r] = "running" /\ status' = [status EXCEPT ![r] = "answered"]
    BY <1>0, <1>4, <2>1, StatusMove DEF ReadCache, AbstractStatus, Active
  <2>3. IsFreshAt(cache, startedAt[r]) => Abstract!Usable(cache, startedAt[r])
    <3>1. cache \in CachedVault /\ startedAt[r] \in Nat /\ ttl \in Nat
      BY <2>1 DEF Inv, TypeOK
    <3> QED  BY <3>1, TimeAssumption DEF IsFreshAt, Abstract!Usable, CachedVault
  <2>4. Abstract!Answer(r)
    BY <1>4, <2>1, <2>2, <2>3 DEF ReadCache, Abstract!Answer
  <2> QED  BY <2>4 DEF Abstract!Next
<1>5. ASSUME NEW r \in Req, FetchFails(r) \/ Cancel(r) PROVE Abstract!Next
  <2>1. PICK label \in {"refresh_error", "cancelled"} :
            pc[r] \in Active /\ Goto(r, label)
    BY <1>5 DEF FetchFails, Cancel, CancelUnqueued, CancelWaiting,
                CancelRefreshing, Active
  <2>2. status[r] = "running" /\ status' = [status EXCEPT ![r] = "failed"]
    BY <1>0, <2>1, StatusMove DEF AbstractStatus, Active
  <2>3. UNCHANGED <<now, ttl, cache, startedAt, served>>
    BY <1>5 DEF FetchFails, Cancel, CancelUnqueued, CancelWaiting,
                CancelRefreshing
  <2>4. Abstract!Fail(r)
    BY <2>2, <2>3 DEF Abstract!Fail
  <2> QED  BY <2>4 DEF Abstract!Next
<1>6. CASE Tick
  BY <1>6 DEF Tick, Abstract!Tick, Abstract!Next
<1>7. CASE UNCHANGED vars
  BY <1>7 DEF vars, Abstract!vars
<1> QED
  BY <1>1, <1>2, <1>3, <1>4, <1>5, <1>6, <1>7 DEF Next, Progress, Quiescent

\* The client implements the safety part of VaultCache.
THEOREM ImplementsVaultCacheSafety == Spec => Abstract!Spec
<1>1. Init => Abstract!Init
  <2> SUFFICES ASSUME Init PROVE Abstract!Init
    OBVIOUS
  <2>1. \A q \in Req : AbstractStatus(pc[q]) = "idle"
    BY DEF Init, AbstractStatus, Active
  <2>2. [q \in Req |-> AbstractStatus(pc[q])] = [q \in Req |-> "idle"]
    BY <2>1
  <2> QED  BY <2>2 DEF Init, Abstract!Init
<1>2. Inv /\ [Next]_vars => [Abstract!Next]_(Abstract!vars)
  BY RefinementStep
<1> QED  BY <1>1, <1>2, Invariance, PTL DEF Spec, Abstract!Spec
=============================================================================
