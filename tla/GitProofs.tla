------------------------------ MODULE GitProofs -------------------------------
(***************************************************************************)
(* What TLAPS proves of the course-service's two uses of GitLab.           *)
(*                                                                         *)
(* The content cache, for any number of readers, repositories, clears and  *)
(* faults: one cloner at a time, no directory the cache has forgotten, no  *)
(* more clones than the limit, and nobody waiting for a channel that       *)
(* nobody will close.                                                      *)
(*                                                                         *)
(* Lab checks, for any project, course and requests, any page size and any *)
(* failing calls: a check nobody disturbs decides what it asks for, a      *)
(* disturbed one allows nothing that was not done, and a result is stored  *)
(* under the module that was shown.                                        *)
(***************************************************************************)
EXTENDS GitCache, Labs, FiniteSetTheorems, NaturalsInduction, SequenceTheorems, TLAPS

-----------------------------------------------------------------------------
(* The content cache: its invariant                                        *)

\* Whoever works on a repository is the one registered for it: the map entry
\* set under the mutex protects the disk operations outside of it.
LeaderRegistered == \A r \in Readers : pc[r] \in Leading => cloning[key[r]] = r

\* A leader about to publish its failure has removed its directory.
FailureCleaned == \A r \in Readers : pc[r] = "publishFailure" => disk[key[r]] = "absent"

\* A registered reader is at work on the repository it is registered for, and
\* so on its way to closing its channel.
Registered ==
  \A k \in Keys : cloning[k] # NoReader =>
    pc[cloning[k]] \in Leading /\ key[cloning[k]] = k

\* Whoever waits, waits for a reader that has closed its channel or will.
NoneForgotten ==
  \A r \in Readers : pc[r] = "waiting" =>
    /\ wait[r] \in Readers
    /\ wait[r] \in closed \/ pc[wait[r]] \in Leading \cup {"close", "closeFailed"}

Inv ==
  /\ TypeOK
  /\ LeaderRegistered
  /\ FailureCleaned
  /\ Registered
  /\ NoneForgotten
  /\ DiskAccounted
  /\ CacheBounded

-----------------------------------------------------------------------------
\* The entries once a reader has stored its clone, before any is evicted.
Stored(r) == [repos EXCEPT ![key[r]] = [kind |-> "cloned", at |-> now]]

\* Publish, with the eviction named.
LEMMA PublishFacts ==
  ASSUME NEW r \in Readers, Publish(r)
  PROVE  /\ pc[r] = "publish" /\ pc' = [pc EXCEPT ![r] = "close"]
         /\ cloning' = [cloning EXCEPT ![key[r]] = NoReader]
         /\ \E E \in Evictions(Stored(r)) :
              /\ repos' = [k \in Keys |-> IF k \in E THEN NoEntry ELSE Stored(r)[k]]
              /\ disk' = [k \in Keys |-> IF k \in E /\ Stored(r)[k].kind = "cloned"
                                         THEN "absent" ELSE disk[k]]
              /\ undercut' = undercut \cup
                   {k \in E : Stored(r)[k].kind = "cloned" /\ cloning'[k] # NoReader}
         /\ UNCHANGED <<now, closed, key, wait, faults, clears>>
BY DEF Publish, Stored, Goto

\* The steps of a reader other than Publish, and those of everybody else.
LEMMA TypeStep == TypeOK /\ [Next]_vars => TypeOK'
<1> SUFFICES ASSUME TypeOK, [Next]_vars PROVE TypeOK'
  OBVIOUS
<1> USE CacheAssumption DEF TypeOK, Entry, NoEntry, Directory, PC, Leading, Finished, Goto
<1>1. ASSUME NEW r \in Readers, Fetch(r) PROVE TypeOK'
  BY <1>1 DEF Fetch
<1>2. ASSUME NEW r \in Readers, Lookup(r) PROVE TypeOK'
  <2>1. UNCHANGED <<now, repos, closed, disk, key, faults, clears, undercut>>
    BY <1>2 DEF Lookup
  <2>2. \E to \in PC : pc' = [pc EXCEPT ![r] = to]
    BY <1>2 DEF Lookup
  <2>3. /\ wait' = wait \/ wait' = [wait EXCEPT ![r] = cloning[key[r]]]
        /\ cloning' = cloning \/ cloning' = [cloning EXCEPT ![key[r]] = r]
    BY <1>2 DEF Lookup
  <2>4. pc' \in [Readers -> PC]
    BY <2>2
  <2>5. wait' \in [Readers -> Readers \cup {NoReader}] /\ cloning' \in [Keys -> Readers \cup {NoReader}]
    BY <2>3
  <2> QED
    BY <2>1, <2>4, <2>5
<1>3. ASSUME NEW r \in Readers, Awake(r) PROVE TypeOK'
  BY <1>3 DEF Awake
<1>4. ASSUME NEW r \in Readers, Wipe(r) PROVE TypeOK'
  BY <1>4 DEF Wipe
<1>5. ASSUME NEW r \in Readers, StartClone(r) PROVE TypeOK'
  BY <1>5 DEF StartClone
<1>6. ASSUME NEW r \in Readers, CloneSucceeds(r) PROVE TypeOK'
  BY <1>6 DEF CloneSucceeds
<1>7. ASSUME NEW r \in Readers, CloneFails(r) PROVE TypeOK'
  BY <1>7 DEF CloneFails
<1>8. ASSUME NEW r \in Readers, Cleanup(r) PROVE TypeOK'
  BY <1>8 DEF Cleanup
<1>9. ASSUME NEW r \in Readers, PublishFailure(r) PROVE TypeOK'
  BY <1>9 DEF PublishFailure
<1>10. ASSUME NEW r \in Readers, Publish(r) PROVE TypeOK'
  <2> DEFINE es == Stored(r)
  <2>1. es \in [Keys -> Entry]
    BY DEF Stored
  <2> HIDE DEF es
  <2>2. PICK E \in Evictions(es) :
          /\ repos' = [k \in Keys |-> IF k \in E THEN NoEntry ELSE es[k]]
          /\ disk' = [k \in Keys |-> IF k \in E /\ es[k].kind = "cloned"
                                     THEN "absent" ELSE disk[k]]
          /\ undercut' = undercut \cup
               {k \in E : es[k].kind = "cloned" /\ cloning'[k] # NoReader}
    BY <1>10, PublishFacts DEF es
  <2>3. E \subseteq Keys
    BY DEF Present, Evictions
  <2>4. repos' \in [Keys -> Entry] /\ disk' \in [Keys -> Directory] /\ undercut' \subseteq Keys
    BY <2>1, <2>2, <2>3
  <2>5. QED
    BY <1>10, PublishFacts, <2>4
<1>11. ASSUME NEW r \in Readers, Close(r) PROVE TypeOK'
  BY <1>11 DEF Close
<1>12. ASSUME NEW r \in Readers, Read(r) PROVE TypeOK'
  BY <1>12 DEF Read
<1>13. ASSUME NEW ks \in SUBSET Keys, Drop(ks) PROVE TypeOK'
  BY <1>13 DEF Drop
<1>14. CASE Tick
  BY <1>14 DEF Tick
<1>15. CASE UNCHANGED vars
  BY <1>15 DEF vars
<1>16. QED
  BY <1>1, <1>2, <1>3, <1>4, <1>5, <1>6, <1>7, <1>8, <1>9, <1>10, <1>11, <1>12,
     <1>13, <1>14, <1>15 DEF Next, Step, Clear, ClearRepo

\* Who works on a repository, in every step.
LEMMA LeaderStep ==
  Inv /\ [Next]_vars => LeaderRegistered' /\ Registered' /\ FailureCleaned'
<1> SUFFICES ASSUME Inv, [Next]_vars
             PROVE LeaderRegistered' /\ Registered' /\ FailureCleaned'
  OBVIOUS
<1> USE CacheAssumption DEF Inv, LeaderRegistered, Registered, FailureCleaned, TypeOK,
        Leading, Finished, PC, Goto, Directory
<1>1. ASSUME NEW r \in Readers, Fetch(r)
      PROVE LeaderRegistered' /\ Registered' /\ FailureCleaned'
  BY <1>1 DEF Fetch
<1>2. ASSUME NEW r \in Readers, Lookup(r)
      PROVE LeaderRegistered' /\ Registered' /\ FailureCleaned'
  BY <1>2 DEF Lookup
<1>3. ASSUME NEW r \in Readers, Awake(r)
      PROVE LeaderRegistered' /\ Registered' /\ FailureCleaned'
  BY <1>3 DEF Awake
<1>4. ASSUME NEW r \in Readers, Wipe(r)
      PROVE LeaderRegistered' /\ Registered' /\ FailureCleaned'
  BY <1>4 DEF Wipe
<1>5. ASSUME NEW r \in Readers, StartClone(r)
      PROVE LeaderRegistered' /\ Registered' /\ FailureCleaned'
  BY <1>5 DEF StartClone
<1>6. ASSUME NEW r \in Readers, CloneSucceeds(r)
      PROVE LeaderRegistered' /\ Registered' /\ FailureCleaned'
  BY <1>6 DEF CloneSucceeds
<1>7. ASSUME NEW r \in Readers, CloneFails(r)
      PROVE LeaderRegistered' /\ Registered' /\ FailureCleaned'
  BY <1>7 DEF CloneFails
<1>8. ASSUME NEW r \in Readers, Cleanup(r)
      PROVE LeaderRegistered' /\ Registered' /\ FailureCleaned'
  BY <1>8 DEF Cleanup
<1>9. ASSUME NEW r \in Readers, PublishFailure(r)
      PROVE LeaderRegistered' /\ Registered' /\ FailureCleaned'
  BY <1>9 DEF PublishFailure
<1>10. ASSUME NEW r \in Readers, Publish(r)
       PROVE LeaderRegistered' /\ Registered' /\ FailureCleaned'
  <2>1. PICK E \in Evictions(Stored(r)) :
          disk' = [k \in Keys |-> IF k \in E /\ Stored(r)[k].kind = "cloned"
                                 THEN "absent" ELSE disk[k]]
    BY <1>10, PublishFacts
  <2>2. /\ pc[r] = "publish" /\ pc' = [pc EXCEPT ![r] = "close"]
        /\ cloning' = [cloning EXCEPT ![key[r]] = NoReader]
        /\ key' = key
    BY <1>10, PublishFacts
  <2>3. LeaderRegistered' /\ Registered'
    BY <2>2
  <2>4. FailureCleaned'
    BY <2>1, <2>2
  <2>5. QED
    BY <2>3, <2>4
<1>11. ASSUME NEW r \in Readers, Close(r)
       PROVE LeaderRegistered' /\ Registered' /\ FailureCleaned'
  BY <1>11 DEF Close
<1>12. ASSUME NEW r \in Readers, Read(r)
       PROVE LeaderRegistered' /\ Registered' /\ FailureCleaned'
  BY <1>12 DEF Read
<1>13. ASSUME NEW ks \in SUBSET Keys, Drop(ks)
       PROVE LeaderRegistered' /\ Registered' /\ FailureCleaned'
  BY <1>13 DEF Drop
<1>14. CASE Tick
  BY <1>14 DEF Tick
<1>15. CASE UNCHANGED vars
  BY <1>15 DEF vars
<1> HIDE DEF Inv, LeaderRegistered, Registered, FailureCleaned, TypeOK
<1>16. QED
  BY <1>1, <1>2, <1>3, <1>4, <1>5, <1>6, <1>7, <1>8, <1>9, <1>10, <1>11, <1>12,
     <1>13, <1>14, <1>15 DEF Next, Step, Clear, ClearRepo

\* A waiter is given the owner of a registered channel, and an owner closes its
\* channel in the very step in which it stops being on its way there.
LEMMA WaiterStep == Inv /\ [Next]_vars => NoneForgotten'
<1> SUFFICES ASSUME Inv, [Next]_vars PROVE NoneForgotten'
  OBVIOUS
<1> USE CacheAssumption DEF Inv, Registered, NoneForgotten, TypeOK,
        Leading, Finished, PC, Goto
<1>1. ASSUME NEW r \in Readers, Fetch(r) PROVE NoneForgotten'
  BY <1>1 DEF Fetch
<1>2. ASSUME NEW r \in Readers, Lookup(r) PROVE NoneForgotten'
  BY <1>2 DEF Lookup
<1>3. ASSUME NEW r \in Readers, Awake(r) PROVE NoneForgotten'
  BY <1>3 DEF Awake
<1>4. ASSUME NEW r \in Readers, Wipe(r) PROVE NoneForgotten'
  BY <1>4 DEF Wipe
<1>5. ASSUME NEW r \in Readers, StartClone(r) PROVE NoneForgotten'
  BY <1>5 DEF StartClone
<1>6. ASSUME NEW r \in Readers, CloneSucceeds(r) PROVE NoneForgotten'
  BY <1>6 DEF CloneSucceeds
<1>7. ASSUME NEW r \in Readers, CloneFails(r) PROVE NoneForgotten'
  BY <1>7 DEF CloneFails
<1>8. ASSUME NEW r \in Readers, Cleanup(r) PROVE NoneForgotten'
  BY <1>8 DEF Cleanup
<1>9. ASSUME NEW r \in Readers, PublishFailure(r) PROVE NoneForgotten'
  BY <1>9 DEF PublishFailure
<1>10. ASSUME NEW r \in Readers, Publish(r) PROVE NoneForgotten'
  BY <1>10 DEF Publish
<1>11. ASSUME NEW r \in Readers, Close(r) PROVE NoneForgotten'
  BY <1>11 DEF Close
<1>12. ASSUME NEW r \in Readers, Read(r) PROVE NoneForgotten'
  BY <1>12 DEF Read
<1>13. ASSUME NEW ks \in SUBSET Keys, Drop(ks) PROVE NoneForgotten'
  BY <1>13 DEF Drop
<1>14. CASE Tick
  BY <1>14 DEF Tick
<1>15. CASE UNCHANGED vars
  BY <1>15 DEF vars
<1> HIDE DEF Inv, TypeOK, NoneForgotten
<1>16. QED
  BY <1>1, <1>2, <1>3, <1>4, <1>5, <1>6, <1>7, <1>8, <1>9, <1>10, <1>11, <1>12,
     <1>13, <1>14, <1>15 DEF Next, Step, Clear, ClearRepo

\* Directories appear under a registered leader and are handed to an entry
\* before it unregisters; whoever drops an entry removes its directory.
LEMMA DiskStep == Inv /\ [Next]_vars => DiskAccounted'
<1> SUFFICES ASSUME Inv, [Next]_vars PROVE DiskAccounted'
  OBVIOUS
<1> USE CacheAssumption DEF Inv, LeaderRegistered, FailureCleaned, DiskAccounted, TypeOK,
        Leading, Goto, Cached, Entry, NoEntry
<1>1. ASSUME NEW r \in Readers, Fetch(r) PROVE DiskAccounted'
  BY <1>1 DEF Fetch
<1>2. ASSUME NEW r \in Readers, Lookup(r) PROVE DiskAccounted'
  BY <1>2 DEF Lookup
<1>3. ASSUME NEW r \in Readers, Awake(r) PROVE DiskAccounted'
  BY <1>3 DEF Awake
<1>4. ASSUME NEW r \in Readers, Wipe(r) PROVE DiskAccounted'
  BY <1>4 DEF Wipe
<1>5. ASSUME NEW r \in Readers, StartClone(r) PROVE DiskAccounted'
  BY <1>5 DEF StartClone
<1>6. ASSUME NEW r \in Readers, CloneSucceeds(r) PROVE DiskAccounted'
  BY <1>6 DEF CloneSucceeds
<1>7. ASSUME NEW r \in Readers, CloneFails(r) PROVE DiskAccounted'
  BY <1>7 DEF CloneFails
<1>8. ASSUME NEW r \in Readers, Cleanup(r) PROVE DiskAccounted'
  BY <1>8 DEF Cleanup
<1>9. ASSUME NEW r \in Readers, PublishFailure(r) PROVE DiskAccounted'
  BY <1>9 DEF PublishFailure
<1>10. ASSUME NEW r \in Readers, Publish(r) PROVE DiskAccounted'
  <2> DEFINE es == Stored(r)
  <2>1. /\ es \in [Keys -> Entry]
        /\ \A k \in Keys : k # key[r] => es[k] = repos[k]
        /\ es[key[r]].kind = "cloned"
    BY DEF Stored
  <2> HIDE DEF es
  <2>2. PICK E \in Evictions(es) :
          /\ repos' = [k \in Keys |-> IF k \in E THEN NoEntry ELSE es[k]]
          /\ disk' = [k \in Keys |-> IF k \in E /\ es[k].kind = "cloned"
                                     THEN "absent" ELSE disk[k]]
    BY <1>10, PublishFacts DEF es
  <2>3. cloning' = [cloning EXCEPT ![key[r]] = NoReader]
    BY <1>10, PublishFacts
  <2>4. ASSUME NEW k \in Keys, disk'[k] # "absent" PROVE Cached(k)' \/ cloning'[k] # NoReader
    BY <2>1, <2>2, <2>3, <2>4
  <2>5. QED
    BY <2>4
<1>11. ASSUME NEW r \in Readers, Close(r) PROVE DiskAccounted'
  BY <1>11 DEF Close
<1>12. ASSUME NEW r \in Readers, Read(r) PROVE DiskAccounted'
  BY <1>12 DEF Read
<1>13. ASSUME NEW ks \in SUBSET Keys, Drop(ks) PROVE DiskAccounted'
  BY <1>13 DEF Drop
<1>14. CASE Tick
  BY <1>14 DEF Tick
<1>15. CASE UNCHANGED vars
  BY <1>15 DEF vars
<1> HIDE DEF Inv, TypeOK, DiskAccounted
<1>16. QED
  BY <1>1, <1>2, <1>3, <1>4, <1>5, <1>6, <1>7, <1>8, <1>9, <1>10, <1>11, <1>12,
     <1>13, <1>14, <1>15 DEF Next, Step, Clear, ClearRepo

\* Evicting leaves at most MaxRepos entries.
LEMMA EvictionsBound ==
  ASSUME NEW es, IsFiniteSet(Present(es)), NEW E \in Evictions(es)
  PROVE  Cardinality(Present(es) \ E) <= MaxRepos
<1> DEFINE P == Present(es)
<1>1. E \subseteq P /\ Cardinality(E) = IF Cardinality(P) > MaxRepos
                                        THEN Cardinality(P) - MaxRepos ELSE 0
  BY DEF Evictions
<1>2. IsFiniteSet(E) /\ Cardinality(E) \in Nat /\ Cardinality(P) \in Nat
  BY <1>1, FS_Subset, FS_CardinalityType
<1>3. Cardinality(P \ E) = Cardinality(P) - Cardinality(P \cap E)
  BY FS_Difference
<1>4. P \cap E = E
  BY <1>1
<1>5. QED
  BY <1>1, <1>2, <1>3, <1>4, CacheAssumption

\* Nothing but Publish adds a clone to the cache, and Publish evicts.
CachedKeys == {k \in Keys : Cached(k)}

LEMMA BoundStep == Inv /\ [Next]_vars => CacheBounded'
<1> SUFFICES ASSUME Inv, [Next]_vars PROVE CacheBounded'
  OBVIOUS
<1>a. ASSUME CachedKeys' \subseteq CachedKeys PROVE CacheBounded'
  <2>1. IsFiniteSet(CachedKeys)
    BY CacheAssumption, FS_Subset DEF CachedKeys
  <2>2. Cardinality(CachedKeys') <= Cardinality(CachedKeys)
    BY <2>1, <1>a, FS_Subset
  <2>3. Cardinality(CachedKeys) \in Nat /\ Cardinality(CachedKeys') \in Nat
    BY <2>1, <1>a, FS_Subset, FS_CardinalityType
  <2>4. QED
    BY <2>2, <2>3, CacheAssumption DEF CacheBounded, CachedKeys, Inv
<1>b. ASSUME NEW r \in Readers, Publish(r) PROVE CacheBounded'
  <2> DEFINE es == Stored(r)
  <2>1. PICK E \in Evictions(es) : repos' = [k \in Keys |-> IF k \in E THEN NoEntry ELSE es[k]]
    BY <1>b, PublishFacts
  <2>2. IsFiniteSet(Present(es))
    BY CacheAssumption, FS_Subset DEF Present
  <2> HIDE DEF es
  <2>3. CachedKeys' \subseteq Present(es) \ E
    BY <2>1 DEF CachedKeys, Cached, Present, NoEntry
  <2>4. IsFiniteSet(Present(es) \ E)
    BY <2>2, FS_Subset
  <2>5. Cardinality(CachedKeys') <= Cardinality(Present(es) \ E)
    BY <2>3, <2>4, FS_Subset
  <2>6. Cardinality(Present(es) \ E) <= MaxRepos
    BY <2>2, EvictionsBound
  <2>7. Cardinality(CachedKeys') \in Nat /\ Cardinality(Present(es) \ E) \in Nat
    BY <2>3, <2>4, FS_Subset, FS_CardinalityType
  <2>8. QED
    BY <2>5, <2>6, <2>7, CacheAssumption DEF CacheBounded, CachedKeys
<1>c. ASSUME repos' = repos PROVE CacheBounded'
  BY <1>c DEF Inv, CacheBounded, Cached
<1>d. ASSUME NEW r \in Readers, PublishFailure(r) PROVE CachedKeys' \subseteq CachedKeys
  BY <1>d DEF PublishFailure, CachedKeys, Cached, Inv, TypeOK
<1>e. ASSUME NEW ks \in SUBSET Keys, Drop(ks) PROVE CachedKeys' \subseteq CachedKeys
  BY <1>e DEF Drop, CachedKeys, Cached, NoEntry, Inv, TypeOK
<1>f. ASSUME NEW r \in Readers, Fetch(r) \/ Lookup(r) \/ Awake(r) \/ Wipe(r) \/ StartClone(r)
             \/ CloneSucceeds(r) \/ CloneFails(r) \/ Cleanup(r) \/ Close(r) \/ Read(r)
      PROVE  repos' = repos
  BY <1>f DEF Fetch, Lookup, Awake, Wipe, StartClone, CloneSucceeds, CloneFails, Cleanup,
              Close, Read
<1>g. ASSUME Tick \/ UNCHANGED vars PROVE repos' = repos
  BY <1>g DEF Tick, vars
<1>h. QED
  BY <1>a, <1>b, <1>c, <1>d, <1>e, <1>f, <1>g DEF Next, Step, Clear, ClearRepo

-----------------------------------------------------------------------------
LEMMA InitInv == Init => Inv
<1> SUFFICES ASSUME Init PROVE Inv
  OBVIOUS
<1>1. TypeOK
  BY CacheAssumption DEF Init, TypeOK, Entry, NoEntry, Directory, PC
<1>2. LeaderRegistered /\ FailureCleaned /\ Registered /\ NoneForgotten /\ DiskAccounted
  BY DEF Init, LeaderRegistered, FailureCleaned, Registered, NoneForgotten, DiskAccounted, Leading
<1>3. {k \in Keys : Cached(k)} = {}
  BY DEF Init, Cached, NoEntry
<1>4. CacheBounded
  BY <1>3, FS_EmptySet, CacheAssumption DEF CacheBounded
<1>5. QED
  BY <1>1, <1>2, <1>4 DEF Inv

LEMMA Inductive == Inv /\ [Next]_vars => Inv'
  BY TypeStep, LeaderStep, WaiterStep, DiskStep, BoundStep DEF Inv

\* The inductive invariant, with the type invariant in it: every entry,
\* channel and directory is of its kind in every reachable state.
THEOREM Invariant == Spec => []Inv
  BY InitInv, Inductive, PTL DEF Spec

\* The cache's variables keep their types (GitCache, its maps and channels).
THEOREM TypeCorrect == Spec => []TypeOK
<1>1. Inv => TypeOK
  BY DEF Inv
<1>2. QED
  BY <1>1, Invariant, PTL

\* For any number of readers and repositories, and whatever Clear, eviction
\* and expiry do meanwhile, one reader at a time works on a repository's
\* directory (getOrClone, cloneAndCache).
THEOREM OneCloner == Spec => []SingleCloner
<1>1. Inv => SingleCloner
  BY DEF Inv, LeaderRegistered, SingleCloner
<1>2. QED
  BY <1>1, Invariant, PTL

\* No directory is ever left that neither an entry nor a clone under way
\* accounts for (cloneAndCache, Clear, ClearRepo, evictLocked).
THEOREM DiskAlwaysAccounted == Spec => []DiskAccounted
<1>1. Inv => DiskAccounted
  BY DEF Inv
<1>2. QED
  BY <1>1, Invariant, PTL

\* However many repositories there are, the cache keeps at most maxCachedRepos
\* clones (evictLocked).
THEOREM AlwaysBounded == Spec => []CacheBounded
<1>1. Inv => CacheBounded
  BY DEF Inv
<1>2. QED
  BY <1>1, Invariant, PTL

\* Nobody waits for a channel that nobody will close (awaitClone): the safety
\* half of FetchEnds, for any number of readers.
THEOREM WaitersRemembered == Spec => []NoneForgotten
<1>1. Inv => NoneForgotten
  BY DEF Inv
<1>2. QED
  BY <1>1, Invariant, PTL

-----------------------------------------------------------------------------
(* Lists                                                                   *)

\* A set of numbers that holds 0 and the successor of each of its members
\* holds them all.
LEMMA SuccessorClosed ==
  ASSUME NEW G, 0 \in G, \A n \in Nat : n \in G => n + 1 \in G
  PROVE  \A n \in Nat : n \in G
<1> DEFINE T == Nat \ G
<1> SUFFICES ASSUME T # {}
             PROVE  FALSE
  OBVIOUS
<1>1. \E n \in T : \A m \in T : ~(<<m, n>> \in OpToRel(<, Nat))
  BY NatLessThanWellFounded, WFMin
<1>2. PICK n \in T : \A m \in T : ~(m < n)
  BY <1>1 DEF OpToRel
<1>3. n \in Nat /\ n # 0 /\ n - 1 \in Nat /\ n - 1 < n /\ n = (n - 1) + 1
  BY <1>2
<1>4. n - 1 \in G
  BY <1>2, <1>3
<1>5. n \in G
  BY <1>3, <1>4
<1> QED
  BY <1>2, <1>5

\* What Among keeps of the first i entries.
Keeps(list, set, kept) ==
  kept = [i \in 0 .. Len(list) |->
            IF i = 0 THEN <<>>
            ELSE IF list[i] \in set THEN Append(kept[i - 1], list[i]) ELSE kept[i - 1]]

LEMMA AmongIsKept ==
  ASSUME NEW list, NEW set
  PROVE  Among(list, set) = (CHOOSE kept : Keeps(list, set, kept))[Len(list)]
  BY DEF Among, Keeps

LEMMA KeptExists ==
  ASSUME NEW T, NEW list \in Seq(T), NEW set
  PROVE  \E kept : Keeps(list, set, kept)
<1> DEFINE Pass(f, i) == IF list[i] \in set THEN Append(f[i - 1], list[i]) ELSE f[i - 1]
           Upto(f, n) == f = [i \in 0 .. n |-> IF i = 0 THEN <<>> ELSE Pass(f, i)]
           G == {n \in Nat : \E f : Upto(f, n)}
<1>1. 0 \in G
  <2> DEFINE f == [i \in 0 .. 0 |-> <<>>]
  <2>1. f = [i \in 0 .. 0 |-> IF i = 0 THEN <<>> ELSE Pass(f, i)]
    OBVIOUS
  <2> HIDE DEF f
  <2>2. Upto(f, 0)
    BY <2>1
  <2> QED
    BY <2>2
<1>2. ASSUME NEW n \in Nat, n \in G PROVE n + 1 \in G
  <2>1. PICK f : Upto(f, n)
    BY <1>2
  <2> DEFINE h == [i \in 0 .. (n + 1) |-> IF i = 0 THEN <<>> ELSE Pass(f, i)]
  <2>2. \A i \in 0 .. n : h[i] = f[i]
    <3> HIDE DEF Pass
    <3>1. \A i \in 0 .. n : f[i] = IF i = 0 THEN <<>> ELSE Pass(f, i)
      BY <2>1, Zenon
    <3>2. \A i \in 0 .. n : i \in 0 .. (n + 1)
      OBVIOUS
    <3>3. \A i \in 0 .. n : h[i] = IF i = 0 THEN <<>> ELSE Pass(f, i)
      BY <3>2, Zenon
    <3> QED
      BY <3>1, <3>3, Zenon
  <2>3. \A i \in 0 .. (n + 1) : i # 0 => i - 1 \in 0 .. n
    OBVIOUS
  <2>4. h = [i \in 0 .. (n + 1) |-> IF i = 0 THEN <<>> ELSE Pass(h, i)]
    BY <2>2, <2>3
  <2>5. Upto(h, n + 1)
    BY <2>4
  <2> HIDE DEF h
  <2> QED
    BY <2>5
<1> HIDE DEF G
<1>3. Len(list) \in Nat /\ Len(list) \in G
  BY <1>1, <1>2, SuccessorClosed
<1>4. PICK f : Upto(f, Len(list))
  BY <1>3 DEF G
<1> QED
  BY <1>4 DEF Keeps

\* How the result of Among comes about, entry by entry.
Building(list, set, kept) ==
  /\ kept[0] = <<>>
  /\ \A i \in 1 .. Len(list) :
       kept[i] = IF list[i] \in set THEN Append(kept[i - 1], list[i]) ELSE kept[i - 1]

LEMMA AmongBuilt ==
  ASSUME NEW T, NEW list \in Seq(T), NEW set
  PROVE  \E kept : /\ Building(list, set, kept)
                   /\ \A i \in 0 .. Len(list) : kept[i] \in Seq(T)
                   /\ Among(list, set) = kept[Len(list)]
<1> DEFINE kept == CHOOSE f : Keeps(list, set, f)
<1>1. Keeps(list, set, kept)
  BY KeptExists
<1>2. Among(list, set) = kept[Len(list)]
  BY AmongIsKept
<1> HIDE DEF kept
<1>3. Len(list) \in Nat
  OBVIOUS
<1>4. Building(list, set, kept)
  <2>1. kept[0] = <<>>
    BY <1>1, <1>3 DEF Keeps
  <2>2. \A i \in 1 .. Len(list) : i \in 0 .. Len(list) /\ i # 0
    OBVIOUS
  <2> QED
    BY <1>1, <2>1, <2>2 DEF Keeps, Building
<1>5. \A i \in 0 .. Len(list) : kept[i] \in Seq(T)
  <2> DEFINE G == {i \in Nat : i <= Len(list) => kept[i] \in Seq(T)}
  <2>1. 0 \in G
    <3>1. kept[0] = <<>> /\ <<>> \in Seq(T)
      BY <1>4 DEF Building
    <3> QED
      BY <3>1
  <2>2. ASSUME NEW i \in Nat, i \in G PROVE i + 1 \in G
    <3> SUFFICES ASSUME i + 1 <= Len(list) PROVE kept[i + 1] \in Seq(T)
      OBVIOUS
    <3>1. kept[i] \in Seq(T)
      BY <1>3, <2>2
    <3>2. i + 1 \in 1 .. Len(list) /\ (i + 1) - 1 = i
      BY <1>3
    <3>3. list[i + 1] \in T
      BY <3>2
    <3>4. kept[i + 1] = IF list[i + 1] \in set THEN Append(kept[i], list[i + 1]) ELSE kept[i]
      BY <1>4, <3>2 DEF Building
    <3> HIDE DEF G
    <3> QED
      BY <3>1, <3>3, <3>4
  <2> HIDE DEF G
  <2>3. \A i \in Nat : i \in G
    BY <2>1, <2>2, SuccessorClosed
  <2> QED
    BY <1>3, <2>3 DEF G
<1> QED
  BY <1>2, <1>4, <1>5

\* Among keeps the entries that are in the set, and no others.
LEMMA AmongRange ==
  ASSUME NEW T, NEW list \in Seq(T), NEW set
  PROVE  /\ Among(list, set) \in Seq(T)
         /\ Range(Among(list, set)) = Range(list) \cap set
<1>1. PICK kept : /\ Building(list, set, kept)
                  /\ \A i \in 0 .. Len(list) : kept[i] \in Seq(T)
                  /\ Among(list, set) = kept[Len(list)]
  BY AmongBuilt
<1>2. Len(list) \in Nat
  OBVIOUS
<1> DEFINE Upfront(i) == {list[j] : j \in 1 .. i}
           G == {i \in Nat : i <= Len(list) => Range(kept[i]) = Upfront(i) \cap set}
<1>3. 0 \in G
  <2>1. Range(kept[0]) = {}
    BY <1>1 DEF Building, Range
  <2>2. Upfront(0) = {}
    OBVIOUS
  <2> QED
    BY <2>1, <2>2
<1>4. ASSUME NEW i \in Nat, i \in G PROVE i + 1 \in G
  <2> SUFFICES ASSUME i + 1 <= Len(list) PROVE Range(kept[i + 1]) = Upfront(i + 1) \cap set
    OBVIOUS
  <2>1. Range(kept[i]) = Upfront(i) \cap set
    BY <1>2, <1>4
  <2>2. i + 1 \in 1 .. Len(list) /\ (i + 1) - 1 = i /\ i \in 0 .. Len(list)
    BY <1>2
  <2>3. kept[i + 1] = IF list[i + 1] \in set THEN Append(kept[i], list[i + 1]) ELSE kept[i]
    BY <1>1, <2>2 DEF Building
  <2>4. Upfront(i + 1) = Upfront(i) \cup {list[i + 1]}
    <3>1. 1 .. (i + 1) = (1 .. i) \cup {i + 1}
      OBVIOUS
    <3> QED
      BY <3>1
  <2>5. kept[i] \in Seq(T) /\ list[i + 1] \in T
    BY <1>1, <2>2
  <2>6. Range(Append(kept[i], list[i + 1])) = Range(kept[i]) \cup {list[i + 1]}
    <3> DEFINE s == kept[i]
               e == list[i + 1]
    <3>1. s \in Seq(T) /\ e \in T
      BY <2>5
    <3> HIDE DEF s, e
    <3>2. /\ Len(Append(s, e)) = Len(s) + 1 /\ Len(s) \in Nat /\ Append(s, e)[Len(s) + 1] = e
          /\ \A j \in 1 .. Len(s) : Append(s, e)[j] = s[j]
      BY <3>1
    <3>3. DOMAIN Append(s, e) = (DOMAIN s) \cup {Len(s) + 1} /\ DOMAIN s = 1 .. Len(s)
      BY <3>1, <3>2
    <3>4. Range(Append(s, e)) = Range(s) \cup {e}
      BY <3>2, <3>3 DEF Range
    <3> QED
      BY <3>4 DEF s, e
  <2> HIDE DEF G, Upfront
  <2> QED
    BY <2>1, <2>3, <2>4, <2>6
<1> HIDE DEF G
<1>5. Len(list) \in G
  BY <1>2, <1>3, <1>4, SuccessorClosed
<1>6. Upfront(Len(list)) = Range(list)
  BY DEF Range
<1> HIDE DEF Upfront
<1>7. Range(kept[Len(list)]) = Range(list) \cap set
  BY <1>2, <1>5, <1>6 DEF G
<1> QED
  BY <1>1, <1>2, <1>7

LEMMA AmongMembers ==
  ASSUME NEW T, NEW list \in Seq(T), NEW set
  PROVE  /\ \A i \in DOMAIN Among(list, set) : Among(list, set)[i] \in Range(list) \cap set
         /\ \A x \in Range(list) \cap set : \E i \in DOMAIN Among(list, set) : Among(list, set)[i] = x
         /\ Among(list, set) # <<>> <=> Range(list) \cap set # {}
         /\ Among(list, set) # <<>> => Head(Among(list, set)) \in Range(list) \cap set
<1> DEFINE a == Among(list, set)
<1>1. a \in Seq(T) /\ Range(a) = Range(list) \cap set
  BY AmongRange
<1> HIDE DEF a
<1>2. a # <<>> => 1 \in DOMAIN a /\ Head(a) = a[1]
  BY <1>1
<1>3. a = <<>> => DOMAIN a = {}
  BY <1>1
<1> QED
  BY <1>1, <1>2, <1>3 DEF Range, a

\* Where the first entries are all in the set, they are the first of the result.
LEMMA AmongPrefix ==
  ASSUME NEW T, NEW list \in Seq(T), NEW set, NEW p \in 0 .. Len(list),
         \A i \in 1 .. p : list[i] \in set
  PROVE  /\ p <= Len(Among(list, set)) /\ Len(Among(list, set)) <= Len(list)
         /\ \A i \in 1 .. p : Among(list, set)[i] = list[i]
<1>1. PICK kept : /\ Building(list, set, kept)
                  /\ \A i \in 0 .. Len(list) : kept[i] \in Seq(T)
                  /\ Among(list, set) = kept[Len(list)]
  BY AmongBuilt
<1>2. Len(list) \in Nat
  OBVIOUS
<1> DEFINE m(n) == IF n <= p THEN n ELSE p
           Good(n) == /\ m(n) <= Len(kept[n]) /\ Len(kept[n]) <= n
                      /\ \A i \in 1 .. m(n) : kept[n][i] = list[i]
           G == {n \in Nat : n <= Len(list) => Good(n)}
<1>3. 0 \in G
  <2>1. kept[0] = <<>> /\ Len(<<>>) = 0
    BY <1>1 DEF Building
  <2> QED
    BY <2>1
<1>4. ASSUME NEW n \in Nat, n \in G PROVE n + 1 \in G
  <2> SUFFICES ASSUME n + 1 <= Len(list) PROVE Good(n + 1)
    OBVIOUS
  <2>1. Good(n)
    BY <1>2, <1>4
  <2>2. n + 1 \in 1 .. Len(list) /\ (n + 1) - 1 = n /\ n \in 0 .. Len(list)
    BY <1>2
  <2>3. kept[n + 1] = IF list[n + 1] \in set THEN Append(kept[n], list[n + 1]) ELSE kept[n]
    BY <1>1, <2>2 DEF Building
  <2> DEFINE s == kept[n]
             e == list[n + 1]
  <2>4. s \in Seq(T) /\ e \in T
    BY <1>1, <2>2
  <2> HIDE DEF s, e
  <2>5. /\ Len(Append(s, e)) = Len(s) + 1 /\ Len(s) \in Nat /\ Append(s, e)[Len(s) + 1] = e
        /\ \A j \in 1 .. Len(s) : Append(s, e)[j] = s[j]
    BY <2>4
  <2>6. m(n) <= Len(s) /\ Len(s) <= n /\ \A i \in 1 .. m(n) : s[i] = list[i]
    BY <2>1 DEF s
  <2>7. kept[n + 1] = IF e \in set THEN Append(s, e) ELSE s
    BY <2>3 DEF s, e
  <2>8. CASE n + 1 <= p
    <3>1. e \in set /\ m(n + 1) = n + 1 /\ m(n) = n /\ Len(s) = n
      BY <2>5, <2>6, <2>8 DEF e
    <3>2. kept[n + 1] = Append(s, e)
      BY <2>7, <3>1
    <3>3. \A i \in 1 .. n + 1 : Append(s, e)[i] = list[i]
      <4>1. \A i \in 1 .. n : Append(s, e)[i] = list[i]
        BY <2>5, <2>6, <3>1
      <4>2. Append(s, e)[n + 1] = list[n + 1]
        BY <2>5, <3>1 DEF e
      <4>3. \A i \in 1 .. n + 1 : i \in 1 .. n \/ i = n + 1
        OBVIOUS
      <4> QED
        BY <4>1, <4>2, <4>3, Zenon
    <3> QED
      BY <2>5, <3>1, <3>2, <3>3
  <2>9. CASE ~(n + 1 <= p)
    <3>1. m(n + 1) = p /\ m(n) = p
      BY <2>9
    <3>2. /\ p <= Len(kept[n + 1]) /\ Len(kept[n + 1]) <= n + 1
          /\ \A i \in 1 .. p : kept[n + 1][i] = list[i]
      BY <2>5, <2>6, <2>7, <3>1
    <3> QED
      BY <3>1, <3>2
  <2> QED
    BY <2>8, <2>9
<1> HIDE DEF G
<1>5. Len(list) \in G
  BY <1>2, <1>3, <1>4, SuccessorClosed
<1>6. m(Len(list)) = p
  BY <1>2
<1>7. Good(Len(list))
  BY <1>2, <1>5 DEF G
<1> HIDE DEF m
<1> QED
  BY <1>1, <1>6, <1>7

LEMMA AmongAll ==
  ASSUME NEW T, NEW list \in Seq(T), NEW set, Range(list) \subseteq set
  PROVE  Among(list, set) = list
<1> DEFINE a == Among(list, set)
<1>1. a \in Seq(T)
  BY AmongRange
<1>2. Len(list) \in 0 .. Len(list) /\ \A i \in 1 .. Len(list) : list[i] \in set
  BY DEF Range
<1>3. Len(list) <= Len(a) /\ Len(a) <= Len(list) /\ \A i \in 1 .. Len(list) : a[i] = list[i]
  BY <1>2, AmongPrefix
<1> HIDE DEF a
<1>4. a = list
  BY <1>1, <1>3
<1> QED
  BY <1>4 DEF a

\* Of a list without repetitions Among keeps as many entries as there are
\* members of the set.
LEMMA AmongCount ==
  ASSUME NEW T, NEW list \in Seq(T), NEW set, IsInjective(list)
  PROVE  /\ IsFiniteSet(Range(list) \cap set)
         /\ Len(Among(list, set)) = Cardinality(Range(list) \cap set)
<1>1. PICK kept : /\ Building(list, set, kept)
                  /\ \A i \in 0 .. Len(list) : kept[i] \in Seq(T)
                  /\ Among(list, set) = kept[Len(list)]
  BY AmongBuilt
<1>2. Len(list) \in Nat
  OBVIOUS
<1> DEFINE Upfront(i) == {list[j] : j \in 1 .. i} \cap set
           Good(i) == IsFiniteSet(Upfront(i)) /\ Len(kept[i]) = Cardinality(Upfront(i))
           G == {i \in Nat : i <= Len(list) => Good(i)}
<1>3. 0 \in G
  <2>1. kept[0] = <<>> /\ Len(<<>>) = 0
    BY <1>1 DEF Building
  <2>2. Upfront(0) = {}
    OBVIOUS
  <2> QED
    BY <2>1, <2>2, FS_EmptySet
<1>4. ASSUME NEW i \in Nat, i \in G PROVE i + 1 \in G
  <2> SUFFICES ASSUME i + 1 <= Len(list) PROVE Good(i + 1)
    OBVIOUS
  <2>1. Good(i)
    BY <1>2, <1>4
  <2>2. i + 1 \in 1 .. Len(list) /\ (i + 1) - 1 = i /\ i \in 0 .. Len(list)
    BY <1>2
  <2>3. kept[i + 1] = IF list[i + 1] \in set THEN Append(kept[i], list[i + 1]) ELSE kept[i]
    BY <1>1, <2>2 DEF Building
  <2>4. Upfront(i + 1) = IF list[i + 1] \in set THEN Upfront(i) \cup {list[i + 1]} ELSE Upfront(i)
    <3>1. 1 .. (i + 1) = (1 .. i) \cup {i + 1}
      OBVIOUS
    <3>2. {list[j] : j \in 1 .. (i + 1)} = {list[j] : j \in 1 .. i} \cup {list[i + 1]}
      BY <3>1
    <3> QED
      BY <3>2
  <2>5. list[i + 1] \notin Upfront(i)
    <3>1. \A j \in 1 .. i : list[j] # list[i + 1]
      <4>1. DOMAIN list = 1 .. Len(list)
        OBVIOUS
      <4>2. \A j \in 1 .. i : j \in DOMAIN list /\ i + 1 \in DOMAIN list /\ j # i + 1
        BY <1>2, <2>2, <4>1
      <4> QED
        BY <4>2 DEF IsInjective
    <3> QED
      BY <3>1
  <2>6. kept[i] \in Seq(T) /\ list[i + 1] \in T
    BY <1>1, <2>2
  <2>7. Len(Append(kept[i], list[i + 1])) = Len(kept[i]) + 1
    BY <2>6
  <2> HIDE DEF G, Upfront
  <2>8. /\ IsFiniteSet(Upfront(i) \cup {list[i + 1]})
        /\ Cardinality(Upfront(i) \cup {list[i + 1]}) = Cardinality(Upfront(i)) + 1
    BY <2>1, <2>5, FS_AddElement
  <2> QED
    BY <2>1, <2>3, <2>4, <2>7, <2>8
<1> HIDE DEF G
<1>5. Len(list) \in G
  BY <1>2, <1>3, <1>4, SuccessorClosed
<1>6. Upfront(Len(list)) = Range(list) \cap set
  BY DEF Range
<1>7. Good(Len(list))
  BY <1>2, <1>5 DEF G
<1> HIDE DEF Upfront
<1> QED
  BY <1>1, <1>6, <1>7

-----------------------------------------------------------------------------
(* The project                                                             *)

ProjectTypeOK ==
  /\ branches \subseteq Names
  /\ ahead \in [Names -> Seq(Kinds)]
  /\ touched \subseteq Names \ {Main}
  /\ onMain \in BOOLEAN
  /\ state \in [Ids -> States]
  /\ author \in [Ids -> Everyone]
  /\ pipe \in [Ids -> Statuses]
  /\ green \subseteq Ids
  /\ within \in [Ids -> Seq(Kinds)]
  /\ moves \in Nat

\* A merge request that was never opened has no work in it, and a pipeline that
\* shows success has passed.
ProjectInv ==
  /\ ProjectTypeOK
  /\ \A m \in Ids : state[m] = "none" => m \notin green /\ within[m] = <<>>
  /\ \A m \in Ids : pipe[m] = "success" => m \in green

LEMMA ProjectInvInit == ProjectInit => ProjectInv
<1> SUFFICES ASSUME ProjectInit PROVE ProjectInv
  OBVIOUS
<1>1. PICK s \in Starts :
        /\ ahead = s.ahead /\ state = s.state /\ author = s.author /\ pipe = s.pipe
        /\ branches = {Main} \cup {b \in Names : ahead[b] # <<>>}
                          \cup {Source[m] : m \in {i \in Ids : state[i] # "none"}}
        /\ touched = s.touched /\ onMain = FALSE
        /\ green = {m \in Ids : pipe[m] = "success"}
        /\ within = [m \in Ids |-> IF state[m] = "none" THEN <<>> ELSE ahead[Source[m]]]
        /\ moves = 0
  BY DEF ProjectInit
<1>2. IsStart(s) /\ Main \in Names /\ Source \in [Ids -> Names]
  BY ProjectAssumption
<1>3. ProjectTypeOK
  <2>1. /\ ahead \in [Names -> Seq(Kinds)] /\ touched \subseteq Names \ {Main}
        /\ state \in [Ids -> States] /\ author \in [Ids -> Everyone] /\ pipe \in [Ids -> Statuses]
    BY <1>1, <1>2 DEF IsStart
  <2>2. branches \subseteq Names
    BY <1>1, <1>2
  <2>3. within \in [Ids -> Seq(Kinds)]
    <3>1. <<>> \in Seq(Kinds)
      OBVIOUS
    <3> QED
      BY <1>1, <1>2, <2>1, <3>1
  <2>4. onMain \in BOOLEAN /\ green \subseteq Ids /\ moves \in Nat
    BY <1>1
  <2> QED
    BY <2>1, <2>2, <2>3, <2>4 DEF ProjectTypeOK
<1>4. \A m \in Ids : state[m] = "none" => pipe[m] = "none"
  BY <1>1, <1>2 DEF IsStart
<1> QED
  BY <1>1, <1>3, <1>4 DEF ProjectInv

\* Work in a project is never undone: what a check may have read stays read.
Grows ==
  /\ branches \subseteq branches'
  /\ green \subseteq green'
  /\ \A m \in Ids : Range(within[m]) \subseteq Range(within'[m])
  /\ \A m \in Ids : state[m] # "none" => state'[m] # "none" /\ author'[m] = author[m]
  /\ \A m \in Ids : state[m] = "merged" => state'[m] = "merged"
  /\ onMain \/ touched # {} => onMain' \/ touched' # {}

\* A commit more on top of a list.
LEMMA CommitAdded ==
  ASSUME NEW kind \in Kinds, NEW list \in Seq(Kinds)
  PROVE  <<kind>> \o list \in Seq(Kinds) /\ Range(list) \subseteq Range(<<kind>> \o list)
<1>1. <<kind>> \in Seq(Kinds)
  OBVIOUS
<1>2. Range(<<kind>> \o list) = Range(<<kind>>) \cup Range(list)
  BY <1>1, RangeConcatenation, Zenon
<1> QED
  BY <1>1, <1>2

LEMMA ProjectStep ==
  ASSUME ProjectInv, ProjectNext
  PROVE  ProjectInv' /\ Grows
<1> USE DEF ProjectInv, ProjectTypeOK, Grows, Move
<1>1. ASSUME NEW b \in Names, NEW kind \in Kinds, NEW file \in BOOLEAN, Push(b, kind, file)
      PROVE  ProjectInv' /\ Grows
  <2>1. Affected(b) \subseteq Ids /\ \A m \in Affected(b) : state[m] = "opened"
    BY DEF Affected
  <2>2. ahead' \in [Names -> Seq(Kinds)] /\ branches' \subseteq Names
    <3>1. <<kind>> \o ahead[b] \in Seq(Kinds)
      BY CommitAdded
    <3> QED
      BY <1>1, <3>1 DEF Push
  <2>3. touched' \subseteq Names \ {Main} /\ touched \subseteq touched'
    BY <1>1 DEF Push
  <2>4. pipe' \in [Ids -> Statuses]
    BY <1>1 DEF Push, Statuses
  <2>7. within' \in [Ids -> Seq(Kinds)] /\ \A m \in Ids : Range(within[m]) \subseteq Range(within'[m])
    <3>1. within' = [m \in Ids |-> IF m \in Affected(b) THEN <<kind>> \o within[m] ELSE within[m]]
      BY <1>1 DEF Push
    <3>2. \A m \in Ids : /\ <<kind>> \o within[m] \in Seq(Kinds)
                         /\ Range(within[m]) \subseteq Range(<<kind>> \o within[m])
      BY CommitAdded
    <3> QED
      BY <3>1, <3>2
  <2>5. /\ \A m \in Ids : pipe'[m] = "success" => m \in green
        /\ \A m \in Ids : state[m] = "none" => within'[m] = within[m]
    BY <1>1, <2>1 DEF Push
  <2>6. UNCHANGED <<onMain, state, author, green>> /\ branches \subseteq branches' /\ moves' \in Nat
    BY <1>1 DEF Push
  <2> QED
    BY <2>2, <2>3, <2>4, <2>5, <2>6, <2>7
<1>2. ASSUME NEW m \in Ids, NEW who \in Everyone, OpenMR(m, who)
      PROVE  ProjectInv' /\ Grows
  <2>1. Source[m] \in Names /\ ahead[Source[m]] \in Seq(Kinds)
    BY ProjectAssumption
  <2>2. /\ state' \in [Ids -> States] /\ author' \in [Ids -> Everyone]
        /\ pipe' \in [Ids -> Statuses] /\ within' \in [Ids -> Seq(Kinds)]
    BY <1>2, <2>1 DEF OpenMR, Statuses, States
  <2>3. /\ state[m] = "none" /\ state'[m] = "opened" /\ within[m] = <<>> /\ pipe'[m] # "success"
        /\ \A i \in Ids \ {m} : /\ state'[i] = state[i] /\ author'[i] = author[i]
                                /\ pipe'[i] = pipe[i] /\ within'[i] = within[i]
    BY <1>2 DEF OpenMR
  <2>4. UNCHANGED <<branches, ahead, touched, onMain, green>> /\ moves' \in Nat
    BY <1>2 DEF OpenMR
  <2>5. \A i \in Ids : Range(within[i]) \subseteq Range(within'[i])
    <3>1. Range(within[m]) = {}
      BY <2>3 DEF Range
    <3> QED
      BY <2>3, <3>1
  <2> QED
    BY <2>2, <2>3, <2>4, <2>5
<1>3. ASSUME NEW m \in Ids, NEW status \in {"success", "failed"}, PipelineEnds(m, status)
      PROVE  ProjectInv' /\ Grows
  BY <1>3 DEF PipelineEnds, Statuses
<1>4. ASSUME NEW m \in Ids, MergeMR(m)
      PROVE  ProjectInv' /\ Grows
  <2>1. Source[m] \in Names
    BY ProjectAssumption
  <2>2. /\ state' \in [Ids -> States] /\ ahead' \in [Names -> Seq(Kinds)]
        /\ touched' \subseteq Names \ {Main} /\ onMain' \in BOOLEAN
    <3>1. <<>> \in Seq(Kinds)
      OBVIOUS
    <3> QED
      BY <1>4, <2>1, <3>1 DEF MergeMR, States
  <2>3. /\ state[m] = "opened" /\ state'[m] = "merged" /\ \A i \in Ids \ {m} : state'[i] = state[i]
        /\ UNCHANGED <<branches, author, pipe, green, within>> /\ moves' \in Nat
    BY <1>4 DEF MergeMR
  <2>4. onMain \/ touched # {} => onMain' \/ touched' # {}
    <3>1. onMain' = (onMain \/ Source[m] \in touched)
      BY <1>4 DEF MergeMR
    <3>2. Source[m] \notin touched => touched' = touched
      BY <1>4 DEF MergeMR
    <3>3. Source[m] \in touched => onMain'
      BY <3>1
    <3>4. onMain => onMain'
      BY <3>1
    <3> QED
      BY <3>2, <3>3, <3>4, Zenon
  <2> QED
    BY <2>2, <2>3, <2>4
<1>5. ASSUME NEW m \in Ids, CloseMR(m)
      PROVE  ProjectInv' /\ Grows
  BY <1>5 DEF CloseMR, States
<1> QED
  BY <1>1, <1>2, <1>3, <1>4, <1>5, ZenonT(40) DEF ProjectNext

\* What the listings answer.
LEMMA Listings ==
  ASSUME NEW S
  PROVE  /\ Among(MRs, S) \in Seq(Ids)
         /\ Range(Among(MRs, S)) = Ids \cap S
         /\ IsFiniteSet(Ids \cap S) /\ Cardinality(Ids \cap S) \in Nat
         /\ Len(Among(MRs, S)) \in Nat
         /\ Len(Among(MRs, S)) = Cardinality(Ids \cap S)
<1>1. MRs \in Seq(Ids) /\ IsInjective(MRs)
  BY ProjectAssumption
<1>2. Among(MRs, S) \in Seq(Ids) /\ Range(Among(MRs, S)) = Ids \cap S
  BY <1>1, AmongRange DEF Ids
<1>3. IsFiniteSet(Ids \cap S) /\ Len(Among(MRs, S)) = Cardinality(Ids \cap S)
  BY <1>1, AmongCount DEF Ids
<1> QED
  BY <1>2, <1>3, FS_CardinalityType

\* Which branches a pattern finds.
LEMMA BranchFound ==
  ASSUME NEW listed \in Seq(Names), NEW pattern
  PROVE  /\ BranchByPattern(listed, pattern) # <<>> <=> Range(listed) \cap Matches[pattern] # {}
         /\ BranchByPattern(listed, pattern) # <<>> =>
              Head(BranchByPattern(listed, pattern)) \in Names \cap Range(listed)
<1>1. Range(listed) \subseteq Names
  BY DEF Range
<1> QED
  BY <1>1, AmongMembers, Zenon DEF BranchByPattern

\* What the listing of branches answers.
Listed == Among(Branches, branches)

LEMMA ListedFacts ==
  /\ Listed \in Seq(Names) /\ Range(Listed) = Names \cap branches
  /\ Listed' \in Seq(Names) /\ Range(Listed') = Names \cap branches'
<1>1. Branches \in Seq(Names)
  BY ProjectAssumption
<1> QED
  BY <1>1, AmongRange DEF Listed, Names

\* A branch found among some that exist is found among them all.
LEMMA BranchKnown ==
  ASSUME ProjectInv, NEW listed \in Seq(Names), Range(listed) \subseteq branches,
         NEW pattern, BranchByPattern(listed, pattern) # <<>>
  PROVE  /\ First(pattern) # <<>>
         /\ branches \subseteq branches' => First(pattern)' # <<>>
<1>1. Range(listed) \cap Matches[pattern] # {} /\ Range(listed) \subseteq Names
  BY BranchFound DEF Range
<1>2. First(pattern) = BranchByPattern(Listed, pattern) /\ First(pattern)' = BranchByPattern(Listed', pattern)
  BY DEF First, Listed, BranchByPattern
<1>3. Range(Listed) \cap Matches[pattern] # {}
  BY <1>1, ListedFacts
<1>4. ASSUME branches \subseteq branches' PROVE Range(Listed') \cap Matches[pattern] # {}
  BY <1>1, <1>4, ListedFacts
<1>5. BranchByPattern(Listed, pattern) # <<>>
  BY <1>3, ListedFacts, BranchFound
<1>6. ASSUME branches \subseteq branches' PROVE BranchByPattern(Listed', pattern) # <<>>
  <2>1. Listed' \in Seq(Names) /\ Range(Listed') \cap Matches[pattern] # {}
    BY <1>4, <1>6, ListedFacts
  <2> DEFINE all == Listed'
  <2> HIDE DEF all
  <2>2. all \in Seq(Names) /\ Range(all) \cap Matches[pattern] # {}
    BY <2>1 DEF all
  <2>3. BranchByPattern(all, pattern) # <<>>
    BY <2>2, BranchFound
  <2> QED
    BY <2>3 DEF all
<1> QED
  BY <1>2, <1>5, <1>6

LEMMA MergedCounted ==
  ASSUME ProjectInv, Grows
  PROVE  /\ Len(InState("merged")) \in Nat /\ Len(InState("merged"))' \in Nat
         /\ Len(InState("merged")) <= Len(InState("merged"))'
         /\ Len(InState("merged")) = Cardinality({m \in Ids : state[m] = "merged"})
<1> DEFINE S == {m \in Ids : state[m] = "merged"}
           T == {m \in Ids : state'[m] = "merged"}
<1>1. Ids \cap S = S /\ Ids \cap T = T /\ S \subseteq T
  BY DEF Grows
<1>2. InState("merged") = Among(MRs, S) /\ InState("merged")' = Among(MRs, T)
  BY DEF InState
<1> HIDE DEF S, T
<1>3. IsFiniteSet(T)
  BY <1>1, Listings
<1>4. Cardinality(S) <= Cardinality(T)
  BY <1>1, <1>3, FS_Subset
<1>5. /\ Len(Among(MRs, S)) \in Nat /\ Len(Among(MRs, S)) = Cardinality(S)
      /\ Len(Among(MRs, T)) \in Nat /\ Len(Among(MRs, T)) = Cardinality(T)
  BY <1>1, Listings
<1> QED
  BY <1>2, <1>4, <1>5 DEF S

\* What was done stays done.
LEMMA DoneStays ==
  ASSUME ProjectInv, Grows, NEW o \in Op, Done(o)
  PROVE  Done(o)'
<1>1. CASE o.kind = "policy"
  <2>1. CASE o.rule = "merged"
    <3> DEFINE S == {m \in Ids : state[m] = "merged"}
               T == {m \in Ids : state'[m] = "merged"}
    <3>1. S \subseteq T /\ Ids \cap T = T /\ Ids \cap S = S
      BY DEF Grows
    <3> HIDE DEF S, T
    <3>2. IsFiniteSet(T)
      BY <3>1, Listings
    <3>3. Cardinality(S) <= Cardinality(T)
      BY <3>1, <3>2, FS_Subset
    <3>4. Cardinality(S) \in Nat /\ Cardinality(T) \in Nat
      BY <3>1, Listings
    <3>5. Cardinality(S) >= MinMerged
      BY <1>1, <2>1 DEF Done, S
    <3>6. Cardinality(T) >= MinMerged
      BY <3>3, <3>4, <3>5, CheckerAssumption
    <3> QED
      BY <1>1, <2>1, <3>6 DEF Done, T
  <2>2. CASE o.rule = "review"
    <3>1. PICK m \in green : "conventional" \in Range(within[m])
      BY <1>1, <2>2 DEF Done
    <3>2. m \in green' /\ "conventional" \in Range(within'[m])
      BY <3>1 DEF Grows, ProjectInv, ProjectTypeOK
    <3> QED
      BY <1>1, <2>2, <3>2 DEF Done
  <2>3. CASE o.rule = "file"
    BY <1>1, <2>3 DEF Done, Grows
  <2>4. o.rule \in Rules
    BY <1>1 DEF Op
  <2> QED
    BY <2>1, <2>2, <2>3, <2>4 DEF Rules
<1>2. CASE o.kind # "policy"
  <2>1. o.own
    BY <1>2 DEF Done
  <2>2. ASSUME NEW pattern, First(pattern) # <<>>
        PROVE  First(pattern)' # <<>>
    <3>1. Listed \in Seq(Names) /\ Range(Listed) \subseteq branches /\ branches \subseteq branches'
      BY ListedFacts DEF Grows
    <3>2. BranchByPattern(Listed, pattern) # <<>>
      BY <2>2 DEF First, Listed
    <3> QED
      BY <3>1, <3>2, BranchKnown
  <2>3. CASE o.check = "gitlab_mr_open"
    BY <1>2, <2>1, <2>3 DEF Done, Grows
  <2>4. CASE o.check = "gitlab_conventional_commit"
    <3>1. PICK m \in Ids : author[m] = Me /\ "conventional" \in Range(within[m])
      BY <1>2, <2>4 DEF Done
    <3>2. author'[m] = Me /\ "conventional" \in Range(within'[m])
      <4>1. Range(<<>>) = {}
        BY DEF Range
      <4>2. state[m] # "none"
        BY <3>1, <4>1 DEF ProjectInv
      <4> QED
        BY <3>1, <4>2 DEF Grows
    <3> QED
      BY <1>2, <2>1, <2>4, <3>2 DEF Done
  <2>5. CASE o.check = "gitlab_pipeline_passed"
    <3>1. PICK m \in green : author[m] = Me
      BY <1>2, <2>5 DEF Done
    <3>2. m \in green' /\ author'[m] = Me
      BY <3>1 DEF Grows, ProjectInv, ProjectTypeOK
    <3> QED
      BY <1>2, <2>1, <2>5, <3>2 DEF Done
  <2>6. CASE o.check = "gitlab_file_on_branch"
    BY <1>2, <2>1, <2>6 DEF Done, Grows
  <2>7. CASE o.check = "gitlab_commit_on_branch"
    <3>1. First(OrFeature(o.pattern)) # <<>>
      BY <1>2, <2>7 DEF Done
    <3>2. First(OrFeature(o.pattern))' # <<>>
      BY <2>2, <3>1
    <3> QED
      BY <1>2, <2>1, <2>7, <3>2 DEF Done, First
  <2>8. CASE o.check \notin {"gitlab_mr_open", "gitlab_conventional_commit", "gitlab_pipeline_passed",
                             "gitlab_file_on_branch", "gitlab_commit_on_branch"}
    <3>1. First(o.pattern) # <<>>
      BY <1>2, <2>8 DEF Done
    <3>2. First(o.pattern)' # <<>>
      BY <2>2, <3>1
    <3> QED
      BY <1>2, <2>1, <2>8, <3>2 DEF Done
  <2> QED
    BY <2>3, <2>4, <2>5, <2>6, <2>7, <2>8
<1> QED
  BY <1>1, <1>2

-----------------------------------------------------------------------------
(* The modules a learner sees                                              *)

\* What one module of the list expands to.
Part(m, subs) == IF m.type = "modules" THEN subs ELSE <<m>>

Expands(list, subs, all) ==
  all = [i \in 0 .. Len(list) |-> IF i = 0 THEN <<>> ELSE all[i - 1] \o Part(list[i], subs)]

LEMMA ExpandedExists ==
  ASSUME NEW list \in Seq(LabModule), NEW subs
  PROVE  \E all : Expands(list, subs, all)
<1> DEFINE Pass(f, i) == f[i - 1] \o Part(list[i], subs)
           Upto(f, n) == f = [i \in 0 .. n |-> IF i = 0 THEN <<>> ELSE Pass(f, i)]
           G == {n \in Nat : \E f : Upto(f, n)}
<1>1. 0 \in G
  <2> DEFINE f == [i \in 0 .. 0 |-> <<>>]
  <2>1. f = [i \in 0 .. 0 |-> IF i = 0 THEN <<>> ELSE Pass(f, i)]
    OBVIOUS
  <2> HIDE DEF f
  <2>2. Upto(f, 0)
    BY <2>1
  <2> QED
    BY <2>2
<1>2. ASSUME NEW n \in Nat, n \in G PROVE n + 1 \in G
  <2>1. PICK f : Upto(f, n)
    BY <1>2
  <2> DEFINE h == [i \in 0 .. (n + 1) |-> IF i = 0 THEN <<>> ELSE Pass(f, i)]
  <2>2. \A i \in 0 .. n : h[i] = f[i]
    <3> HIDE DEF Pass
    <3>1. \A i \in 0 .. n : f[i] = IF i = 0 THEN <<>> ELSE Pass(f, i)
      BY <2>1, Zenon
    <3>2. \A i \in 0 .. n : i \in 0 .. (n + 1)
      OBVIOUS
    <3>3. \A i \in 0 .. n : h[i] = IF i = 0 THEN <<>> ELSE Pass(f, i)
      BY <3>2, Zenon
    <3> QED
      BY <3>1, <3>3, Zenon
  <2>3. \A i \in 0 .. (n + 1) : i # 0 => i - 1 \in 0 .. n
    OBVIOUS
  <2>4. h = [i \in 0 .. (n + 1) |-> IF i = 0 THEN <<>> ELSE Pass(h, i)]
    BY <2>2, <2>3
  <2>5. Upto(h, n + 1)
    BY <2>4
  <2> HIDE DEF h
  <2> QED
    BY <2>5
<1> HIDE DEF G
<1>3. Len(list) \in Nat /\ Len(list) \in G
  BY <1>1, <1>2, SuccessorClosed
<1>4. PICK f : Upto(f, Len(list))
  BY <1>3 DEF G
<1> QED
  BY <1>4 DEF Expands

LEMMA ExpandedBuilt ==
  ASSUME NEW list \in Seq(LabModule), NEW subs \in Seq(LabModule)
  PROVE  \E all : /\ all[0] = <<>>
                  /\ \A i \in 1 .. Len(list) : all[i] = all[i - 1] \o Part(list[i], subs)
                  /\ \A i \in 0 .. Len(list) : all[i] \in Seq(LabModule)
                  /\ Expanded(list, subs) = all[Len(list)]
<1> DEFINE all == CHOOSE f : Expands(list, subs, f)
<1>1. Expands(list, subs, all)
  BY ExpandedExists
<1>2. Expanded(list, subs) = all[Len(list)]
  BY DEF Expanded, Expands, Part
<1> HIDE DEF all
<1>3. Len(list) \in Nat
  OBVIOUS
<1>4. all[0] = <<>> /\ \A i \in 1 .. Len(list) : all[i] = all[i - 1] \o Part(list[i], subs)
  <2>1. \A i \in 0 .. Len(list) : all[i] = IF i = 0 THEN <<>> ELSE all[i - 1] \o Part(list[i], subs)
    BY <1>1, Zenon DEF Expands
  <2>2. \A i \in 1 .. Len(list) : i \in 0 .. Len(list) /\ i # 0
    OBVIOUS
  <2>3. 0 \in 0 .. Len(list)
    BY <1>3
  <2> QED
    BY <2>1, <2>2, <2>3
<1>5. \A i \in 0 .. Len(list) : all[i] \in Seq(LabModule)
  <2> DEFINE G == {i \in Nat : i <= Len(list) => all[i] \in Seq(LabModule)}
  <2>1. 0 \in G
    <3>1. all[0] = <<>> /\ <<>> \in Seq(LabModule)
      BY <1>4
    <3> QED
      BY <3>1
  <2>2. ASSUME NEW i \in Nat, i \in G PROVE i + 1 \in G
    <3> SUFFICES ASSUME i + 1 <= Len(list) PROVE all[i + 1] \in Seq(LabModule)
      OBVIOUS
    <3>1. all[i] \in Seq(LabModule)
      BY <1>3, <2>2
    <3>2. i + 1 \in 1 .. Len(list) /\ (i + 1) - 1 = i
      BY <1>3
    <3>3. list[i + 1] \in LabModule
      BY <3>2
    <3>4. Part(list[i + 1], subs) \in Seq(LabModule)
      BY <3>3 DEF Part
    <3>5. all[i + 1] = all[i] \o Part(list[i + 1], subs)
      BY <1>4, <3>2
    <3> HIDE DEF G
    <3> QED
      BY <3>1, <3>4, <3>5
  <2> HIDE DEF G
  <2>3. \A i \in Nat : i \in G
    BY <2>1, <2>2, SuccessorClosed
  <2> QED
    BY <1>3, <2>3 DEF G
<1> QED
  BY <1>2, <1>4, <1>5

\* As long as no index stands before it, a module keeps its position.
LEMMA ExpandedPrefix ==
  ASSUME NEW list \in Seq(LabModule), NEW subs \in Seq(LabModule), NEW p \in 0 .. Len(list),
         \A i \in 1 .. p : list[i].type # "modules"
  PROVE  /\ p <= Len(Expanded(list, subs))
         /\ \A i \in 1 .. p : Expanded(list, subs)[i] = list[i]
<1>1. PICK all : /\ all[0] = <<>>
                 /\ \A i \in 1 .. Len(list) : all[i] = all[i - 1] \o Part(list[i], subs)
                 /\ \A i \in 0 .. Len(list) : all[i] \in Seq(LabModule)
                 /\ Expanded(list, subs) = all[Len(list)]
  BY ExpandedBuilt
<1>2. Len(list) \in Nat
  OBVIOUS
<1> DEFINE m(n) == IF n <= p THEN n ELSE p
           Good(n) == /\ m(n) <= Len(all[n]) /\ (n <= p => Len(all[n]) = n)
                      /\ \A i \in 1 .. m(n) : all[n][i] = list[i]
           G == {n \in Nat : n <= Len(list) => Good(n)}
<1>3. 0 \in G
  <2>1. all[0] = <<>> /\ Len(<<>>) = 0
    BY <1>1
  <2> QED
    BY <2>1
<1>4. ASSUME NEW n \in Nat, n \in G PROVE n + 1 \in G
  <2> SUFFICES ASSUME n + 1 <= Len(list) PROVE Good(n + 1)
    OBVIOUS
  <2>1. Good(n)
    BY <1>2, <1>4
  <2>2. n + 1 \in 1 .. Len(list) /\ (n + 1) - 1 = n /\ n \in 0 .. Len(list)
    BY <1>2
  <2> DEFINE s == all[n]
             e == Part(list[n + 1], subs)
  <2>3. all[n + 1] = s \o e
    BY <1>1, <2>2
  <2>4. s \in Seq(LabModule) /\ e \in Seq(LabModule)
    <3>1. list[n + 1] \in LabModule
      BY <2>2
    <3> QED
      BY <1>1, <2>2, <3>1 DEF Part
  <2>5. n + 1 <= p => e = <<list[n + 1]>>
    BY <2>2 DEF Part
  <2> HIDE DEF s, e
  <2>6. /\ Len(s \o e) = Len(s) + Len(e) /\ Len(s) \in Nat /\ Len(e) \in Nat
        /\ \A j \in 1 .. Len(s) : (s \o e)[j] = s[j]
    BY <2>4
  <2>7. m(n) <= Len(s) /\ (n <= p => Len(s) = n) /\ \A i \in 1 .. m(n) : s[i] = list[i]
    BY <2>1 DEF s
  <2>8. CASE n + 1 <= p
    <3> HIDE DEF G
    <3>6. Len(e) = 1
      BY <2>5, <2>8
    <3>1. m(n + 1) = n + 1 /\ m(n) = n /\ Len(s) = n /\ Len(s \o e) = n + 1
      BY <2>6, <2>7, <2>8, <3>6
    <3>2. (s \o e)[n + 1] = list[n + 1]
      BY <2>4, <2>5, <2>8, <3>1
    <3>3. \A i \in 1 .. n : (s \o e)[i] = list[i]
      BY <2>6, <2>7, <3>1
    <3>4. \A i \in 1 .. n + 1 : i \in 1 .. n \/ i = n + 1
      OBVIOUS
    <3>5. \A i \in 1 .. n + 1 : (s \o e)[i] = list[i]
      BY <3>2, <3>3, <3>4, Zenon
    <3> QED
      BY <2>3, <3>1, <3>5
  <2>9. CASE ~(n + 1 <= p)
    <3>1. m(n + 1) = p /\ m(n) = p
      BY <2>9
    <3>2. p <= Len(s \o e) /\ \A i \in 1 .. p : (s \o e)[i] = list[i]
      BY <2>6, <2>7, <3>1
    <3> QED
      BY <2>3, <2>9, <3>1, <3>2
  <2> QED
    BY <2>8, <2>9
<1> HIDE DEF G
<1>5. Len(list) \in G
  BY <1>2, <1>3, <1>4, SuccessorClosed
<1>6. m(Len(list)) = p
  BY <1>2
<1>7. Good(Len(list))
  BY <1>2, <1>5 DEF G
<1> HIDE DEF m
<1> QED
  BY <1>1, <1>6, <1>7

LEMMA VisibleType ==
  ASSUME NEW list \in Seq(LabModule), NEW subs \in Seq(LabModule)
  PROVE  Expanded(list, subs) \in Seq(LabModule) /\ Visible(Expanded(list, subs)) \in Seq(LabModule)
<1>1. Expanded(list, subs) \in Seq(LabModule)
  <2>1. Len(list) \in 0 .. Len(list)
    OBVIOUS
  <2> QED
    BY <2>1, ExpandedBuilt
<1> QED
  BY <1>1, AmongRange DEF Visible

\* With nothing hidden and no index before it, a module is where it was stored.
LEMMA NotShifted ==
  ASSUME NEW list \in Seq(LabModule), NEW subs \in Seq(LabModule), NEW p \in 1 .. Len(list),
         ~Shifted(list, p)
  PROVE  Visible(Expanded(list, subs))[p] = list[p]
<1> DEFINE e == Expanded(list, subs)
<1>1. \A i \in 1 .. p : i \in DOMAIN list /\ ~list[i].hidden /\ list[i].type # "modules"
  BY DEF Shifted
<1>2. p \in 0 .. Len(list)
  OBVIOUS
<1>3. p <= Len(e) /\ \A i \in 1 .. p : e[i] = list[i]
  BY <1>1, <1>2, ExpandedPrefix
<1>4. e \in Seq(LabModule)
  BY VisibleType
<1> HIDE DEF e
<1>5. p \in 0 .. Len(e) /\ \A i \in 1 .. p : e[i] \in {m \in Range(e) : ~m.hidden}
  <2>1. p \in 0 .. Len(e) /\ \A i \in 1 .. p : i \in DOMAIN e
    BY <1>3, <1>4
  <2>2. \A i \in 1 .. p : e[i] \in Range(e) /\ ~e[i].hidden
    BY <1>1, <1>3, <2>1 DEF Range
  <2> QED
    BY <2>1, <2>2
<1>6. \A i \in 1 .. p : Among(e, {m \in Range(e) : ~m.hidden})[i] = e[i]
  BY <1>4, <1>5, AmongPrefix
<1>7. p \in 1 .. p
  OBVIOUS
<1> QED
  BY <1>3, <1>6, <1>7 DEF Visible, e

-----------------------------------------------------------------------------
(* The stages of a request                                                 *)

Unread == {"idle", "record", "resolve", "spec", "rule", "project"}
Reading == {"merged", "branches", "open", "mrs", "files", "compare", "judge"}
Stages == Unread \cup Reading \cup {"store", "done", "denied", "error"}

Partial(S) == UNION {[D -> S] : D \in SUBSET Ids}

Answers == [branches : Seq(Names), open : Seq(Ids), pipe : Partial(Statuses),
            commits : Partial(SUBSET Kinds), merged : Nat, page : Nat \ {0},
            ahead : SUBSET Kinds, diff : BOOLEAN, file : BOOLEAN]

Calls == {"pipe", "commits"} \X Ids

\* A request that has found nothing has no module.
Modules == LabModule \cup {NoModule}

RowSet == [name : {m.name : m \in Modules}, index : Nat, allow : BOOLEAN, verified : BOOLEAN,
           by : Requests]

LabTypeOK ==
  /\ listing \in Versions
  /\ stage \in [Requests -> Stages]
  /\ op \in [Requests -> Op \cup {NoOp}]
  /\ shown \in [Requests -> Seq(LabModule)]
  /\ mod \in [Requests -> Modules]
  /\ todo \in [Requests -> Seq(Calls)]
  /\ got \in [Requests -> Answers]
  /\ answer \in [Requests -> {"none", "allow", "refuse"}]
  /\ clean \in [Requests -> BOOLEAN]
  /\ rows \in Seq(RowSet)
  /\ edits \in Nat /\ failures \in Nat

\* Which requests come to which stage, and with what they set out.
StageInv(r) ==
  /\ stage[r] = "idle" => answer[r] = "none"
  /\ stage[r] # "idle" => op[r] \in Op
  /\ stage[r] = "record" => op[r].kind = "local"
  /\ stage[r] \in {"resolve", "spec", "rule", "project", "error"} \cup Reading =>
       op[r].kind # "local"
  /\ stage[r] \in {"spec", "rule", "project", "merged", "files"} => op[r].kind = "policy"
  /\ stage[r] \in {"branches", "compare"} => op[r].kind = "step" /\ op[r].own
  /\ stage[r] \in {"open", "mrs"} => op[r].kind = "policy" \/ op[r].own
  /\ stage[r] = "compare" => NeedsCompare(op[r])
  /\ stage[r] = "store" => op[r].kind \in {"local", "policy"}
  /\ stage[r] \in Unread => got[r] = NothingYet

\* A stored row says what its request found, and stands for good.
RowsInv ==
  \A i \in DOMAIN rows, r \in Requests :
    rows[i].by = r => stage[r] = "done" /\ rows[i] = Row(r)

\* Nothing gathered is more than what was done.
Earned(g) ==
  /\ Range(g.branches) \subseteq branches
  /\ \A i \in DOMAIN g.open : state[g.open[i]] # "none"
  /\ \A m \in DOMAIN g.pipe : g.pipe[m] = "success" => m \in green
  /\ \A m \in DOMAIN g.commits : g.commits[m] \subseteq Range(within[m])
  /\ g.file \/ g.diff => onMain \/ touched # {}
  /\ g.merged <= Len(InState("merged"))

\* While the pages are read: the entries of the pages before this one, none of
\* which was beyond the end of the list.
Counting(g) ==
  /\ g.merged <= (g.page - 1) * PageSize
  /\ (g.page - 1) * PageSize <= Len(InState("merged"))

EarnedInv(r) ==
  /\ Earned(got[r])
  /\ stage[r] = "merged" => Counting(got[r])
  /\ \A o \in Op : (op[r] = o /\ answer[r] = "allow" /\ o.kind # "local") => Done(o)

\* What an undisturbed request has gathered is what the project answers now.
Wanted(o, g) ==
  IF o.kind = "policy" THEN Range(g.open)
  ELSE IF o.check = "gitlab_conventional_commit" THEN {m \in Range(g.open) : author[m] = Me}
  ELSE {}

Left(what, there, calls) == {m \in Ids : there = "mrs" /\ <<what, m>> \in Range(calls)}

Current(g, o, there, calls) ==
  /\ \A m \in DOMAIN g.pipe : g.pipe[m] = pipe[m]
  /\ \A m \in DOMAIN g.commits : g.commits[m] = MRCommits(o, m)
  /\ there = "merged" =>
       g.merged = (g.page - 1) * PageSize /\ g.merged <= Len(InState("merged")) /\ g.open = <<>>
  /\ (there \in {"open", "mrs", "files", "judge"} /\ o.kind = "policy") =>
       g.merged = Len(InState("merged"))
  /\ there = "branches" =>
       /\ (g.page - 1) * PageSize <= Len(Listed)
       /\ g.branches = SubSeq(Listed, 1, (g.page - 1) * PageSize) /\ g.open = <<>>
  /\ (there \notin {"merged", "branches"} /\ o.kind = "step" /\ o.own) => g.branches = Listed
  /\ there = "open" =>
       /\ (g.page - 1) * PageSize <= Len(InState("opened"))
       /\ g.open = SubSeq(InState("opened"), 1, (g.page - 1) * PageSize)
  /\ (there \in {"mrs", "files", "compare", "judge"} /\ (o.kind = "policy" \/ o.own)) =>
       /\ g.open = InState("opened")
       /\ Range(g.open) \subseteq DOMAIN g.pipe \cup Left("pipe", there, calls)
       /\ Wanted(o, g) \subseteq DOMAIN g.commits \cup Left("commits", there, calls)
  /\ (there = "judge" /\ o.kind = "policy") => g.file = HasFile(FilesRef(g))
  /\ (there = "judge" /\ o.kind = "step" /\ o.own /\ NeedsCompare(o)) =>
       LET found == BranchByPattern(Listed, o.pattern) IN
         \/ found = <<>>
         \/ g.ahead = Range(ahead[Head(found)]) /\ g.diff = (Head(found) \in touched)

CurrentInv(r) ==
  (clean[r] /\ stage[r] \in Reading) => Current(got[r], op[r], stage[r], todo[r])

\* The module a request works on, as long as the course is not edited.
Resolved == Stages \ {"idle", "record", "resolve", "denied"}

NameInv(r) ==
  (edits = 0 /\ stage[r] # "idle") =>
    /\ shown[r] = VisibleModules
    /\ (failures = 0 /\ op[r].kind # "local" /\ stage[r] \in Resolved) =>
         mod[r] = VisibleModules[op[r].pos]
    /\ (op[r].kind = "local" /\ stage[r] \in Resolved) =>
         op[r].pos \in DOMAIN listing /\ mod[r] = listing[op[r].pos]

-----------------------------------------------------------------------------
(* What a request gathers                                                  *)

LEMMA NothingType == NothingYet \in Answers
<1>1. <<>> \in Seq(Ids) /\ <<>> \in Seq(Names)
  OBVIOUS
<1>2. ASSUME NEW S PROVE <<>> \in Partial(S)
  <2>1. <<>> \in [{} -> S]
    OBVIOUS
  <2>2. {} \in SUBSET Ids
    OBVIOUS
  <2> QED
    BY <2>1, <2>2, Zenon DEF Partial
<1> QED
  BY <1>1, <1>2 DEF NothingYet, Answers

LEMMA AddType ==
  ASSUME NEW S, NEW f \in Partial(S), NEW m \in Ids, NEW v \in S
  PROVE  Add(f, m, v) \in Partial(S)
<1>1. PICK D \in SUBSET Ids : f \in [D -> S]
  BY Zenon DEF Partial
<1>2. D \cup {m} \in SUBSET Ids /\ Add(f, m, v) \in [D \cup {m} -> S]
  BY <1>1 DEF Add
<1> QED
  BY <1>2, Zenon DEF Partial

LEMMA InStateType ==
  \A s : InState(s) \in Seq(Ids) /\ InState(s)' \in Seq(Ids)
  BY Listings DEF InState

\* The n-th page of a list whose earlier pages were full.
LEMMA PageOf ==
  ASSUME NEW S, NEW list \in Seq(S), NEW n \in Nat \ {0}
  PROVE  /\ Page(list, n) \in Seq(S)
         /\ Len(Page(list, n)) \in Nat
         /\ (n - 1) * PageSize \in Nat /\ n * PageSize \in Nat
         /\ n * PageSize = (n - 1) * PageSize + PageSize
         /\ ((n + 1) - 1) * PageSize = n * PageSize
         /\ LastPage(list, n) <=> Len(list) <= n * PageSize
         /\ ~LastPage(list, n) => Len(Page(list, n)) = PageSize
         /\ (LastPage(list, n) /\ (n - 1) * PageSize <= Len(list)) =>
              Len(Page(list, n)) = Len(list) - (n - 1) * PageSize
         /\ (n - 1) * PageSize <= Len(list) =>
              SubSeq(list, 1, (n - 1) * PageSize) \o Page(list, n) =
                SubSeq(list, 1, IF LastPage(list, n) THEN Len(list) ELSE n * PageSize)
<1> DEFINE a == (n - 1) * PageSize
           b == IF LastPage(list, n) THEN Len(list) ELSE n * PageSize
<1>1. PageSize \in Nat /\ PageSize >= 1
  BY ProjectAssumption
<1>2. a \in Nat /\ n * PageSize \in Nat
  BY <1>1
<1>3. n * PageSize = a + PageSize /\ ((n + 1) - 1) * PageSize = n * PageSize
  BY <1>1
<1>4. LastPage(list, n) <=> Len(list) <= n * PageSize
  BY DEF LastPage
<1>5. b \in Nat /\ b <= Len(list) /\ Len(list) \in Nat
  BY <1>2, <1>4
<1>6. Page(list, n) = SubSeq(list, a + 1, b)
  BY DEF Page
<1>7. ~LastPage(list, n) => b = a + PageSize
  BY <1>3
<1>8. LastPage(list, n) => b = Len(list)
  OBVIOUS
<1> HIDE DEF a, b
<1>9. a + 1 \in Int /\ b \in Int /\ \A i \in a + 1 .. b : list[i] \in S
  BY <1>2, <1>5
<1>10. /\ SubSeq(list, a + 1, b) \in Seq(S)
       /\ Len(SubSeq(list, a + 1, b)) = IF a + 1 <= b THEN b - (a + 1) + 1 ELSE 0
  BY <1>9, SubSeqProperties
<1>11. a <= Len(list) => SubSeq(list, 1, a) \o SubSeq(list, a + 1, b) = SubSeq(list, 1, b)
  <2> SUFFICES ASSUME a <= Len(list)
               PROVE  SubSeq(list, 1, a) \o SubSeq(list, a + 1, b) = SubSeq(list, 1, b)
    OBVIOUS
  <2>1. a <= b
    BY <1>1, <1>2, <1>5, <1>7, <1>8
  <2>2. 1 \in 1 .. Len(list) + 1 /\ a \in 1 - 1 .. Len(list) /\ b \in a .. Len(list)
    BY <1>2, <1>5, <2>1
  <2> QED
    BY <2>2, ConcatAdjacentSubSeq
<1>12. ~LastPage(list, n) => Len(Page(list, n)) = PageSize
  BY <1>1, <1>2, <1>6, <1>7, <1>10
<1>13. LastPage(list, n) /\ a <= Len(list) => Len(Page(list, n)) = Len(list) - a
  BY <1>2, <1>5, <1>6, <1>8, <1>10
<1>14. Len(Page(list, n)) \in Nat
  BY <1>6, <1>10
<1> QED
  BY <1>2, <1>3, <1>4, <1>6, <1>10, <1>11, <1>12, <1>13, <1>14 DEF a, b

LEMMA PageFacts ==
  ASSUME NEW list \in Seq(Ids), NEW n \in Nat \ {0}
  PROVE  /\ Page(list, n) \in Seq(Ids)
         /\ Len(Page(list, n)) \in Nat
         /\ (n - 1) * PageSize \in Nat /\ n * PageSize \in Nat
         /\ n * PageSize = (n - 1) * PageSize + PageSize
         /\ ((n + 1) - 1) * PageSize = n * PageSize
         /\ LastPage(list, n) <=> Len(list) <= n * PageSize
         /\ ~LastPage(list, n) => Len(Page(list, n)) = PageSize
         /\ (LastPage(list, n) /\ (n - 1) * PageSize <= Len(list)) =>
              Len(Page(list, n)) = Len(list) - (n - 1) * PageSize
         /\ (n - 1) * PageSize <= Len(list) =>
              SubSeq(list, 1, (n - 1) * PageSize) \o Page(list, n) =
                SubSeq(list, 1, IF LastPage(list, n) THEN Len(list) ELSE n * PageSize)
  BY PageOf

LEMMA BranchPage ==
  ASSUME NEW list \in Seq(Names), NEW n \in Nat \ {0}
  PROVE  /\ Page(list, n) \in Seq(Names)
         /\ Len(Page(list, n)) \in Nat
         /\ (n - 1) * PageSize \in Nat /\ n * PageSize \in Nat
         /\ n * PageSize = (n - 1) * PageSize + PageSize
         /\ ((n + 1) - 1) * PageSize = n * PageSize
         /\ LastPage(list, n) <=> Len(list) <= n * PageSize
         /\ ~LastPage(list, n) => Len(Page(list, n)) = PageSize
         /\ (LastPage(list, n) /\ (n - 1) * PageSize <= Len(list)) =>
              Len(Page(list, n)) = Len(list) - (n - 1) * PageSize
         /\ (n - 1) * PageSize <= Len(list) =>
              SubSeq(list, 1, (n - 1) * PageSize) \o Page(list, n) =
                SubSeq(list, 1, IF LastPage(list, n) THEN Len(list) ELSE n * PageSize)
  BY PageOf

\* A page holds entries of its list.
LEMMA PageMembers ==
  ASSUME NEW S, NEW list \in Seq(S), NEW n \in Nat \ {0}
  PROVE  Range(Page(list, n)) \subseteq Range(list)
<1> DEFINE a == (n - 1) * PageSize + 1
           b == IF LastPage(list, n) THEN Len(list) ELSE n * PageSize
<1>1. (n - 1) * PageSize \in Nat /\ n * PageSize \in Nat /\ Len(list) \in Nat
  BY PageOf
<1>2. a \in Nat /\ a >= 1 /\ b \in Nat /\ b <= Len(list)
  BY <1>1 DEF LastPage
<1>3. Page(list, n) = SubSeq(list, a, b)
  BY DEF Page
<1> HIDE DEF a, b
<1>4. \A i \in a .. b : list[i] \in S
  BY <1>2
<1>5. /\ SubSeq(list, a, b) \in Seq(S)
      /\ Len(SubSeq(list, a, b)) = IF a <= b THEN b - a + 1 ELSE 0
      /\ \A i \in 1 .. b - a + 1 : SubSeq(list, a, b)[i] = list[a + i - 1]
  BY <1>2, <1>4, SubSeqProperties
<1>6. ASSUME NEW i \in DOMAIN SubSeq(list, a, b)
      PROVE  \E j \in DOMAIN list : SubSeq(list, a, b)[i] = list[j]
  <2>1. i \in 1 .. b - a + 1
    BY <1>2, <1>5
  <2>2. a + i - 1 \in DOMAIN list
    BY <1>1, <1>2, <2>1
  <2> QED
    BY <1>5, <2>1, <2>2
<1> QED
  BY <1>3, <1>6 DEF Range

\* What a call for commits answers.
LEMMA CommitsRead ==
  ASSUME ProjectInv, NEW o, NEW m \in Ids
  PROVE  /\ Range(within[m]) \in SUBSET Kinds /\ MRCommits(o, m) \in SUBSET Kinds
         /\ MRCommits(o, m) \subseteq Range(within[m])
         /\ Len(within[m]) <= FirstPage => MRCommits(o, m) = Range(within[m])
<1> DEFINE list == within[m]
<1>1. list \in Seq(Kinds) /\ FirstPage \in Nat \ {0}
  BY ProjectAssumption DEF ProjectInv, ProjectTypeOK
<1>2. MRCommits(o, m) = IF o.kind = "policy" /\ Len(list) > FirstPage
                        THEN Range(SubSeq(list, 1, FirstPage)) ELSE Range(list)
  BY DEF MRCommits, ListAllMRCommits
<1> HIDE DEF list
<1>3. Range(list) \in SUBSET Kinds /\ Len(list) \in Nat
  BY <1>1 DEF Range
<1>4. Len(list) > FirstPage => Range(SubSeq(list, 1, FirstPage)) \subseteq Range(list)
  <2> SUFFICES ASSUME Len(list) > FirstPage, NEW i \in DOMAIN SubSeq(list, 1, FirstPage)
               PROVE  SubSeq(list, 1, FirstPage)[i] \in Range(list)
    BY DEF Range
  <2>1. i \in DOMAIN list /\ SubSeq(list, 1, FirstPage)[i] = list[i]
    BY <1>1, <1>3
  <2> QED
    BY <2>1 DEF Range
<1>5. Len(list) <= FirstPage => ~(Len(list) > FirstPage)
  BY <1>1, <1>3
<1>6. MRCommits(o, m) \subseteq Range(list)
  BY <1>2, <1>4
<1> QED
  BY <1>2, <1>3, <1>5, <1>6 DEF list

LEMMA MineType ==
  ASSUME NEW open \in Seq(Ids)
  PROVE  /\ MrsByAuthor(open) \in Seq(Ids)
         /\ Range(MrsByAuthor(open)) = {m \in Range(open) : author[m] = Me}
<1>1. Range(open) \subseteq Ids
  BY DEF Range
<1>2. MrsByAuthor(open) \in Seq(Ids) /\ Range(MrsByAuthor(open)) = Range(open) \cap {m \in Ids : author[m] = Me}
  BY AmongRange DEF MrsByAuthor
<1> QED
  BY <1>1, <1>2

\* The calls for the merge requests ask for every pipeline and for the commits
\* that will be wanted.
LEMMA MRCallsFacts ==
  ASSUME NEW o \in Op, NEW open \in Seq(Ids), o.kind # "local"
  PROVE  /\ MRCalls(o, open) \in Seq(Calls)
         /\ \A m \in Range(open) : <<"pipe", m>> \in Range(MRCalls(o, open))
         /\ o.kind = "policy" => \A m \in Range(open) : <<"commits", m>> \in Range(MRCalls(o, open))
         /\ (o.kind = "step" /\ o.check = "gitlab_conventional_commit") =>
              \A m \in Range(open) : author[m] = Me => <<"commits", m>> \in Range(MRCalls(o, open))
<1>1. CASE o.kind = "policy"
  <2> DEFINE calls == [i \in 1 .. 2 * Len(open) |->
                        <<IF i % 2 = 1 THEN "pipe" ELSE "commits", open[(i + 1) \div 2]>>]
  <2>1. MRCalls(o, open) = calls
    BY <1>1 DEF MRCalls
  <2>2. 2 * Len(open) \in Nat
    OBVIOUS
  <2>3. ASSUME NEW i \in 1 .. 2 * Len(open) PROVE calls[i] \in Calls
    <3>1. (i + 1) \div 2 \in 1 .. Len(open)
      OBVIOUS
    <3>2. open[(i + 1) \div 2] \in Ids
      BY <3>1
    <3> QED
      BY <3>2 DEF Calls
  <2>4. calls \in Seq(Calls) /\ DOMAIN calls = 1 .. 2 * Len(open)
    BY <2>2, <2>3, IsASeq
  <2>5. ASSUME NEW m \in Range(open)
        PROVE  <<"pipe", m>> \in Range(calls) /\ <<"commits", m>> \in Range(calls)
    <3>1. PICK i \in 1 .. Len(open) : open[i] = m
      BY <2>5 DEF Range
    <3>2. /\ 2 * i - 1 \in 1 .. 2 * Len(open) /\ (2 * i - 1) % 2 = 1 /\ ((2 * i - 1) + 1) \div 2 = i
          /\ 2 * i \in 1 .. 2 * Len(open) /\ (2 * i) % 2 = 0 /\ ((2 * i) + 1) \div 2 = i
      OBVIOUS
    <3>3. calls[2 * i - 1] = <<"pipe", m>> /\ calls[2 * i] = <<"commits", m>>
      BY <3>1, <3>2
    <3> HIDE DEF calls
    <3> QED
      BY <2>4, <3>2, <3>3 DEF Range
  <2> QED
    BY <1>1, <2>1, <2>4, <2>5
<1>2. CASE o.kind = "step"
  <2> DEFINE Asks(what, list) == [i \in DOMAIN list |-> <<what, list[i]>>]
             pipes == Asks("pipe", open)
             commits == IF o.check = "gitlab_conventional_commit"
                        THEN Asks("commits", MrsByAuthor(open)) ELSE <<>>
  <2>1. MRCalls(o, open) = pipes \o commits
    BY <1>2 DEF MRCalls
  <2>2. ASSUME NEW what \in {"pipe", "commits"}, NEW list \in Seq(Ids)
        PROVE  /\ Asks(what, list) \in Seq(Calls)
               /\ \A m \in Range(list) : <<what, m>> \in Range(Asks(what, list))
    <3>1. Len(list) \in Nat /\ DOMAIN list = 1 .. Len(list)
      OBVIOUS
    <3>2. \A i \in 1 .. Len(list) : Asks(what, list)[i] \in Calls
      BY DEF Calls
    <3>3. Asks(what, list) \in Seq(Calls)
      BY <3>1, <3>2, IsASeq
    <3>4. \A m \in Range(list) : <<what, m>> \in Range(Asks(what, list))
      BY DEF Range
    <3> QED
      BY <3>3, <3>4
  <2>3. pipes \in Seq(Calls) /\ \A m \in Range(open) : <<"pipe", m>> \in Range(pipes)
    BY <2>2
  <2>4. MrsByAuthor(open) \in Seq(Ids) /\ Range(MrsByAuthor(open)) = {m \in Range(open) : author[m] = Me}
    BY MineType
  <2>5. Asks("commits", MrsByAuthor(open)) \in Seq(Calls)
        /\ \A m \in Range(MrsByAuthor(open)) : <<"commits", m>> \in Range(Asks("commits", MrsByAuthor(open)))
    BY <2>2, <2>4
  <2>6. /\ commits \in Seq(Calls)
        /\ o.check = "gitlab_conventional_commit" =>
             \A m \in Range(open) : author[m] = Me => <<"commits", m>> \in Range(commits)
    BY <2>4, <2>5
  <2> HIDE DEF pipes, commits
  <2>7. pipes \o commits \in Seq(Calls) /\ Range(pipes \o commits) = Range(pipes) \cup Range(commits)
    BY <2>3, <2>6, RangeConcatenation
  <2> QED
    BY <1>2, <2>1, <2>3, <2>6, <2>7
<1> QED
  BY <1>1, <1>2 DEF Op

-----------------------------------------------------------------------------
(* Every step keeps the types and the order of the stages                  *)

\* A step of one request leaves the others, the project and the course alone.
Others(r) ==
  /\ UNCHANGED <<project, listing, edits>>
  /\ failures' \in Nat /\ (failures' = 0 => failures = 0)
  /\ \A q \in Requests \ {r} :
       /\ stage'[q] = stage[q] /\ op'[q] = op[q] /\ shown'[q] = shown[q] /\ mod'[q] = mod[q]
       /\ todo'[q] = todo[q] /\ got'[q] = got[q] /\ answer'[q] = answer[q] /\ clean'[q] = clean[q]
  /\ clean'[r] => clean[r] /\ failures' = failures

LEMMA VisibleModulesType ==
  ASSUME LabTypeOK
  PROVE  /\ listing \in Seq(LabModule) /\ VisibleModules \in Seq(LabModule)
         /\ VisibleWithoutIndex \in Seq(LabModule)
<1>1. listing \in Seq(LabModule) /\ Expansion \in Seq(LabModule) /\ <<>> \in Seq(LabModule)
  BY LabsAssumption DEF LabTypeOK
<1> QED
  BY <1>1, VisibleType DEF VisibleModules, VisibleWithoutIndex

\* Works and Fails.
LEMMA Outcome ==
  ASSUME LabTypeOK, NEW r \in Requests, Works \/ Fails(r)
  PROVE  /\ failures' \in Nat /\ (failures' = 0 => failures = 0)
         /\ clean' \in [Requests -> BOOLEAN]
         /\ \A q \in Requests \ {r} : clean'[q] = clean[q]
         /\ clean'[r] => clean[r] /\ failures' = failures
         /\ Fails(r) => ~clean'[r] /\ failures' # 0
<1>1. CASE Works
  <2>1. ~Fails(r)
    BY <1>1 DEF Works, Fails, LabTypeOK
  <2> QED
    BY <1>1, <2>1 DEF Works, LabTypeOK
<1>2. CASE Fails(r)
  BY <1>2 DEF Fails, LabTypeOK
<1> QED
  BY <1>1, <1>2

LEMMA AskStep ==
  ASSUME LabTypeOK, NEW r \in Requests, StageInv(r), Ask(r)
  PROVE  LabTypeOK' /\ StageInv(r)' /\ Others(r) /\ rows' = rows
<1>1. PICK o \in Ops : op' = [op EXCEPT ![r] = o]
  BY DEF Ask
<1>2. o \in Op /\ op'[r] = o
  BY <1>1, LabsAssumption DEF LabTypeOK
<1>3. /\ stage[r] = "idle" /\ Works /\ Still /\ UNCHANGED <<mod, todo, got, answer>>
      /\ stage' = [stage EXCEPT ![r] = IF o.kind = "local" THEN "record" ELSE "resolve"]
      /\ shown' = [shown EXCEPT ![r] = VisibleModules]
  BY <1>1, <1>2 DEF Ask, Proceed
<1>4. VisibleModules \in Seq(LabModule)
  BY VisibleModulesType
<1>5. LabTypeOK'
  <2>1. stage' \in [Requests -> Stages]
    BY <1>3 DEF LabTypeOK, Stages, Unread
  <2>2. op' \in [Requests -> Op \cup {NoOp}]
    BY <1>1, <1>2 DEF LabTypeOK
  <2>3. shown' \in [Requests -> Seq(LabModule)]
    BY <1>3, <1>4 DEF LabTypeOK
  <2>4. UNCHANGED <<listing, mod, todo, got, answer, clean, rows, edits, failures>>
    BY <1>3 DEF Works, Still
  <2> QED
    BY <2>1, <2>2, <2>3, <2>4 DEF LabTypeOK
<1>6. StageInv(r)'
  <2>1. stage'[r] \in {"record", "resolve"} /\ (stage'[r] = "record" <=> o.kind = "local")
    BY <1>3 DEF LabTypeOK
  <2>2. got[r] = NothingYet
    BY <1>3 DEF StageInv, Unread
  <2> QED
    BY <1>2, <1>3, <2>1, <2>2 DEF StageInv, Reading
<1>7. Others(r) /\ rows' = rows
  BY <1>1, <1>3 DEF Others, Works, Still, LabTypeOK
<1> QED
  BY <1>5, <1>6, <1>7

\* What the steps of a request have in common: they move it on and change
\* what it has gathered, its calls, its module and its answer.
Steps(r) ==
  /\ UNCHANGED <<project, listing, edits, op, shown>>
  /\ \E there : stage' = [stage EXCEPT ![r] = there]
  /\ mod' = mod \/ \E m : mod' = [mod EXCEPT ![r] = m]
  /\ todo' = todo \/ \E t : todo' = [todo EXCEPT ![r] = t]
  /\ got' = got \/ \E g : got' = [got EXCEPT ![r] = g]
  /\ answer' = answer \/ \E a : answer' = [answer EXCEPT ![r] = a]
  /\ Works \/ Fails(r)

LEMMA StepsFrame ==
  ASSUME LabTypeOK, NEW r \in Requests, Steps(r),
         stage'[r] \in Stages, mod'[r] \in Modules, todo'[r] \in Seq(Calls), got'[r] \in Answers,
         answer'[r] \in {"none", "allow", "refuse"},
         rows' \in Seq(RowSet)
  PROVE  LabTypeOK' /\ Others(r)
<1>1. stage' \in [Requests -> Stages] /\ \A q \in Requests \ {r} : stage'[q] = stage[q]
  BY DEF Steps, LabTypeOK
<1>2. mod' \in [Requests -> Modules] /\ \A q \in Requests \ {r} : mod'[q] = mod[q]
  BY DEF Steps, LabTypeOK
<1>3. todo' \in [Requests -> Seq(Calls)] /\ \A q \in Requests \ {r} : todo'[q] = todo[q]
  BY DEF Steps, LabTypeOK
<1>4. got' \in [Requests -> Answers] /\ \A q \in Requests \ {r} : got'[q] = got[q]
  BY DEF Steps, LabTypeOK
<1>5. /\ answer' \in [Requests -> {"none", "allow", "refuse"}]
      /\ \A q \in Requests \ {r} : answer'[q] = answer[q]
  BY DEF Steps, LabTypeOK
<1>6. /\ failures' \in Nat /\ (failures' = 0 => failures = 0) /\ clean' \in [Requests -> BOOLEAN]
      /\ \A q \in Requests \ {r} : clean'[q] = clean[q]
      /\ clean'[r] => clean[r] /\ failures' = failures
  BY Outcome DEF Steps
<1>7. UNCHANGED <<project, listing, edits, op, shown>>
  BY DEF Steps
<1>8. LabTypeOK'
  BY <1>1, <1>2, <1>3, <1>4, <1>5, <1>6, <1>7 DEF LabTypeOK
<1> QED
  BY <1>1, <1>2, <1>3, <1>4, <1>5, <1>6, <1>7, <1>8 DEF Others

\* What is shown of each action: its form, the values it leaves, and the order
\* of the stages.
Kept(r) ==
  /\ Steps(r) /\ StageInv(r)'
  /\ stage'[r] \in Stages /\ mod'[r] \in Modules /\ todo'[r] \in Seq(Calls) /\ got'[r] \in Answers
  /\ answer'[r] \in {"none", "allow", "refuse"}

LEMMA SkipKept ==
  ASSUME LabTypeOK, NEW r \in Requests, StageInv(r), NEW there \in Stages, Skip(r, there),
         Nothing(r), Works \/ Fails(r), UNCHANGED <<project, listing, edits>>,
         StageInv(r)'
  PROVE  Kept(r) /\ stage'[r] = there
<1>1. stage' = [stage EXCEPT ![r] = there] /\ stage'[r] = there
  BY DEF Skip, Proceed, LabTypeOK
<1>2. UNCHANGED <<op, shown, mod, answer, got, todo>>
  BY DEF Skip, Nothing
<1>3. Steps(r)
  BY <1>1, <1>2 DEF Steps
<1>4. /\ mod'[r] \in Modules /\ todo'[r] \in Seq(Calls) /\ got'[r] \in Answers
      /\ answer'[r] \in {"none", "allow", "refuse"}
  BY <1>2 DEF LabTypeOK
<1> QED
  BY <1>1, <1>3, <1>4 DEF Kept

LEMMA ResolveKept ==
  ASSUME LabTypeOK, NEW r \in Requests, StageInv(r), ResolveLabModule(r)
  PROVE  Kept(r) /\ rows' = rows
<1>1. PICK list \in {VisibleModules, VisibleWithoutIndex} : ResolveIn(r, list) /\ (Works \/ Fails(r))
  BY DEF ResolveLabModule
<1>2. list \in Seq(LabModule)
  BY VisibleModulesType
<1>3. /\ stage[r] = "resolve" /\ UNCHANGED <<op, shown, todo, got, answer>> /\ Still
  BY DEF ResolveLabModule
<1>4. /\ op[r] \in Op /\ op[r].kind # "local" /\ got[r] = NothingYet
      /\ (op[r].kind = "policy" \/ op[r].kind = "step")
  BY <1>3 DEF StageInv, Unread, Op
<1>5. CASE op[r].pos \in DOMAIN list /\ list[op[r].pos].type = "lab"
  <2>1. mod' = [mod EXCEPT ![r] = list[op[r].pos]] /\ stage' = [stage EXCEPT ![r] = FirstCall(op[r])]
    BY <1>1, <1>5 DEF ResolveIn, Found, Proceed
  <2>2. mod'[r] \in Modules /\ stage'[r] = FirstCall(op[r])
    BY <1>2, <1>5, <2>1 DEF LabTypeOK, Modules
  <2>3. stage'[r] \in {"spec", "branches", "judge"} /\ (stage'[r] = "spec" <=> op[r].kind = "policy")
        /\ (stage'[r] = "branches" => op[r].own)
    BY <2>2 DEF FirstCall
  <2>4. stage'[r] \in Stages /\ StageInv(r)'
    BY <1>3, <1>4, <2>3 DEF StageInv, Stages, Unread, Reading
  <2>5. Steps(r)
    BY <1>1, <1>3, <2>1 DEF Steps, Still
  <2> QED
    BY <1>3, <2>2, <2>4, <2>5 DEF Kept, LabTypeOK, Still
<1>6. CASE ~(op[r].pos \in DOMAIN list /\ list[op[r].pos].type = "lab")
  <2>1. mod' = mod /\ stage' = [stage EXCEPT ![r] = "denied"]
    BY <1>1, <1>6 DEF ResolveIn, Refused, Proceed
  <2>2. stage'[r] = "denied" /\ stage'[r] \in Stages
    BY <2>1 DEF LabTypeOK, Stages
  <2>3. StageInv(r)'
    BY <1>3, <1>4, <2>2 DEF StageInv, Unread, Reading
  <2>4. Steps(r)
    BY <1>1, <1>3, <2>1 DEF Steps, Still
  <2> QED
    BY <1>3, <2>1, <2>2, <2>3, <2>4 DEF Kept, LabTypeOK, Still
<1> QED
  BY <1>5, <1>6

\* The calls that only decide where the request goes on.
LEMMA SimpleKept ==
  ASSUME LabTypeOK, NEW r \in Requests, StageInv(r),
         FetchCheckSpec(r) \/ ReadRule(r) \/ ReadProject(r)
  PROVE  Kept(r) /\ rows' = rows
<1>1. PICK there \in {"rule", "denied", "project", "error", "merged"} :
        /\ Skip(r, there) /\ Nothing(r) /\ (Works \/ Fails(r)) /\ Still
        /\ stage[r] \in {"spec", "rule", "project"}
  BY DEF FetchCheckSpec, ReadRule, ReadProject
<1>2. op[r] \in Op /\ op[r].kind = "policy" /\ got[r] = NothingYet
  BY <1>1 DEF StageInv, Unread
<1>3. there \in Stages
  BY <1>1 DEF Stages, Unread, Reading
<1>4. stage'[r] = there /\ op'[r] = op[r] /\ got'[r] = got[r] /\ answer'[r] = answer[r]
  BY <1>1 DEF Skip, Proceed, Nothing, LabTypeOK
<1>5. StageInv(r)'
  BY <1>1, <1>2, <1>4 DEF StageInv, Unread, Reading
<1> QED
  BY <1>1, <1>3, <1>5, SkipKept DEF Still

LEMMA RecordKept ==
  ASSUME LabTypeOK, NEW r \in Requests, StageInv(r), RecordLocalCheck(r)
  PROVE  Kept(r) /\ rows' = rows
<1>1. stage[r] = "record" /\ UNCHANGED <<op, shown, todo, got>> /\ Works /\ Still
  BY DEF RecordLocalCheck
<1>2. op[r] \in Op /\ op[r].kind = "local" /\ got[r] = NothingYet
  BY <1>1 DEF StageInv, Unread
<1>3. CASE op[r].pos \in DOMAIN listing
  <2> DEFINE a == IF op[r].allow THEN "allow" ELSE "refuse"
  <2>1. /\ mod' = [mod EXCEPT ![r] = listing[op[r].pos]] /\ stage' = [stage EXCEPT ![r] = "store"]
        /\ answer' = [answer EXCEPT ![r] = a]
    BY <1>3 DEF RecordLocalCheck, Found, Proceed
  <2>2. listing \in Seq(LabModule)
    BY VisibleModulesType
  <2>3. mod'[r] \in Modules /\ stage'[r] = "store" /\ answer'[r] \in {"none", "allow", "refuse"}
    BY <1>3, <2>1, <2>2 DEF LabTypeOK, Modules
  <2>4. stage'[r] \in Stages /\ StageInv(r)'
    BY <1>1, <1>2, <2>3 DEF StageInv, Stages, Unread, Reading
  <2>5. Steps(r)
    BY <1>1, <2>1 DEF Steps, Still
  <2> QED
    BY <1>1, <2>3, <2>4, <2>5 DEF Kept, LabTypeOK, Still
<1>4. CASE op[r].pos \notin DOMAIN listing
  <2>1. mod' = mod /\ answer' = answer /\ stage' = [stage EXCEPT ![r] = "denied"]
    BY <1>4 DEF RecordLocalCheck, Refused, Proceed
  <2>2. stage'[r] = "denied" /\ stage'[r] \in Stages
    BY <2>1 DEF LabTypeOK, Stages
  <2>3. StageInv(r)'
    BY <1>1, <1>2, <2>1, <2>2 DEF StageInv, Unread, Reading
  <2>4. Steps(r)
    BY <1>1, <2>1 DEF Steps, Still
  <2> QED
    BY <1>1, <2>1, <2>2, <2>3, <2>4 DEF Kept, LabTypeOK, Still
<1> QED
  BY <1>3, <1>4

LEMMA StoreKept ==
  ASSUME LabTypeOK, NEW r \in Requests, StageInv(r), StoreLabCheck(r)
  PROVE  Kept(r) /\ stage[r] = "store" /\ stage'[r] = "done"
         /\ Row(r) \in RowSet /\ (rows' = rows \/ rows' = Append(rows, Row(r)))
<1>1. /\ stage[r] = "store" /\ Skip(r, "done") /\ Nothing(r) /\ UNCHANGED <<project, listing, edits>>
  BY DEF StoreLabCheck
<1>2. Works \/ Fails(r)
  BY DEF StoreLabCheck
<1>3. op[r] \in Op
  BY <1>1 DEF StageInv
<1>4. stage'[r] = "done" /\ op'[r] = op[r]
  BY <1>1 DEF Skip, Proceed, Nothing, LabTypeOK
<1>5. StageInv(r)' /\ "done" \in Stages
  BY <1>3, <1>4 DEF StageInv, Stages, Unread, Reading
<1>6. Row(r) \in RowSet
  <2>1. mod[r] \in Modules /\ op[r].pos \in Nat
    BY <1>3 DEF LabTypeOK, Op
  <2> QED
    BY <2>1 DEF Row, RowSet
<1>7. Kept(r)
  BY <1>1, <1>2, <1>5, SkipKept
<1>8. rows' = rows \/ rows' = Append(rows, Row(r))
  BY DEF StoreLabCheck, Create
<1> QED
  BY <1>1, <1>4, <1>6, <1>7, <1>8

\* Filling in some of the answers leaves the others.
Same(g, h, changed) ==
  /\ h \in Answers
  /\ "branches" \in changed \/ h.branches = g.branches
  /\ "open" \in changed \/ h.open = g.open
  /\ "pipe" \in changed \/ h.pipe = g.pipe
  /\ "commits" \in changed \/ h.commits = g.commits
  /\ "merged" \in changed \/ h.merged = g.merged
  /\ "page" \in changed \/ h.page = g.page
  /\ "ahead" \in changed \/ h.ahead = g.ahead
  /\ "diff" \in changed \/ h.diff = g.diff
  /\ "file" \in changed \/ h.file = g.file

Filled(g) ==
  /\ \A n \in Nat, p \in Nat \ {0} : LET h == [g EXCEPT !.merged = n, !.page = p] IN
       Same(g, h, {"merged", "page"}) /\ h.merged = n /\ h.page = p
  /\ \A p \in Nat \ {0} : LET h == [g EXCEPT !.page = p] IN
       Same(g, h, {"page"}) /\ h.page = p
  /\ \A B \in Seq(Names), p \in Nat \ {0} : LET h == [g EXCEPT !.branches = B, !.page = p] IN
       Same(g, h, {"branches", "page"}) /\ h.branches = B /\ h.page = p
  /\ \A open \in Seq(Ids) : LET h == [g EXCEPT !.open = open] IN
       Same(g, h, {"open"}) /\ h.open = open
  /\ \A open \in Seq(Ids), p \in Nat \ {0} : LET h == [g EXCEPT !.open = open, !.page = p] IN
       Same(g, h, {"open", "page"}) /\ h.open = open /\ h.page = p
  /\ \A f \in Partial(Statuses) : LET h == [g EXCEPT !.pipe = f] IN
       Same(g, h, {"pipe"}) /\ h.pipe = f
  /\ \A f \in Partial(SUBSET Kinds) : LET h == [g EXCEPT !.commits = f] IN
       Same(g, h, {"commits"}) /\ h.commits = f
  /\ \A b \in BOOLEAN : LET h == [g EXCEPT !.file = b] IN
       Same(g, h, {"file"}) /\ h.file = b
  /\ \A k \in SUBSET Kinds, b \in BOOLEAN : LET h == [g EXCEPT !.ahead = k, !.diff = b] IN
       Same(g, h, {"ahead", "diff"}) /\ h.ahead = k /\ h.diff = b

LEMMA AnswersFilled ==
  ASSUME NEW g \in Answers
  PROVE  Filled(g)
<1> DEFINE T == Partial(Statuses)
           U == Partial(SUBSET Kinds)
           V == Seq(Names)
           K == SUBSET Kinds
           L == Seq(Ids)
<1>1. Answers = [branches : V, open : L, pipe : T, commits : U, merged : Nat, page : Nat \ {0},
                 ahead : K, diff : BOOLEAN, file : BOOLEAN]
  BY DEF Answers
<1> HIDE DEF T, U, V, K, L
<1> USE DEF Same
<1>2. /\ \A n \in Nat, p \in Nat \ {0} : LET h == [g EXCEPT !.merged = n, !.page = p] IN
           Same(g, h, {"merged", "page"}) /\ h.merged = n /\ h.page = p
      /\ \A p \in Nat \ {0} : LET h == [g EXCEPT !.page = p] IN
           Same(g, h, {"page"}) /\ h.page = p
  BY <1>1
<1>3. \A B \in V, p \in Nat \ {0} : LET h == [g EXCEPT !.branches = B, !.page = p] IN
        Same(g, h, {"branches", "page"}) /\ h.branches = B /\ h.page = p
  BY <1>1
<1>4. /\ \A open \in L : LET h == [g EXCEPT !.open = open] IN
           Same(g, h, {"open"}) /\ h.open = open
      /\ \A open \in L, p \in Nat \ {0} : LET h == [g EXCEPT !.open = open, !.page = p] IN
           Same(g, h, {"open", "page"}) /\ h.open = open /\ h.page = p
  BY <1>1
<1>5. \A f \in T : LET h == [g EXCEPT !.pipe = f] IN
        Same(g, h, {"pipe"}) /\ h.pipe = f
  BY <1>1
<1>6. \A f \in U : LET h == [g EXCEPT !.commits = f] IN
        Same(g, h, {"commits"}) /\ h.commits = f
  BY <1>1
<1>7. \A b \in BOOLEAN : LET h == [g EXCEPT !.file = b] IN
        Same(g, h, {"file"}) /\ h.file = b
  BY <1>1
<1>8. \A k \in K, b \in BOOLEAN : LET h == [g EXCEPT !.ahead = k, !.diff = b] IN
        Same(g, h, {"ahead", "diff"}) /\ h.ahead = k /\ h.diff = b
  BY <1>1
<1> QED
  BY <1>2, <1>3, <1>4, <1>5, <1>6, <1>7, <1>8, Zenon DEF Filled, T, U, V, K, L

\* What the calls to GitLab change.
LEMMA GatherKept ==
  ASSUME LabTypeOK, NEW r \in Requests, StageInv(r), NEW there \in Stages, NEW g \in Answers,
         stage[r] \in Reading, Nothing(r), Works \/ Fails(r), Still,
         stage' = [stage EXCEPT ![r] = there],
         got' = got \/ got' = [got EXCEPT ![r] = g],
         todo' = todo \/ \E t \in Seq(Calls) : todo' = [todo EXCEPT ![r] = t],
         /\ there \notin Unread \cup {"merged", "files", "compare", "store"}
         /\ there \in {"open", "mrs"} => op[r].kind = "policy" \/ op[r].own
         /\ there = "branches" => op[r].kind = "step" /\ op[r].own
  PROVE  Kept(r) /\ rows' = rows
<1>1. UNCHANGED <<op, shown, mod, answer>> /\ UNCHANGED <<project, listing, edits, rows>>
  BY DEF Nothing, Still
<1>2. stage'[r] = there
  BY DEF LabTypeOK
<1>3. got'[r] \in Answers
  BY DEF LabTypeOK
<1>4. todo'[r] \in Seq(Calls)
  BY DEF LabTypeOK
<1>5. Steps(r)
  BY <1>1 DEF Steps
<1>6. mod'[r] \in Modules /\ answer'[r] \in {"none", "allow", "refuse"}
  BY <1>1 DEF LabTypeOK
<1>7. op[r] \in Op /\ op[r].kind # "local"
  BY DEF StageInv, Reading
<1>8. StageInv(r)'
  BY <1>1, <1>2, <1>7 DEF StageInv, Unread, Reading
<1> QED
  BY <1>1, <1>2, <1>3, <1>4, <1>5, <1>6, <1>8 DEF Kept

LEMMA CountKept ==
  ASSUME LabTypeOK, NEW r \in Requests, StageInv(r), CountMerged(r)
  PROVE  Kept(r) /\ rows' = rows
<1> DEFINE g == got[r]
           list == InState("merged")
           last == LastPage(list, g.page)
           there == IF last THEN "open" ELSE "merged"
           more == [g EXCEPT !.merged = @ + Len(Page(list, g.page)), !.page = IF last THEN 1 ELSE @ + 1]
<1>1. g \in Answers /\ stage[r] = "merged" /\ op[r].kind = "policy" /\ op[r] \in Op
  BY DEF LabTypeOK, CountMerged, StageInv
<1>2. UNCHANGED todo /\ Nothing(r) /\ Still
  BY DEF CountMerged
<1>3. CASE Works /\ got' = [got EXCEPT ![r] = more] /\ stage' = [stage EXCEPT ![r] = there]
  <2>1. Len(Page(list, g.page)) \in Nat
    BY <1>1, InStateType, PageFacts DEF Answers
  <2>2. more \in Answers
    <3> DEFINE n == g.merged + Len(Page(list, g.page))
               p == IF last THEN 1 ELSE g.page + 1
    <3>1. n \in Nat /\ p \in Nat \ {0}
      BY <1>1, <2>1 DEF Answers
    <3>2. more = [g EXCEPT !.merged = n, !.page = p]
      OBVIOUS
    <3> HIDE DEF more, n, p, g
    <3> QED
      BY <1>1, <3>1, <3>2, AnswersFilled DEF Filled, Same
  <2> HIDE DEF more, g, list, last
  <2>3. got'[r] \in Answers /\ stage'[r] = there
    BY <1>3, <2>2 DEF LabTypeOK
  <2>4. UNCHANGED <<project, listing, edits, op, shown, mod, answer, rows, todo>>
    BY <1>2 DEF Nothing, Still
  <2>5. Steps(r)
    BY <1>3, <2>4 DEF Steps
  <2>6. StageInv(r)' /\ stage'[r] \in Stages
    BY <1>1, <2>3, <2>4 DEF StageInv, Unread, Reading, Stages
  <2> QED
    BY <2>3, <2>4, <2>5, <2>6 DEF Kept, LabTypeOK
<1>4. CASE Fails(r) /\ got' = [got EXCEPT ![r] = [g EXCEPT !.page = 1]] /\ stage' = [stage EXCEPT ![r] = "open"]
  <2> DEFINE none == [g EXCEPT !.page = 1]
  <2>1. none \in Answers
    BY <1>1 DEF Answers
  <2> HIDE DEF none
  <2> QED
    BY <1>1, <1>2, <1>4, <2>1, GatherKept DEF Stages, Reading, Unread, none
<1> QED
  BY <1>3, <1>4 DEF CountMerged, Collect, Proceed

LEMMA BranchesKept ==
  ASSUME LabTypeOK, NEW r \in Requests, StageInv(r), ListBranches(r)
  PROVE  Kept(r) /\ rows' = rows
<1> DEFINE g == got[r]
           last == LastPage(Listed, g.page)
           names == g.branches \o Page(Listed, g.page)
           p == IF last THEN 1 ELSE g.page + 1
           more == [g EXCEPT !.branches = names, !.page = p]
<1>1. g \in Answers /\ stage[r] = "branches" /\ op[r].kind = "step" /\ op[r].own
  BY DEF LabTypeOK, ListBranches, StageInv
<1>2. UNCHANGED todo /\ Nothing(r) /\ Still
  BY DEF ListBranches
<1>3. PICK there \in {"branches", "open", "error"} :
        /\ Works \/ Fails(r)
        /\ stage' = [stage EXCEPT ![r] = there]
        /\ got' = got \/ got' = [got EXCEPT ![r] = more]
  BY DEF ListBranches, Collect, Proceed, Listed
<1>4. names \in Seq(Names) /\ p \in Nat \ {0}
  <2>1. g.branches \in Seq(Names) /\ g.page \in Nat \ {0} /\ Listed \in Seq(Names)
    BY <1>1, ListedFacts DEF Answers
  <2> HIDE DEF g
  <2>2. Page(Listed, g.page) \in Seq(Names)
    BY <2>1, BranchPage
  <2> QED
    BY <2>1, <2>2
<1>5. more \in Answers
  <2> HIDE DEF g, names, p
  <2> QED
    BY <1>1, <1>4, AnswersFilled DEF Filled, Same
<1>6. there \in Stages \ (Unread \cup {"merged", "files", "compare", "store"}) /\ stage[r] \in Reading
  BY <1>1, <1>3 DEF Stages, Unread, Reading
<1> HIDE DEF more, g
<1> QED
  BY <1>1, <1>2, <1>3, <1>5, <1>6, GatherKept

LEMMA OpenKept ==
  ASSUME LabTypeOK, NEW r \in Requests, StageInv(r), ListOpenMRs(r)
  PROVE  Kept(r) /\ rows' = rows
<1> DEFINE g == got[r]
           list == InState("opened")
           open == g.open \o Page(list, g.page)
<1>1. g \in Answers /\ stage[r] = "open" /\ (op[r].kind = "policy" \/ op[r].own)
      /\ op[r] \in Op /\ op[r].kind # "local"
  BY DEF LabTypeOK, ListOpenMRs, StageInv, Reading
<1>2. Nothing(r) /\ Still
  BY DEF ListOpenMRs
<1>3. open \in Seq(Ids)
  <2>1. g.open \in Seq(Ids) /\ g.page \in Nat \ {0} /\ list \in Seq(Ids)
    BY <1>1, InStateType DEF Answers
  <2> HIDE DEF g, list
  <2>2. Page(list, g.page) \in Seq(Ids)
    BY <2>1, PageFacts
  <2> QED
    BY <2>1, <2>2
<1>4. MRCalls(op[r], open) \in Seq(Calls)
  BY <1>1, <1>3, MRCallsFacts
<1>5. {"open", "mrs", "error"} \subseteq Stages \ (Unread \cup {"merged", "files", "compare", "store"})
  BY DEF Stages, Unread, Reading
<1>6. stage[r] \in Reading
  BY <1>1 DEF Reading
<1>7. stage = [stage EXCEPT ![r] = "open"]
  BY <1>1 DEF LabTypeOK
<1> HIDE DEF open, list
<1>8. CASE /\ Collect(r, [g EXCEPT !.open = open, !.page = @ + 1])
           /\ UNCHANGED <<stage, todo>> /\ Works
  <2> DEFINE p == g.page + 1
  <2>1. [g EXCEPT !.open = open, !.page = p] \in Answers
    <3>1. p \in Nat \ {0}
      BY <1>1 DEF Answers
    <3> HIDE DEF p, g
    <3> QED
      BY <1>1, <1>3, <3>1, AnswersFilled DEF Filled, Same
  <2> QED
    BY <1>1, <1>2, <1>5, <1>6, <1>7, <1>8, <2>1, GatherKept DEF Collect
<1>9. CASE /\ Collect(r, [g EXCEPT !.open = open])
           /\ todo' = [todo EXCEPT ![r] = MRCalls(op[r], open)]
           /\ Proceed(r, "mrs") /\ Works
  <2>1. [g EXCEPT !.open = open] \in Answers
    BY <1>1, <1>3, AnswersFilled DEF Filled, Same
  <2> QED
    BY <1>1, <1>2, <1>4, <1>5, <1>6, <1>9, <2>1, GatherKept DEF Collect, Proceed
<1>10. CASE /\ Collect(r, [g EXCEPT !.open = <<>>])
            /\ Proceed(r, IF op[r].kind = "policy" THEN "mrs" ELSE "error")
            /\ UNCHANGED todo /\ Fails(r)
  <2>1. [g EXCEPT !.open = <<>>] \in Answers
    <3>1. <<>> \in Seq(Ids)
      OBVIOUS
    <3> QED
      BY <1>1, <3>1, AnswersFilled DEF Filled, Same
  <2>2. (IF op[r].kind = "policy" THEN "mrs" ELSE "error") \in {"mrs", "error"}
    OBVIOUS
  <2> QED
    BY <1>1, <1>2, <1>5, <1>6, <1>10, <2>1, <2>2, GatherKept DEF Collect, Proceed
<1> QED
  BY <1>8, <1>9, <1>10 DEF ListOpenMRs, open, list

LEMMA ReadMRKept ==
  ASSUME LabTypeOK, ProjectInv, NEW r \in Requests, StageInv(r), ReadMR(r)
  PROVE  Kept(r) /\ rows' = rows
<1>1. /\ got[r] \in Answers /\ stage[r] = "mrs" /\ (op[r].kind = "policy" \/ op[r].own)
      /\ op[r] \in Op /\ op[r].kind # "local" /\ todo[r] \in Seq(Calls)
  BY DEF LabTypeOK, ReadMR, StageInv, Reading
<1>2. Nothing(r) /\ Still
  BY DEF ReadMR
<1>3. CASE todo[r] = <<>>
  <2>1. Skip(r, AfterMRs(op[r])) /\ Works
    BY <1>3 DEF ReadMR
  <2>2. AfterMRs(op[r]) \in Stages
    BY DEF AfterMRs, Stages, Reading
  <2>3. stage'[r] = AfterMRs(op[r]) /\ op'[r] = op[r] /\ got'[r] = got[r] /\ answer'[r] = answer[r]
    BY <1>2, <2>1 DEF Skip, Proceed, Nothing, LabTypeOK
  <2>4. op[r].kind \in {"policy", "step"}
    BY <1>1 DEF Op
  <2>5. StageInv(r)'
    BY <1>1, <2>3, <2>4 DEF StageInv, Unread, Reading, AfterMRs
  <2> QED
    BY <1>2, <2>1, <2>2, <2>5, SkipKept DEF Still
<1>4. CASE todo[r] # <<>>
  <2> DEFINE what == Head(todo[r])[1]
             m == Head(todo[r])[2]
             g == got[r]
             read == IF what = "pipe" THEN [g EXCEPT !.pipe = Add(@, m, pipe[m])]
                     ELSE [g EXCEPT !.commits = Add(@, m, MRCommits(op[r], m))]
  <2>1. Head(todo[r]) \in Calls /\ Tail(todo[r]) \in Seq(Calls)
    BY <1>1, <1>4
  <2>2. m \in Ids
    BY <2>1 DEF Calls
  <2>3. pipe[m] \in Statuses /\ MRCommits(op[r], m) \in SUBSET Kinds
    BY <2>2, CommitsRead DEF ProjectInv, ProjectTypeOK
  <2>4. /\ Add(g.pipe, m, pipe[m]) \in Partial(Statuses)
        /\ Add(g.commits, m, MRCommits(op[r], m)) \in Partial(SUBSET Kinds)
    <3>1. g.pipe \in Partial(Statuses) /\ g.commits \in Partial(SUBSET Kinds)
      BY <1>1 DEF Answers
    <3> HIDE DEF m, g
    <3> QED
      BY <2>2, <2>3, <3>1, AddType
  <2>5. read \in Answers
    <3> DEFINE pipes == Add(g.pipe, m, pipe[m])
               commits == Add(g.commits, m, MRCommits(op[r], m))
    <3>1. pipes \in Partial(Statuses) /\ commits \in Partial(SUBSET Kinds) /\ g \in Answers
      BY <1>1, <2>4
    <3>2. read = IF what = "pipe" THEN [g EXCEPT !.pipe = pipes] ELSE [g EXCEPT !.commits = commits]
      OBVIOUS
    <3> HIDE DEF read, pipes, commits, g, what
    <3> QED
      BY <3>1, <3>2, AnswersFilled DEF Filled, Same
  <2>6. /\ todo' = [todo EXCEPT ![r] = Tail(@)] /\ UNCHANGED stage
        /\ (Works /\ Collect(r, read)) \/ (UNCHANGED got /\ Fails(r))
    BY <1>4 DEF ReadMR
  <2>7. stage' = [stage EXCEPT ![r] = "mrs"]
    BY <1>1, <2>6 DEF LabTypeOK
  <2>8. "mrs" \in Stages \ (Unread \cup {"merged", "files", "compare", "store"}) /\ stage[r] \in Reading
    BY <1>1 DEF Stages, Unread, Reading
  <2>9. \E t \in Seq(Calls) : todo' = [todo EXCEPT ![r] = t]
    BY <2>1, <2>6
  <2>10. (Works \/ Fails(r)) /\ (got' = got \/ got' = [got EXCEPT ![r] = read])
    BY <2>6 DEF Collect
  <2> HIDE DEF what, m, g, read
  <2> QED
    BY <1>1, <1>2, <2>5, <2>7, <2>8, <2>9, <2>10, GatherKept
<1> QED
  BY <1>3, <1>4

LEMMA FilesKept ==
  ASSUME LabTypeOK, ProjectInv, NEW r \in Requests, StageInv(r), FetchFiles(r)
  PROVE  Kept(r) /\ rows' = rows
<1> DEFINE g == [got[r] EXCEPT !.file = HasFile(FilesRef(got[r]))]
<1>1. HasFile(FilesRef(got[r])) \in BOOLEAN
  BY DEF HasFile, ProjectInv, ProjectTypeOK
<1>2. g \in Answers /\ stage[r] = "files" /\ Nothing(r) /\ Still /\ UNCHANGED todo
  <2>1. got[r] \in Answers
    BY DEF LabTypeOK
  <2> QED
    BY <1>1, <2>1, AnswersFilled DEF Filled, Same, FetchFiles
<1>3. /\ Works \/ Fails(r)
      /\ stage' = [stage EXCEPT ![r] = "judge"]
      /\ got' = got \/ got' = [got EXCEPT ![r] = g]
  BY DEF FetchFiles, Collect, Proceed
<1>4. "judge" \in Stages \ (Unread \cup {"merged", "files", "compare", "store"}) /\ stage[r] \in Reading
  BY <1>2 DEF Stages, Unread, Reading
<1> HIDE DEF g
<1> QED
  BY <1>2, <1>3, <1>4, GatherKept

\* What a comparison with main finds.
LEMMA CommitsAhead ==
  ASSUME ProjectInv, NEW listed \in Seq(Names), NEW pattern, BranchByPattern(listed, pattern) # <<>>
  PROVE  Range(ahead[Head(BranchByPattern(listed, pattern))]) \in SUBSET Kinds
<1>1. Head(BranchByPattern(listed, pattern)) \in Names
  BY BranchFound
<1>2. ahead[Head(BranchByPattern(listed, pattern))] \in Seq(Kinds)
  BY <1>1 DEF ProjectInv, ProjectTypeOK
<1> QED
  BY <1>2 DEF Range

LEMMA CompareKept ==
  ASSUME LabTypeOK, ProjectInv, NEW r \in Requests, StageInv(r), Compare(r)
  PROVE  Kept(r) /\ rows' = rows
<1> DEFINE found == BranchByPattern(got[r].branches, op[r].pattern)
           g == IF found = <<>> THEN got[r]
                ELSE [got[r] EXCEPT !.ahead = Range(ahead[Head(found)]), !.diff = Head(found) \in touched]
<1>1. found # <<>> => Range(ahead[Head(found)]) \in SUBSET Kinds /\ (Head(found) \in touched) \in BOOLEAN
  <2>1. got[r].branches \in Seq(Names)
    BY DEF LabTypeOK, Answers
  <2> QED
    BY <2>1, CommitsAhead
<1> HIDE DEF found
<1>2. g \in Answers
  <2>1. got[r] \in Answers
    BY DEF LabTypeOK
  <2> QED
    BY <1>1, <2>1, AnswersFilled DEF Filled, Same
<1>3. stage[r] = "compare" /\ Nothing(r) /\ Still /\ UNCHANGED todo
  BY DEF Compare
<1>4. PICK there \in {"judge", "error"} :
        /\ Works \/ Fails(r)
        /\ stage' = [stage EXCEPT ![r] = there]
        /\ got' = got \/ got' = [got EXCEPT ![r] = g]
  BY DEF Compare, Collect, Proceed, found
<1>5. there \in Stages \ (Unread \cup {"merged", "files", "compare", "store"}) /\ stage[r] \in Reading
  BY <1>3, <1>4 DEF Stages, Unread, Reading
<1> HIDE DEF g
<1> QED
  BY <1>2, <1>3, <1>4, <1>5, GatherKept

LEMMA JudgeKept ==
  ASSUME LabTypeOK, NEW r \in Requests, StageInv(r), Judge(r)
  PROVE  Kept(r) /\ rows' = rows
<1> DEFINE a == IF Verdict(op[r], got[r]) THEN "allow" ELSE "refuse"
           there == IF op[r].kind = "policy" THEN "store" ELSE "done"
<1>1. /\ stage[r] = "judge" /\ UNCHANGED <<op, shown, mod, todo, got>> /\ Works /\ Still
      /\ answer' = [answer EXCEPT ![r] = a] /\ stage' = [stage EXCEPT ![r] = there]
  BY DEF Judge, Proceed
<1>2. a \in {"none", "allow", "refuse"} /\ there \in Stages /\ there \in {"store", "done"}
      /\ (there = "store" => op[r].kind = "policy")
  BY DEF Stages
<1> HIDE DEF a, there
<1>3. op[r] \in Op
  BY <1>1 DEF StageInv
<1>4. stage'[r] = there /\ answer'[r] = a
  BY <1>1 DEF LabTypeOK
<1>5. StageInv(r)'
  BY <1>1, <1>2, <1>3, <1>4 DEF StageInv, Unread, Reading
<1>6. Steps(r)
  BY <1>1 DEF Steps, Still
<1> QED
  BY <1>1, <1>2, <1>4, <1>5, <1>6 DEF Kept, LabTypeOK, Still

\* The call is lost on the way.
LEMMA LostKept ==
  ASSUME LabTypeOK, NEW r \in Requests, StageInv(r), CallLost(r)
  PROVE  Kept(r) /\ rows' = rows
<1>1. stage[r] \in CheckerStages /\ Skip(r, "error") /\ Fails(r) /\ Nothing(r) /\ Still
  BY DEF CallLost
<1>2. op[r] \in Op /\ op[r].kind # "local"
  BY <1>1 DEF StageInv, CheckerStages, Reading
<1>3. stage'[r] = "error" /\ op'[r] = op[r] /\ "error" \in Stages
  BY <1>1 DEF Skip, Proceed, Nothing, LabTypeOK, Stages
<1>4. StageInv(r)'
  BY <1>2, <1>3 DEF StageInv, Unread, Reading
<1> QED
  BY <1>1, <1>3, <1>4, SkipKept DEF Still

LEMMA ServeStep ==
  ASSUME LabTypeOK, ProjectInv, NEW r \in Requests, StageInv(r), Serve(r)
  PROVE  /\ LabTypeOK' /\ StageInv(r)' /\ Others(r) /\ stage[r] \notin {"done", "idle"} /\ UNCHANGED <<op, shown>>
         /\ \/ rows' = rows
            \/ rows' = Append(rows, Row(r)) /\ Row(r)' = Row(r) /\ stage'[r] = "done" /\ Row(r) \in RowSet
<1> USE DEF Kept
<1>1. CASE StoreLabCheck(r)
  <2>1. Kept(r) /\ stage[r] = "store" /\ stage'[r] = "done" /\ Row(r) \in RowSet
    BY <1>1, StoreKept
  <2>2. rows' = rows \/ rows' = Append(rows, Row(r))
    BY <1>1, StoreKept
  <2>3. rows' \in Seq(RowSet)
    <3>1. rows \in Seq(RowSet)
      BY DEF LabTypeOK
    <3> QED
      BY <2>1, <2>2, <3>1
  <2>4. LabTypeOK' /\ Others(r)
    BY <2>1, <2>3, StepsFrame
  <2>5. Row(r)' = Row(r)
    BY <1>1 DEF StoreLabCheck, Nothing, Row
  <2> QED
    BY <2>1, <2>2, <2>4, <2>5 DEF Steps
<1>2. CASE ~StoreLabCheck(r)
  <2>1. Kept(r) /\ rows' = rows
    BY <1>2, ResolveKept, SimpleKept, RecordKept, CountKept, BranchesKept, OpenKept, ReadMRKept,
       FilesKept, CompareKept, JudgeKept, LostKept DEF Serve
  <2>2. stage[r] \notin {"done", "idle"}
    BY <1>2 DEF Serve, ResolveLabModule, FetchCheckSpec, RecordLocalCheck, ReadRule, ReadProject,
       CountMerged, ListBranches, ListOpenMRs, ReadMR, FetchFiles, Compare, Judge, CallLost, CheckerStages
  <2>3. rows' \in Seq(RowSet)
    BY <2>1 DEF LabTypeOK
  <2>4. LabTypeOK' /\ Others(r)
    BY <2>1, <2>3, StepsFrame
  <2> QED
    BY <2>1, <2>2, <2>4 DEF Steps
<1> QED
  BY <1>1, <1>2

\* What the rest of the world does: the project moves or the course is edited.
Around ==
  /\ \/ ProjectNext /\ listing' = listing /\ edits' = edits
     \/ UNCHANGED project /\ listing' \in Versions /\ edits' \in Nat \ {0}
  /\ UNCHANGED <<stage, op, shown, mod, todo, got, answer, rows, failures>>
  /\ clean' = [r \in Requests |-> clean[r] /\ r \notin Busy]

LEMMA AroundStep ==
  ASSUME LabTypeOK, ProjectMoves \/ EditCourse
  PROVE  Around /\ LabTypeOK'
<1>1. CASE ProjectMoves
  BY <1>1 DEF ProjectMoves, Around, Disturbed, request, LabTypeOK
<1>2. CASE EditCourse
  BY <1>2 DEF EditCourse, Around, Disturbed, request, LabTypeOK
<1> QED
  BY <1>1, <1>2

\* Types, stages and rows, for every step.
Base ==
  /\ LabTypeOK
  /\ ProjectInv
  /\ \A r \in Requests : StageInv(r)
  /\ RowsInv

LEMMA BaseInit == LabsInit => Base
<1> SUFFICES ASSUME LabsInit PROVE Base
  OBVIOUS
<1>1. ProjectInv
  BY ProjectInvInit DEF LabsInit
<1>2. LabTypeOK
  <2>1. /\ stage \in [Requests -> Stages] /\ op \in [Requests -> Op \cup {NoOp}]
        /\ answer \in [Requests -> {"none", "allow", "refuse"}] /\ clean \in [Requests -> BOOLEAN]
    BY DEF LabsInit, Stages, Unread
  <2>2. got \in [Requests -> Answers]
    BY NothingType DEF LabsInit
  <2>4. mod \in [Requests -> Modules]
    BY DEF LabsInit, Modules
  <2>5. /\ shown \in [Requests -> Seq(LabModule)] /\ todo \in [Requests -> Seq(Calls)]
        /\ rows \in Seq(RowSet)
    BY DEF LabsInit
  <2>6. listing \in Versions /\ edits \in Nat /\ failures \in Nat
    BY DEF LabsInit
  <2> QED
    BY <2>1, <2>2, <2>4, <2>5, <2>6 DEF LabTypeOK
<1>3. \A r \in Requests : StageInv(r)
  <2>1. \A r \in Requests : stage[r] = "idle" /\ answer[r] = "none" /\ got[r] = NothingYet
    BY DEF LabsInit
  <2> QED
    BY <2>1 DEF StageInv, Reading
<1>4. RowsInv
  BY DEF LabsInit, RowsInv
<1> QED
  BY <1>1, <1>2, <1>3, <1>4 DEF Base

\* The steps by who takes them.
LEMMA StepsSplit ==
  ASSUME [LabsNext]_labVars
  PROVE  \/ ProjectMoves \/ EditCourse
         \/ \E r \in Requests : Ask(r) \/ Serve(r)
         \/ UNCHANGED <<project, listing, stage, op, shown, mod, todo, got, answer, clean, rows, edits, failures>>
  BY DEF LabsNext, labVars, request

LEMMA BaseStep ==
  ASSUME Base, [LabsNext]_labVars
  PROVE  Base'
<1>1. ASSUME NEW r \in Requests, Ask(r) \/ Serve(r)
      PROVE  Base'
  <2>1. /\ LabTypeOK' /\ StageInv(r)' /\ Others(r) /\ stage[r] # "done"
        /\ \/ rows' = rows
           \/ rows' = Append(rows, Row(r)) /\ Row(r)' = Row(r) /\ stage'[r] = "done" /\ Row(r) \in RowSet
    BY <1>1, AskStep, ServeStep DEF Base, Ask
  <2>2. ProjectInv'
    BY <2>1 DEF Others, Base, project, ProjectInv, ProjectTypeOK
  <2>3. ASSUME NEW q \in Requests PROVE StageInv(q)'
    <3>1. CASE q = r
      BY <2>1, <3>1
    <3>2. CASE q # r
      <4>1. stage'[q] = stage[q] /\ op'[q] = op[q] /\ got'[q] = got[q] /\ answer'[q] = answer[q]
        BY <2>1, <3>2 DEF Others
      <4>2. StageInv(q)
        BY DEF Base
      <4> QED
        BY <4>1, <4>2 DEF StageInv
    <3> QED
      BY <3>1, <3>2
  <2>4. RowsInv'
    <3>1. ASSUME NEW i \in DOMAIN rows, NEW q \in Requests, rows[i].by = q
          PROVE  stage'[q] = "done" /\ rows[i] = Row(q)'
      <4>1. stage[q] = "done" /\ rows[i] = Row(q)
        BY <3>1 DEF Base, RowsInv
      <4>2. q # r
        BY <2>1, <4>1
      <4>3. /\ stage'[q] = stage[q] /\ op'[q] = op[q] /\ mod'[q] = mod[q] /\ answer'[q] = answer[q]
        BY <2>1, <4>2 DEF Others
      <4>4. Row(q)' = Row(q)
        BY <4>3 DEF Row
      <4> QED
        BY <4>1, <4>3, <4>4
    <3>2. CASE rows' = rows
      BY <3>1, <3>2 DEF RowsInv
    <3>3. CASE rows' = Append(rows, Row(r)) /\ Row(r)' = Row(r) /\ stage'[r] = "done" /\ Row(r) \in RowSet
      <4> DEFINE new == Row(r)
      <4>1. rows \in Seq(RowSet) /\ new.by = r /\ new \in RowSet /\ rows' = Append(rows, new) /\ Row(r)' = new
        BY <3>3 DEF Base, LabTypeOK, Row
      <4> HIDE DEF new
      <4>2. \A i \in DOMAIN rows' : (i \in DOMAIN rows /\ rows'[i] = rows[i]) \/ rows'[i] = new
        BY <4>1
      <4>3. ASSUME NEW i \in DOMAIN rows', NEW q \in Requests, rows'[i].by = q
            PROVE  stage'[q] = "done" /\ rows'[i] = Row(q)'
        <5>1. CASE i \in DOMAIN rows /\ rows'[i] = rows[i]
          BY <3>1, <4>3, <5>1
        <5>2. CASE rows'[i] = new
          <6>1. q = r
            BY <4>1, <4>3, <5>2
          <6> QED
            BY <3>3, <4>1, <5>2, <6>1
        <5> QED
          BY <4>2, <5>1, <5>2
      <4> QED
        BY <4>3 DEF RowsInv
    <3> QED
      BY <2>1, <3>2, <3>3
  <2> QED
    BY <2>1, <2>2, <2>3, <2>4 DEF Base
<1>2. CASE ProjectMoves \/ EditCourse
  <2>1. Around /\ LabTypeOK'
    BY <1>2, AroundStep DEF Base
  <2>2. ProjectInv'
    <3>1. CASE ProjectNext
      BY <3>1, ProjectStep DEF Base
    <3>2. CASE UNCHANGED project
      BY <3>2 DEF Base, project, ProjectInv, ProjectTypeOK
    <3> QED
      BY <2>1, <3>1, <3>2 DEF Around
  <2>3. \A q \in Requests : StageInv(q)'
    BY <2>1 DEF Base, Around, StageInv
  <2>4. RowsInv'
    BY <2>1 DEF Base, Around, RowsInv, Row
  <2> QED
    BY <2>1, <2>2, <2>3, <2>4 DEF Base
<1>3. CASE UNCHANGED <<project, listing, stage, op, shown, mod, todo, got, answer, clean, rows, edits, failures>>
  <2>1. LabTypeOK'
    BY <1>3 DEF Base, LabTypeOK
  <2>2. ProjectInv'
    BY <1>3 DEF Base, project, ProjectInv, ProjectTypeOK
  <2>3. \A q \in Requests : StageInv(q)'
    BY <1>3 DEF Base, StageInv
  <2>4. RowsInv'
    BY <1>3 DEF Base, RowsInv, Row
  <2> QED
    BY <2>1, <2>2, <2>3, <2>4 DEF Base
<1> QED
  BY <1>1, <1>2, <1>3, StepsSplit

-----------------------------------------------------------------------------
(* Results name the module that was shown                                  *)

LEMMA NameStepSelf ==
  ASSUME Base, NEW r \in Requests, NameInv(r), Ask(r) \/ Serve(r)
  PROVE  NameInv(r)'
<1> SUFFICES ASSUME edits' = 0, stage'[r] # "idle"
             PROVE  /\ shown'[r] = VisibleModules'
                    /\ (failures' = 0 /\ op'[r].kind # "local" /\ stage'[r] \in Resolved) =>
                         mod'[r] = VisibleModules'[op'[r].pos]
                    /\ (op'[r].kind = "local" /\ stage'[r] \in Resolved) =>
                         op'[r].pos \in DOMAIN listing' /\ mod'[r] = listing'[op'[r].pos]
  BY DEF NameInv
<1>1. Others(r)
  BY AskStep, ServeStep DEF Base
<1>2. listing' = listing /\ edits = 0 /\ (failures' = 0 => failures = 0)
  BY <1>1 DEF Others
<1>3. VisibleModules' = VisibleModules
  BY <1>2 DEF VisibleModules
<1>4. stage \in [Requests -> Stages] /\ mod \in [Requests -> Modules] /\ shown \in [Requests -> Seq(LabModule)]
  BY DEF Base, LabTypeOK
<1>5. CASE Ask(r)
  <2>1. shown'[r] = VisibleModules /\ stage'[r] \in {"record", "resolve"}
    BY <1>4, <1>5 DEF Ask, Proceed
  <2> QED
    BY <1>3, <2>1 DEF Resolved
<1>6. CASE Serve(r)
  <2>1. stage[r] # "idle" /\ op'[r] = op[r] /\ shown'[r] = shown[r]
    BY <1>6, ServeStep DEF Base
  <2>2. shown[r] = VisibleModules
    BY <1>2, <2>1 DEF NameInv
  <2>3. CASE ResolveLabModule(r)
    <3>1. op[r].kind # "local" /\ stage[r] = "resolve"
      BY <2>3 DEF ResolveLabModule, Base, StageInv
    <3>2. CASE ResolveIn(r, VisibleModules)
      <4>1. \/ mod' = [mod EXCEPT ![r] = VisibleModules[op[r].pos]]
            \/ stage' = [stage EXCEPT ![r] = "denied"]
        BY <3>2 DEF ResolveIn, Found, Refused, Proceed
      <4>2. mod'[r] = VisibleModules[op[r].pos] \/ stage'[r] = "denied"
        BY <1>4, <4>1
      <4> QED
        BY <1>2, <1>3, <2>1, <2>2, <3>1, <4>2 DEF Resolved
    <3>3. CASE Fails(r)
      <4>1. failures' # 0
        BY <3>3, Outcome DEF Base
      <4> QED
        BY <1>3, <2>1, <2>2, <3>1, <4>1
    <3> QED
      BY <2>3, <3>2, <3>3 DEF ResolveLabModule
  <2>4. CASE RecordLocalCheck(r)
    <3>1. op[r].kind = "local"
      BY <2>4 DEF RecordLocalCheck, Base, StageInv
    <3>2. \/ op[r].pos \in DOMAIN listing /\ mod' = [mod EXCEPT ![r] = listing[op[r].pos]]
          \/ stage' = [stage EXCEPT ![r] = "denied"]
      BY <2>4 DEF RecordLocalCheck, Found, Refused, Proceed
    <3>3. (op[r].pos \in DOMAIN listing /\ mod'[r] = listing[op[r].pos]) \/ stage'[r] = "denied"
      BY <1>4, <3>2
    <3> QED
      BY <1>2, <1>3, <2>1, <2>2, <3>1, <3>3 DEF Resolved
  <2>5. CASE ~ResolveLabModule(r) /\ ~RecordLocalCheck(r)
    <3>1. mod' = mod /\ stage[r] \in Resolved
      BY <1>6, <2>5 DEF Serve, FetchCheckSpec, StoreLabCheck, ReadRule, ReadProject, CountMerged,
         ListBranches, ListOpenMRs, ReadMR, FetchFiles, Compare, Judge, CallLost, CheckerStages, Nothing,
         Resolved, Stages, Unread, Reading
    <3> QED
      BY <1>2, <1>3, <2>1, <2>2, <3>1 DEF NameInv
  <2> QED
    BY <2>3, <2>4, <2>5
<1> QED
  BY <1>5, <1>6

LEMMA NameStep ==
  ASSUME Base, \A r \in Requests : NameInv(r), [LabsNext]_labVars
  PROVE  \A r \in Requests : NameInv(r)'
<1> SUFFICES ASSUME NEW q \in Requests
             PROVE  NameInv(q)'
  OBVIOUS
<1>1. NameInv(q)
  OBVIOUS
<1>2. ASSUME NEW r \in Requests, Ask(r) \/ Serve(r)
      PROVE  NameInv(q)'
  <2>1. CASE q = r
    BY <1>1, <1>2, <2>1, NameStepSelf
  <2>2. CASE q # r
    <3>1. Others(r)
      BY <1>2, AskStep, ServeStep DEF Base
    <3>2. /\ stage'[q] = stage[q] /\ op'[q] = op[q] /\ shown'[q] = shown[q] /\ mod'[q] = mod[q]
          /\ listing' = listing /\ edits' = edits /\ (failures' = 0 => failures = 0)
      BY <2>2, <3>1 DEF Others
    <3>3. VisibleModules' = VisibleModules
      BY <3>2 DEF VisibleModules
    <3> QED
      BY <1>1, <3>2, <3>3 DEF NameInv
  <2> QED
    BY <2>1, <2>2
<1>3. CASE ProjectMoves \/ EditCourse
  <2>1. Around
    BY <1>3, AroundStep DEF Base
  <2>2. CASE edits' = 0
    <3>1. UNCHANGED <<listing, edits, stage, op, shown, mod, failures>>
      BY <2>1, <2>2 DEF Around
    <3>2. VisibleModules' = VisibleModules
      BY <3>1 DEF VisibleModules
    <3> QED
      BY <1>1, <3>1, <3>2 DEF NameInv
  <2>3. CASE edits' # 0
    BY <2>3 DEF NameInv
  <2> QED
    BY <2>2, <2>3
<1>4. CASE UNCHANGED <<project, listing, stage, op, shown, mod, todo, got, answer, clean, rows, edits, failures>>
  <2>1. VisibleModules' = VisibleModules
    BY <1>4 DEF VisibleModules
  <2> QED
    BY <1>1, <1>4, <2>1 DEF NameInv
<1> QED
  BY <1>2, <1>3, <1>4, StepsSplit

LEMMA NamesFollow ==
  ASSUME Base, \A r \in Requests : NameInv(r)
  PROVE  NamesShown
<1> SUFFICES ASSUME NEW i \in DOMAIN rows, edits = 0, failures = 0,
                    op[rows[i].by].kind = "local" => ~Shifted(listing, rows[i].index)
             PROVE  rows[i].name = shown[rows[i].by][rows[i].index].name
  BY DEF NamesShown
<1>1. PICK r \in Requests : rows[i].by = r
  <2>1. rows[i] \in RowSet
    BY DEF Base, LabTypeOK
  <2> QED
    BY <2>1 DEF RowSet
<1>2. stage[r] = "done" /\ rows[i] = Row(r)
  BY <1>1 DEF Base, RowsInv
<1>3. rows[i].name = mod[r].name /\ rows[i].index = op[r].pos
  BY <1>2 DEF Row
<1>4. op[r] \in Op
  BY <1>2 DEF Base, StageInv
<1>5. /\ shown[r] = VisibleModules
      /\ op[r].kind # "local" => mod[r] = VisibleModules[op[r].pos]
      /\ op[r].kind = "local" => op[r].pos \in DOMAIN listing /\ mod[r] = listing[op[r].pos]
  <2>1. stage[r] \in Resolved /\ stage[r] # "idle" /\ NameInv(r)
    BY <1>2 DEF Resolved, Stages
  <2> QED
    BY <2>1 DEF NameInv
<1>6. CASE op[r].kind # "local"
  BY <1>1, <1>3, <1>5, <1>6
<1>7. CASE op[r].kind = "local"
  <2>1. op[r].pos \in DOMAIN listing /\ mod[r] = listing[op[r].pos] /\ ~Shifted(listing, op[r].pos)
    BY <1>1, <1>3, <1>5, <1>7
  <2>2. listing \in Seq(LabModule) /\ Expansion \in Seq(LabModule)
    BY VisibleModulesType, LabsAssumption DEF Base
  <2>3. op[r].pos \in 1 .. Len(listing)
    BY <2>1, <2>2
  <2>4. VisibleModules[op[r].pos] = listing[op[r].pos]
    BY <2>1, <2>2, <2>3, NotShifted DEF VisibleModules
  <2> QED
    BY <1>1, <1>3, <1>5, <2>1, <2>4
<1> QED
  BY <1>6, <1>7

LEMMA NameInit == LabsInit => \A r \in Requests : NameInv(r)
  BY DEF LabsInit, NameInv

\* A stored result names the module the learner was looking at, for any course
\* and any number of requests (ResolveLabModule, RecordLocalCheck, StoreLabCheck).
THEOREM NamesAlwaysShown == LabsSpec => []NamesShown
<1> DEFINE I == Base /\ \A r \in Requests : NameInv(r)
<1>1. LabsInit => I
  BY BaseInit, NameInit
<1>2. I /\ [LabsNext]_labVars => I'
  BY BaseStep, NameStep
<1>3. I => NamesShown
  BY NamesFollow
<1> HIDE DEF I
<1> QED
  BY <1>1, <1>2, <1>3, PTL DEF LabsSpec

-----------------------------------------------------------------------------
(* What the calls leave in the request                                     *)

\* What the answered calls leave in the request.
LEMMA Counted ==
  ASSUME Base, NEW r \in Requests, CountMerged(r), Works
  PROVE  LET g == got[r]
             list == InState("merged")
             last == LastPage(list, g.page)
         IN  /\ Same(g, got'[r], {"merged", "page"})
             /\ got'[r].merged = g.merged + Len(Page(list, g.page))
             /\ got'[r].page = IF last THEN 1 ELSE g.page + 1
             /\ stage'[r] = IF last THEN "open" ELSE "merged"
<1> DEFINE g == got[r]
           h == got'[r]
           list == InState("merged")
           last == LastPage(list, g.page)
           n == g.merged + Len(Page(list, g.page))
           p == IF last THEN 1 ELSE g.page + 1
<1>1. stage \in [Requests -> Stages] /\ got \in [Requests -> Answers] /\ failures \in Nat /\ g \in Answers
  BY DEF Base, LabTypeOK
<1>2. g.merged \in Nat /\ g.page \in Nat \ {0} /\ list \in Seq(Ids)
  BY <1>1, InStateType DEF Answers
<1>3. got' = [got EXCEPT ![r] = [g EXCEPT !.merged = n, !.page = p]]
      /\ stage' = [stage EXCEPT ![r] = IF last THEN "open" ELSE "merged"]
  <2>1. ~Fails(r)
    BY <1>1 DEF Works, Fails
  <2> QED
    BY <2>1 DEF CountMerged, Collect, Proceed
<1>4. h = [g EXCEPT !.merged = n, !.page = p] /\ stage'[r] = IF last THEN "open" ELSE "merged"
  BY <1>1, <1>3
<1>5. n \in Nat /\ p \in Nat \ {0}
  <2> HIDE DEF g, list
  <2>1. Len(Page(list, g.page)) \in Nat
    BY <1>2, PageFacts
  <2> QED
    BY <1>2, <2>1
<1>6. Same(g, h, {"merged", "page"}) /\ h.merged = n /\ h.page = p
  <2> DEFINE T == Partial(Statuses)
             U == Partial(SUBSET Kinds)
             V == Seq(Names)
             K == SUBSET Kinds
             L == Seq(Ids)
  <2>1. Answers = [branches : V, open : L, pipe : T, commits : U, merged : Nat, page : Nat \ {0},
                   ahead : K, diff : BOOLEAN, file : BOOLEAN]
    BY DEF Answers
  <2> HIDE DEF T, U, V, K, L, h, n, p, g
  <2> QED
    BY <1>1, <1>4, <1>5, <2>1 DEF Same
<1> QED
  BY <1>4, <1>6

LEMMA BranchesListed ==
  ASSUME Base, NEW r \in Requests, ListBranches(r), Works
  PROVE  LET g == got[r]
             last == LastPage(Listed, g.page)
         IN  /\ Same(g, got'[r], {"branches", "page"})
             /\ got'[r].branches = g.branches \o Page(Listed, g.page)
             /\ got'[r].page = IF last THEN 1 ELSE g.page + 1
             /\ stage'[r] = IF last THEN "open" ELSE "branches"
<1> DEFINE g == got[r]
           h == got'[r]
           last == LastPage(Listed, g.page)
           names == g.branches \o Page(Listed, g.page)
           p == IF last THEN 1 ELSE g.page + 1
<1>1. stage \in [Requests -> Stages] /\ got \in [Requests -> Answers] /\ failures \in Nat /\ g \in Answers
  BY DEF Base, LabTypeOK
<1>2. g.branches \in Seq(Names) /\ g.page \in Nat \ {0} /\ Listed \in Seq(Names)
  BY <1>1, ListedFacts DEF Answers
<1>3. got' = [got EXCEPT ![r] = [g EXCEPT !.branches = names, !.page = p]]
      /\ stage' = [stage EXCEPT ![r] = IF last THEN "open" ELSE "branches"]
  <2>1. ~Fails(r)
    BY <1>1 DEF Works, Fails
  <2> QED
    BY <2>1 DEF ListBranches, Collect, Proceed, Listed
<1>4. h = [g EXCEPT !.branches = names, !.page = p] /\ stage'[r] = IF last THEN "open" ELSE "branches"
  BY <1>1, <1>3
<1>5. names \in Seq(Names) /\ p \in Nat \ {0}
  <2> HIDE DEF g
  <2>1. Page(Listed, g.page) \in Seq(Names)
    BY <1>2, BranchPage
  <2> QED
    BY <1>2, <2>1
<1>6. Same(g, h, {"branches", "page"}) /\ h.branches = names /\ h.page = p
  <2> DEFINE T == Partial(Statuses)
             U == Partial(SUBSET Kinds)
             V == Seq(Names)
             K == SUBSET Kinds
             L == Seq(Ids)
  <2>1. Answers = [branches : V, open : L, pipe : T, commits : U, merged : Nat, page : Nat \ {0},
                   ahead : K, diff : BOOLEAN, file : BOOLEAN]
    BY DEF Answers
  <2>2. names \in V
    BY <1>5
  <2> HIDE DEF T, U, V, K, L, h, names, p, g
  <2> QED
    BY <1>1, <1>4, <1>5, <2>1, <2>2 DEF Same
<1> QED
  BY <1>4, <1>6

LEMMA Opened ==
  ASSUME Base, NEW r \in Requests, ListOpenMRs(r), Works
  PROVE  LET g == got[r]
             list == InState("opened")
             last == LastPage(list, g.page)
         IN  /\ Same(g, got'[r], {"open", "page"})
             /\ got'[r].open = g.open \o Page(list, g.page)
             /\ got'[r].page = IF last THEN g.page ELSE g.page + 1
             /\ stage'[r] = IF last THEN "mrs" ELSE "open"
             /\ last => todo'[r] = MRCalls(op[r], g.open \o Page(list, g.page))
<1> DEFINE g == got[r]
           h == got'[r]
           list == InState("opened")
           last == LastPage(list, g.page)
           o == g.open \o Page(list, g.page)
           p == g.page + 1
<1>1. stage \in [Requests -> Stages] /\ got \in [Requests -> Answers] /\ failures \in Nat /\ g \in Answers
      /\ todo \in [Requests -> Seq(Calls)] /\ stage[r] = "open"
  BY DEF Base, LabTypeOK, ListOpenMRs
<1>2. g.open \in Seq(Ids) /\ g.page \in Nat \ {0} /\ list \in Seq(Ids)
  BY <1>1, InStateType DEF Answers
<1>3. o \in Seq(Ids) /\ p \in Nat \ {0}
  <2> HIDE DEF g, list
  <2>1. Page(list, g.page) \in Seq(Ids)
    BY <1>2, PageFacts
  <2> QED
    BY <1>2, <2>1
<1>4. ~Fails(r)
  BY <1>1 DEF Works, Fails
<1> DEFINE T == Partial(Statuses)
           U == Partial(SUBSET Kinds)
           V == Seq(Names)
           K == SUBSET Kinds
           L == Seq(Ids)
<1>5. Answers = [branches : V, open : L, pipe : T, commits : U, merged : Nat, page : Nat \ {0},
                 ahead : K, diff : BOOLEAN, file : BOOLEAN]
  BY DEF Answers
<1>6. CASE last
  <2>1. got' = [got EXCEPT ![r] = [g EXCEPT !.open = o]] /\ stage' = [stage EXCEPT ![r] = "mrs"]
        /\ todo' = [todo EXCEPT ![r] = MRCalls(op[r], o)]
    BY <1>4, <1>6 DEF ListOpenMRs, Collect, Proceed
  <2>2. h = [g EXCEPT !.open = o] /\ stage'[r] = "mrs" /\ todo'[r] = MRCalls(op[r], o) /\ o \in L
    BY <1>1, <1>3, <2>1
  <2>3. Same(g, h, {"open", "page"}) /\ h.open = o /\ h.page = g.page
    <3> HIDE DEF T, U, V, K, L, h, o, p, g
    <3> QED
      BY <1>1, <1>5, <2>2 DEF Same
  <2> QED
    BY <1>6, <2>2, <2>3
<1>7. CASE ~last
  <2>1. got' = [got EXCEPT ![r] = [g EXCEPT !.open = o, !.page = p]] /\ stage' = stage
    BY <1>4, <1>7 DEF ListOpenMRs, Collect, Proceed
  <2>2. h = [g EXCEPT !.open = o, !.page = p] /\ stage'[r] = "open" /\ o \in L
    BY <1>1, <1>3, <2>1
  <2>3. Same(g, h, {"open", "page"}) /\ h.open = o /\ h.page = p
    <3> HIDE DEF T, U, V, K, L, h, o, p, g
    <3> QED
      BY <1>1, <1>3, <1>5, <2>2 DEF Same
  <2> QED
    BY <1>7, <2>2, <2>3
<1> QED
  BY <1>6, <1>7

\* One more of the calls for the merge requests is answered.
LEMMA MRAnswered ==
  ASSUME Base, NEW r \in Requests, ReadMR(r), Works, todo[r] # <<>>
  PROVE  \E what, m :
           LET g == got[r]
               h == got'[r]
           IN  /\ Head(todo[r]) = <<what, m>> /\ todo'[r] = Tail(todo[r]) /\ stage'[r] = "mrs" /\ m \in Ids
               /\ Same(g, h, {"pipe", "commits"})
               /\ DOMAIN h.pipe = IF what = "pipe" THEN DOMAIN g.pipe \cup {m} ELSE DOMAIN g.pipe
               /\ \A i \in DOMAIN h.pipe : (i \in DOMAIN g.pipe /\ h.pipe[i] = g.pipe[i]) \/ h.pipe[i] = pipe[i]
               /\ DOMAIN h.commits = IF what = "pipe" THEN DOMAIN g.commits ELSE DOMAIN g.commits \cup {m}
               /\ \A i \in DOMAIN h.commits :
                    (i \in DOMAIN g.commits /\ h.commits[i] = g.commits[i]) \/ h.commits[i] = MRCommits(op[r], i)
<1> DEFINE g == got[r]
           what == Head(todo[r])[1]
           m == Head(todo[r])[2]
           pipes == Add(g.pipe, m, pipe[m])
           commits == Add(g.commits, m, MRCommits(op[r], m))
           h == got'[r]
<1>1. /\ g \in Answers /\ got \in [Requests -> Answers] /\ todo[r] \in Seq(Calls) /\ todo \in [Requests -> Seq(Calls)]
      /\ failures \in Nat /\ stage[r] = "mrs"
  BY DEF Base, LabTypeOK, ReadMR
<1>2. Head(todo[r]) = <<what, m>> /\ m \in Ids
  <2>1. Head(todo[r]) \in Calls
    BY <1>1
  <2> QED
    BY <2>1 DEF Calls
<1>3. pipe[m] \in Statuses /\ MRCommits(op[r], m) \in SUBSET Kinds
  BY <1>2, CommitsRead DEF Base, ProjectInv, ProjectTypeOK
<1>4. /\ h = IF what = "pipe" THEN [g EXCEPT !.pipe = pipes] ELSE [g EXCEPT !.commits = commits]
      /\ todo'[r] = Tail(todo[r]) /\ stage'[r] = "mrs"
  <2>1. ~Fails(r)
    BY <1>1 DEF Works, Fails
  <2> QED
    BY <1>1, <2>1 DEF ReadMR, Collect
<1> HIDE DEF m, g, what
<1>5. m \in Ids
  BY <1>2
<1>6. g.pipe \in Partial(Statuses) /\ g.commits \in Partial(SUBSET Kinds)
  BY <1>1 DEF Answers
<1>7. /\ pipes \in Partial(Statuses) /\ DOMAIN pipes = DOMAIN g.pipe \cup {m}
      /\ pipes[m] = pipe[m] /\ \A i \in DOMAIN g.pipe \ {m} : pipes[i] = g.pipe[i]
  <2>1. pipes \in Partial(Statuses)
    BY <1>3, <1>6, <1>5, AddType
  <2> QED
    BY <2>1 DEF Add
<1>8. /\ commits \in Partial(SUBSET Kinds) /\ DOMAIN commits = DOMAIN g.commits \cup {m}
      /\ commits[m] = MRCommits(op[r], m) /\ \A i \in DOMAIN g.commits \ {m} : commits[i] = g.commits[i]
  <2> DEFINE K == SUBSET Kinds
             v == MRCommits(op[r], m)
  <2>1. commits \in Partial(K)
    <3>1. g.commits \in Partial(K) /\ v \in K
      BY <1>3, <1>6
    <3> HIDE DEF K, v
    <3>2. Add(g.commits, m, v) \in Partial(K)
      BY <1>5, <3>1, AddType
    <3> QED
      BY <3>2 DEF v
  <2> QED
    BY <2>1 DEF Add
<1> HIDE DEF pipes, commits, h
<1>9. pipes \in Partial(Statuses) /\ commits \in Partial(SUBSET Kinds)
  BY <1>7, <1>8
<1>10. CASE what = "pipe"
  <2>1. h = [g EXCEPT !.pipe = pipes]
    BY <1>4, <1>10
  <2>2. Same(g, h, {"pipe"}) /\ h.pipe = pipes
    BY <1>1, <1>9, <2>1, AnswersFilled, ZenonT(60) DEF Filled, g
  <2>3. Same(g, h, {"pipe", "commits"}) /\ h.commits = g.commits
    BY <2>2 DEF Same
  <2>4. /\ DOMAIN h.pipe = DOMAIN g.pipe \cup {m}
        /\ \A i \in DOMAIN h.pipe : (i \in DOMAIN g.pipe /\ h.pipe[i] = g.pipe[i]) \/ h.pipe[i] = pipe[i]
    BY <1>7, <2>2
  <2> QED
    BY <1>2, <1>4, <1>10, <2>3, <2>4 DEF g, h
<1>11. CASE what # "pipe"
  <2>1. h = [g EXCEPT !.commits = commits]
    BY <1>4, <1>11
  <2>2. Same(g, h, {"commits"}) /\ h.commits = commits
    BY <1>1, <1>9, <2>1, AnswersFilled, ZenonT(60) DEF Filled, g
  <2> QED
    BY <1>2, <1>3, <1>4, <1>8, <1>11, <2>2 DEF Same, g, h
<1> QED
  BY <1>10, <1>11

LEMMA Compared ==
  ASSUME Base, NEW r \in Requests, Compare(r), Works
  PROVE  LET g == got[r]
             found == BranchByPattern(g.branches, op[r].pattern)
         IN  /\ stage'[r] = "judge"
             /\ found = <<>> => got'[r] = g
             /\ found # <<>> => /\ Same(g, got'[r], {"ahead", "diff"})
                                /\ got'[r].ahead = Range(ahead[Head(found)])
                                /\ got'[r].diff = (Head(found) \in touched)
<1> DEFINE g == got[r]
           h == got'[r]
           found == BranchByPattern(g.branches, op[r].pattern)
           k == Range(ahead[Head(found)])
           d == Head(found) \in touched
<1>1. stage \in [Requests -> Stages] /\ got \in [Requests -> Answers] /\ failures \in Nat /\ g \in Answers
  BY DEF Base, LabTypeOK
<1>2. d \in BOOLEAN /\ (found # <<>> => k \in SUBSET Kinds)
  <2>1. g.branches \in Seq(Names)
    BY <1>1 DEF Answers
  <2> QED
    BY <2>1, CommitsAhead DEF Base
<1>3. ~Fails(r)
  BY <1>1 DEF Works, Fails
<1>4. stage'[r] = "judge" /\ (found = <<>> => h = g) /\ (found # <<>> => h = [g EXCEPT !.ahead = k, !.diff = d])
  BY <1>1, <1>3 DEF Compare, Collect, Proceed
<1>5. ASSUME found # <<>>
      PROVE  Same(g, h, {"ahead", "diff"}) /\ h.ahead = k /\ h.diff = d
  <2> DEFINE T == Partial(Statuses)
             U == Partial(SUBSET Kinds)
             V == Seq(Names)
             K == SUBSET Kinds
             L == Seq(Ids)
  <2>1. Answers = [branches : V, open : L, pipe : T, commits : U, merged : Nat, page : Nat \ {0},
                   ahead : K, diff : BOOLEAN, file : BOOLEAN]
    BY DEF Answers
  <2>2. k \in K /\ d \in BOOLEAN /\ h = [g EXCEPT !.ahead = k, !.diff = d]
    BY <1>2, <1>4, <1>5
  <2> HIDE DEF T, U, V, K, L, h, k, d, g, found
  <2> QED
    BY <1>1, <2>1, <2>2 DEF Same
<1> HIDE DEF d
<1> QED
  BY <1>4, <1>5 DEF d

-----------------------------------------------------------------------------
(* What is allowed was earned                                              *)

LEMMA PartialDomain ==
  ASSUME NEW S, NEW f \in Partial(S)
  PROVE  DOMAIN f \subseteq Ids /\ \A m \in DOMAIN f : f[m] \in S
<1>1. PICK D \in SUBSET Ids : f \in [D -> S]
  BY Zenon DEF Partial
<1> QED
  BY <1>1

LEMMA PageStart ==
  ASSUME NEW n \in Nat \ {0}
  PROVE  (n - 1) * PageSize \in Nat /\ n * PageSize \in Nat
<1>1. PageSize \in Nat /\ n - 1 \in Nat
  BY ProjectAssumption
<1> QED
  BY <1>1

LEMMA StillGrows ==
  ASSUME ProjectInv, UNCHANGED project
  PROVE  Grows
  BY DEF project, Grows

LEMMA EarnedStays ==
  ASSUME ProjectInv, Grows, NEW g \in Answers, Earned(g), NEW r, got'[r] = g
  PROVE  Earned(got[r])' /\ (Counting(g) => Counting(got[r])')
<1>1. /\ Len(InState("merged")) \in Nat /\ Len(InState("merged"))' \in Nat
      /\ Len(InState("merged")) <= Len(InState("merged"))'
  BY MergedCounted
<1>2. /\ g.open \in Seq(Ids) /\ g.merged \in Nat /\ g.page \in Nat \ {0} /\ (g.page - 1) * PageSize \in Nat
  BY PageStart DEF Answers
<1>3. DOMAIN g.pipe \subseteq Ids /\ DOMAIN g.commits \subseteq Ids
  BY PartialDomain DEF Answers
<1>4. Range(g.branches) \subseteq branches'
  BY DEF Earned, Grows
<1>5. \A i \in DOMAIN g.open : state'[g.open[i]] # "none"
  BY <1>2 DEF Earned, Grows
<1>6. /\ \A m \in DOMAIN g.pipe : g.pipe[m] = "success" => m \in green'
      /\ \A m \in DOMAIN g.commits : g.commits[m] \subseteq Range(within'[m])
  BY <1>3 DEF Earned, Grows
<1>7. g.file \/ g.diff => onMain' \/ touched' # {}
  BY DEF Earned, Grows
<1>8. g.merged <= Len(InState("merged"))'
  BY <1>1, <1>2 DEF Earned
<1>9. Counting(g) => (g.page - 1) * PageSize <= Len(InState("merged"))' /\ g.merged <= (g.page - 1) * PageSize
  BY <1>1, <1>2 DEF Counting
<1> QED
  BY <1>4, <1>5, <1>6, <1>7, <1>8, <1>9 DEF Earned, Counting

LEMMA NothingEarned ==
  ASSUME ProjectInv
  PROVE  Earned(NothingYet) /\ Counting(NothingYet)
<1>1. Len(InState("merged")) \in Nat
  BY InStateType
<1>2. (1 - 1) * PageSize = 0
  BY ProjectAssumption
<1>3. Range(<<>>) = {}
  BY DEF Range
<1> QED
  BY <1>1, <1>2, <1>3 DEF Earned, Counting, NothingYet

\* A page of the merged ones counts only merged ones.
LEMMA CountEarned ==
  ASSUME Base, NEW r \in Requests, EarnedInv(r), CountMerged(r)
  PROVE  \E g \in Answers : got'[r] = g /\ Earned(g) /\ (stage'[r] = "merged" => Counting(g))
<1> DEFINE g == got[r]
           list == InState("merged")
           last == LastPage(list, g.page)
           n == g.merged + Len(Page(list, g.page))
           p == IF last THEN 1 ELSE g.page + 1
<1>1. g \in Answers /\ stage[r] = "merged" /\ Earned(g) /\ Counting(g)
  BY DEF Base, LabTypeOK, CountMerged, EarnedInv
<1>2. g.merged \in Nat /\ g.page \in Nat \ {0} /\ list \in Seq(Ids) /\ Len(list) \in Nat
  BY <1>1, InStateType DEF Answers
<1>3. stage \in [Requests -> Stages] /\ got \in [Requests -> Answers]
  BY DEF Base, LabTypeOK
<1>4. g.merged <= (g.page - 1) * PageSize /\ (g.page - 1) * PageSize <= Len(list) /\ g.merged <= Len(list)
  BY <1>1 DEF Counting, Earned
<1>5. CASE Works
  <2> DEFINE h == got'[r]
  <2>1. /\ Len(Page(list, g.page)) \in Nat
        /\ (g.page - 1) * PageSize \in Nat /\ g.page * PageSize \in Nat
        /\ g.page * PageSize = (g.page - 1) * PageSize + PageSize
        /\ ((g.page + 1) - 1) * PageSize = g.page * PageSize
        /\ last <=> Len(list) <= g.page * PageSize
        /\ ~last => Len(Page(list, g.page)) = PageSize
        /\ last => Len(Page(list, g.page)) = Len(list) - (g.page - 1) * PageSize
    <3> DEFINE k == g.page
    <3>1. k \in Nat \ {0} /\ (k - 1) * PageSize <= Len(list) /\ list \in Seq(Ids)
      BY <1>2, <1>4
    <3> HIDE DEF k, list
    <3> QED
      BY <3>1, PageFacts DEF k
  <2>2. n \in Nat /\ n <= Len(list)
    <3> DEFINE a == (g.page - 1) * PageSize
               b == g.page * PageSize
               c == Len(Page(list, g.page))
               l == Len(list)
               mm == g.merged
    <3>1. /\ a \in Nat /\ b \in Nat /\ c \in Nat /\ l \in Nat /\ mm \in Nat /\ b = a + PageSize
          /\ PageSize \in Nat /\ mm <= a /\ a <= l /\ (last <=> l <= b) /\ n = mm + c
          /\ (~last => c = PageSize) /\ (last => c = l - a)
      BY <1>2, <1>4, <2>1, ProjectAssumption
    <3> HIDE DEF a, b, c, l, mm, n, last
    <3>2. n \in Nat /\ n <= l
      BY <3>1
    <3> QED
      BY <3>2 DEF l
  <2> HIDE DEF list, last
  <2>3. p \in Nat \ {0}
    BY <1>2
  <2>4. ~last => n <= (p - 1) * PageSize /\ (p - 1) * PageSize <= Len(list)
    <3>1. ~last => (p - 1) * PageSize = g.page * PageSize
      BY <2>1
    <3>2. ~last => g.page * PageSize <= Len(list)
      BY <1>2, <2>1
    <3>3. ~last => n <= g.page * PageSize
      BY <1>2, <1>4, <2>1
    <3> QED
      BY <3>1, <3>2, <3>3
  <2>5. /\ Same(g, h, {"merged", "page"}) /\ h.merged = n /\ h.page = p
        /\ stage'[r] = IF last THEN "open" ELSE "merged"
    BY <1>5, Counted DEF list, last
  <2> HIDE DEF n, p, g
  <2> HIDE DEF h, g
  <2>7. Earned(h)
    BY <1>1, <2>2, <2>5 DEF Earned, Same, list
  <2>8. ~last => Counting(h)
    BY <2>4, <2>5 DEF Counting, list
  <2>9. h \in Answers
    BY <2>5 DEF Same
  <2> QED
    BY <2>5, <2>7, <2>8, <2>9 DEF h
<1>6. CASE got' = [got EXCEPT ![r] = [g EXCEPT !.page = 1]] /\ stage' = [stage EXCEPT ![r] = "open"]
  <2> HIDE DEF g
  <2> DEFINE h == [g EXCEPT !.page = 1]
  <2>1. 1 \in Nat \ {0}
    OBVIOUS
  <2>2. Same(g, h, {"page"})
    BY <1>1, <2>1, AnswersFilled, Zenon DEF Filled
  <2>3. got'[r] = h /\ stage'[r] = "open"
    BY <1>3, <1>6
  <2> HIDE DEF h, g
  <2>4. Earned(h) /\ h \in Answers
    BY <1>1, <2>2 DEF Earned, Same
  <2> QED
    BY <2>3, <2>4
<1> QED
  BY <1>5, <1>6 DEF CountMerged, Collect, Proceed

LEMMA BranchesEarned ==
  ASSUME Base, NEW r \in Requests, EarnedInv(r), ListBranches(r)
  PROVE  \E g \in Answers : got'[r] = g /\ Earned(g)
<1> DEFINE g == got[r]
           h == got'[r]
           page == Page(Listed, g.page)
<1>1. g \in Answers /\ Earned(g)
  BY DEF Base, LabTypeOK, EarnedInv
<1>2. CASE got' = got
  BY <1>1, <1>2
<1>3. CASE Works
  <2>1. Same(g, h, {"branches", "page"}) /\ h.branches = g.branches \o page
    BY <1>3, BranchesListed
  <2>2. g.branches \in Seq(Names) /\ page \in Seq(Names) /\ Range(page) \subseteq Range(Listed)
    <3>1. Listed \in Seq(Names) /\ g.page \in Nat \ {0} /\ g.branches \in Seq(Names)
      BY <1>1, ListedFacts DEF Answers
    <3> HIDE DEF g
    <3> QED
      BY <3>1, BranchPage, PageMembers
  <2>3. Range(Listed) \subseteq branches /\ Range(g.branches) \subseteq branches
    BY <1>1, ListedFacts DEF Earned
  <2> HIDE DEF h, g, page
  <2>4. Range(h.branches) \subseteq branches
    BY <2>1, <2>2, <2>3, RangeConcatenation
  <2>5. Earned(h) /\ h \in Answers
    BY <1>1, <2>1, <2>4 DEF Earned, Same
  <2> QED
    BY <2>5 DEF h
<1> QED
  BY <1>2, <1>3 DEF ListBranches

LEMMA OpenEarned ==
  ASSUME Base, NEW r \in Requests, EarnedInv(r), ListOpenMRs(r)
  PROVE  \E g \in Answers : got'[r] = g /\ Earned(g)
<1> DEFINE g == got[r]
           list == InState("opened")
           open == g.open \o Page(list, g.page)
<1>1. g \in Answers /\ Earned(g) /\ got \in [Requests -> Answers]
  BY DEF Base, LabTypeOK, EarnedInv
<1>2. g.open \in Seq(Ids) /\ g.page \in Nat \ {0} /\ list \in Seq(Ids)
  BY <1>1, InStateType DEF Answers
<1>3. open \in Seq(Ids) /\ \A i \in DOMAIN open : state[open[i]] # "none"
  <2> DEFINE page == Page(list, g.page)
  <2>1. page \in Seq(Ids) /\ \A i \in DOMAIN page : state[page[i]] = "opened"
    <3> DEFINE k == g.page
               a == (k - 1) * PageSize + 1
               b == IF LastPage(list, k) THEN Len(list) ELSE k * PageSize
    <3>1. k \in Nat \ {0} /\ (k - 1) * PageSize \in Nat /\ k * PageSize \in Nat /\ Len(list) \in Nat
      <4>1. k \in Nat \ {0} /\ Len(list) \in Nat
        BY <1>2
      <4> HIDE DEF k
      <4> QED
        BY <4>1, PageStart
    <3>2. a \in Nat /\ a >= 1 /\ b \in Int /\ b <= Len(list)
      BY <3>1 DEF LastPage
    <3>3. page = SubSeq(list, a, b)
      BY DEF Page
    <3>4. Range(list) = Ids \cap {m \in Ids : state[m] = "opened"}
      BY Listings DEF InState
    <3>5. page \in Seq(Ids)
      BY <1>2, PageFacts
    <3>6. \A i \in DOMAIN list : state[list[i]] = "opened"
      BY <3>4 DEF Range
    <3> HIDE DEF a, b, page, list
    <3>7. \A i \in a .. b : list[i] \in Ids
      BY <1>2, <3>2
    <3>8. /\ Len(page) = IF a <= b THEN b - a + 1 ELSE 0
          /\ \A i \in 1 .. b - a + 1 : page[i] = list[a + i - 1]
      BY <3>2, <3>3, <3>7, SubSeqProperties
    <3>9. ASSUME NEW i \in DOMAIN page PROVE state[page[i]] = "opened"
      <4>1. i \in 1 .. b - a + 1
        BY <3>2, <3>5, <3>8
      <4>2. a + i - 1 \in DOMAIN list
        BY <1>2, <3>2, <4>1
      <4> QED
        BY <3>6, <3>8, <4>1, <4>2
    <3> QED
      BY <3>5, <3>9
  <2>2. \A i \in DOMAIN g.open : state[g.open[i]] # "none"
    BY <1>1 DEF Earned
  <2> HIDE DEF page
  <2>3. open = g.open \o page
    BY DEF page
  <2> HIDE DEF open, g, list
  <2> DEFINE s == g.open
  <2>4. s \in Seq(Ids) /\ page \in Seq(Ids) /\ open = s \o page /\ \A i \in DOMAIN s : state[s[i]] # "none"
    BY <1>2, <2>1, <2>2, <2>3
  <2> HIDE DEF s
  <2>5. open \in Seq(Ids) /\ \A i \in DOMAIN open :
          \/ i \in DOMAIN s /\ open[i] = s[i]
          \/ \E j \in DOMAIN page : open[i] = page[j]
    <3>1. Len(open) = Len(s) + Len(page) /\ open \in Seq(Ids)
      BY <2>4
    <3>2. ASSUME NEW i \in DOMAIN open, i \notin DOMAIN s
          PROVE  i - Len(s) \in DOMAIN page /\ open[i] = page[i - Len(s)]
      BY <2>4, <3>1, <3>2
    <3>3. \A i \in DOMAIN s : open[i] = s[i]
      BY <2>4
    <3> QED
      BY <3>1, <3>2, <3>3
  <2> QED
    BY <2>1, <2>4, <2>5
<1> DEFINE h == got'[r]
<1>4. CASE Works
  <2>1. Same(g, h, {"open", "page"}) /\ h.open = open
    BY <1>4, Opened
  <2> HIDE DEF h, g, open
  <2>2. Earned(h) /\ h \in Answers
    BY <1>1, <1>3, <2>1 DEF Earned, Same
  <2> QED
    BY <2>2 DEF h
<1>5. CASE got' = [got EXCEPT ![r] = [g EXCEPT !.open = <<>>]]
  <2>1. h = [g EXCEPT !.open = <<>>] /\ <<>> \in Seq(Ids)
    BY <1>1, <1>5
  <2> HIDE DEF h, g
  <2>2. Same(g, h, {"open"}) /\ h.open = <<>>
    BY <1>1, <2>1, AnswersFilled, Zenon DEF Filled
  <2>3. Earned(h) /\ h \in Answers
    BY <1>1, <2>2 DEF Earned, Same
  <2> QED
    BY <2>3 DEF h
<1> QED
  BY <1>4, <1>5 DEF ListOpenMRs, Collect

LEMMA ReadMREarned ==
  ASSUME Base, NEW r \in Requests, EarnedInv(r), ReadMR(r)
  PROVE  \E g \in Answers : got'[r] = g /\ Earned(g)
<1> DEFINE g == got[r]
           h == got'[r]
<1>1. g \in Answers /\ Earned(g)
  BY DEF Base, LabTypeOK, EarnedInv
<1>2. CASE got' = got
  BY <1>1, <1>2
<1>3. CASE todo[r] # <<>> /\ Works
  <2>1. /\ Same(g, h, {"pipe", "commits"}) /\ DOMAIN h.pipe \subseteq Ids
        /\ \A i \in DOMAIN h.pipe : (i \in DOMAIN g.pipe /\ h.pipe[i] = g.pipe[i]) \/ h.pipe[i] = pipe[i]
        /\ \A i \in DOMAIN h.commits :
             (i \in DOMAIN g.commits /\ h.commits[i] = g.commits[i]) \/ h.commits[i] = MRCommits(op[r], i)
    <3>1. DOMAIN g.pipe \subseteq Ids
      BY <1>1, PartialDomain DEF Answers
    <3> QED
      BY <1>3, <3>1, MRAnswered
  <2>4. \A i \in DOMAIN h.commits :
          (i \in DOMAIN g.commits /\ h.commits[i] = g.commits[i]) \/ h.commits[i] \subseteq Range(within[i])
    <3>1. DOMAIN h.commits \subseteq Ids
      BY <2>1, PartialDomain DEF Answers, Same
    <3> QED
      BY <2>1, <3>1, CommitsRead DEF Base
  <2>2. \A m \in Ids : pipe[m] = "success" => m \in green
    BY DEF Base, ProjectInv
  <2> HIDE DEF g, h
  <2>3. Earned(h) /\ h \in Answers
    BY <1>1, <2>1, <2>2, <2>4 DEF Earned, Same
  <2> QED
    BY <2>3 DEF h
<1> QED
  BY <1>2, <1>3 DEF ReadMR, Skip

LEMMA FilesEarned ==
  ASSUME Base, NEW r \in Requests, EarnedInv(r), FetchFiles(r) \/ Compare(r)
  PROVE  \E g \in Answers : got'[r] = g /\ Earned(g)
<1> DEFINE g == got[r]
           h == got'[r]
           f == HasFile(FilesRef(g))
<1>1. g \in Answers /\ Earned(g) /\ got \in [Requests -> Answers] /\ onMain \in BOOLEAN
  BY DEF Base, LabTypeOK, EarnedInv, ProjectInv, ProjectTypeOK
<1>2. f \in BOOLEAN /\ (f => onMain \/ touched # {})
  BY <1>1 DEF HasFile
<1>3. CASE h = g
  BY <1>1, <1>3
<1>4. CASE h = [g EXCEPT !.file = f]
  <2> HIDE DEF h, g, f
  <2>1. Same(g, h, {"file"}) /\ h.file = f
    BY <1>1, <1>2, <1>4, AnswersFilled, Zenon DEF Filled
  <2>2. Earned(h) /\ h \in Answers
    BY <1>1, <1>2, <2>1 DEF Earned, Same
  <2> QED
    BY <2>2 DEF h
<1>5. CASE Compare(r) /\ Works /\ h # g
  <2>1. Same(g, h, {"ahead", "diff"}) /\ (h.diff => touched # {})
    BY <1>5, Compared
  <2> HIDE DEF h, g
  <2>2. Earned(h) /\ h \in Answers
    BY <1>1, <2>1 DEF Earned, Same
  <2> QED
    BY <2>2 DEF h
<1>6. FetchFiles(r) => h = g \/ h = [g EXCEPT !.file = f]
  BY <1>1 DEF FetchFiles, Collect
<1>7. Compare(r) => h = g \/ Works
  BY <1>1 DEF Compare
<1> QED
  BY <1>3, <1>4, <1>5, <1>6, <1>7

LEMMA VerdictEarned ==
  ASSUME ProjectInv, NEW g \in Answers, Earned(g), NEW o \in Op, o.kind # "local", Verdict(o, g)
  PROVE  Done(o)
<1>1. g.open \in Seq(Ids) /\ \A m \in Range(g.open) : m \in Ids /\ state[m] # "none"
  <2>1. g.open \in Seq(Ids)
    BY DEF Answers
  <2> QED
    BY <2>1 DEF Earned, Range
<1>2. CASE o.kind = "policy"
  <2>1. Evaluate(o, g) /\ o.rule \in Rules
    BY <1>2 DEF Verdict, Op
  <2>2. CASE o.rule = "merged"
    <3> DEFINE S == {m \in Ids : state[m] = "merged"}
    <3>1. g.merged >= MinMerged /\ g.merged <= Len(Among(MRs, S)) /\ g.merged \in Nat
      BY <2>1, <2>2 DEF Evaluate, Earned, InState, Answers
    <3>2. Ids \cap S = S
      OBVIOUS
    <3> HIDE DEF S
    <3>3. Cardinality(S) \in Nat /\ Len(Among(MRs, S)) = Cardinality(S)
      BY <3>2, Listings
    <3>4. Cardinality(S) >= MinMerged
      BY <3>1, <3>3, CheckerAssumption
    <3> QED
      BY <1>2, <2>2, <3>4 DEF Done, S
  <2>3. CASE o.rule = "review"
    <3>1. \E m \in Ids : /\ m \in DOMAIN g.pipe /\ g.pipe[m] = "success"
                         /\ m \in DOMAIN g.commits /\ "conventional" \in g.commits[m]
      BY <1>1, <2>1, <2>3 DEF Evaluate, Range
    <3>2. \E m \in green : "conventional" \in Range(within[m])
      BY <3>1 DEF Earned
    <3> QED
      BY <1>2, <2>3, <3>2 DEF Done
  <2>4. CASE o.rule = "file"
    BY <1>2, <2>1, <2>4 DEF Done, Evaluate, Earned
  <2> QED
    BY <2>1, <2>2, <2>3, <2>4 DEF Rules
<1>3. CASE o.kind = "step"
  <2> DEFINE mine == MrsByAuthor(g.open)
  <2>1. o.own /\ CheckStep(o, g) /\ o.check \in StepTypes
    BY <1>3 DEF Verdict, Op
  <2>2. mine \in Seq(Ids) /\ Range(mine) = {m \in Range(g.open) : author[m] = Me}
    BY <1>1, MineType
  <2>3. \A m \in Range(mine) : m \in Ids /\ author[m] = Me /\ state[m] # "none"
    BY <1>1, <2>2
  <2>4. ASSUME NEW pattern, BranchByPattern(g.branches, pattern) # <<>>
        PROVE  First(pattern) # <<>>
    <3>1. g.branches \in Seq(Names) /\ Range(g.branches) \subseteq branches
      BY DEF Answers, Earned
    <3> QED
      BY <2>4, <3>1, BranchKnown
  <2> HIDE DEF mine
  <2>5. CASE o.check = "gitlab_mr_open"
    <3>1. mine # <<>>
      BY <2>1, <2>5 DEF CheckStep, CheckMROpen, mine
    <3>2. Head(mine) \in Range(mine)
      BY <2>2, <3>1 DEF Range
    <3> QED
      BY <1>3, <2>1, <2>3, <2>5, <3>2 DEF Done
  <2>6. CASE o.check = "gitlab_conventional_commit"
    <3>1. \E m \in Range(mine) : m \in DOMAIN g.commits /\ "conventional" \in g.commits[m]
      BY <2>1, <2>6 DEF CheckStep, CheckConventionalCommit, mine, Range
    <3>2. \E m \in Ids : author[m] = Me /\ "conventional" \in Range(within[m])
      BY <2>3, <3>1 DEF Earned
    <3> QED
      BY <1>3, <2>1, <2>6, <3>2 DEF Done
  <2>7. CASE o.check = "gitlab_pipeline_passed"
    <3> DEFINE read == Among(mine, DOMAIN g.pipe)
    <3>1. read # <<>> /\ g.pipe[Head(read)] = "success"
      BY <2>1, <2>7 DEF CheckStep, CheckPipelinePassed, mine
    <3>2. Head(read) \in Range(mine) \cap DOMAIN g.pipe
      BY <2>2, <3>1, AmongMembers
    <3>3. \E m \in green : author[m] = Me
      BY <2>3, <3>1, <3>2 DEF Earned
    <3> QED
      BY <1>3, <2>1, <2>7, <3>3 DEF Done
  <2>8. CASE o.check = "gitlab_commit_on_branch"
    <3>1. First(OrFeature(o.pattern)) # <<>>
      BY <2>1, <2>4, <2>8 DEF CheckStep, CheckCommitOnBranch
    <3> QED
      BY <1>3, <2>1, <2>8, <3>1 DEF Done
  <2>9. CASE o.check = "gitlab_file_on_branch"
    BY <1>3, <2>1, <2>9 DEF CheckStep, CheckFileOnBranch, Done, Earned
  <2>10. CASE o.check \in {"gitlab_branch", "gitlab_conventional_commit_on_branch"}
    <3>1. First(o.pattern) # <<>>
      BY <2>1, <2>4, <2>10 DEF CheckStep, CheckBranch, CheckConventionalCommitOnBranch
    <3> QED
      BY <1>3, <2>1, <2>10, <3>1 DEF Done
  <2> QED
    BY <2>1, <2>5, <2>6, <2>7, <2>8, <2>9, <2>10 DEF StepTypes
<1> QED
  BY <1>2, <1>3 DEF Op

\* What a request gathers in one step was done when it gathered it.
LEMMA GatheredEarned ==
  ASSUME Base, NEW r \in Requests, EarnedInv(r), Ask(r) \/ Serve(r)
  PROVE  \E g \in Answers : got'[r] = g /\ Earned(g) /\ (stage'[r] = "merged" => Counting(g))
<1>1. stage \in [Requests -> Stages] /\ got[r] \in Answers /\ Earned(got[r])
  BY DEF Base, LabTypeOK, EarnedInv
<1>2. CASE CountMerged(r)
  BY <1>2, CountEarned
<1>3. CASE ListBranches(r) \/ ListOpenMRs(r) \/ ReadMR(r) \/ FetchFiles(r) \/ Compare(r)
  <2>1. \E g \in Answers : got'[r] = g /\ Earned(g)
    BY <1>3, BranchesEarned, OpenEarned, ReadMREarned, FilesEarned
  <2>2. stage'[r] # "merged"
    BY <1>1, <1>3 DEF ListBranches, ListOpenMRs, ReadMR, FetchFiles, Compare, Proceed, Skip, AfterMRs
  <2> QED
    BY <2>1, <2>2
<1>4. CASE ReadProject(r)
  <2>1. got'[r] = NothingYet
    BY <1>4 DEF ReadProject, Skip, Base, StageInv, Unread
  <2> QED
    BY <2>1, NothingEarned, NothingType DEF Base
<1>5. CASE \/ Ask(r) \/ ResolveLabModule(r) \/ FetchCheckSpec(r) \/ RecordLocalCheck(r)
           \/ StoreLabCheck(r) \/ ReadRule(r) \/ Judge(r) \/ CallLost(r)
  <2>1. got' = got
    BY <1>5 DEF Ask, ResolveLabModule, FetchCheckSpec, RecordLocalCheck, StoreLabCheck, ReadRule, Judge, CallLost, Skip
  <2>2. stage'[r] # "merged"
    BY <1>1, <1>5 DEF Ask, ResolveLabModule, ResolveIn, Found, Refused, FirstCall, FetchCheckSpec, RecordLocalCheck,
       StoreLabCheck, ReadRule, Judge, CallLost, Skip, Proceed
  <2> QED
    BY <1>1, <2>1, <2>2
<1> QED
  BY <1>2, <1>3, <1>4, <1>5 DEF Serve

\* What a request is told in one step, it has earned.
LEMMA AnswerEarned ==
  ASSUME Base, NEW r \in Requests, EarnedInv(r), Ask(r) \/ Serve(r),
         NEW o \in Op, op'[r] = o, answer'[r] = "allow", o.kind # "local"
  PROVE  Done(o)
<1>1. answer \in [Requests -> {"none", "allow", "refuse"}] /\ got[r] \in Answers /\ Earned(got[r])
  BY DEF Base, LabTypeOK, EarnedInv
<1>2. CASE Ask(r)
  BY <1>2 DEF Ask, Base, StageInv
<1>3. CASE Judge(r)
  <2>1. op[r] = o /\ Verdict(op[r], got[r])
    BY <1>1, <1>3 DEF Judge
  <2> QED
    BY <1>1, <2>1, VerdictEarned DEF Base
<1>4. CASE RecordLocalCheck(r)
  BY <1>4 DEF RecordLocalCheck, Base, StageInv
<1>5. CASE Serve(r) /\ ~Judge(r) /\ ~RecordLocalCheck(r)
  <2>1. answer' = answer /\ op' = op
    BY <1>5 DEF Serve, ResolveLabModule, FetchCheckSpec, StoreLabCheck, ReadRule, ReadProject, CountMerged,
         ListBranches, ListOpenMRs, ReadMR, FetchFiles, Compare, CallLost, Nothing
  <2> QED
    BY <2>1 DEF EarnedInv
<1> QED
  BY <1>2, <1>3, <1>4, <1>5

LEMMA EarnedStep ==
  ASSUME Base, \A r \in Requests : EarnedInv(r), [LabsNext]_labVars
  PROVE  \A r \in Requests : EarnedInv(r)'
<1> SUFFICES ASSUME NEW q \in Requests
             PROVE  EarnedInv(q)'
  OBVIOUS
<1>1. EarnedInv(q) /\ ProjectInv /\ got[q] \in Answers
  BY DEF Base, LabTypeOK
<1>2. ASSUME Grows, NEW g \in Answers, Earned(g), got'[q] = g,
             stage'[q] = "merged" => Counting(g),
             \A o \in Op : (op'[q] = o /\ answer'[q] = "allow" /\ o.kind # "local") => Done(o)
      PROVE  EarnedInv(q)'
  <2>1. Earned(got[q])' /\ (Counting(g) => Counting(got[q])')
    BY <1>1, <1>2, EarnedStays
  <2>2. \A o \in Op : Done(o) => Done(o)'
    BY <1>1, <1>2, DoneStays
  <2> QED
    BY <1>2, <2>1, <2>2 DEF EarnedInv
<1>3. CASE /\ Grows
           /\ got'[q] = got[q] /\ stage'[q] = stage[q] /\ op'[q] = op[q] /\ answer'[q] = answer[q]
  BY <1>1, <1>2, <1>3 DEF EarnedInv
<1>4. ASSUME NEW r \in Requests, Ask(r) \/ Serve(r)
      PROVE  EarnedInv(q)'
  <2>1. Others(r)
    BY <1>4, AskStep, ServeStep DEF Base
  <2>2. Grows
    BY <1>1, <2>1, StillGrows DEF Others
  <2>3. CASE q = r
    <3>1. PICK g \in Answers : got'[q] = g /\ Earned(g) /\ (stage'[q] = "merged" => Counting(g))
      BY <1>4, <2>3, GatheredEarned
    <3>2. \A o \in Op : (op'[q] = o /\ answer'[q] = "allow" /\ o.kind # "local") => Done(o)
      BY <1>4, <2>3, AnswerEarned
    <3> QED
      BY <1>2, <2>2, <3>1, <3>2
  <2>4. CASE q # r
    BY <1>3, <2>1, <2>2, <2>4 DEF Others
  <2> QED
    BY <2>3, <2>4
<1>5. CASE ProjectMoves \/ EditCourse
  <2>1. Around
    BY <1>5, AroundStep DEF Base
  <2>2. Grows
    BY <1>1, <2>1, ProjectStep, StillGrows DEF Around
  <2> QED
    BY <1>3, <2>1, <2>2 DEF Around
<1>6. CASE UNCHANGED <<project, listing, stage, op, shown, mod, todo, got, answer, clean, rows, edits, failures>>
  <2>1. Grows
    BY <1>1, <1>6, StillGrows
  <2> QED
    BY <1>3, <1>6, <2>1
<1> QED
  BY <1>4, <1>5, <1>6, StepsSplit

LEMMA EarnedInit == LabsInit => \A r \in Requests : EarnedInv(r)
<1> SUFFICES ASSUME LabsInit, NEW r \in Requests PROVE EarnedInv(r)
  OBVIOUS
<1>1. got[r] = NothingYet /\ stage[r] = "idle" /\ answer[r] = "none"
  BY DEF LabsInit
<1>2. ProjectInv
  BY BaseInit DEF Base
<1> QED
  BY <1>1, <1>2, NothingEarned DEF EarnedInv

LEMMA AllowFollows ==
  ASSUME Base, \A r \in Requests : EarnedInv(r)
  PROVE  AllowEarned
<1>1. ASSUME NEW r \in Requests, op[r].kind \in {"step", "policy"}, answer[r] = "allow"
      PROVE  Done(op[r])
  <2>1. op[r] \in Op
    BY <1>1 DEF Base, StageInv
  <2> QED
    BY <1>1, <2>1 DEF EarnedInv
<1>2. ASSUME NEW i \in DOMAIN rows, rows[i].verified, rows[i].allow
      PROVE  Done(op[rows[i].by])
  <2>1. PICK r \in Requests : rows[i].by = r
    <3>1. rows[i] \in RowSet
      BY DEF Base, LabTypeOK
    <3> QED
      BY <3>1 DEF RowSet
  <2>2. rows[i] = Row(r)
    BY <2>1 DEF Base, RowsInv
  <2>4. Row(r).verified = (op[r].kind = "policy") /\ Row(r).allow = (answer[r] = "allow")
    BY DEF Row
  <2>3. op[r].kind = "policy" /\ answer[r] = "allow"
    BY <1>2, <2>2, <2>4, Zenon
  <2> QED
    BY <1>1, <2>1, <2>3
<1> QED
  BY <1>1, <1>2 DEF AllowEarned

\* A check allows only what was done, whatever changes and fails while it runs,
\* for any project, page size and number of requests (CheckStep, Evaluate and
\* the calls that gather what they judge).
THEOREM AllowAlwaysEarned == LabsSpec => []AllowEarned
<1> DEFINE I == Base /\ \A r \in Requests : EarnedInv(r)
<1>1. LabsInit => I
  BY BaseInit, EarnedInit
<1>2. I /\ [LabsNext]_labVars => I'
  BY BaseStep, EarnedStep
<1>3. I => AllowEarned
  BY AllowFollows
<1> HIDE DEF I
<1> QED
  BY <1>1, <1>2, <1>3, PTL DEF LabsSpec

-----------------------------------------------------------------------------
(* An undisturbed check decides what it asks for                           *)

LEMMA CurrentFrame ==
  ASSUME NEW r, UNCHANGED project, Current(got'[r], op'[r], stage'[r], todo'[r])
  PROVE  Current(got[r], op[r], stage[r], todo[r])'
<1> DEFINE g == got'[r]
           o == op'[r]
           there == stage'[r]
           calls == todo'[r]
<1>1. /\ branches' = branches /\ ahead' = ahead /\ touched' = touched /\ onMain' = onMain
      /\ state' = state /\ author' = author /\ pipe' = pipe /\ within' = within
  BY DEF project
<1>2. InState("merged")' = InState("merged") /\ InState("opened")' = InState("opened")
  BY <1>1 DEF InState
<1>3. Wanted(op[r], got[r])' = Wanted(o, g)
  BY <1>1 DEF Wanted
<1>4. HasFile(FilesRef(got[r]))' = HasFile(FilesRef(g))
  BY <1>1 DEF HasFile, FilesRef
<1>7. Listed' = Listed /\ \A m : MRCommits(op[r], m)' = MRCommits(o, m)
  BY <1>1 DEF Listed, MRCommits, ListAllMRCommits
<1>5. \A what : Left(what, stage[r], todo[r])' = Left(what, there, calls)
  BY DEF Left
<1>6. Current(g, o, there, calls)
  OBVIOUS
<1> QED
  BY <1>1, <1>2, <1>3, <1>4, <1>5, <1>6, <1>7 DEF Current

LEMMA NothingCurrent ==
  ASSUME ProjectInv, NEW o \in Op, NEW calls
  PROVE  /\ o.kind = "policy" => Current(NothingYet, o, "merged", calls)
         /\ o.kind = "step" => Current(NothingYet, o, "branches", calls)
         /\ o.kind = "step" /\ ~o.own => Current(NothingYet, o, "judge", calls)
<1>1. Len(InState("merged")) \in Nat /\ (1 - 1) * PageSize = 0
  BY InStateType, ProjectAssumption
<1>2. DOMAIN NothingYet.pipe = {} /\ DOMAIN NothingYet.commits = {} /\ NothingYet.open = <<>>
      /\ NothingYet.merged = 0 /\ NothingYet.page = 1 /\ NothingYet.branches = <<>>
  BY DEF NothingYet
<1>3. Len(Listed) \in Nat /\ SubSeq(Listed, 1, 0) = <<>>
  BY ListedFacts
<1> HIDE DEF NothingYet
<1> QED
  BY <1>1, <1>2, <1>3 DEF Current

LEMMA NoneFirst ==
  ASSUME NEW list \in Seq(Ids)
  PROVE  SubSeq(list, 1, (1 - 1) * PageSize) = <<>> /\ (1 - 1) * PageSize <= Len(list)
<1>1. (1 - 1) * PageSize = 0
  BY ProjectAssumption
<1>2. SubSeq(list, 1, 0) = <<>> /\ 0 <= Len(list)
  OBVIOUS
<1> QED
  BY <1>1, <1>2

LEMMA CountCurrent ==
  ASSUME NEW g \in Answers, NEW o, o.kind = "policy", NEW calls, NEW more, NEW h,
         Current(g, o, "merged", calls), Same(g, h, {"merged", "page"}),
         h.merged = g.merged + Len(Page(InState("merged"), g.page)),
         h.page = IF LastPage(InState("merged"), g.page) THEN 1 ELSE g.page + 1
  PROVE  Current(h, o, IF LastPage(InState("merged"), g.page) THEN "open" ELSE "merged", more)
<1> DEFINE list == InState("merged")
           n == g.page
<1>1. n \in Nat \ {0} /\ list \in Seq(Ids) /\ Len(list) \in Nat /\ g.merged \in Nat
  BY InStateType DEF Answers
<1>2. g.merged = (n - 1) * PageSize /\ g.merged <= Len(list) /\ g.open = <<>>
  BY DEF Current
<1>3. h.open = <<>> /\ h.pipe = g.pipe /\ h.commits = g.commits
  BY <1>2 DEF Same
<1>4. /\ \A m \in DOMAIN h.pipe : h.pipe[m] = pipe[m]
      /\ \A m \in DOMAIN h.commits : h.commits[m] = MRCommits(o, m)
  BY <1>3 DEF Current
<1>5. InState("opened") \in Seq(Ids)
  BY InStateType
<1> HIDE DEF list, n
<1>6. CASE LastPage(list, n)
  <2>1. Len(Page(list, n)) = Len(list) - (n - 1) * PageSize
    BY <1>1, <1>2, <1>6, PageFacts
  <2>2. h.merged = Len(list) /\ h.page = 1
    BY <1>1, <1>2, <1>6, <2>1 DEF list, n
  <2>3. SubSeq(InState("opened"), 1, (h.page - 1) * PageSize) = <<>>
        /\ (h.page - 1) * PageSize <= Len(InState("opened"))
    BY <1>5, <2>2, NoneFirst
  <2>4. Current(h, o, "open", more)
    BY <1>3, <1>4, <2>2, <2>3 DEF Current, list
  <2> QED
    BY <1>6, <2>4 DEF list, n
<1>7. CASE ~LastPage(list, n)
  <2>1. /\ Len(Page(list, n)) = PageSize /\ ((n + 1) - 1) * PageSize = n * PageSize
        /\ n * PageSize = (n - 1) * PageSize + PageSize
        /\ n * PageSize \in Nat /\ Len(list) > n * PageSize
    <3>1. n * PageSize \in Nat /\ ~(Len(list) <= n * PageSize)
      BY <1>1, <1>7, PageFacts
    <3> QED
      BY <1>1, <1>7, <3>1, PageFacts
  <2>2. h.page = n + 1 /\ h.merged = g.merged + Len(Page(list, n))
    BY <1>7 DEF list, n
  <2>3. h.merged = (h.page - 1) * PageSize /\ h.merged <= Len(list)
    <3>1. h.merged = n * PageSize /\ (h.page - 1) * PageSize = n * PageSize
      BY <1>2, <2>1, <2>2
    <3> QED
      BY <1>1, <2>1, <3>1
  <2>4. Current(h, o, "merged", more)
    BY <1>3, <1>4, <2>3 DEF Current, list
  <2> QED
    BY <1>7, <2>4 DEF list, n
<1> QED
  BY <1>6, <1>7

LEMMA BranchesCurrent ==
  ASSUME NEW g \in Answers, NEW o, o.kind = "step", NEW calls, NEW more, NEW h,
         Current(g, o, "branches", calls), Same(g, h, {"branches", "page"}),
         h.branches = g.branches \o Page(Listed, g.page),
         h.page = IF LastPage(Listed, g.page) THEN 1 ELSE g.page + 1
  PROVE  Current(h, o, IF LastPage(Listed, g.page) THEN "open" ELSE "branches", more)
<1> DEFINE list == Listed
           n == g.page
<1>1. n \in Nat \ {0} /\ list \in Seq(Names) /\ Len(list) \in Nat
  BY ListedFacts DEF Answers
<1>2. (n - 1) * PageSize <= Len(list) /\ g.branches = SubSeq(list, 1, (n - 1) * PageSize) /\ g.open = <<>>
  BY DEF Current
<1>3. h.open = <<>> /\ h.pipe = g.pipe /\ h.commits = g.commits
  BY <1>2 DEF Same
<1>4. /\ \A m \in DOMAIN h.pipe : h.pipe[m] = pipe[m]
      /\ \A m \in DOMAIN h.commits : h.commits[m] = MRCommits(o, m)
  BY <1>3 DEF Current
<1>5. InState("opened") \in Seq(Ids)
  BY InStateType
<1>6. h.branches = SubSeq(list, 1, IF LastPage(list, n) THEN Len(list) ELSE n * PageSize)
  <2> HIDE DEF list, n
  <2>1. SubSeq(list, 1, (n - 1) * PageSize) \o Page(list, n) =
          SubSeq(list, 1, IF LastPage(list, n) THEN Len(list) ELSE n * PageSize)
    BY <1>1, <1>2, BranchPage
  <2>2. h.branches = SubSeq(list, 1, (n - 1) * PageSize) \o Page(list, n)
    BY <1>2 DEF list, n
  <2> QED
    BY <2>1, <2>2
<1> HIDE DEF list, n
<1>7. CASE LastPage(list, n)
  <2>1. h.branches = list /\ h.page = 1
    <3>1. h.branches = SubSeq(list, 1, Len(list))
      BY <1>6, <1>7
    <3>2. SubSeq(list, 1, Len(list)) = list
      BY <1>1, SubSeqFull
    <3> QED
      BY <1>7, <3>1, <3>2 DEF list, n
  <2>2. SubSeq(InState("opened"), 1, (h.page - 1) * PageSize) = <<>>
        /\ (h.page - 1) * PageSize <= Len(InState("opened"))
    BY <1>5, <2>1, NoneFirst
  <2>3. Current(h, o, "open", more)
    BY <1>3, <1>4, <2>1, <2>2 DEF Current, list
  <2> QED
    BY <1>7, <2>3 DEF list, n
<1>8. CASE ~LastPage(list, n)
  <2>1. ((n + 1) - 1) * PageSize = n * PageSize /\ n * PageSize \in Nat /\ ~(Len(list) <= n * PageSize)
    BY <1>1, <1>8, BranchPage
  <2>2. (h.page - 1) * PageSize <= Len(list) /\ h.branches = SubSeq(list, 1, (h.page - 1) * PageSize)
    <3>1. (h.page - 1) * PageSize = n * PageSize
      BY <1>8, <2>1 DEF list, n
    <3>2. h.branches = SubSeq(list, 1, n * PageSize)
      BY <1>6, <1>8
    <3>3. n * PageSize <= Len(list)
      BY <1>1, <2>1
    <3> QED
      BY <3>1, <3>2, <3>3
  <2>3. Current(h, o, "branches", more)
    BY <1>3, <1>4, <2>2 DEF Current, list
  <2> QED
    BY <1>8, <2>3 DEF list, n
<1> QED
  BY <1>7, <1>8

\* The pages read so far, put together, are the beginning of the list.
LEMMA OpenCurrent ==
  ASSUME NEW g \in Answers, NEW o \in Op, o.kind # "local", NEW calls, NEW h,
         Current(g, o, "open", calls), Same(g, h, {"open", "page"}),
         h.open = g.open \o Page(InState("opened"), g.page)
  PROVE  /\ (LastPage(InState("opened"), g.page) /\ h.page = g.page) =>
               Current(h, o, "mrs", MRCalls(o, g.open \o Page(InState("opened"), g.page)))
         /\ (~LastPage(InState("opened"), g.page) /\ h.page = g.page + 1) =>
               Current(h, o, "open", calls)
<1> DEFINE list == InState("opened")
           n == g.page
<1>1. n \in Nat \ {0} /\ list \in Seq(Ids) /\ Len(list) \in Nat
  BY InStateType DEF Answers
<1>2. (n - 1) * PageSize <= Len(list) /\ g.open = SubSeq(list, 1, (n - 1) * PageSize)
  BY DEF Current
<1>3. h.pipe = g.pipe /\ h.commits = g.commits /\ h.merged = g.merged /\ h.branches = g.branches
  BY DEF Same
<1>4. /\ \A m \in DOMAIN h.pipe : h.pipe[m] = pipe[m]
      /\ \A m \in DOMAIN h.commits : h.commits[m] = MRCommits(o, m)
      /\ o.kind = "policy" => h.merged = Len(InState("merged"))
      /\ (o.kind = "step" /\ o.own) => h.branches = Listed
  BY <1>3 DEF Current
<1>5. h.open = SubSeq(list, 1, IF LastPage(list, n) THEN Len(list) ELSE n * PageSize)
  <2> HIDE DEF list, n
  <2>1. SubSeq(list, 1, (n - 1) * PageSize) \o Page(list, n) =
          SubSeq(list, 1, IF LastPage(list, n) THEN Len(list) ELSE n * PageSize)
    BY <1>1, <1>2, PageFacts
  <2>2. h.open = SubSeq(list, 1, (n - 1) * PageSize) \o Page(list, n)
    BY <1>2 DEF list, n
  <2> QED
    BY <2>1, <2>2
<1> HIDE DEF list, n
<1>6. ASSUME LastPage(list, n)
      PROVE  Current(h, o, "mrs", MRCalls(o, h.open))
  <2>1. h.open = list
    BY <1>1, <1>5, <1>6, SubSeqFull
  <2> DEFINE all == MRCalls(o, h.open)
  <2>2. /\ \A m \in Range(list) : <<"pipe", m>> \in Range(all)
        /\ o.kind = "policy" => \A m \in Range(list) : <<"commits", m>> \in Range(all)
        /\ (o.kind = "step" /\ o.check = "gitlab_conventional_commit") =>
             \A m \in Range(list) : author[m] = Me => <<"commits", m>> \in Range(all)
    BY <1>1, <2>1, MRCallsFacts
  <2>3. Range(list) \subseteq Ids /\ o.kind \in {"policy", "step"}
    BY <1>1 DEF Range, Op
  <2> HIDE DEF all
  <2>4. Range(list) \subseteq Left("pipe", "mrs", all)
    BY <2>2, <2>3 DEF Left
  <2>5. Wanted(o, h) \subseteq Left("commits", "mrs", all)
    BY <2>1, <2>2, <2>3 DEF Left, Wanted
  <2>6. Current(h, o, "mrs", all)
    BY <1>4, <2>1, <2>4, <2>5 DEF Current, list
  <2> QED
    BY <2>6 DEF all
<1>7. ASSUME ~LastPage(list, n), h.page = n + 1
      PROVE  Current(h, o, "open", calls)
  <2>1. ((n + 1) - 1) * PageSize = n * PageSize /\ n * PageSize \in Nat /\ ~(Len(list) <= n * PageSize)
    BY <1>1, <1>7, PageFacts
  <2>2. (h.page - 1) * PageSize <= Len(list) /\ h.open = SubSeq(list, 1, (h.page - 1) * PageSize)
    <3>1. (h.page - 1) * PageSize = n * PageSize
      BY <1>7, <2>1
    <3>2. h.open = SubSeq(list, 1, n * PageSize)
      BY <1>5, <1>7
    <3>3. n * PageSize <= Len(list)
      BY <1>1, <2>1
    <3> QED
      BY <3>1, <3>2, <3>3
  <2> QED
    BY <1>4, <2>2 DEF Current, list
<1> QED
  BY <1>6, <1>7 DEF list, n

\* What a call has answered need not be asked again.
LEMMA ReadCurrent ==
  ASSUME NEW g, NEW o, NEW calls \in Seq(Calls), calls # <<>>, NEW h, NEW what, NEW m,
         Head(calls) = <<what, m>>, Current(g, o, "mrs", calls),
         h.open = g.open /\ h.merged = g.merged /\ h.branches = g.branches,
         /\ DOMAIN g.pipe \subseteq DOMAIN h.pipe /\ (what = "pipe" => m \in DOMAIN h.pipe)
         /\ \A i \in DOMAIN h.pipe : (i \in DOMAIN g.pipe /\ h.pipe[i] = g.pipe[i]) \/ h.pipe[i] = pipe[i],
         /\ DOMAIN g.commits \subseteq DOMAIN h.commits /\ (what = "commits" => m \in DOMAIN h.commits)
         /\ \A i \in DOMAIN h.commits :
              (i \in DOMAIN g.commits /\ h.commits[i] = g.commits[i]) \/ h.commits[i] = MRCommits(o, i)
  PROVE  Current(h, o, "mrs", Tail(calls))
<1>1. \A c \in Range(calls) : c = <<what, m>> \/ c \in Range(Tail(calls))
  <2> SUFFICES ASSUME NEW i \in DOMAIN calls PROVE calls[i] = <<what, m>> \/ calls[i] \in Range(Tail(calls))
    BY DEF Range
  <2>1. CASE i = 1
    BY <2>1
  <2>2. CASE i # 1
    <3>1. i - 1 \in DOMAIN Tail(calls) /\ Tail(calls)[i - 1] = calls[i]
      BY <2>2
    <3> QED
      BY <3>1 DEF Range
  <2> QED
    BY <2>1, <2>2
<1>2. /\ Left("pipe", "mrs", calls) \subseteq Left("pipe", "mrs", Tail(calls)) \cup DOMAIN h.pipe
      /\ Left("commits", "mrs", calls) \subseteq Left("commits", "mrs", Tail(calls)) \cup DOMAIN h.commits
  BY <1>1 DEF Left
<1>3. /\ \A i \in DOMAIN h.pipe : h.pipe[i] = pipe[i]
      /\ \A i \in DOMAIN h.commits : h.commits[i] = MRCommits(o, i)
  BY DEF Current
<1>4. Wanted(o, h) = Wanted(o, g)
  BY DEF Wanted
<1> QED
  BY <1>2, <1>3, <1>4 DEF Current

\* All calls are answered: on to what the check reads next.
LEMMA ReadOnCurrent ==
  ASSUME NEW g, NEW o \in Op, o.kind # "local", Current(g, o, "mrs", <<>>)
  PROVE  Current(g, o, AfterMRs(o), <<>>)
<1>1. \A what, there : Left(what, there, <<>>) = {}
  BY DEF Left, Range
<1>2. o.kind = "policy" => AfterMRs(o) = "files"
  BY DEF AfterMRs
<1>3. o.kind = "step" => AfterMRs(o) = IF NeedsCompare(o) THEN "compare" ELSE "judge"
  BY DEF AfterMRs
<1>4. o.kind \in {"policy", "step"}
  BY DEF Op
<1>5. CASE o.kind = "policy"
  BY <1>1, <1>2, <1>5 DEF Current
<1>6. CASE o.kind = "step"
  BY <1>1, <1>3, <1>6 DEF Current
<1> QED
  BY <1>4, <1>5, <1>6

LEMMA JudgeCurrent ==
  ASSUME NEW g, NEW o, NEW calls, NEW h, NEW there \in {"files", "compare"}, Current(g, o, there, calls),
         h.open = g.open /\ h.pipe = g.pipe /\ h.commits = g.commits /\ h.branches = g.branches,
         h.merged = g.merged,
         there = "files" => o.kind = "policy" /\ h.file = HasFile(FilesRef(g)),
         there = "compare" =>
           /\ o.kind = "step"
           /\ LET found == BranchByPattern(g.branches, o.pattern) IN
                found # <<>> => h.ahead = Range(ahead[Head(found)]) /\ h.diff = (Head(found) \in touched)
  PROVE  Current(h, o, "judge", calls)
<1>1. Wanted(o, h) = Wanted(o, g) /\ FilesRef(h) = FilesRef(g)
  BY DEF Wanted, FilesRef
<1>2. \A what : Left(what, "judge", calls) = {} /\ Left(what, there, calls) = {}
  BY DEF Left
<1>3. CASE there = "files"
  BY <1>1, <1>2, <1>3 DEF Current
<1>4. CASE there = "compare"
  BY <1>1, <1>2, <1>4 DEF Current
<1> QED
  BY <1>3, <1>4

\* The steps of an undisturbed request.
LEMMA ReadStep ==
  ASSUME Base, NEW r \in Requests, ReadMR(r), Works, Current(got[r], op[r], "mrs", todo[r])
  PROVE  Current(got'[r], op[r], stage'[r], todo'[r])
<1> DEFINE g == got[r]
           h == got'[r]
<1>1. /\ g \in Answers /\ got \in [Requests -> Answers] /\ failures \in Nat /\ stage[r] = "mrs"
      /\ stage \in [Requests -> Stages] /\ todo \in [Requests -> Seq(Calls)] /\ todo[r] \in Seq(Calls)
  BY DEF Base, LabTypeOK, ReadMR
<1>2. ~Fails(r)
  BY <1>1 DEF Works, Fails
<1>3. op[r] \in Op /\ op[r].kind # "local"
  BY <1>1 DEF Base, StageInv, Reading
<1>4. CASE todo[r] = <<>>
  <2>1. stage'[r] = AfterMRs(op[r]) /\ h = g /\ todo'[r] = <<>>
    BY <1>1, <1>4 DEF ReadMR, Skip, Proceed
  <2> QED
    BY <1>3, <1>4, <2>1, ReadOnCurrent
<1>5. CASE todo[r] # <<>>
  <2>1. PICK what, m :
          /\ Head(todo[r]) = <<what, m>> /\ todo'[r] = Tail(todo[r]) /\ stage'[r] = "mrs" /\ m \in Ids
          /\ Same(g, h, {"pipe", "commits"})
          /\ DOMAIN h.pipe = IF what = "pipe" THEN DOMAIN g.pipe \cup {m} ELSE DOMAIN g.pipe
          /\ \A i \in DOMAIN h.pipe : (i \in DOMAIN g.pipe /\ h.pipe[i] = g.pipe[i]) \/ h.pipe[i] = pipe[i]
          /\ DOMAIN h.commits = IF what = "pipe" THEN DOMAIN g.commits ELSE DOMAIN g.commits \cup {m}
          /\ \A i \in DOMAIN h.commits :
               (i \in DOMAIN g.commits /\ h.commits[i] = g.commits[i]) \/ h.commits[i] = MRCommits(op[r], i)
    BY <1>5, MRAnswered
  <2>2. h.open = g.open /\ h.merged = g.merged /\ h.branches = g.branches
    BY <2>1 DEF Same
  <2> DEFINE calls == todo[r]
             o == op[r]
  <2>3. calls \in Seq(Calls) /\ calls # <<>> /\ Head(calls) = <<what, m>> /\ Current(g, o, "mrs", calls)
    BY <1>1, <1>5, <2>1
  <2> HIDE DEF g, h, calls, o
  <2>5. \A i \in DOMAIN h.commits :
          (i \in DOMAIN g.commits /\ h.commits[i] = g.commits[i]) \/ h.commits[i] = MRCommits(o, i)
    BY <2>1 DEF o
  <2>4. Current(h, o, "mrs", Tail(calls))
    BY <2>1, <2>2, <2>3, <2>5, ReadCurrent
  <2> QED
    BY <2>1, <2>4 DEF h, o, calls
<1> QED
  BY <1>4, <1>5

LEMMA CurrentSelf ==
  ASSUME Base, NEW r \in Requests, CurrentInv(r), Ask(r) \/ Serve(r)
  PROVE  CurrentInv(r)'
<1> SUFFICES ASSUME clean'[r], stage'[r] \in Reading
             PROVE  Current(got[r], op[r], stage[r], todo[r])'
  BY DEF CurrentInv
<1>1. Others(r)
  BY AskStep, ServeStep DEF Base
<1>2. UNCHANGED project /\ clean[r] /\ failures' = failures
  BY <1>1 DEF Others
<1>3. /\ stage \in [Requests -> Stages] /\ got \in [Requests -> Answers] /\ todo \in [Requests -> Seq(Calls)]
      /\ failures \in Nat /\ got[r] \in Answers
  BY DEF Base, LabTypeOK
<1>4. ~Fails(r)
  BY <1>2, <1>3 DEF Fails
<1>5. stage[r] \in Reading => Current(got[r], op[r], stage[r], todo[r])
  BY <1>2 DEF CurrentInv
<1>6. StageInv(r) /\ ProjectInv
  BY DEF Base
<1>7. SUFFICES Current(got'[r], op'[r], stage'[r], todo'[r])
  BY <1>2, CurrentFrame
<1>8. Serve(r) /\ op'[r] = op[r]
  <2>1. ~Ask(r)
    BY <1>3 DEF Ask, Proceed, Reading
  <2> QED
    BY <2>1, ServeStep DEF Base
<1>9. CASE ResolveLabModule(r)
  <2>1. stage'[r] = "denied" \/ stage'[r] = FirstCall(op[r])
    BY <1>3, <1>9 DEF ResolveLabModule, ResolveIn, Found, Refused, Proceed
  <2>2. op[r] \in Op /\ op[r].kind # "local" /\ got[r] = NothingYet /\ got'[r] = got[r]
    BY <1>6, <1>9 DEF ResolveLabModule, StageInv, Unread
  <2>3. \/ stage'[r] = "judge" /\ op[r].kind = "step" /\ ~op[r].own
        \/ stage'[r] = "branches" /\ op[r].kind = "step"
    BY <1>3, <2>1, <2>2 DEF FirstCall, Reading, Op
  <2> QED
    BY <1>6, <1>8, <2>2, <2>3, NothingCurrent
<1>10. CASE ReadProject(r)
  <2>1. stage'[r] = "merged" /\ got'[r] = got[r]
    BY <1>3, <1>4, <1>10 DEF ReadProject, Skip, Proceed
  <2>2. op[r] \in Op /\ op[r].kind = "policy" /\ got[r] = NothingYet
    BY <1>6, <1>10 DEF ReadProject, StageInv, Unread
  <2> QED
    BY <1>6, <1>8, <2>1, <2>2, NothingCurrent
<1>11. CASE CountMerged(r)
  <2>1. Works /\ stage[r] = "merged" /\ op[r].kind = "policy"
    BY <1>4, <1>6, <1>11 DEF CountMerged, StageInv
  <2>2. Current(got[r], op[r], "merged", todo[r])
    BY <1>5, <2>1 DEF Reading
  <2> DEFINE list == InState("merged")
             g == got[r]
             h == got'[r]
  <2>3. /\ Same(g, h, {"merged", "page"}) /\ h.merged = g.merged + Len(Page(list, g.page))
        /\ h.page = IF LastPage(list, g.page) THEN 1 ELSE g.page + 1
        /\ stage'[r] = IF LastPage(list, g.page) THEN "open" ELSE "merged"
    BY <1>11, <2>1, Counted
  <2>4. g \in Answers /\ op[r].kind = "policy" /\ Current(g, op[r], "merged", todo[r])
    BY <1>3, <2>1, <2>2
  <2> HIDE DEF g, h
  <2>5. Current(h, op[r], IF LastPage(list, g.page) THEN "open" ELSE "merged", todo'[r])
    BY <2>3, <2>4, CountCurrent
  <2> QED
    BY <1>8, <2>3, <2>5 DEF h
<1>12. CASE ListBranches(r)
  <2>1. Works /\ stage[r] = "branches" /\ op[r].kind = "step"
    BY <1>4, <1>6, <1>12 DEF ListBranches, StageInv
  <2>2. Current(got[r], op[r], "branches", todo[r])
    BY <1>5, <2>1 DEF Reading
  <2> DEFINE g == got[r]
             h == got'[r]
  <2>3. /\ Same(g, h, {"branches", "page"}) /\ h.branches = g.branches \o Page(Listed, g.page)
        /\ h.page = IF LastPage(Listed, g.page) THEN 1 ELSE g.page + 1
        /\ stage'[r] = IF LastPage(Listed, g.page) THEN "open" ELSE "branches"
    BY <1>12, <2>1, BranchesListed
  <2>4. g \in Answers /\ op[r].kind = "step" /\ Current(g, op[r], "branches", todo[r])
    BY <1>3, <2>1, <2>2
  <2> HIDE DEF g, h
  <2>5. Current(h, op[r], IF LastPage(Listed, g.page) THEN "open" ELSE "branches", todo'[r])
    BY <2>3, <2>4, BranchesCurrent
  <2> QED
    BY <1>8, <2>3, <2>5 DEF h
<1>13. CASE ListOpenMRs(r)
  <2>1. Works
    BY <1>4, <1>13 DEF ListOpenMRs
  <2>2. stage[r] = "open" /\ op[r] \in Op /\ op[r].kind # "local"
    BY <1>6, <1>13 DEF ListOpenMRs, StageInv, Reading
  <2>3. Current(got[r], op[r], "open", todo[r])
    BY <1>5, <2>2 DEF Reading
  <2>4. LastPage(InState("opened"), got[r].page) \/ todo'[r] = todo[r]
    BY <1>4, <1>13 DEF ListOpenMRs
  <2>5. /\ Same(got[r], got'[r], {"open", "page"})
        /\ got'[r].open = got[r].open \o Page(InState("opened"), got[r].page)
        /\ got'[r].page = IF LastPage(InState("opened"), got[r].page) THEN got[r].page ELSE got[r].page + 1
        /\ stage'[r] = IF LastPage(InState("opened"), got[r].page) THEN "mrs" ELSE "open"
        /\ LastPage(InState("opened"), got[r].page) =>
             todo'[r] = MRCalls(op[r], got[r].open \o Page(InState("opened"), got[r].page))
    BY <1>13, <2>1, Opened
  <2> QED
    BY <1>3, <1>8, <2>2, <2>3, <2>4, <2>5, OpenCurrent
<1>14. CASE ReadMR(r)
  <2>1. Works /\ stage[r] = "mrs"
    BY <1>4, <1>14 DEF ReadMR
  <2>2. Current(got[r], op[r], "mrs", todo[r])
    BY <1>5, <2>1 DEF Reading
  <2> QED
    BY <1>8, <1>14, <2>1, <2>2, ReadStep
<1>15. CASE FetchFiles(r)
  <2> DEFINE f == HasFile(FilesRef(got[r]))
             h == [got[r] EXCEPT !.file = f]
  <2>1. /\ stage[r] = "files" /\ op[r].kind = "policy" /\ got'[r] = h /\ stage'[r] = "judge"
        /\ todo'[r] = todo[r]
    BY <1>3, <1>4, <1>6, <1>15 DEF FetchFiles, Collect, Proceed, StageInv
  <2>2. f \in BOOLEAN
    BY <1>6 DEF HasFile, ProjectInv, ProjectTypeOK
  <2>3. Current(got[r], op[r], "files", todo[r])
    BY <1>5, <2>1 DEF Reading
  <2> HIDE DEF f
  <2>4. Same(got[r], h, {"file"}) /\ h.file = f
    BY <1>3, <2>2, AnswersFilled, Zenon DEF Filled
  <2> HIDE DEF h
  <2>5. Current(h, op[r], "judge", todo[r])
    BY <2>1, <2>3, <2>4, JudgeCurrent DEF Same, f
  <2> QED
    BY <1>8, <2>1, <2>5
<1>16. CASE Compare(r)
  <2>1. Works /\ stage[r] = "compare" /\ op[r].kind = "step" /\ todo'[r] = todo[r]
    BY <1>4, <1>6, <1>16 DEF Compare, StageInv
  <2>2. Current(got[r], op[r], "compare", todo[r])
    BY <1>5, <2>1 DEF Reading
  <2> DEFINE found == BranchByPattern(got[r].branches, op[r].pattern)
             g == got[r]
             h == got'[r]
  <2>3. /\ stage'[r] = "judge"
        /\ h.open = g.open /\ h.pipe = g.pipe /\ h.commits = g.commits /\ h.branches = g.branches
        /\ h.merged = g.merged
        /\ found # <<>> => h.ahead = Range(ahead[Head(found)]) /\ h.diff = (Head(found) \in touched)
    BY <1>16, <2>1, Compared DEF Same
  <2> HIDE DEF h
  <2>4. Current(h, op[r], "judge", todo[r])
    BY <2>1, <2>2, <2>3, JudgeCurrent
  <2> QED
    BY <1>8, <2>1, <2>3, <2>4 DEF h
<1>17. CASE FetchCheckSpec(r) \/ RecordLocalCheck(r) \/ StoreLabCheck(r) \/ ReadRule(r) \/ Judge(r) \/ CallLost(r)
  <2>1. stage'[r] \in {"rule", "denied", "store", "done", "project", "error"}
    BY <1>3, <1>17 DEF FetchCheckSpec, RecordLocalCheck, StoreLabCheck, ReadRule, Judge, CallLost, Skip, Proceed,
       Found, Refused
  <2> QED
    BY <2>1 DEF Reading
<1> QED
  BY <1>8, <1>9, <1>10, <1>11, <1>12, <1>13, <1>14, <1>15, <1>16, <1>17 DEF Serve

LEMMA CurrentStep ==
  ASSUME Base, \A r \in Requests : CurrentInv(r), [LabsNext]_labVars
  PROVE  \A r \in Requests : CurrentInv(r)'
<1> SUFFICES ASSUME NEW q \in Requests
             PROVE  CurrentInv(q)'
  OBVIOUS
<1>1. CurrentInv(q) /\ clean \in [Requests -> BOOLEAN]
  BY DEF Base, LabTypeOK
<1>2. ASSUME UNCHANGED project, clean'[q] => clean[q],
             got'[q] = got[q] /\ stage'[q] = stage[q] /\ op'[q] = op[q] /\ todo'[q] = todo[q]
      PROVE  CurrentInv(q)'
  <2>1. clean'[q] /\ stage'[q] \in Reading => Current(got'[q], op'[q], stage'[q], todo'[q])
    BY <1>1, <1>2 DEF CurrentInv
  <2> QED
    BY <1>2, <2>1, CurrentFrame DEF CurrentInv
<1>3. ASSUME NEW r \in Requests, Ask(r) \/ Serve(r)
      PROVE  CurrentInv(q)'
  <2>1. CASE q = r
    BY <1>1, <1>3, <2>1, CurrentSelf
  <2>2. CASE q # r
    <3>1. Others(r)
      BY <1>3, AskStep, ServeStep DEF Base
    <3> QED
      BY <1>2, <2>2, <3>1 DEF Others
  <2> QED
    BY <2>1, <2>2
<1>4. CASE ProjectMoves \/ EditCourse
  <2>1. Around
    BY <1>4, AroundStep DEF Base
  <2>2. stage'[q] = stage[q] /\ (stage[q] \in Reading => ~clean'[q])
    BY <2>1 DEF Around, Busy, Reading
  <2> QED
    BY <2>2 DEF CurrentInv
<1>5. CASE UNCHANGED <<project, listing, stage, op, shown, mod, todo, got, answer, clean, rows, edits, failures>>
  BY <1>2, <1>5
<1> QED
  BY <1>3, <1>4, <1>5, StepsSplit

LEMMA CurrentInit == LabsInit => \A r \in Requests : CurrentInv(r)
  BY DEF LabsInit, CurrentInv, Reading

LEMMA PolicyCurrent ==
  ASSUME ProjectInv, NEW g \in Answers, NEW o \in Op, o.kind = "policy", NEW calls,
         Current(g, o, "judge", calls), CommitsSeen(o)
  PROVE  Verdict(o, g) <=> Holds(o)
<1>1. o.rule \in Rules /\ (Verdict(o, g) <=> Evaluate(o, g))
  BY DEF Op, Verdict
<1> DEFINE S == {m \in Ids : state[m] = "opened"}
<1>2. g.open = Among(MRs, S) /\ g.open \in Seq(Ids)
  BY DEF Current, InState, Answers
<1>3. Range(g.open) = S
  BY <1>2, Listings
<1>4. S \subseteq DOMAIN g.pipe /\ S \subseteq DOMAIN g.commits
  BY <1>3 DEF Current, Wanted, Left
<1>5. \A m \in S : g.pipe[m] = pipe[m] /\ g.commits[m] = MRCommits(o, m)
  BY <1>4 DEF Current
<1>6. CASE o.rule = "merged"
  <2> DEFINE T == {m \in Ids : state[m] = "merged"}
  <2>1. g.merged = Len(Among(MRs, T)) /\ Ids \cap T = T
    BY DEF Current, InState
  <2>2. Holds(o) <=> Cardinality(T) >= MinMerged
    BY <1>6 DEF Holds
  <2> HIDE DEF T
  <2>3. g.merged = Cardinality(T)
    BY <2>1, Listings
  <2> QED
    BY <1>1, <1>6, <2>2, <2>3 DEF Evaluate
<1>7. CASE o.rule = "review"
  <2>1. Evaluate(o, g) <=> \E m \in Range(g.open) : /\ m \in DOMAIN g.pipe /\ g.pipe[m] = "success"
                                                   /\ m \in DOMAIN g.commits /\ "conventional" \in g.commits[m]
    BY <1>7 DEF Evaluate, Range
  <2>2. Holds(o) <=> \E m \in S : pipe[m] = "success" /\ "conventional" \in Range(within[m])
    BY <1>7 DEF Holds
  <2>3. \A m \in S : Len(within[m]) <= FirstPage
    BY <1>7 DEF CommitsSeen
  <2>4. \A m \in S : MRCommits(o, m) = Range(within[m])
    BY <2>3, CommitsRead
  <2> HIDE DEF S
  <2> QED
    BY <1>1, <1>3, <1>4, <1>5, <2>1, <2>2, <2>4
<1>8. CASE o.rule = "file"
  <2>1. Evaluate(o, g) <=> HasFile(FilesRef(g))
    BY <1>8 DEF Evaluate, Current
  <2>2. g.open = InState("opened")
    BY DEF Current
  <2>3. HasFile(Main) <=> onMain
    BY DEF HasFile, ProjectInv, ProjectTypeOK
  <2>4. Holds(o) <=> IF InState("opened") = <<>> THEN onMain ELSE HasFile(Source[Head(InState("opened"))])
    BY <1>8 DEF Holds
  <2> QED
    BY <1>1, <2>1, <2>2, <2>3, <2>4 DEF FilesRef
<1> QED
  BY <1>1, <1>6, <1>7, <1>8 DEF Rules

LEMMA StepCurrent ==
  ASSUME NEW g \in Answers, NEW o \in Op, o.kind = "step", NEW calls, Current(g, o, "judge", calls)
  PROVE  Verdict(o, g) <=> Holds(o)
<1>1. CASE ~o.own
  BY <1>1 DEF Verdict, Holds
<1>2. CASE o.own
  <2> DEFINE mine == MrsByAuthor(g.open)
             S == {m \in Ids : state[m] = "opened"}
             M == {m \in Ids : state[m] = "opened" /\ author[m] = Me}
  <2>1. o.check \in StepTypes /\ (Verdict(o, g) <=> CheckStep(o, g))
    BY <1>2 DEF Op, Verdict
  <2>2. g.open = Among(MRs, S) /\ g.open \in Seq(Ids) /\ g.open = InState("opened") /\ g.branches = Listed
    BY <1>2 DEF Current, InState, Answers
  <2>3. Range(g.open) = S
    BY <2>2, Listings
  <2>4. mine \in Seq(Ids) /\ Range(mine) = M
    BY <2>2, <2>3, MineType
  <2>5. mine = Mine
    BY <2>2 DEF Mine, MrsByAuthor
  <2>6. M \subseteq DOMAIN g.pipe
    BY <1>2, <2>3 DEF Current, Left
  <2>7. \A m \in DOMAIN g.pipe : g.pipe[m] = pipe[m]
    BY DEF Current
  <2>8. \A pattern : First(pattern) = BranchByPattern(g.branches, pattern)
    BY <2>2 DEF First, Listed
  <2>9. CASE o.check = "gitlab_mr_open"
    <3>1. CheckStep(o, g) <=> mine # <<>>
      BY <2>9 DEF CheckStep, CheckMROpen
    <3>2. Holds(o) <=> M # {}
      BY <1>2, <2>9 DEF Holds
    <3> HIDE DEF mine, M
    <3>3. ASSUME mine # <<>>
          PROVE  mine[1] \in Range(mine)
      <4>1. 1 \in DOMAIN mine
        BY <2>4, <3>3
      <4> QED
        BY <4>1 DEF Range
    <3>4. ASSUME mine = <<>>
          PROVE  Range(mine) = {}
      <4>1. DOMAIN mine = {}
        BY <3>4
      <4> QED
        BY <4>1 DEF Range
    <3>5. mine # <<>> <=> M # {}
      BY <2>4, <3>3, <3>4
    <3> QED
      BY <2>1, <3>1, <3>2, <3>5
  <2>10. CASE o.check = "gitlab_conventional_commit"
    <3>1. CheckStep(o, g) <=> \E m \in Range(mine) : m \in DOMAIN g.commits /\ "conventional" \in g.commits[m]
      BY <2>10 DEF CheckStep, CheckConventionalCommit, Range
    <3>2. Holds(o) <=> \E m \in M : "conventional" \in Range(within[m])
      BY <1>2, <2>10 DEF Holds
    <3>3. M \subseteq DOMAIN g.commits
      BY <1>2, <2>3, <2>10 DEF Current, Wanted, Left
    <3>4. \A m \in DOMAIN g.commits : g.commits[m] = Range(within[m])
      BY DEF Current, MRCommits, ListAllMRCommits
    <3> HIDE DEF mine, M
    <3> QED
      BY <2>1, <2>4, <3>1, <3>2, <3>3, <3>4
  <2>11. CASE o.check = "gitlab_pipeline_passed"
    <3>1. CheckStep(o, g) <=> /\ Among(mine, DOMAIN g.pipe) # <<>>
                              /\ g.pipe[Head(Among(mine, DOMAIN g.pipe))] = "success"
      BY <2>11 DEF CheckStep, CheckPipelinePassed
    <3>2. Holds(o) <=> Mine # <<>> /\ pipe[Head(Mine)] = "success"
      BY <1>2, <2>11 DEF Holds
    <3> HIDE DEF mine, M
    <3>3. Among(mine, DOMAIN g.pipe) = mine
      BY <2>4, <2>6, AmongAll
    <3>4. mine # <<>> => Head(mine) \in DOMAIN g.pipe
      <4>1. mine # <<>> => Head(mine) \in Range(mine)
        BY <2>4 DEF Range
      <4> QED
        BY <2>4, <2>6, <4>1
    <3> QED
      BY <2>1, <2>5, <2>7, <3>1, <3>2, <3>3, <3>4
  <2>12. CASE NeedsCompare(o)
    <3> DEFINE found == BranchByPattern(Listed, o.pattern)
    <3>1. found = <<>> \/ (g.ahead = Range(ahead[Head(found)]) /\ g.diff = (Head(found) \in touched))
      BY <1>2, <2>12 DEF Current
    <3>2. First(o.pattern) = found /\ (CheckBranch(o, g) <=> found # <<>>)
      BY <2>2, <2>8 DEF CheckBranch
    <3> HIDE DEF found
    <3>3. CASE o.check = "gitlab_file_on_branch"
      <4>1. CheckStep(o, g) <=> found # <<>> /\ g.diff
        BY <3>2, <3>3 DEF CheckStep, CheckFileOnBranch
      <4>2. Holds(o) <=> found # <<>> /\ Head(found) \in touched
        BY <1>2, <3>2, <3>3 DEF Holds
      <4> QED
        BY <2>1, <3>1, <4>1, <4>2
    <3>4. CASE o.check = "gitlab_conventional_commit_on_branch"
      <4>1. CheckStep(o, g) <=> found # <<>> /\ g.ahead = {"conventional"}
        BY <3>2, <3>4 DEF CheckStep, CheckConventionalCommitOnBranch
      <4>2. Holds(o) <=> found # <<>> /\ Range(ahead[Head(found)]) = {"conventional"}
        BY <1>2, <3>2, <3>4 DEF Holds
      <4> QED
        BY <2>1, <3>1, <4>1, <4>2
    <3> QED
      BY <2>12, <3>3, <3>4 DEF NeedsCompare
  <2>13. CASE o.check \in {"gitlab_commit_on_branch", "gitlab_branch"}
    BY <1>2, <2>1, <2>8, <2>13 DEF CheckStep, CheckCommitOnBranch, CheckBranch, Holds
  <2> QED
    BY <2>1, <2>9, <2>10, <2>11, <2>12, <2>13 DEF StepTypes, NeedsCompare
<1> QED
  BY <1>1, <1>2

LEMMA VerdictFollows ==
  ASSUME Base, \A r \in Requests : CurrentInv(r)
  PROVE  VerdictRight
<1> SUFFICES ASSUME NEW r \in Requests, stage[r] = "judge", clean[r], CommitsSeen(op[r])
             PROVE  Verdict(op[r], got[r]) <=> Holds(op[r])
  BY DEF VerdictRight
<1>1. Current(got[r], op[r], "judge", todo[r])
  BY DEF CurrentInv, Reading
<1>2. op[r] \in Op /\ op[r].kind # "local" /\ got[r] \in Answers /\ ProjectInv
  BY DEF Base, StageInv, Reading, LabTypeOK
<1>3. op[r].kind \in {"policy", "step"}
  BY <1>2 DEF Op
<1> QED
  BY <1>1, <1>2, <1>3, PolicyCurrent, StepCurrent

\* A check of a project that nobody touches meanwhile, with every call
\* answered, decides what it asks for, for any project, page size and number
\* of requests; a policy about commits does while no open merge request has
\* more of them than the one call for them returns (CheckStep, Fetch, Evaluate).
THEOREM VerdictAlwaysRight == LabsSpec => []VerdictRight
<1> DEFINE I == Base /\ \A r \in Requests : CurrentInv(r)
<1>1. LabsInit => I
  BY BaseInit, CurrentInit
<1>2. I /\ [LabsNext]_labVars => I'
  BY BaseStep, CurrentStep
<1>3. I => VerdictRight
  BY VerdictFollows
<1> HIDE DEF I
<1> QED
  BY <1>1, <1>2, <1>3, PTL DEF LabsSpec

\* The types of the project and of the requests (LabTypeOK) and the order of
\* the stages of a check (StageInv) hold throughout.
THEOREM LabsTypeCorrect == LabsSpec => [](LabTypeOK /\ ProjectTypeOK /\ \A r \in Requests : StageInv(r))
<1>1. Base => LabTypeOK /\ ProjectTypeOK /\ \A r \in Requests : StageInv(r)
  BY DEF Base, ProjectInv
<1>2. Base /\ [LabsNext]_labVars => Base'
  BY BaseStep
<1> QED
  BY <1>1, <1>2, BaseInit, PTL DEF LabsSpec

=============================================================================
