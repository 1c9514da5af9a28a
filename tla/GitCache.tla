------------------------------- MODULE GitCache -------------------------------
(***************************************************************************)
(* The cache of git clones that lessons, quizzes, module indexes and lab   *)
(* checks are read from.  Readers share one directory per repository; a    *)
(* mutex guards the two maps, and one reader at a time clones a            *)
(* repository while the others wait on its channel.  A reader opens its    *)
(* file after it has given the mutex back.                                 *)
(*                                                                         *)
(* Each action is a critical section of the mutex, or one operation on the *)
(* disk outside of it.                                                     *)
(***************************************************************************)
EXTENDS Naturals, FiniteSets

CONSTANTS
  Readers,      \* calls of FetchModuleContent, each used once
  Keys,         \* repositories (URL and branch)
  NoReader,
  MaxRepos,     \* maxCachedRepos
  TTL,          \* how long a clone stays fresh
  Backoff,      \* how long a failed clone blocks retries
  Horizon,      \* bound on the clock
  MaxFaults,    \* bound on clones that fail
  MaxClears     \* bound on calls of Clear and ClearRepo

ASSUME CacheAssumption ==
  /\ NoReader \notin Readers
  /\ IsFiniteSet(Keys)
  /\ MaxRepos \in Nat
  /\ TTL \in Nat
  /\ Backoff \in Nat
  /\ Horizon \in Nat
  /\ MaxFaults \in Nat
  /\ MaxClears \in Nat

VARIABLES
  now,          \* the clock
  repos,        \* GitCache.repos: the entry of each key
  cloning,      \* GitCache.cloning: the reader whose channel is registered
  closed,       \* readers that have closed their channel
  disk,         \* the directory of each key
  pc,           \* where each reader is
  key,          \* what each reader fetches
  wait,         \* the channel each reader waits on, named by its owner
  faults,       \* failing clones left
  clears,       \* Clear and ClearRepo calls left
  undercut      \* history: keys dropped while their latest clone was under way

vars == <<now, repos, cloning, closed, disk, pc, key, wait, faults, clears, undercut>>

\* at: clonedAt of a clone (path set), failedUntil of a failure (no path).
NoEntry == [kind |-> "none", at |-> 0]
Entry   == [kind : {"none", "cloned", "failed"}, at : Nat]

\* The clone is written file by file.
Directory == {"absent", "partial", "whole"}

\* The leader of a key goes from "wipe" to "close" or "closeFailed".
Leading  == {"wipe", "clone", "cloning", "cleanup", "publish", "publishFailure"}
Finished == {"data", "torn", "readError", "cloneError"}
PC == {"idle", "lookup", "waiting", "close", "closeFailed", "read"} \cup Leading \cup Finished

TypeOK ==
  /\ now \in 0..Horizon
  /\ repos \in [Keys -> Entry]
  /\ cloning \in [Keys -> Readers \cup {NoReader}]
  /\ closed \subseteq Readers
  /\ disk \in [Keys -> Directory]
  /\ pc \in [Readers -> PC]
  /\ key \in [Readers -> Keys]
  /\ wait \in [Readers -> Readers \cup {NoReader}]
  /\ faults \in 0..MaxFaults
  /\ clears \in 0..MaxClears
  /\ undercut \subseteq Keys

Init ==
  /\ now = 0
  /\ repos = [k \in Keys |-> NoEntry]
  /\ cloning = [k \in Keys |-> NoReader]
  /\ closed = {}
  /\ disk = [k \in Keys |-> "absent"]
  /\ pc = [r \in Readers |-> "idle"]
  /\ key \in [Readers -> Keys]
  /\ wait = [r \in Readers |-> NoReader]
  /\ faults = MaxFaults
  /\ clears = MaxClears
  /\ undercut = {}

-----------------------------------------------------------------------------
Goto(r, from, to) == pc[r] = from /\ pc' = [pc EXCEPT ![r] = to]

Cached(k)         == repos[k].kind = "cloned"
Fresh(k)          == Cached(k) /\ now < repos[k].at + TTL
FailedRecently(k) == repos[k].kind = "failed" /\ now < repos[k].at

Fetch(r) ==
  /\ Goto(r, "idle", "lookup")
  /\ UNCHANGED <<now, repos, cloning, closed, disk, key, wait, faults, clears, undercut>>

\* Mutant: nobody looks whether the key is being cloned.
LookupAlone(r) ==
  LET k == key[r] IN
  /\ \/ Fresh(k) /\ Goto(r, "lookup", "read") /\ UNCHANGED cloning
     \/ FailedRecently(k) /\ Goto(r, "lookup", "cloneError") /\ UNCHANGED cloning
     \/ /\ ~Fresh(k) /\ ~FailedRecently(k)
        /\ Goto(r, "lookup", "wipe")
        /\ cloning' = [cloning EXCEPT ![k] = r]
  /\ UNCHANGED <<now, repos, closed, disk, key, wait, faults, clears, undercut>>

\* getOrClone, under the mutex.
Lookup(r) ==
  LET k == key[r] IN
  /\ \/ Fresh(k) /\ Goto(r, "lookup", "read") /\ UNCHANGED <<cloning, wait>>
     \/ FailedRecently(k) /\ Goto(r, "lookup", "cloneError") /\ UNCHANGED <<cloning, wait>>
     \/ /\ ~Fresh(k) /\ ~FailedRecently(k)
        /\ IF cloning[k] # NoReader
           THEN /\ Goto(r, "lookup", "waiting")
                /\ wait' = [wait EXCEPT ![r] = cloning[k]]
                /\ UNCHANGED cloning
           ELSE /\ Goto(r, "lookup", "wipe")
                /\ cloning' = [cloning EXCEPT ![k] = r]
                /\ UNCHANGED wait
  /\ UNCHANGED <<now, repos, closed, disk, key, faults, clears, undercut>>

\* awaitClone, once the channel is closed: a cached path is taken as it is.
Awake(r) ==
  LET k == key[r] IN
  /\ wait[r] \in closed
  /\ \/ Cached(k) /\ Goto(r, "waiting", "read")
     \/ FailedRecently(k) /\ Goto(r, "waiting", "cloneError")
     \/ ~Cached(k) /\ ~FailedRecently(k) /\ Goto(r, "waiting", "lookup")
  /\ UNCHANGED <<now, repos, cloning, closed, disk, key, wait, faults, clears, undercut>>

-----------------------------------------------------------------------------
(* cloneAndCache                                                           *)

\* A directory left from an earlier clone is removed.
Wipe(r) ==
  /\ Goto(r, "wipe", "clone")
  /\ disk' = [disk EXCEPT ![key[r]] = "absent"]
  /\ undercut' = undercut \ {key[r]}
  /\ UNCHANGED <<now, repos, cloning, closed, key, wait, faults, clears>>

StartClone(r) ==
  /\ Goto(r, "clone", "cloning")
  /\ disk' = [disk EXCEPT ![key[r]] = "partial"]
  /\ UNCHANGED <<now, repos, cloning, closed, key, wait, faults, clears, undercut>>

\* A clone whose directory was removed under it may still succeed, and then
\* misses the files written before.
CloneSucceeds(r) ==
  /\ Goto(r, "cloning", "publish")
  /\ disk' = [disk EXCEPT ![key[r]] = IF @ = "partial" THEN "whole" ELSE "partial"]
  /\ UNCHANGED <<now, repos, cloning, closed, key, wait, faults, clears, undercut>>

\* The remote, the network, the leader's cancelled request, or a directory
\* that is gone.
CloneFails(r) ==
  /\ Goto(r, "cloning", "cleanup")
  /\ \/ faults > 0 /\ faults' = faults - 1
     \/ disk[key[r]] = "absent" /\ UNCHANGED faults
  /\ UNCHANGED <<now, repos, cloning, closed, disk, key, wait, clears, undercut>>

\* Mutant: a failed clone leaves its directory behind.
CleanupNothing(r) ==
  /\ Goto(r, "cleanup", "publishFailure")
  /\ UNCHANGED <<now, repos, cloning, closed, disk, key, wait, faults, clears, undercut>>

Cleanup(r) ==
  /\ Goto(r, "cleanup", "publishFailure")
  /\ disk' = [disk EXCEPT ![key[r]] = "absent"]
  /\ UNCHANGED <<now, repos, cloning, closed, key, wait, faults, clears, undercut>>

PublishFailure(r) ==
  /\ Goto(r, "publishFailure", "closeFailed")
  /\ repos' = [repos EXCEPT ![key[r]] = [kind |-> "failed", at |-> now + Backoff]]
  /\ cloning' = [cloning EXCEPT ![key[r]] = NoReader]
  /\ UNCHANGED <<now, closed, disk, key, wait, faults, clears, undercut>>

\* evictLocked: the keys to drop from entries es, oldest clone first; a
\* failure has no clonedAt and counts as the oldest.
Present(es)     == {k \in Keys : es[k].kind # "none"}
ClonedAt(es, k) == IF es[k].kind = "cloned" THEN es[k].at ELSE 0

\* Mutant: the entry just published is not counted.
EvictionsLate(es) ==
  LET n == Cardinality(Present(es)) IN
  {E \in SUBSET Present(es) :
     /\ Cardinality(E) = IF n > MaxRepos + 1 THEN n - (MaxRepos + 1) ELSE 0
     /\ \A out \in E, in \in Present(es) \ E : ClonedAt(es, out) <= ClonedAt(es, in)}

Evictions(es) ==
  LET n == Cardinality(Present(es)) IN
  {E \in SUBSET Present(es) :
     /\ Cardinality(E) = IF n > MaxRepos THEN n - MaxRepos ELSE 0
     /\ \A out \in E, in \in Present(es) \ E : ClonedAt(es, out) <= ClonedAt(es, in)}

Publish(r) ==
  LET es == [repos EXCEPT ![key[r]] = [kind |-> "cloned", at |-> now]] IN
  /\ Goto(r, "publish", "close")
  /\ cloning' = [cloning EXCEPT ![key[r]] = NoReader]
  /\ \E E \in Evictions(es) :
       /\ repos' = [k \in Keys |-> IF k \in E THEN NoEntry ELSE es[k]]
       /\ disk' = [k \in Keys |-> IF k \in E /\ es[k].kind = "cloned" THEN "absent" ELSE disk[k]]
       /\ undercut' = undercut \cup {k \in E : es[k].kind = "cloned" /\ cloning'[k] # NoReader}
  /\ UNCHANGED <<now, closed, key, wait, faults, clears>>

\* Mutant: only a success wakes the waiters.
CloseOnSuccess(r) ==
  /\ \/ Goto(r, "close", "read") /\ closed' = closed \cup {r}
     \/ Goto(r, "closeFailed", "cloneError") /\ UNCHANGED closed
  /\ UNCHANGED <<now, repos, cloning, disk, key, wait, faults, clears, undercut>>

\* close(done), after the mutex is released.
Close(r) ==
  /\ Goto(r, "close", "read") \/ Goto(r, "closeFailed", "cloneError")
  /\ closed' = closed \cup {r}
  /\ UNCHANGED <<now, repos, cloning, disk, key, wait, faults, clears, undercut>>

-----------------------------------------------------------------------------
\* os.ReadFile, without the mutex: in a clone under construction the file may
\* be missing or cut short.
Read(r) ==
  /\ \/ disk[key[r]] = "whole" /\ Goto(r, "read", "data")
     \/ disk[key[r]] = "partial" /\ Goto(r, "read", "torn")
     \/ disk[key[r]] # "whole" /\ Goto(r, "read", "readError")
  /\ UNCHANGED <<now, repos, cloning, closed, disk, key, wait, faults, clears, undercut>>

\* Clear drops every entry, ClearRepo one; a clone in progress is not told.
Drop(ks) ==
  /\ clears > 0 /\ clears' = clears - 1
  /\ repos' = [k \in Keys |-> IF k \in ks THEN NoEntry ELSE repos[k]]
  /\ disk' = [k \in Keys |-> IF k \in ks /\ Cached(k) THEN "absent" ELSE disk[k]]
  /\ undercut' = undercut \cup {k \in ks : Cached(k) /\ cloning[k] # NoReader}
  /\ UNCHANGED <<now, cloning, closed, pc, key, wait, faults>>

Clear == Drop(Keys)

ClearRepo(k) == Drop({k})

Tick ==
  /\ now < Horizon
  /\ now' = now + 1
  /\ UNCHANGED <<repos, cloning, closed, disk, pc, key, wait, faults, clears, undercut>>

Step(r) ==
  \/ Lookup(r) \/ Awake(r) \/ Wipe(r) \/ StartClone(r) \/ CloneSucceeds(r) \/ CloneFails(r)
  \/ Cleanup(r) \/ PublishFailure(r) \/ Publish(r) \/ Close(r) \/ Read(r)

Next ==
  \/ \E r \in Readers : Fetch(r) \/ Step(r)
  \/ Clear
  \/ \E k \in Keys : ClearRepo(k)
  \/ Tick

\* A goroutine that can run does run, and a clone ends one way or the other.
Spec == Init /\ [][Next]_vars /\ \A r \in Readers : WF_vars(Step(r))

-----------------------------------------------------------------------------
(* Safety                                                                  *)

\* "deduplicating concurrent clones": no two readers ever work on the
\* directory of one repository, whatever Clear, eviction and expiry do to its
\* entry meanwhile; the second would wipe what the first is writing.
SingleCloner ==
  \A r, s \in Readers :
    (pc[r] \in Leading /\ pc[s] \in Leading /\ key[r] = key[s]) => r = s

\* The disk holds nothing the cache has forgotten: every directory belongs to
\* an entry, which eviction will find, or to a clone under way.
DiskAccounted ==
  \A k \in Keys : disk[k] # "absent" => Cached(k) \/ cloning[k] # NoReader

\* "keeps on disk": the clones the cache keeps never exceed the limit, though
\* entries of failures do (cloneAndCache only evicts after a success).
CacheBounded == Cardinality({k \in Keys : Cached(k)}) <= MaxRepos

(***************************************************************************)
(* Liveness                                                                *)
(***************************************************************************)

\* Every fetch ends, the ones that wait for someone else's clone included,
\* whether that clone succeeds, fails, or is evicted before they wake up.
FetchEnds == \A r \in Readers : pc[r] = "lookup" ~> pc[r] \in Finished

=============================================================================
