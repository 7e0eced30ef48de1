-------------------------- MODULE CredentialStore --------------------------
(***************************************************************************)
(* The file of credentials of packages/wolli/src/core/auth-storage.ts and  *)
(* the processes that share it, each with an AuthStorage in memory.        *)
(*                                                                         *)
(* Loading, set() and remove() take the lock synchronously: the process    *)
(* does nothing else meanwhile, others do.  A refresh of an OAuth token    *)
(* keeps the lock across its request to the provider.  A lock that is kept *)
(* that long, or that a dead process has left, may be taken over; the      *)
(* owner notices later, and until then it removes the lock file of whoever *)
(* has it when it lets go.  approval-storage.ts and                        *)
(* integration-account-storage.ts have the synchronous part of this.       *)
(*                                                                         *)
(* One provider has an OAuth token, which is expired at the start.  API    *)
(* keys from other sources and the fallback tier are left out.  The file   *)
(* is no symbolic link: lock() resolves one, lockSync() here does not, and *)
(* the two would lock different files.                                     *)
(***************************************************************************)
EXTENDS Integers, FiniteSets

CONSTANTS
  Stores,      (* the processes, each with one AuthStorage                 *)
  Logins,      (* calls of set()                                           *)
  Logouts,     (* calls of remove()                                        *)
  Refreshes,   (* calls of getApiKey() for the OAuth provider              *)
  StoreOf,     (* the process of each call                                 *)
  Providers,
  OAuth,       (* the provider that has an OAuth token                     *)
  ProviderOf,  (* the provider of each call                                *)
  Expired,     (* the OAuth token at the start                             *)
  None,        (* no credential                                            *)
  Missing,     (* the file is not there                                    *)
  Torn,        (* the file is not JSON: its writer died                    *)
  MaxCrashes   (* bound on the processes that die                          *)

Changes == Logins \cup Logouts
Calls == Changes \cup Refreshes

\* Every process loads the file first; that operation bears its name.
Ops == Stores \cup Calls

Credentials == {Expired, None} \cup Ops
Maps == [Providers -> Credentials]
EmptyMap == [p \in Providers |-> None]

ASSUME ConstantsAssumption ==
  /\ Stores \cap Calls = {} /\ Changes \cap Refreshes = {} /\ Logins \cap Logouts = {}
  /\ StoreOf \in [Calls -> Stores]
  /\ ProviderOf \in [Changes -> Providers]
  /\ OAuth \in Providers
  /\ {Expired, None} \cap Ops = {} /\ Expired # None
  /\ Missing # Torn /\ Missing \notin Maps /\ Torn \notin Maps
  /\ MaxCrashes \in Nat

VARIABLES
  file,       (* its entries, or Missing or Torn                           *)
  lock,       (* the operation that has the lock file, or None             *)
  entry,      (* proper-lockfile's table: for each process the operation   *)
              (* that last took the lock and has not let go, or None       *)
  released,   (* operations whose lock object is marked released           *)
  pc,         (* for each operation where it is                            *)
  copy,       (* for each operation what it has read under the lock        *)
  data,       (* for each process its entries in memory                    *)
  failed,     (* processes with a loadError                                *)
  dead,       (* processes that have died                                  *)
  stolen,     (* refreshes whose lock was taken over                       *)
  noticed,    (* lockCompromised: those that know                          *)
  exchanged,  (* history: refreshes that got a new token                   *)
  broken      (* history: the file was created over another one, written   *)
              (* by a refresh that had lost the lock, or left truncated,   *)
              (* or such a refresh removed the lock of another operation   *)

vars == <<file, lock, entry, released, pc, copy, data, failed, dead, stolen, noticed,
          exchanged, broken>>

Process(op) == IF op \in Stores THEN op ELSE StoreOf[op]

PCs == {"new", "create", "wait", "lock", "locked", "request", "reload", "over"}

TypeOK ==
  /\ file \in Maps \cup {Missing, Torn}
  /\ lock \in Ops \cup {None}
  /\ entry \in [Stores -> Ops \cup {None}]
  /\ released \subseteq Ops
  /\ pc \in [Ops -> PCs]
  /\ copy \in [Ops -> Maps]
  /\ data \in [Stores -> Maps]
  /\ failed \subseteq Stores
  /\ dead \subseteq Stores
  /\ stolen \subseteq Refreshes
  /\ noticed \subseteq Refreshes \cap released
  /\ exchanged \subseteq Refreshes
  /\ broken \in BOOLEAN

Init ==
  /\ file \in {Missing, [EmptyMap EXCEPT ![OAuth] = Expired]}
  /\ lock = None
  /\ entry = [s \in Stores |-> None]
  /\ released = {}
  /\ pc = [op \in Ops |-> "new"]
  /\ copy = [op \in Ops |-> EmptyMap]
  /\ data = [s \in Stores |-> EmptyMap]
  /\ failed = {}
  /\ dead = {}
  /\ stolen = {}
  /\ noticed = {}
  /\ exchanged = {}
  /\ broken = FALSE

\* The process is not stopped in the middle of another operation.
Runs(op) ==
  /\ Process(op) \notin dead
  /\ \A other \in Ops \ {op} :
       Process(other) = Process(op) => pc[other] \notin {"create", "lock", "locked"}

Goto(op, label) == pc' = [pc EXCEPT ![op] = label]

-----------------------------------------------------------------------------
(***************************************************************************)
(* The lock (proper-lockfile).                                             *)
(***************************************************************************)

\* The lock file is not there, or its modification time is old: its process is
\* dead, or it is a refresh, which touches it every 15 s, while the synchronous
\* operations call it stale after 10 s.
Acquirable(op) ==
  lock # None => \/ Process(lock) \in dead
                 \/ op \notin Refreshes /\ pc[lock] = "request"

\* The refresh that loses the lock.
Robbed == IF lock \in Refreshes /\ StoreOf[lock] \notin dead THEN {lock} ELSE {}

\* The lock file is made and the table of the process refers to the operation.
Take(op) ==
  /\ lock' = op
  /\ entry' = [entry EXCEPT ![Process(op)] = op]

\* The lock is taken, and let go of in the same step.
TakeAndRelease(op) ==
  /\ lock' = None
  /\ entry' = [entry EXCEPT ![Process(op)] = None]

\* The lock object of the operation is not marked released, and the table of its
\* process has an entry, whosever it is.
Unlocks(op) == op \notin released /\ entry[Process(op)] # None

\* The lock file is removed, whoever has made it.
Release(op) ==
  IF Unlocks(op)
    THEN /\ lock' = None
         /\ released' = released \cup {entry[Process(op)]}
         /\ entry' = [entry EXCEPT ![Process(op)] = None]
    ELSE UNCHANGED <<lock, entry, released>>

\* The lock file that is removed belongs to another operation, which is alive.
Breaks(op) == Unlocks(op) /\ lock \notin {None, op} /\ Process(lock) \notin dead

\* onCompromised: the update of the lock file finds none, or that of another one.
Notice(r) ==
  /\ pc[r] = "request"
  /\ r \notin released
  /\ lock # r
  /\ Runs(r)
  /\ noticed' = noticed \cup {r}
  /\ released' = released \cup {r}
  /\ entry' = [entry EXCEPT ![StoreOf[r]] = IF @ = r THEN None ELSE @]
  /\ UNCHANGED <<file, lock, pc, copy, data, failed, dead, stolen, exchanged, broken>>

-----------------------------------------------------------------------------
(***************************************************************************)
(* The synchronous operations: reload(), set() and remove().               *)
(***************************************************************************)

\* ensureFileExists(): looks for the file, before the lock is taken.
EnsureFile(op, next) == Goto(op, IF file = Missing THEN "create" ELSE next)

StartLoad(s) ==
  /\ pc[s] = "new"
  /\ s \notin dead
  /\ EnsureFile(s, "lock")
  /\ UNCHANGED <<file, lock, entry, released, copy, data, failed, dead, stolen, noticed,
                 exchanged, broken>>

NewValue(c) == IF c \in Logouts THEN None ELSE c

\* The change is made in memory first; nothing is written after a failed load.
StartChange(c) ==
  LET s == StoreOf[c]
  IN /\ pc[c] = "new" /\ pc[s] = "over"
     /\ Runs(c)
     /\ data' = [data EXCEPT ![s][ProviderOf[c]] = NewValue(c)]
     /\ IF s \in failed THEN Goto(c, "over") ELSE EnsureFile(c, "lock")
     /\ UNCHANGED <<file, lock, entry, released, copy, failed, dead, stolen, noticed,
                    exchanged, broken>>

\* The file is written, though it may be there by now.
Create(op) ==
  /\ pc[op] = "create"
  /\ Runs(op)
  /\ file' = EmptyMap
  /\ broken' = (broken \/ file # Missing)
  /\ Goto(op, IF op \in Refreshes THEN "wait" ELSE "lock")
  /\ UNCHANGED <<lock, entry, released, copy, data, failed, dead, stolen, noticed, exchanged>>

Contents == IF file = Missing THEN EmptyMap ELSE file

\* The entries in memory are those of the file, or the load has failed.
ReadInto(s) ==
  IF file = Torn
    THEN failed' = failed \cup {s} /\ UNCHANGED data
    ELSE failed' = failed \ {s} /\ data' = [data EXCEPT ![s] = Contents]

Reload(s) ==
  \/ /\ Acquirable(s)
     /\ ReadInto(s)
     /\ TakeAndRelease(s)
     /\ stolen' = stolen \cup Robbed
  \/ /\ lock # None
     /\ failed' = failed \cup {s}
     /\ UNCHANGED <<data, lock, entry, stolen>>

Load(s) ==
  /\ pc[s] = "lock"
  /\ s \notin dead
  /\ Reload(s)
  /\ Goto(s, "over")
  /\ UNCHANGED <<file, released, copy, dead, noticed, exchanged, broken>>

\* The file is read under the lock; one that is not JSON is left alone.
LockChange(c) ==
  /\ pc[c] = "lock"
  /\ Runs(c)
  /\ Acquirable(c)
  /\ stolen' = stolen \cup Robbed
  /\ IF file = Torn
       THEN TakeAndRelease(c) /\ Goto(c, "over") /\ UNCHANGED copy
       ELSE Take(c) /\ Goto(c, "locked") /\ copy' = [copy EXCEPT ![c] = Contents]
  /\ UNCHANGED <<file, released, data, failed, dead, noticed, exchanged, broken>>

\* The lock is held through all ten attempts: the change stays in memory.
GiveUp(c) ==
  /\ pc[c] = "lock"
  /\ Runs(c)
  /\ lock # None
  /\ Goto(c, "over")
  /\ UNCHANGED <<file, lock, entry, released, copy, data, failed, dead, stolen, noticed,
                 exchanged, broken>>

\* Mutant: the entries in memory are written.
MergedFromMemory(c) == [data[StoreOf[c]] EXCEPT ![ProviderOf[c]] = NewValue(c)]

\* What was read under the lock, with the one change.
Merged(c) == [copy[c] EXCEPT ![ProviderOf[c]] = NewValue(c)]

Write(c) ==
  /\ pc[c] = "locked"
  /\ Runs(c)
  /\ file' = Merged(c)
  /\ Release(c)
  /\ Goto(c, "over")
  /\ UNCHANGED <<copy, data, failed, dead, stolen, noticed, exchanged, broken>>

-----------------------------------------------------------------------------
(***************************************************************************)
(* getApiKey() and refreshOAuthTokenWithLock().                            *)
(***************************************************************************)

\* The token in memory is expired, or there is nothing to do.
StartRefresh(r) ==
  LET s == StoreOf[r]
  IN /\ pc[r] = "new" /\ pc[s] = "over"
     /\ Runs(r)
     /\ IF data[s][OAuth] = Expired THEN EnsureFile(r, "wait") ELSE Goto(r, "over")
     /\ UNCHANGED <<file, lock, entry, released, copy, data, failed, dead, stolen, noticed,
                    exchanged, broken>>

\* Mutant: the token is refreshed because the one in memory was expired.
AlwaysNeeded(r) == TRUE

\* The token in the file is still expired: nobody else has refreshed it.
Needed(r) == Contents[OAuth] = Expired

\* The lock is acquired and the file read; it may be that no request is needed.
LockRefresh(r) ==
  LET s == StoreOf[r]
  IN /\ pc[r] = "wait"
     /\ Runs(r)
     /\ Acquirable(r)
     /\ \/ /\ file = Torn
           /\ TakeAndRelease(r)
           /\ Goto(r, "reload")
           /\ UNCHANGED <<copy, data, failed>>
        \/ /\ file # Torn
           /\ data' = [data EXCEPT ![s] = Contents]
           /\ failed' = failed \ {s}
           /\ IF Needed(r)
                THEN Take(r) /\ Goto(r, "request") /\ copy' = [copy EXCEPT ![r] = Contents]
                ELSE TakeAndRelease(r) /\ Goto(r, "over") /\ UNCHANGED copy
     /\ UNCHANGED <<file, released, dead, stolen, noticed, exchanged, broken>>

\* The lock is held through all retries.
WaitFails(r) ==
  /\ pc[r] = "wait"
  /\ Runs(r)
  /\ lock # None
  /\ Goto(r, "reload")
  /\ UNCHANGED <<file, lock, entry, released, copy, data, failed, dead, stolen, noticed,
                 exchanged, broken>>

\* The provider has sent a new token: it is in memory, and in the file unless
\* the lock is known to be lost.
Respond(r) ==
  LET s == StoreOf[r]
      merged == [copy[r] EXCEPT ![OAuth] = r]
  IN /\ pc[r] = "request"
     /\ Runs(r)
     /\ exchanged' = exchanged \cup {r}
     /\ data' = [data EXCEPT ![s] = merged]
     /\ failed' = failed \ {s}
     /\ IF r \in noticed
          THEN Goto(r, "reload") /\ UNCHANGED file
          ELSE /\ file' = merged
               /\ Goto(r, "over")
     /\ Release(r)
     /\ broken' = (broken \/ (r \in stolen /\ r \notin noticed) \/ Breaks(r))
     /\ UNCHANGED <<copy, dead, stolen, noticed>>

\* Mutant: only a refresh that succeeds lets go of the lock.
KeepLock(r) == UNCHANGED <<lock, entry, released>>

\* finally: the lock is let go of.
LetGo(r) == Release(r)

\* The request to the provider fails.
RequestFails(r) ==
  /\ pc[r] = "request"
  /\ Runs(r)
  /\ LetGo(r)
  /\ broken' = (broken \/ Breaks(r))
  /\ Goto(r, "reload")
  /\ UNCHANGED <<file, copy, data, failed, dead, stolen, noticed, exchanged>>

\* A refresh that failed looks whether somebody else succeeded.
ReloadAfter(r) ==
  /\ pc[r] = "reload"
  /\ Runs(r)
  /\ Reload(StoreOf[r])
  /\ Goto(r, "over")
  /\ UNCHANGED <<file, released, copy, dead, noticed, exchanged, broken>>

-----------------------------------------------------------------------------
\* A process dies; the write it is in the middle of is cut short, or leaves the
\* file truncated: that is read like an empty map.
Crash(s) ==
  /\ s \notin dead
  /\ Cardinality(dead) < MaxCrashes
  /\ dead' = dead \cup {s}
  /\ \/ UNCHANGED <<file, broken>>
     \/ \E op \in Calls :
          /\ StoreOf[op] = s
          /\ pc[op] = "locked" \/ (pc[op] = "request" /\ op \notin noticed)
          /\ file' \in {Torn, EmptyMap}
          /\ broken' = (broken \/ op \in stolen \/ file' = EmptyMap)
  /\ UNCHANGED <<lock, entry, released, pc, copy, data, failed, stolen, noticed, exchanged>>

Step(op) ==
  \/ op \in Stores /\ (StartLoad(op) \/ Load(op))
  \/ op \in Changes /\ (StartChange(op) \/ LockChange(op) \/ GiveUp(op) \/ Write(op))
  \/ op \in Refreshes /\ (\/ StartRefresh(op) \/ LockRefresh(op) \/ WaitFails(op)
                          \/ Respond(op) \/ RequestFails(op) \/ ReloadAfter(op))
  \/ Create(op)

Next ==
  \/ \E op \in Ops : Step(op)
  \/ \E r \in Refreshes : Notice(r)
  \/ \E s \in Stores : Crash(s)

Spec == Init /\ [][Next]_vars

\* A process goes on with what it has begun, until it dies; a request to a
\* provider is answered or fails.
FairSpec == Spec /\ \A op \in Ops : WF_vars(Step(op))

-----------------------------------------------------------------------------
Contract == INSTANCE AtomicMap WITH
  Keys <- Providers, Values <- Credentials, NoValue <- None, map <- file

\* Whatever processes load, change and refresh at the same time, the file
\* changes in one provider at a time and is never emptied, and a file that is
\* not JSON is left for the user to repair.  That is promised until a file is
\* created over another one, a refresh that has not noticed that its lock was taken
\* writes, or removes the lock file of an operation that has it now, or a crash
\* leaves the file truncated.
FileIsAtomicMap == Contract!Spec

\* An expired token is exchanged by one refresh only, though several processes
\* and calls find it expired ("Multiple instances may try to refresh
\* simultaneously when tokens expire").
RefreshesOnce ==
  (stolen = {} /\ dead = {} /\ ~broken) => Cardinality(exchanged) <= 1

\* Nobody alive keeps the lock for ever, on no path through failed requests,
\* files that do not parse and locks that were lost.
LockIsLetGo ==
  \A op \in Ops : lock = op ~> (lock # op \/ Process(op) \in dead)

=============================================================================
