------------------------- MODULE FileMutationQueue -------------------------
(***************************************************************************)
(* The write and edit tools under withFileMutationQueue():                 *)
(* packages/wolli/src/core/tools/file-mutation-queue.ts, write.ts and      *)
(* edit.ts.                                                                *)
(*                                                                         *)
(* Tool calls of one response run in parallel.  Each call first registers, *)
(* one at a time, which resolves the path to a key and chains the call     *)
(* behind the previous one with that key; then it waits for its turn and   *)
(* works on the file.  A call checks its abort signal after each await and *)
(* never lets go of its turn while an operation on the file is under way.  *)
(*                                                                         *)
(* The content of a file is the set of calls whose change is in it.  The   *)
(* shell tool, which takes no part in the queue, is not represented.       *)
(***************************************************************************)
EXTENDS Integers, Sequences, FiniteSets, Functions

CONSTANTS
  Writes,    (* calls of the write tool                                    *)
  Edits,     (* calls of the edit tool                                     *)
  Paths,     (* absolute paths                                             *)
  RealPath,  (* the path without symbolic links, for each path             *)
  Existing,  (* the files that exist at first                              *)
  MaxAborts, (* bound on the signals that are aborted                      *)
  None       (* undefined                                                  *)

Calls == Writes \cup Edits

ASSUME PathsAssumption ==
  /\ RealPath \in [Paths -> Paths]
  /\ \A p \in Paths : RealPath[RealPath[p]] = RealPath[p]
  /\ Existing \subseteq Paths
  /\ MaxAborts \in Nat
  /\ None \notin Calls \cup Paths
  /\ \A s \in SUBSET Calls : s # None

VARIABLES
  registrations,  (* the calls in registrationQueue, in order              *)
  queues,         (* fileMutationQueues: the last call for each key        *)
  call,           (* the calls                                             *)
  content,        (* for each file that exists, the changes in it          *)
  registered      (* history: how many calls have registered               *)

vars == <<registrations, queues, call, content, registered>>

\* The awaits of a call.
Working == {"prepare", "read", "write", "fill", "settle"}
PCs == {"new", "register", "wait", "done", "failed"} \cup Working

NewCall == [pc      |-> "new",
            path    |-> None,
            key     |-> None,  \* its key, once registered
            behind  |-> None,  \* the call whose chained promise it awaits
            ticket  |-> 0,     \* history: its number among the registrations
            read    |-> {},    \* the content an edit has read
            aborted |-> FALSE] \* its abort signal

Files == {RealPath[p] : p \in Paths}
FileOf(c) == RealPath[call[c].path]
Exists(f) == content[f] # None

\* The call has its turn and has not let go of it.
Works(c) == call[c].pc \in Working

\* The call has a key.
HasKey(c) == call[c].key # None

\* Mutant: the abort event lets go of the turn at once.
ReleasedOnAbort(c) == HasKey(c) /\ (call[c].pc = "done" \/ call[c].aborted)

\* releaseNext() was called.
Released(c) == HasKey(c) /\ call[c].pc = "done"

TypeOK ==
  /\ registrations \in Seq(Calls)
  /\ queues \in [Paths -> Calls \cup {None}]
  /\ call \in [Calls -> [pc : PCs, path : Paths \cup {None},
                         key : Paths \cup {None}, behind : Calls \cup {None},
                         ticket : Nat, read : SUBSET Calls, aborted : BOOLEAN]]
  /\ content \in [Files -> (SUBSET Calls) \cup {None}]
  /\ registered \in Nat

Init ==
  /\ registrations = <<>>
  /\ queues = [p \in Paths |-> None]
  /\ call = [c \in Calls |-> NewCall]
  /\ content = [f \in Files |-> IF f \in Existing THEN {} ELSE None]
  /\ registered = 0

-----------------------------------------------------------------------------
(***************************************************************************)
(* withFileMutationQueue().                                                *)
(***************************************************************************)

Call(c, p) ==
  /\ call[c].pc = "new"
  /\ call' = [call EXCEPT ![c].pc = "register", ![c].path = p]
  /\ registrations' = Append(registrations, c)
  /\ UNCHANGED <<queues, content, registered>>

\* Mutant: the path is used as it is.
UnresolvedKey(p) == p

\* getMutationQueueKey(): the path as it is when the file is missing.  It is the
\* host that is asked, where the tools also work unless WOLLI_SANDBOX=docker.
Key(p) == IF Exists(RealPath[p]) THEN RealPath[p] ELSE p

\* Mutants: the new call does not wait; it is handed the key.
NoPredecessor(k) == None
PredecessorKey(k) == k

\* currentQueue: the last call so far in the queue of the key k.
Predecessor(k) == queues[k]

\* realpath() of the first registration answers.
Register(c) ==
  /\ call[c].pc = "register"
  /\ registrations # <<>> /\ Head(registrations) = c
  /\ registrations' = Tail(registrations)
  /\ LET k == Key(call[c].path)
     IN /\ call' = [call EXCEPT ![c].pc = "wait", ![c].key = k,
                                ![c].behind = Predecessor(k),
                                ![c].ticket = registered + 1]
        /\ queues' = [queues EXCEPT ![k] = c]
  /\ registered' = registered + 1
  /\ UNCHANGED content

\* Mutant: registrationQueue stays rejected.
RegisterBlocks(c) ==
  /\ call[c].pc = "register"
  /\ registrations # <<>> /\ Head(registrations) = c
  /\ call' = [call EXCEPT ![c].pc = "failed"]
  /\ UNCHANGED <<registrations, queues, content, registered>>

\* realpath() fails with another error than a missing file: the call rejects,
\* the next registration goes on.
RegisterFails(c) ==
  /\ call[c].pc = "register"
  /\ registrations # <<>> /\ Head(registrations) = c
  /\ registrations' = Tail(registrations)
  /\ call' = [call EXCEPT ![c].pc = "failed"]
  /\ UNCHANGED <<queues, content, registered>>

\* The chained promise before c resolves, c has its turn.  A call that is
\* aborted by now throws at its first check.
Start(c) ==
  /\ call[c].pc = "wait"
  /\ \A d \in Calls : call[c].behind = d => Released(d)
  /\ call' = [call EXCEPT ![c].pc = IF call[c].aborted THEN "settle" ELSE "prepare"]
  /\ UNCHANGED <<registrations, queues, content, registered>>

\* Mutant: the entry stays.
NeverDeleted(c) == queues

\* fileMutationQueues without the entry of c, if it still is the last.
Deleted(c) ==
  IF queues[call[c].key] = c THEN [queues EXCEPT ![call[c].key] = None] ELSE queues

\* The tool has returned or thrown: the finally clause.
Settle(c) ==
  /\ call[c].pc = "settle"
  /\ call' = [call EXCEPT ![c].pc = "done"]
  /\ queues' = Deleted(c)
  /\ UNCHANGED <<registrations, content, registered>>

-----------------------------------------------------------------------------
(***************************************************************************)
(* The work of the tools: mkdir and writeFile for a write; access,         *)
(* readFile and writeFile for an edit.  Every operation may fail.          *)
(***************************************************************************)

\* The next await, or the end when the signal is aborted.
Then(c, pc) == IF call[c].aborted THEN "settle" ELSE pc

\* mkdir() or access() answers.
Prepared(c) ==
  /\ call[c].pc = "prepare"
  /\ c \in Edits => Exists(FileOf(c))
  /\ call' = [call EXCEPT ![c].pc =
                Then(c, IF c \in Edits THEN "read" ELSE "write")]
  /\ UNCHANGED <<registrations, queues, content, registered>>

\* readFile() answers; the edits are applied to what was read.
ReadFile(c) ==
  /\ call[c].pc = "read"
  /\ Exists(FileOf(c))
  /\ call' = [call EXCEPT ![c].pc = Then(c, "write"), ![c].read = content[FileOf(c)]]
  /\ UNCHANGED <<registrations, queues, content, registered>>

\* writeFile() creates or truncates the file, ...
Truncate(c) ==
  /\ call[c].pc = "write"
  /\ content' = [content EXCEPT ![FileOf(c)] = {}]
  /\ call' = [call EXCEPT ![c].pc = "fill"]
  /\ UNCHANGED <<registrations, queues, registered>>

\* ... and fills it.
Fill(c) ==
  /\ call[c].pc = "fill"
  /\ content' = [content EXCEPT ![FileOf(c)] = call[c].read \cup {c}]
  /\ call' = [call EXCEPT ![c].pc = "settle"]
  /\ UNCHANGED <<registrations, queues, registered>>

\* An operation fails, a text to replace is not found, or a file to edit is
\* missing.
WorkFails(c) ==
  /\ call[c].pc \in {"prepare", "read", "write", "fill"}
  /\ call' = [call EXCEPT ![c].pc = "settle"]
  /\ UNCHANGED <<registrations, queues, content, registered>>

\* The signal of the run is aborted.
Abort(c) ==
  /\ call[c].pc \notin {"new", "done", "failed"}
  /\ ~call[c].aborted
  /\ Cardinality({d \in Calls : call[d].aborted}) < MaxAborts
  /\ call' = [call EXCEPT ![c].aborted = TRUE]
  /\ UNCHANGED <<registrations, queues, content, registered>>

Step(c) ==
  \/ Register(c) \/ Start(c) \/ Settle(c)
  \/ Prepared(c) \/ ReadFile(c) \/ Truncate(c) \/ Fill(c)

Fails(c) == RegisterFails(c) \/ WorkFails(c)

\* Every call has settled or was never made.
Quiet == \A c \in Calls : call[c].pc \in {"new", "done", "failed"}

Rest == Quiet /\ UNCHANGED vars

Next ==
  \/ \E c \in Calls :
       \/ \E p \in Paths : Call(c, p)
       \/ Step(c) \/ Fails(c) \/ Abort(c)
  \/ Rest

Spec == Init /\ [][Next]_vars

\* Operations on files answer or fail.
Fairness == \A c \in Calls : WF_vars(Step(c) \/ Fails(c))

FairSpec == Spec /\ Fairness

-----------------------------------------------------------------------------
(***************************************************************************)
(* Properties.                                                             *)
(***************************************************************************)

\* "Serialize file mutation operations targeting the same file"
\* (file-mutation-queue.ts:32): two calls never work on one file together, by
\* whatever paths they name it.  It needs AliasesExist, see FileExclusion.
FileExclusion ==
  \A c, d \in Calls : (c # d /\ Works(c) /\ Works(d)) => FileOf(c) # FileOf(d)

\* A path with a symbolic link leads to a file that existed from the start.
AliasesExist == \A p \in Paths : RealPath[p] # p => RealPath[p] \in Existing

\* No update is lost: an edit overwrites what it has read, though other calls
\* registered, failed or were aborted meanwhile (edit.ts:133-146).
EditsAreAtomic ==
  \A c \in Edits : call[c].pc = "write" => content[FileOf(c)] = call[c].read

\* The map does not grow: when all calls have settled no entry is left, also
\* after failures (lines 59-63).
QueuesRemoved == Quiet => \A p \in Paths : queues[p] = None

\* A call that fails, aborts or cannot even register holds up nobody: every
\* call settles.
CallsSettle ==
  \A c \in Calls : call[c].pc = "register" ~> call[c].pc \in {"done", "failed"}

\* The calls with the key k that have not let go, in the order of registration.
Line(k) ==
  LET held == {c \in Calls : call[c].key = k /\ call[c].pc # "done"}
      before(c) == {d \in held : call[d].ticket <= call[c].ticket}
  IN [i \in 1..Cardinality(held) |-> CHOOSE c \in held : Cardinality(before(c)) = i]

\* The chained promises implement a first-come-first-served lock for each key.
Lock == INSTANCE KeyedLock WITH
  Keys <- Paths, Callers <- Calls,
  line <- [k \in Paths |-> Line(k)],
  holding <- {c \in Calls : Works(c)}

FirstComeFirstServed == Lock!Spec

=============================================================================
