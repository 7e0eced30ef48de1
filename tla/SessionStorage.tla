--------------------------- MODULE SessionStorage ---------------------------
(***************************************************************************)
(* The durable session tree:                                               *)
(* packages/agent/src/harness/session/session.ts over jsonl-storage.ts.    *)
(*                                                                         *)
(* A session is one JSONL file of entries, each naming its parent; the     *)
(* last line decides which entry is the leaf.  A storage object keeps the  *)
(* entries and the leaf in memory.  An append computes id and parent from  *)
(* memory, writes the line, and updates memory when the write has          *)
(* succeeded; nothing orders two appends that are under way together.      *)
(* Several objects may serve one file: the resident session, one that is   *)
(* reopened after a restart, and the one renameAgentSession() opens beside *)
(* it (packages/wolli/src/core/session.ts).                                *)
(*                                                                         *)
(* Entry contents are not represented.  Computing id and parent is one     *)
(* step: the two awaits in between are of settled promises.  A crash is    *)
(* one of the process: appendFile() does not fsync, so what a crash of the *)
(* machine leaves of written lines is up to the file system.               *)
(***************************************************************************)
EXTENDS Integers, Sequences, Functions

CONSTANTS
  Appends,     (* calls of appendMessage() and the other append methods    *)
  Moves,       (* calls of moveTo()                                        *)
  Handles,     (* storage objects, each opened once                        *)
  LastWindow,  (* bound on the periods of about 65 s in which the first 8  *)
               (* hexadecimal digits of a UUIDv7 stay the same             *)
  MaxFaults,   (* bound on the writes that fail                            *)
  MaxCrashes,  (* bound on the deaths of the process                       *)
  None         (* null                                                     *)

Calls == Appends \cup Moves

ASSUME ConstantsAssumption ==
  /\ LastWindow \in Nat
  /\ MaxFaults \in Nat
  /\ MaxCrashes \in Nat
  /\ None \notin Handles

VARIABLES
  file,     (* the lines after the header                                  *)
  ended,    (* the file ends with a newline                                *)
  storage,  (* the storage objects                                         *)
  call,     (* the calls of Session                                        *)
  window,   (* the current period, see LastWindow                          *)
  sequence, (* how many ids were not shortened                             *)
  raced,    (* history: two calls overlapped, or one used a stale object   *)
  damaged,  (* history: a write stopped in the middle                      *)
  faults,   (* bound counter, see MaxFaults                                *)
  crashes   (* bound counter, see MaxCrashes                               *)

disk    == <<file, ended, damaged>>
ids     == <<window, sequence>>
bounds  == <<faults, crashes>>
vars    == <<disk, storage, call, ids, raced, bounds>>

\* Ids are the shortened UUID of a period, <<w, 0>>, or a full one, <<w, n>>.
Ids == (0..LastWindow) \X Nat

\* A "leaf" entry redirects the leaf to its target; all others are leaves.
Entries == [id : Ids, parent : Ids \cup {None}, kind : {"entry", "leaf"},
            target : Ids \cup {None}]

\* A line that is not a valid entry.
Garbage == [kind |-> "garbage"]

IdsOf(entries) == {entries[i].id : i \in DOMAIN entries}

LeafIdAfterEntry(e) == IF e.kind = "leaf" THEN e.target ELSE e.id

LeafOf(entries) ==
  IF entries = <<>> THEN None ELSE LeafIdAfterEntry(entries[Len(entries)])

NoEntry == [kind |-> "none"]

InFlight(c) == call[c].pc \in {"writing", "written"}

Open(h) == storage[h].state = "open"

TypeOK ==
  /\ file \in Seq(Entries \cup {Garbage})
  /\ ended \in BOOLEAN
  /\ storage \in [Handles -> [state : {"new", "open", "dead"}, entries : Seq(Entries),
                              leaf : Ids \cup {None}]]
  /\ call \in [Calls -> [pc : {"new", "writing", "written", "done", "failed"},
                         on : Handles \cup {None}, entry : Entries \cup {NoEntry},
                         summary : BOOLEAN]]
  /\ window \in 0..LastWindow
  /\ sequence \in Nat
  /\ raced \in BOOLEAN
  /\ damaged \in BOOLEAN
  /\ faults \in 0..MaxFaults
  /\ crashes \in 0..MaxCrashes

Init ==
  /\ file = <<>>
  /\ ended = TRUE
  /\ storage = [h \in Handles |-> [state |-> "new", entries |-> <<>>, leaf |-> None]]
  /\ call = [c \in Calls |-> [pc |-> "new", on |-> None, entry |-> NoEntry,
                              summary |-> FALSE]]
  /\ window = 0
  /\ sequence = 0
  /\ raced = FALSE
  /\ damaged = FALSE
  /\ faults = 0
  /\ crashes = 0

-----------------------------------------------------------------------------
(***************************************************************************)
(* Opening and appending.                                                  *)
(***************************************************************************)

\* loadJsonlStorage() rejects the file when one of its lines is malformed.
Openable == \A i \in DOMAIN file : file[i] # Garbage

Load(h) ==
  /\ storage[h].state = "new"
  /\ Openable
  /\ storage' = [storage EXCEPT ![h] = [state |-> "open", entries |-> file,
                                        leaf |-> LeafOf(file)]]
  /\ UNCHANGED <<disk, call, ids, raced, bounds>>

\* Mutants: the ids in use are not consulted; the period is rounded up.
ShortId(entries) == <<window, 0>>
RoundedUp(entries) == <<window + 1, 0>>

\* generateEntryId(): the shortened id unless it is in use, then a full one.
NewId(entries) ==
  IF <<window, 0>> \in IdsOf(entries) THEN <<window, sequence + 1>>
                                      ELSE <<window, 0>>

\* The call c begins to write e through h, whose memory is entries.
Writes(c, h, entries, e, summary) ==
  /\ call' = [call EXCEPT ![c] = [pc |-> "writing", on |-> h, entry |-> e,
                                  summary |-> summary]]
  /\ sequence' = IF e.id[2] = 0 THEN sequence ELSE sequence + 1
  /\ raced' = (raced \/ (\E d \in Calls \ {c} : InFlight(d))
                     \/ Len(entries) # Len(file))

\* The append methods: id and parent are fixed before the write.
AppendEntry(c, h) ==
  /\ call[c].pc = "new"
  /\ Open(h)
  /\ storage[h].leaf \in IdsOf(storage[h].entries) \cup {None}
  /\ Writes(c, h, storage[h].entries,
            [id |-> NewId(storage[h].entries), parent |-> storage[h].leaf,
             kind |-> "entry", target |-> None], FALSE)
  /\ UNCHANGED <<disk, storage, window, bounds>>

\* moveTo(): a leaf entry, for some moves followed by a summary.
MoveTo(c, h, target, summary) ==
  /\ call[c].pc = "new"
  /\ Open(h)
  /\ Writes(c, h, storage[h].entries,
            [id |-> NewId(storage[h].entries), parent |-> storage[h].leaf,
             kind |-> "leaf", target |-> target], summary)
  /\ UNCHANGED <<disk, storage, window, bounds>>

\* What a line becomes at the end of the file: it is fused with a last line
\* that has no newline.
Added(line) ==
  IF ended THEN Append(file, line) ELSE [file EXCEPT ![Len(file)] = Garbage]

\* The line of c reaches the file.
WriteLine(c) ==
  /\ call[c].pc = "writing"
  /\ file' = Added(call[c].entry)
  /\ ended' = TRUE
  /\ call' = [call EXCEPT ![c].pc = "written"]
  /\ UNCHANGED <<damaged, storage, ids, raced, bounds>>

\* Mutant: navigation moves the leaf of the file only.
LeafStays(h, e) == IF e.kind = "leaf" THEN storage[h].leaf ELSE e.id

\* The leaf once e is in memory.
LeafWith(h, e) == LeafIdAfterEntry(e)

Remember(h, e) ==
  storage' = [storage EXCEPT ![h].entries = Append(@, e), ![h].leaf = LeafWith(h, e)]

\* Mutant: the write is not awaited.
AcknowledgeEarly(c) ==
  /\ call[c].pc = "writing" /\ ~call[c].summary
  /\ Remember(call[c].on, call[c].entry)
  /\ call' = [call EXCEPT ![c].pc = "done"]
  /\ UNCHANGED <<disk, ids, raced, bounds>>

\* appendFile() resolves and memory follows.  A move with a summary goes on to
\* append that below its target.
Acknowledge(c) ==
  /\ call[c].pc = "written"
  /\ LET h == call[c].on
         e == call[c].entry
         entries == Append(storage[h].entries, e)
     IN /\ Remember(h, e)
        /\ IF call[c].summary
           THEN Writes(c, h, entries,
                       [id |-> NewId(entries), parent |-> e.target,
                        kind |-> "entry", target |-> None], FALSE)
           ELSE /\ call' = [call EXCEPT ![c].pc = "done"]
                /\ UNCHANGED <<sequence, raced>>
  /\ UNCHANGED <<disk, window, bounds>>

\* A write stops before, within or at the end of the line, short of the
\* newline: disk full, or the death of the process.
CutShort(c) ==
  \/ UNCHANGED disk
  \/ /\ \E line \in {Garbage, call[c].entry} : file' = Added(line)
     /\ ended' = FALSE
     /\ damaged' = TRUE

\* Mutant: a failed write is remembered like a successful one.
ForgetNothing(c) == Remember(call[c].on, call[c].entry)

\* The error is thrown before memory is touched.
AppendThrows(c) == UNCHANGED storage

WriteFails(c) ==
  /\ call[c].pc = "writing"
  /\ faults < MaxFaults
  /\ faults' = faults + 1
  /\ CutShort(c)
  /\ AppendThrows(c)
  /\ call' = [call EXCEPT ![c].pc = "failed"]
  /\ UNCHANGED <<ids, raced, crashes>>

\* The process dies, the machine goes on; the calls under way never settle.
Crash ==
  /\ crashes < MaxCrashes
  /\ crashes' = crashes + 1
  /\ storage' = [h \in Handles |->
                   IF Open(h) THEN [storage[h] EXCEPT !.state = "dead"] ELSE storage[h]]
  /\ call' = [c \in Calls |->
                IF InFlight(c) THEN [call[c] EXCEPT !.pc = "failed"] ELSE call[c]]
  /\ \/ UNCHANGED disk
     \/ \E c \in Calls : call[c].pc = "writing" /\ CutShort(c)
  /\ UNCHANGED <<ids, raced, faults>>

\* About 65 s pass.
NextWindow ==
  /\ window < LastWindow
  /\ window' = window + 1
  /\ UNCHANGED <<disk, storage, call, sequence, raced, bounds>>

\* Nobody has a call under way, and nobody calls again.
Rest ==
  /\ \A c \in Calls : ~InFlight(c)
  /\ UNCHANGED vars

Next ==
  \/ \E h \in Handles : Load(h)
  \/ \E c \in Appends, h \in Handles : AppendEntry(c, h)
  \/ \E c \in Moves, h \in Handles, summary \in BOOLEAN :
       \E target \in IdsOf(storage[h].entries) \cup {None} : MoveTo(c, h, target, summary)
  \/ \E c \in Calls : WriteLine(c) \/ Acknowledge(c) \/ WriteFails(c)
  \/ Crash
  \/ NextWindow
  \/ Rest

Spec == Init /\ [][Next]_vars

-----------------------------------------------------------------------------
(***************************************************************************)
(* Properties.                                                             *)
(***************************************************************************)

\* Every parent, redirect target and leaf names an entry that is there.
Linked(entries, leaf) ==
  /\ leaf \in IdsOf(entries) \cup {None}
  /\ \A i \in DOMAIN entries :
       {entries[i].parent, entries[i].target} \subseteq IdsOf(entries) \cup {None}

\* "Entry ... not found" is never thrown by an object in use, nor will it be by the
\* next one that opens the file, whatever overlaps, fails or dies: a call links
\* to what was acknowledged, and what was acknowledged is in the file
\* (jsonl-storage.ts:219-224, 226-229, 275-288).
LinksResolve ==
  /\ \A h \in Handles : Open(h) => Linked(storage[h].entries, storage[h].leaf)
  /\ Openable => Linked(file, LeafOf(file))

\* byId: the last entry with an id hides the earlier ones.
ById(entries, id) ==
  entries[CHOOSE i \in DOMAIN entries :
            /\ entries[i].id = id
            /\ \A j \in DOMAIN entries : j > i => entries[j].id # id]

\* Where the loop of getPathToRoot() is after n rounds.
Ancestor(entries, id) ==
  LET up[n \in 0..Len(entries)] ==
        IF n = 0 THEN id
        ELSE IF up[n - 1] = None THEN None ELSE ById(entries, up[n - 1]).parent
  IN up[Len(entries)]

\* getPathToRoot() ends: the parents never form a cycle, although overlapping
\* calls and stale objects can give one id to two entries.
PathsEnd ==
  /\ \A h \in Handles : Open(h) =>
       \A id \in IdsOf(storage[h].entries) : Ancestor(storage[h].entries, id) = None
  /\ Openable => \A id \in IdsOf(file) : Ancestor(file, id) = None

\* What was acknowledged survives a restart, unless a write stopped in the
\* middle of its line.
AcknowledgedIsDurable ==
  \A c \in Calls : call[c].pc = "done" /\ ~damaged => call[c].entry \in Range(file)

\* "Reopening storage must reconstruct the current leaf from the latest
\* persisted leaf-affecting entry" (packages/agent/docs/agent-harness.md:82):
\* with nothing under way the file says what memory says, as long as the calls
\* were made one after the other through one object at a time.
ReopensAtLeaf ==
  (~raced /\ ~damaged /\ \A c \in Calls : ~InFlight(c)) =>
    \A h \in Handles : (Open(h) /\ \A g \in Handles \ {h} : ~Open(g)) =>
      storage[h].entries = file /\ storage[h].leaf = LeafOf(file)

\* With the same discipline ids are unique.
IdsUnique ==
  (~raced /\ Openable) =>
    \A i, j \in DOMAIN file : file[i].id = file[j].id => i = j

\* "its own writer, so it shares the harness's storage/leaf (no tree fork)"
\* (packages/wolli/src/core/agent-runtime.ts:1673): without navigation each
\* append that one storage object acknowledges continues its branch.
NoFork ==
  [][\A c \in Appends : call[c].pc = "written" /\ call'[c].pc = "done" =>
       call[c].entry.parent = storage[call[c].on].leaf]_vars

=============================================================================
