----------------------- MODULE SessionStorage_proofs -----------------------
(***************************************************************************)
(* Proofs about SessionStorage for any number of calls, storage objects,   *)
(* failing writes and crashes: type correctness, that every link resolves, *)
(* that what was acknowledged is in the file; and for calls that follow    *)
(* one another, that ids are unique and that the file says what the memory *)
(* says.  And that every path to the root ends: the ids of parents descend *)
(* in an order that holds although overlapping calls give ids twice.       *)
(*                                                                         *)
(* The argument for the links: what an object has in memory was in the     *)
(* file before, and stays there as long as the file can be opened at all;  *)
(* a call under way links to what its object has in memory, and objects    *)
(* only ever learn entries; so the line it adds links to lines before it.  *)
(***************************************************************************)
EXTENDS SessionStorage, FiniteSetTheorems, WellFoundedInduction, TLAPS

\* The entry e links to entries.
LinksTo(e, entries) == {e.parent, e.target} \subseteq IdsOf(entries) \cup {None}

\* An object in use is linked, and what it knows is in the file.
ObjectKnows(h) ==
  /\ Linked(storage[h].entries, storage[h].leaf)
  /\ Openable => IdsOf(storage[h].entries) \subseteq IdsOf(file)

ObjectsKnow == \A h \in Handles : Open(h) => ObjectKnows(h)

\* A call under way goes through an object in use and links to what that
\* knows; from the end of its write on its line is in the file.
CallLinks(c) ==
  /\ call[c].on \in Handles /\ Open(call[c].on)
  /\ call[c].entry \in Entries
  /\ LinksTo(call[c].entry, storage[call[c].on].entries)
  /\ call[c].pc = "written" /\ Openable => call[c].entry.id \in IdsOf(file)

CallsLink == \A c \in Calls : InFlight(c) => CallLinks(c)

FileLinked == Openable => Linked(file, LeafOf(file))

\* Only a line that was cut short leaves the file without a newline.
FileEnds == ended \/ (damaged /\ file # <<>>)

LinkInv == TypeOK /\ ObjectsKnow /\ CallsLink /\ FileLinked /\ FileEnds

-----------------------------------------------------------------------------
(***************************************************************************)
(* The helpers.                                                            *)
(***************************************************************************)

LEMMA IdsOfAppend ==
  ASSUME NEW entries \in Seq(Entries), NEW e \in Entries
  PROVE  IdsOf(Append(entries, e)) = IdsOf(entries) \cup {e.id}
  <1> DEFINE s == Append(entries, e)
  <1>1. Len(s) = Len(entries) + 1 /\ DOMAIN s = 1..Len(entries) + 1
          /\ DOMAIN entries = 1..Len(entries) /\ Len(entries) \in Nat
    OBVIOUS
  <1>2. s[Len(entries) + 1] = e /\ \A i \in 1..Len(entries) : s[i] = entries[i]
    OBVIOUS
  <1> HIDE DEF s
  <1>3. IdsOf(s) \subseteq IdsOf(entries) \cup {e.id} BY <1>1, <1>2 DEF IdsOf
  <1>4. IdsOf(entries) \subseteq IdsOf(s) BY <1>1, <1>2 DEF IdsOf
  <1>5. e.id \in IdsOf(s) BY <1>1, <1>2 DEF IdsOf
  <1> QED BY <1>3, <1>4, <1>5 DEF s

\* An entry that links to the ones before it keeps them linked.
LEMMA LinkedAppend ==
  ASSUME NEW entries \in Seq(Entries), NEW e \in Entries, NEW leaf,
         Linked(entries, leaf), LinksTo(e, entries)
  PROVE  Linked(Append(entries, e), LeafIdAfterEntry(e))
  <1> DEFINE s == Append(entries, e)
  <1>1. IdsOf(s) = IdsOf(entries) \cup {e.id} BY IdsOfAppend
  <1>2. DOMAIN s = 1..Len(entries) + 1 /\ DOMAIN entries = 1..Len(entries)
          /\ Len(entries) \in Nat
    OBVIOUS
  <1>3. s[Len(entries) + 1] = e /\ \A i \in 1..Len(entries) : s[i] = entries[i]
    OBVIOUS
  <1> HIDE DEF s
  <1>4. LeafIdAfterEntry(e) \in IdsOf(s) \cup {None}
    BY <1>1 DEF LeafIdAfterEntry, LinksTo
  <1>5. ASSUME NEW i \in DOMAIN s
        PROVE  {s[i].parent, s[i].target} \subseteq IdsOf(s) \cup {None}
    <2>1. CASE i = Len(entries) + 1 BY <1>1, <1>3, <2>1 DEF LinksTo
    <2>2. CASE i \in DOMAIN entries BY <1>1, <1>2, <1>3, <2>2 DEF Linked
    <2> QED BY <1>2, <1>5, <2>1, <2>2
  <1> QED BY <1>4, <1>5 DEF Linked, s

LEMMA LeafOfAppend ==
  ASSUME NEW entries \in Seq(Entries), NEW e \in Entries
  PROVE  LeafOf(Append(entries, e)) = LeafIdAfterEntry(e)
  BY DEF LeafOf

LEMMA OpenableType ==
  ASSUME TypeOK, Openable
  PROVE  file \in Seq(Entries)
  <1>1. file \in Seq(Entries \cup {Garbage}) BY DEF TypeOK
  <1>2. \A i \in 1..Len(file) : file[i] \in Entries BY <1>1 DEF Openable
  <1> QED BY <1>1, <1>2

LEMMA LeafIdType ==
  ASSUME NEW e \in Entries
  PROVE  LeafIdAfterEntry(e) \in Ids \cup {None}
  BY DEF LeafIdAfterEntry, Entries

\* What a line added to the file makes of it: nothing that can be opened, or
\* the file that could be opened before with one entry more.
LEMMA AddedLine ==
  ASSUME TypeOK, FileEnds, NEW line \in Entries \cup {Garbage}
  PROVE  /\ Added(line) \in Seq(Entries \cup {Garbage}) /\ Added(line) # <<>>
         /\ (\A i \in DOMAIN Added(line) : Added(line)[i] # Garbage)
              => Openable /\ line \in Entries /\ Added(line) = Append(file, line)
  <1>1. file \in Seq(Entries \cup {Garbage}) BY DEF TypeOK
  <1>2. CASE ended
    <2>1. Added(line) = Append(file, line) BY <1>2 DEF Added
    <2>2. /\ DOMAIN Append(file, line) = 1..Len(file) + 1
          /\ DOMAIN file = 1..Len(file) /\ Len(file) \in Nat
          /\ Append(file, line)[Len(file) + 1] = line
          /\ \A i \in 1..Len(file) : Append(file, line)[i] = file[i]
      BY <1>1
    <2>3. Append(file, line) \in Seq(Entries \cup {Garbage}) BY <1>1
    <2>5. Append(file, line) # <<>>
      <3>1. Len(Append(file, line)) = Len(file) + 1 /\ Len(file) \in Nat BY <1>1
      <3>2. Len(<<>>) = 0 OBVIOUS
      <3> QED BY <3>1, <3>2
    <2>4. ASSUME \A i \in DOMAIN Append(file, line) : Append(file, line)[i] # Garbage
          PROVE  Openable /\ line \in Entries
      <3>1. line # Garbage BY <1>1, <2>2, <2>4
      <3>2. \A i \in DOMAIN file : file[i] # Garbage BY <2>2, <2>4
      <3> QED BY <3>1, <3>2 DEF Openable
    <2> QED BY <2>1, <2>3, <2>4, <2>5
  <1>3. CASE ~ended
    <2> DEFINE cut == [file EXCEPT ![Len(file)] = Garbage]
    <2>1. Added(line) = cut BY <1>3 DEF Added
    <2>2. Len(file) \in 1..Len(file) BY <1>1, <1>3 DEF FileEnds
    <2>3. cut \in Seq(Entries \cup {Garbage}) BY <1>1, <2>2
    <2>4. DOMAIN cut = 1..Len(file) /\ Len(cut) = Len(file) BY <1>1
    <2>5. cut[Len(file)] = Garbage BY <1>1, <2>2
    <2> HIDE DEF cut
    <2>6. cut # <<>> BY <2>2, <2>4
    <2> QED BY <2>1, <2>2, <2>3, <2>4, <2>5, <2>6
  <1> QED BY <1>2, <1>3

\* The file after a write of c, whole or cut short or not begun, is either
\* beyond opening or linked, and has lost no entry.
LEMMA FileAfterWrite ==
  ASSUME LinkInv, NEW c \in Calls, call[c].pc = "writing",
         \/ file' = file
         \/ \E line \in {Garbage, call[c].entry} : file' = Added(line)
  PROVE  /\ file' \in Seq(Entries \cup {Garbage})
         /\ file' = file \/ file' # <<>>
         /\ Openable' => Openable /\ IdsOf(file) \subseteq IdsOf(file')
         /\ FileLinked'
  <1> DEFINE e == call[c].entry
             h == call[c].on
  <1>1. CallLinks(c) BY DEF LinkInv, CallsLink, InFlight
  <1>2. e \in Entries /\ h \in Handles /\ Open(h) BY <1>1 DEF CallLinks
  <1>3. CASE file' = file
    BY <1>3 DEF LinkInv, TypeOK, FileLinked, Openable
  <1>4. ASSUME NEW line \in {Garbage, e}, file' = Added(line)
        PROVE  /\ file' \in Seq(Entries \cup {Garbage}) /\ file' # <<>>
               /\ Openable' => Openable /\ IdsOf(file) \subseteq IdsOf(file')
               /\ FileLinked'
    <2>1. line \in Entries \cup {Garbage} BY <1>2
    <2>2. /\ file' \in Seq(Entries \cup {Garbage}) /\ file' # <<>>
          /\ Openable' => Openable /\ line \in Entries /\ file' = Append(file, line)
      BY <1>4, <2>1, AddedLine DEF LinkInv, Openable
    <2>3. ASSUME Openable'
          PROVE  Openable /\ IdsOf(file) \subseteq IdsOf(file') /\ Linked(file', LeafOf(file'))
      <3>1. Openable /\ line \in Entries /\ file' = Append(file, line) BY <2>2, <2>3
      <3>2. line = e
        <4>1. file'[Len(file) + 1] = line /\ Len(file) + 1 \in DOMAIN file'
          BY <3>1, OpenableType DEF LinkInv
        <4> QED BY <1>4, <2>3, <4>1 DEF Openable
      <3>3. file \in Seq(Entries) BY <3>1, OpenableType DEF LinkInv
      <3>4. IdsOf(storage[h].entries) \subseteq IdsOf(file)
        BY <1>2, <3>1 DEF LinkInv, ObjectsKnow, ObjectKnows
      <3>5. LinksTo(e, file) BY <1>1, <3>4 DEF CallLinks, LinksTo
      <3>6. Linked(file, LeafOf(file)) BY <3>1 DEF LinkInv, FileLinked
      <3>7. Linked(Append(file, e), LeafIdAfterEntry(e))
        BY <1>2, <3>3, <3>5, <3>6, LinkedAppend
      <3>8. IdsOf(file') = IdsOf(file) \cup {e.id}
        BY <1>2, <3>1, <3>2, <3>3, IdsOfAppend
      <3> QED BY <1>2, <3>1, <3>2, <3>3, <3>7, <3>8, LeafOfAppend
    <2> QED BY <2>2, <2>3 DEF FileLinked
  <1> QED BY <1>3, <1>4

LEMMA NewIdType ==
  ASSUME TypeOK, NEW entries
  PROVE  NewId(entries) \in Ids
  BY DEF NewId, TypeOK, Ids

-----------------------------------------------------------------------------
(***************************************************************************)
(* The actions.                                                            *)
(***************************************************************************)

CallRecords == [pc : {"new", "writing", "written", "done", "failed"},
                on : Handles \cup {None}, entry : Entries \cup {NoEntry},
                summary : BOOLEAN]

StorageRecords == [state : {"new", "open", "dead"}, entries : Seq(Entries),
                   leaf : Ids \cup {None}]

LEMMA LoadLinks ==
  ASSUME LinkInv, NEW h \in Handles, Load(h)
  PROVE  LinkInv'
  <1> DEFINE rec == [state |-> "open", entries |-> file, leaf |-> LeafOf(file)]
  <1>1. file \in Seq(Entries) BY OpenableType DEF LinkInv, Load
  <1>2. LeafOf(file) \in Ids \cup {None}
    <2>1. CASE file = <<>> BY <2>1 DEF LeafOf
    <2>2. CASE file # <<>>
      <3>1. file[Len(file)] \in Entries BY <1>1, <2>2
      <3> QED BY <2>2, <3>1, LeafIdType DEF LeafOf
    <2> QED BY <2>1, <2>2
  <1>3. rec \in StorageRecords BY <1>1, <1>2 DEF StorageRecords
  <1>4. storage \in [Handles -> StorageRecords] /\ storage' = [storage EXCEPT ![h] = rec]
    BY DEF LinkInv, TypeOK, Load, StorageRecords
  <1>5. rec.state = "open" /\ rec.entries = file /\ rec.leaf = LeafOf(file) OBVIOUS
  <1> HIDE DEF rec
  <1>6. storage' \in [Handles -> StorageRecords] BY <1>3, <1>4
  <1>7. storage'[h] = rec /\ \A g \in Handles \ {h} : storage'[g] = storage[g] BY <1>4
  <1>8. UNCHANGED <<disk, call, ids, raced, bounds>> BY DEF Load
  <1>9. TypeOK' BY <1>6, <1>8 DEF LinkInv, TypeOK, disk, ids, bounds, StorageRecords
  <1>10. Openable' <=> Openable BY <1>8 DEF Openable, disk
  <1>11. ObjectsKnow'
    <2>1. ASSUME NEW g \in Handles, Open(g)' PROVE ObjectKnows(g)'
      <3>1. CASE g = h
        <4>1. Linked(file, LeafOf(file)) BY DEF LinkInv, FileLinked, Load
        <4> QED BY <1>5, <1>7, <1>8, <3>1, <4>1 DEF ObjectKnows, disk
      <3>2. CASE g # h
        BY <1>7, <1>8, <1>10, <2>1, <3>2 DEF LinkInv, ObjectsKnow, ObjectKnows, Open, disk
      <3> QED BY <3>1, <3>2
    <2> QED BY <2>1 DEF ObjectsKnow
  <1>12. CallsLink'
    <2>1. ASSUME NEW c \in Calls, InFlight(c)' PROVE CallLinks(c)'
      <3>1. CallLinks(c) BY <1>8, <2>1 DEF LinkInv, CallsLink, InFlight
      <3>2. call[c].on # h BY <3>1 DEF CallLinks, Open, Load
      <3> QED BY <1>7, <1>8, <1>10, <3>1, <3>2 DEF CallLinks, Open, disk
    <2> QED BY <2>1 DEF CallsLink
  <1>13. FileLinked' /\ FileEnds' BY <1>8, <1>10 DEF LinkInv, FileLinked, FileEnds, disk
  <1> QED BY <1>9, <1>11, <1>12, <1>13 DEF LinkInv

\* A call that begins or goes on to write an entry linked to its object.
LEMMA WritesLinks ==
  ASSUME LinkInv, NEW c \in Calls, NEW h \in Handles, NEW entries,
         NEW e \in Entries, NEW summary \in BOOLEAN, Writes(c, h, entries, e, summary)
  PROVE  /\ call' \in [Calls -> CallRecords] /\ sequence' \in Nat /\ raced' \in BOOLEAN
         /\ call'[c].pc = "writing" /\ call'[c].on = h /\ call'[c].entry = e
         /\ \A d \in Calls \ {c} : call'[d] = call[d]
  <1> DEFINE rec == [pc |-> "writing", on |-> h, entry |-> e, summary |-> summary]
  <1>1. rec \in CallRecords BY DEF CallRecords
  <1>2. call \in [Calls -> CallRecords] BY DEF LinkInv, TypeOK, CallRecords
  <1>3. call' = [call EXCEPT ![c] = rec] BY DEF Writes
  <1>4. rec.pc = "writing" /\ rec.on = h /\ rec.entry = e OBVIOUS
  <1> HIDE DEF rec
  <1>5. sequence' \in Nat /\ raced' \in BOOLEAN BY DEF LinkInv, TypeOK, Writes
  <1> QED BY <1>1, <1>2, <1>3, <1>4, <1>5

LEMMA BeginLinks ==
  ASSUME LinkInv, NEW c \in Calls, NEW h \in Handles, Open(h),
         NEW e \in Entries, LinksTo(e, storage[h].entries), NEW summary \in BOOLEAN,
         Writes(c, h, storage[h].entries, e, summary),
         UNCHANGED <<disk, storage, window, bounds>>
  PROVE  LinkInv'
  <1>1. /\ call' \in [Calls -> CallRecords] /\ sequence' \in Nat /\ raced' \in BOOLEAN
        /\ call'[c].pc = "writing" /\ call'[c].on = h /\ call'[c].entry = e
        /\ \A d \in Calls \ {c} : call'[d] = call[d]
    BY WritesLinks
  <1>2. TypeOK' BY <1>1 DEF LinkInv, TypeOK, disk, bounds, CallRecords
  <1>3. (Openable' <=> Openable) /\ (\A g \in Handles : Open(g)' <=> Open(g))
    BY DEF Openable, Open, disk
  <1>4. ObjectsKnow' BY <1>3 DEF LinkInv, ObjectsKnow, ObjectKnows, disk
  <1>5. CallsLink'
    <2>1. ASSUME NEW d \in Calls, InFlight(d)' PROVE CallLinks(d)'
      <3>1. CASE d = c BY <1>1, <1>3, <3>1 DEF CallLinks, LinksTo
      <3>2. CASE d # c
        <4>1. CallLinks(d) BY <1>1, <2>1, <3>2 DEF LinkInv, CallsLink, InFlight
        <4> QED BY <1>1, <1>3, <3>2, <4>1 DEF CallLinks, disk
      <3> QED BY <3>1, <3>2
    <2> QED BY <2>1 DEF CallsLink
  <1>6. FileLinked' /\ FileEnds' BY <1>3 DEF LinkInv, FileLinked, FileEnds, disk
  <1> QED BY <1>2, <1>4, <1>5, <1>6 DEF LinkInv

LEMMA ObjectType ==
  ASSUME LinkInv, NEW h \in Handles
  PROVE  /\ storage[h].entries \in Seq(Entries) /\ storage[h].leaf \in Ids \cup {None}
         /\ IdsOf(storage[h].entries) \subseteq Ids
  <1>1. storage[h] \in StorageRecords BY DEF LinkInv, TypeOK, StorageRecords
  <1>2. storage[h].entries \in Seq(Entries) /\ storage[h].leaf \in Ids \cup {None}
    BY <1>1 DEF StorageRecords
  <1>3. \A i \in DOMAIN storage[h].entries : storage[h].entries[i] \in Entries BY <1>2
  <1>4. \A e \in Entries : e.id \in Ids BY DEF Entries
  <1> QED BY <1>2, <1>3, <1>4 DEF IdsOf

LEMMA AppendEntryLinks ==
  ASSUME LinkInv, NEW c \in Appends, NEW h \in Handles, AppendEntry(c, h)
  PROVE  LinkInv'
  <1> DEFINE entries == storage[h].entries
             e == [id |-> NewId(entries), parent |-> storage[h].leaf,
                   kind |-> "entry", target |-> None]
  <1>1. NewId(entries) \in Ids BY NewIdType DEF LinkInv
  <1>2. e \in Entries BY <1>1, ObjectType DEF Entries
  <1>3. LinksTo(e, entries) BY DEF LinksTo, AppendEntry
  <1>4. Writes(c, h, entries, e, FALSE) /\ Open(h) BY DEF AppendEntry
  <1>5. UNCHANGED <<disk, storage, window, bounds>> BY DEF AppendEntry
  <1>6. c \in Calls BY DEF Calls
  <1> HIDE DEF e
  <1> QED BY <1>2, <1>3, <1>4, <1>5, <1>6, BeginLinks

LEMMA MoveToLinks ==
  ASSUME LinkInv, NEW c \in Moves, NEW h \in Handles, NEW summary \in BOOLEAN,
         NEW target \in IdsOf(storage[h].entries) \cup {None},
         MoveTo(c, h, target, summary)
  PROVE  LinkInv'
  <1> DEFINE entries == storage[h].entries
             e == [id |-> NewId(entries), parent |-> storage[h].leaf,
                   kind |-> "leaf", target |-> target]
  <1>1. NewId(entries) \in Ids BY NewIdType DEF LinkInv
  <1>2. target \in Ids \cup {None} BY ObjectType
  <1>3. e \in Entries BY <1>1, <1>2, ObjectType DEF Entries
  <1>4. Open(h) /\ Writes(c, h, entries, e, summary) BY DEF MoveTo
  <1>5. LinksTo(e, entries)
    BY <1>4 DEF LinkInv, ObjectsKnow, ObjectKnows, Linked, LinksTo
  <1>6. UNCHANGED <<disk, storage, window, bounds>> BY DEF MoveTo
  <1>7. c \in Calls BY DEF Calls
  <1> HIDE DEF e
  <1> QED BY <1>3, <1>4, <1>5, <1>6, <1>7, BeginLinks

\* What objects and calls know is kept by a step that leaves the objects alone,
\* adds to the file at most, and begins or ends no write but that of c.
LEMMA FileStep ==
  ASSUME LinkInv, NEW c \in Calls, call[c].pc = "writing",
         \/ file' = file
         \/ \E line \in {Garbage, call[c].entry} : file' = Added(line),
         UNCHANGED storage,
         NEW pc \in {"written", "failed"}, call' = [call EXCEPT ![c].pc = pc],
         pc = "written" /\ Openable' => call[c].entry.id \in IdsOf(file')
  PROVE  /\ call' \in [Calls -> CallRecords]
         /\ ObjectsKnow' /\ CallsLink'
  <1>1. Openable' => Openable /\ IdsOf(file) \subseteq IdsOf(file') BY FileAfterWrite
  <1>2. call \in [Calls -> CallRecords] BY DEF LinkInv, TypeOK, CallRecords
  <1>3. /\ call'[c].pc = pc /\ call'[c].on = call[c].on /\ call'[c].entry = call[c].entry
        /\ \A d \in Calls \ {c} : call'[d] = call[d]
        /\ call' \in [Calls -> CallRecords]
    BY <1>2 DEF CallRecords
  <1>4. ObjectsKnow' BY <1>1 DEF LinkInv, ObjectsKnow, ObjectKnows, Open
  <1>5. CallsLink'
    <2>1. ASSUME NEW d \in Calls, InFlight(d)' PROVE CallLinks(d)'
      <3>1. InFlight(d) BY <1>3, <2>1 DEF InFlight
      <3>2. CallLinks(d) BY <3>1 DEF LinkInv, CallsLink
      <3>3. call'[d].on = call[d].on /\ call'[d].entry = call[d].entry BY <1>3
      <3>4. call'[d].pc = "written" /\ Openable' => call[d].entry.id \in IdsOf(file')
        BY <1>1, <1>3, <3>2 DEF CallLinks
      <3> QED BY <3>2, <3>3, <3>4 DEF CallLinks, Open
    <2> QED BY <2>1 DEF CallsLink
  <1> QED BY <1>3, <1>4, <1>5

LEMMA WriteLineLinks ==
  ASSUME LinkInv, NEW c \in Calls, WriteLine(c)
  PROVE  LinkInv'
  <1> DEFINE e == call[c].entry
  <1>1. call[c].pc = "writing" /\ file' = Added(e) BY DEF WriteLine
  <1>2. e \in Entries BY <1>1 DEF LinkInv, CallsLink, CallLinks, InFlight
  <1>3. Openable' => e.id \in IdsOf(file')
    <2>1. ASSUME Openable' PROVE e.id \in IdsOf(file')
      <3>1. Openable /\ file' = Append(file, e)
        BY <1>1, <1>2, <2>1, AddedLine DEF LinkInv, Openable
      <3> QED BY <1>2, <3>1, OpenableType, IdsOfAppend DEF LinkInv
    <2> QED BY <2>1
  <1>4. UNCHANGED storage /\ call' = [call EXCEPT ![c].pc = "written"]
    BY DEF WriteLine
  <1>5. \E line \in {Garbage, call[c].entry} : file' = Added(line) BY <1>1
  <1>6. call' \in [Calls -> CallRecords] /\ ObjectsKnow' /\ CallsLink'
    BY <1>1, <1>3, <1>4, <1>5, FileStep
  <1>7. file' \in Seq(Entries \cup {Garbage}) /\ FileLinked'
    BY <1>1, <1>5, FileAfterWrite
  <1>8. TypeOK' BY <1>6, <1>7 DEF LinkInv, TypeOK, WriteLine, ids, bounds, CallRecords
  <1>9. FileEnds' BY DEF WriteLine, FileEnds
  <1> QED BY <1>6, <1>7, <1>8, <1>9 DEF LinkInv

\* What is left of the file when a write of c is cut short.
LEMMA CutShortLinks ==
  ASSUME LinkInv, NEW c \in Calls, call[c].pc = "writing", CutShort(c)
  PROVE  /\ file' \in Seq(Entries \cup {Garbage}) /\ ended' \in BOOLEAN
         /\ damaged' \in BOOLEAN /\ FileEnds' /\ FileLinked'
         /\ Openable' => Openable /\ IdsOf(file) \subseteq IdsOf(file')
         /\ file' = file \/ \E line \in {Garbage, call[c].entry} : file' = Added(line)
  <1>1. file' = file \/ \E line \in {Garbage, call[c].entry} : file' = Added(line)
    BY DEF CutShort, disk
  <1>2. /\ file' \in Seq(Entries \cup {Garbage}) /\ FileLinked'
        /\ Openable' => Openable /\ IdsOf(file) \subseteq IdsOf(file')
    BY <1>1, FileAfterWrite
  <1>3. CASE UNCHANGED disk
    BY <1>1, <1>2, <1>3 DEF LinkInv, TypeOK, FileEnds, disk
  <1>4. CASE /\ \E line \in {Garbage, call[c].entry} : file' = Added(line)
             /\ ended' = FALSE
             /\ damaged' = TRUE
    <2>1. call[c].entry \in Entries BY DEF LinkInv, CallsLink, CallLinks, InFlight
    <2>2. file' # <<>> BY <1>4, <2>1, AddedLine DEF LinkInv
    <2> QED BY <1>1, <1>2, <1>4, <2>2 DEF FileEnds
  <1> QED BY <1>3, <1>4 DEF CutShort

LEMMA WriteFailsLinks ==
  ASSUME LinkInv, NEW c \in Calls, WriteFails(c)
  PROVE  LinkInv'
  <1>1. call[c].pc = "writing" /\ CutShort(c) BY DEF WriteFails
  <1>2. /\ file' \in Seq(Entries \cup {Garbage}) /\ ended' \in BOOLEAN
        /\ damaged' \in BOOLEAN /\ FileEnds' /\ FileLinked'
        /\ file' = file \/ \E line \in {Garbage, call[c].entry} : file' = Added(line)
    BY <1>1, CutShortLinks
  <1>3. UNCHANGED storage /\ call' = [call EXCEPT ![c].pc = "failed"]
    BY DEF WriteFails, AppendThrows
  <1>4. call' \in [Calls -> CallRecords] /\ ObjectsKnow' /\ CallsLink'
    BY <1>1, <1>2, <1>3, FileStep
  <1>5. faults' \in 0..MaxFaults BY ConstantsAssumption DEF LinkInv, TypeOK, WriteFails
  <1>6. TypeOK' BY <1>2, <1>3, <1>4, <1>5 DEF LinkInv, TypeOK, WriteFails, ids, CallRecords
  <1> QED BY <1>2, <1>4, <1>6 DEF LinkInv

LEMMA AcknowledgeLinks ==
  ASSUME LinkInv, NEW c \in Calls, Acknowledge(c)
  PROVE  LinkInv'
  <1> DEFINE h == call[c].on
             e == call[c].entry
             entries == Append(storage[h].entries, e)
             rec == [storage[h] EXCEPT !.entries = entries, !.leaf = LeafWith(h, e)]
             next == [id |-> NewId(entries), parent |-> e.target, kind |-> "entry",
                      target |-> None]
  <1>1. call[c].pc = "written" /\ UNCHANGED <<disk, window, bounds>> BY DEF Acknowledge
  <1>2. CallLinks(c) BY <1>1 DEF LinkInv, CallsLink, InFlight
  <1>3. /\ h \in Handles /\ Open(h) /\ e \in Entries
        /\ LinksTo(e, storage[h].entries) /\ (Openable => e.id \in IdsOf(file))
    BY <1>1, <1>2 DEF CallLinks
  <1>4. storage[h].entries \in Seq(Entries) BY <1>3, ObjectType
  <1>5. entries \in Seq(Entries) /\ LeafWith(h, e) \in Ids \cup {None}
    BY <1>3, <1>4, LeafIdType DEF LeafWith
  <1>6. storage[h] \in StorageRecords /\ storage \in [Handles -> StorageRecords]
    BY <1>3 DEF LinkInv, TypeOK, StorageRecords
  <1>7. /\ rec \in StorageRecords /\ rec.state = "open"
        /\ rec.entries = entries /\ rec.leaf = LeafIdAfterEntry(e)
    BY <1>3, <1>5, <1>6 DEF StorageRecords, LeafWith, Open
  <1>8. storage' = [storage EXCEPT ![h] = rec]
    BY <1>6 DEF Acknowledge, Remember, StorageRecords
  <1>9. /\ storage' \in [Handles -> StorageRecords] /\ storage'[h] = rec
        /\ \A g \in Handles \ {h} : storage'[g] = storage[g]
    BY <1>3, <1>6, <1>7, <1>8
  <1>10. IdsOf(entries) = IdsOf(storage[h].entries) \cup {e.id}
    BY <1>3, <1>4, IdsOfAppend
  <1>11. Linked(entries, LeafIdAfterEntry(e))
    BY <1>3, <1>4, LinkedAppend DEF LinkInv, ObjectsKnow, ObjectKnows
  <1>12. /\ call' \in [Calls -> CallRecords] /\ sequence' \in Nat /\ raced' \in BOOLEAN
         /\ \A d \in Calls \ {c} : call'[d] = call[d]
         /\ \/ call'[c].pc = "done"
            \/ /\ call'[c].pc = "writing" /\ call'[c].on = h
               /\ call'[c].entry \in Entries /\ LinksTo(call'[c].entry, entries)
    <2>1. CASE call[c].summary
      <3>1. NewId(entries) \in Ids BY NewIdType DEF LinkInv
      <3>2. next \in Entries BY <1>3, <3>1 DEF Entries
      <3>3. next.parent = e.target /\ next.target = None OBVIOUS
      <3>4. Writes(c, h, entries, next, FALSE) BY <2>1 DEF Acknowledge
      <3> HIDE DEF next
      <3>5. LinksTo(next, entries) BY <1>3, <1>10, <3>3 DEF LinksTo
      <3>6. FALSE \in BOOLEAN OBVIOUS
      <3>7. /\ call' \in [Calls -> CallRecords] /\ sequence' \in Nat /\ raced' \in BOOLEAN
            /\ call'[c].pc = "writing" /\ call'[c].on = h /\ call'[c].entry = next
            /\ \A d \in Calls \ {c} : call'[d] = call[d]
        BY <1>3, <3>2, <3>4, <3>6, WritesLinks
      <3> QED BY <3>2, <3>5, <3>7
    <2>2. CASE ~call[c].summary
      <3>1. call' = [call EXCEPT ![c].pc = "done"] /\ UNCHANGED <<sequence, raced>>
        BY <2>2 DEF Acknowledge
      <3>2. call \in [Calls -> CallRecords] BY DEF LinkInv, TypeOK, CallRecords
      <3>3. /\ call' \in [Calls -> CallRecords] /\ call'[c].pc = "done"
            /\ \A d \in Calls \ {c} : call'[d] = call[d]
        BY <3>1, <3>2 DEF CallRecords
      <3> QED BY <3>1, <3>3 DEF LinkInv, TypeOK
    <2> QED BY <2>1, <2>2
  <1> HIDE DEF rec, next
  <1>13. TypeOK'
    BY <1>1, <1>9, <1>12 DEF LinkInv, TypeOK, disk, bounds, CallRecords, StorageRecords
  <1>14. Openable' <=> Openable BY <1>1 DEF Openable, disk
  <1>15. ObjectsKnow'
    <2>1. ASSUME NEW g \in Handles, Open(g)' PROVE ObjectKnows(g)'
      <3>1. CASE g = h
        <4>1. Openable => IdsOf(entries) \subseteq IdsOf(file)
          BY <1>3, <1>10 DEF LinkInv, ObjectsKnow, ObjectKnows
        <4> QED BY <1>1, <1>7, <1>9, <1>11, <1>14, <3>1, <4>1 DEF ObjectKnows, disk
      <3>2. CASE g # h
        BY <1>1, <1>9, <1>14, <2>1, <3>2
           DEF LinkInv, ObjectsKnow, ObjectKnows, Open, disk
      <3> QED BY <3>1, <3>2
    <2> QED BY <2>1 DEF ObjectsKnow
  <1>16. CallsLink'
    <2>1. ASSUME NEW d \in Calls, InFlight(d)' PROVE CallLinks(d)'
      <3>1. CASE d = c
        BY <1>3, <1>7, <1>9, <1>12, <2>1, <3>1 DEF CallLinks, InFlight, Open
      <3>2. CASE d # c
        <4>1. CallLinks(d) /\ call'[d] = call[d]
          BY <1>12, <2>1, <3>2 DEF LinkInv, CallsLink, InFlight
        <4>2. CASE call[d].on = h
          BY <1>1, <1>7, <1>9, <1>10, <1>14, <4>1, <4>2
             DEF CallLinks, LinksTo, Open, disk
        <4>3. CASE call[d].on # h
          BY <1>1, <1>9, <1>14, <4>1, <4>3 DEF CallLinks, Open, disk
        <4> QED BY <4>2, <4>3
      <3> QED BY <3>1, <3>2
    <2> QED BY <2>1 DEF CallsLink
  <1>17. FileLinked' /\ FileEnds' BY <1>1, <1>14 DEF LinkInv, FileLinked, FileEnds, disk
  <1> QED BY <1>13, <1>15, <1>16, <1>17 DEF LinkInv

LEMMA CrashLinks ==
  ASSUME LinkInv, Crash
  PROVE  LinkInv'
  <1>1. /\ file' \in Seq(Entries \cup {Garbage}) /\ ended' \in BOOLEAN
        /\ damaged' \in BOOLEAN /\ FileEnds' /\ FileLinked'
    <2>1. CASE UNCHANGED disk
      BY <2>1 DEF LinkInv, TypeOK, FileEnds, FileLinked, Openable, disk
    <2>2. CASE \E c \in Calls : call[c].pc = "writing" /\ CutShort(c)
      BY <2>2, CutShortLinks
    <2> QED BY <2>1, <2>2 DEF Crash
  <1>2. storage' \in [Handles -> StorageRecords]
    <2>1. storage \in [Handles -> StorageRecords] BY DEF LinkInv, TypeOK, StorageRecords
    <2>2. \A rec \in StorageRecords : [rec EXCEPT !.state = "dead"] \in StorageRecords
      BY DEF StorageRecords
    <2> QED BY <2>1, <2>2 DEF Crash
  <1>3. call' \in [Calls -> CallRecords]
    <2>1. call \in [Calls -> CallRecords] BY DEF LinkInv, TypeOK, CallRecords
    <2>2. \A rec \in CallRecords : [rec EXCEPT !.pc = "failed"] \in CallRecords
      BY DEF CallRecords
    <2> QED BY <2>1, <2>2 DEF Crash
  <1>4. \A h \in Handles : ~Open(h)'
    <2>1. \A rec \in StorageRecords : [rec EXCEPT !.state = "dead"].state = "dead"
      BY DEF StorageRecords
    <2>2. storage \in [Handles -> StorageRecords] BY DEF LinkInv, TypeOK, StorageRecords
    <2> QED BY <2>1, <2>2 DEF Crash, Open
  <1>5. \A c \in Calls : ~InFlight(c)'
    <2>1. \A rec \in CallRecords : [rec EXCEPT !.pc = "failed"].pc = "failed"
      BY DEF CallRecords
    <2>2. call \in [Calls -> CallRecords] BY DEF LinkInv, TypeOK, CallRecords
    <2> QED BY <2>1, <2>2 DEF Crash, InFlight
  <1>6. crashes' \in 0..MaxCrashes /\ UNCHANGED <<ids, raced, faults>>
    BY ConstantsAssumption DEF LinkInv, TypeOK, Crash
  <1>7. TypeOK'
    BY <1>1, <1>2, <1>3, <1>6 DEF LinkInv, TypeOK, ids, StorageRecords, CallRecords
  <1> QED BY <1>1, <1>4, <1>5, <1>7 DEF LinkInv, ObjectsKnow, CallsLink

\* Time passing and resting change nothing the invariant speaks of.
LEMMA IdleLinks ==
  ASSUME LinkInv, NextWindow \/ UNCHANGED vars
  PROVE  LinkInv'
  <1>1. UNCHANGED <<disk, storage, call, raced, bounds, sequence>>
    BY DEF NextWindow, vars, ids
  <1>2. window' \in 0..LastWindow
    BY ConstantsAssumption DEF LinkInv, TypeOK, NextWindow, vars, ids
  <1>3. TypeOK' BY <1>1, <1>2 DEF LinkInv, TypeOK, disk, bounds
  <1>4. ObjectsKnow' /\ CallsLink' /\ FileLinked' /\ FileEnds'
    BY <1>1 DEF LinkInv, ObjectsKnow, ObjectKnows, CallsLink, CallLinks, FileLinked,
                FileEnds, InFlight, Open, Openable, disk
  <1> QED BY <1>3, <1>4 DEF LinkInv

LEMMA InitLinks == Init => LinkInv
  <1> SUFFICES ASSUME Init PROVE LinkInv OBVIOUS
  <1>1. Linked(<<>>, None) /\ LeafOf(<<>>) = None BY DEF Linked, IdsOf, LeafOf
  <1>2. \A S : <<>> \in Seq(S) OBVIOUS
  <1>3. storage \in [Handles -> StorageRecords] BY <1>2 DEF Init, StorageRecords
  <1>4. call \in [Calls -> CallRecords] BY DEF Init, CallRecords
  <1>5. file \in Seq(Entries \cup {Garbage}) BY <1>2 DEF Init
  <1>6. sequence \in Nat /\ ended \in BOOLEAN /\ raced \in BOOLEAN /\ damaged \in BOOLEAN
    BY DEF Init
  <1>7. window \in 0..LastWindow /\ faults \in 0..MaxFaults /\ crashes \in 0..MaxCrashes
    BY ConstantsAssumption DEF Init
  <1>8. TypeOK
    BY <1>3, <1>4, <1>5, <1>6, <1>7 DEF TypeOK, StorageRecords, CallRecords
  <1>9. ObjectsKnow /\ CallsLink BY DEF Init, ObjectsKnow, Open, CallsLink, InFlight
  <1> QED BY <1>1, <1>8, <1>9 DEF Init, LinkInv, FileLinked, FileEnds

LEMMA NextLinks == LinkInv /\ [Next]_vars => LinkInv'
  <1> SUFFICES ASSUME LinkInv, [Next]_vars PROVE LinkInv' OBVIOUS
  <1>1. CASE \E h \in Handles : Load(h) BY <1>1, LoadLinks
  <1>2. CASE \E c \in Appends, h \in Handles : AppendEntry(c, h)
    BY <1>2, AppendEntryLinks
  <1>3. CASE \E c \in Moves, h \in Handles, summary \in BOOLEAN :
               \E target \in IdsOf(storage[h].entries) \cup {None} :
                 MoveTo(c, h, target, summary)
    BY <1>3, MoveToLinks
  <1>4. CASE \E c \in Calls : WriteLine(c) \/ Acknowledge(c) \/ WriteFails(c)
    BY <1>4, WriteLineLinks, AcknowledgeLinks, WriteFailsLinks
  <1>5. CASE Crash BY <1>5, CrashLinks
  <1>6. CASE NextWindow \/ UNCHANGED vars BY <1>6, IdleLinks
  <1> QED BY <1>1, <1>2, <1>3, <1>4, <1>5, <1>6 DEF Next, Rest

-----------------------------------------------------------------------------
(***************************************************************************)
(* Durability: a write that was not cut short keeps the lines there are.   *)
(***************************************************************************)

\* From the end of its write on the entry of a call is in the file.
Durable ==
  \A c \in Calls :
    call[c].pc \in {"written", "done"} /\ ~damaged => call[c].entry \in Range(file)

LEMMA RangeOfAppend ==
  ASSUME TypeOK, NEW line \in Entries \cup {Garbage}
  PROVE  Range(Append(file, line)) = Range(file) \cup {line}
  <1> DEFINE s == Append(file, line)
  <1>1. file \in Seq(Entries \cup {Garbage}) BY DEF TypeOK
  <1>2. /\ DOMAIN s = 1..Len(file) + 1 /\ DOMAIN file = 1..Len(file) /\ Len(file) \in Nat
        /\ s[Len(file) + 1] = line /\ \A i \in 1..Len(file) : s[i] = file[i]
    BY <1>1
  <1> HIDE DEF s
  <1>3. Range(s) \subseteq Range(file) \cup {line} BY <1>2 DEF Range
  <1>4. Range(file) \subseteq Range(s) /\ line \in Range(s) BY <1>2 DEF Range
  <1> QED BY <1>3, <1>4 DEF s

LEMMA NextDurable == LinkInv /\ Durable /\ [Next]_vars => Durable'
  <1> SUFFICES ASSUME LinkInv, Durable, [Next]_vars PROVE Durable' OBVIOUS
  <1> USE DEF LinkInv
  <1>0. call \in [Calls -> CallRecords] BY DEF TypeOK, CallRecords
  <1>1. ASSUME NEW c \in Calls, WriteLine(c) PROVE Durable'
    <2> DEFINE e == call[c].entry
    <2>1. e \in Entries BY <1>1 DEF WriteLine, CallsLink, CallLinks, InFlight
    <2>2. ~damaged' => Range(file') = Range(file) \cup {e}
      BY <1>1, <2>1, RangeOfAppend DEF WriteLine, FileEnds, Added
    <2>3. /\ call'[c].entry = e /\ \A d \in Calls \ {c} : call'[d] = call[d]
          /\ damaged' = damaged
      BY <1>0, <1>1 DEF WriteLine, CallRecords
    <2> QED BY <2>2, <2>3 DEF Durable
  <1>2. ASSUME NEW c \in Calls, WriteFails(c) PROVE Durable'
    <2>1. /\ call'[c].pc = "failed" /\ \A d \in Calls \ {c} : call'[d] = call[d]
          /\ ~damaged' => ~damaged /\ file' = file
      BY <1>0, <1>2 DEF WriteFails, CutShort, disk, CallRecords
    <2> QED BY <2>1 DEF Durable
  <1>3. ASSUME NEW c \in Calls, Acknowledge(c) PROVE Durable'
    <2>1. /\ call[c].pc = "written" /\ file' = file /\ damaged' = damaged
          /\ \A d \in Calls \ {c} : call'[d] = call[d]
          /\ call'[c].pc = "writing" \/ call'[c].entry = call[c].entry
      BY <1>0, <1>3 DEF Acknowledge, Writes, disk, CallRecords
    <2> QED BY <2>1 DEF Durable
  <1>4. CASE Crash
    <2>1. ~damaged' => ~damaged /\ file' = file BY <1>4 DEF Crash, CutShort, disk
    <2>2. \A c \in Calls : call'[c].pc \in {"written", "done"} => call'[c] = call[c]
      BY <1>0, <1>4 DEF Crash, CallRecords
    <2> QED BY <2>1, <2>2 DEF Durable
  <1>5. ASSUME NEW c \in Calls, NEW h, NEW e, NEW summary, NEW entries,
               Writes(c, h, entries, e, summary), UNCHANGED disk
        PROVE  Durable'
    <2>1. /\ call'[c].pc = "writing" /\ \A d \in Calls \ {c} : call'[d] = call[d]
          /\ file' = file /\ damaged' = damaged
      BY <1>0, <1>5 DEF Writes, disk
    <2> QED BY <2>1 DEF Durable
  <1>6. ASSUME NEW c \in Appends, NEW h \in Handles, AppendEntry(c, h) PROVE Durable'
    BY <1>5, <1>6 DEF AppendEntry, Calls
  <1>7. ASSUME NEW c \in Moves, NEW h \in Handles, NEW summary \in BOOLEAN, NEW target,
               MoveTo(c, h, target, summary)
        PROVE  Durable'
    BY <1>5, <1>7 DEF MoveTo, Calls
  <1>8. CASE NextWindow \/ (\E h \in Handles : Load(h)) \/ UNCHANGED vars
    BY <1>8 DEF Durable, NextWindow, Load, vars, disk
  <1> QED BY <1>1, <1>2, <1>3, <1>4, <1>6, <1>7, <1>8 DEF Next, Rest

LEMMA InitDurable == Init => Durable
  BY DEF Init, Durable

-----------------------------------------------------------------------------
(***************************************************************************)
(* Calls that follow one another: ids are unique, and the file says what   *)
(* memory says.  What an object knows is the file up to some line; it is   *)
(* the whole file when a call begins, else the call used a stale object;   *)
(* so the id it takes is in no line, and its line comes right behind what  *)
(* its object knows.                                                       *)
(***************************************************************************)

\* The file begins with entries.
Begins(entries) ==
  /\ Len(entries) <= Len(file)
  /\ \A i \in 1..Len(entries) : entries[i] = file[i]

Distinct(entries) ==
  \A i, j \in 1..Len(entries) : entries[i].id = entries[j].id => i = j

\* The ids that were not shortened carry numbers that were given out.
Numbered(entries) == \A i \in 1..Len(entries) : entries[i].id[2] <= sequence

\* A call under way adds a new id to what its object knows, which is the file.
CallFits(c) ==
  /\ call[c].entry.id[2] <= sequence
  /\ call[c].pc = "writing" =>
       storage[call[c].on].entries = file /\ call[c].entry.id \notin IdsOf(file)
  /\ call[c].pc = "written" =>
       file = Append(storage[call[c].on].entries, call[c].entry)

OneCall == ~raced => \A c, d \in Calls : InFlight(c) /\ InFlight(d) => c = d

InOrder ==
  /\ Distinct(file) /\ Numbered(file)
  /\ \A h \in Handles : Open(h) => Begins(storage[h].entries)
  /\ \A c \in Calls : InFlight(c) => CallFits(c)

Ordered == ~raced /\ Openable => InOrder

LeafKnown == \A h \in Handles : Open(h) => storage[h].leaf = LeafOf(storage[h].entries)

\* A file in which no write stopped in the middle can be opened.
Whole == ~damaged => Openable

Alone(h) == Open(h) /\ \A g \in Handles \ {h} : ~Open(g)

\* The only object in use knows the file, or is about to learn its last line.
AloneKnows ==
  ~raced /\ ~damaged =>
    \A h \in Handles : Alone(h) =>
      storage[h].entries = file \/ \E c \in Calls : call[c].pc = "written"

SerialInv == OneCall /\ Ordered /\ LeafKnown /\ Whole /\ AloneKnows

LEMMA NewIdIsNew ==
  ASSUME TypeOK, NEW entries \in Seq(Entries), Numbered(entries)
  PROVE  /\ NewId(entries) \notin IdsOf(entries)
         /\ NewId(entries)[2] = 0 \/ NewId(entries)[2] = sequence + 1
  <1>1. sequence \in Nat BY DEF TypeOK
  <1>2. CASE <<window, 0>> \in IdsOf(entries)
    <2>1. NewId(entries) = <<window, sequence + 1>> BY <1>2 DEF NewId
    <2>2. ASSUME NEW i \in DOMAIN entries, entries[i].id = NewId(entries) PROVE FALSE
      <3>1. entries[i].id[2] = sequence + 1 BY <2>1, <2>2
      <3>2. entries[i].id[2] <= sequence BY DEF Numbered
      <3> QED BY <1>1, <3>1, <3>2
    <2> QED BY <2>1, <2>2 DEF IdsOf
  <1>3. CASE <<window, 0>> \notin IdsOf(entries) BY <1>3 DEF NewId
  <1> QED BY <1>2, <1>3

\* Who knows as many lines as there are knows the file.
LEMMA BeginsWhole ==
  ASSUME TypeOK, Openable, NEW entries \in Seq(Entries), Begins(entries),
         Len(entries) = Len(file)
  PROVE  entries = file
  <1>1. file \in Seq(Entries) BY OpenableType
  <1> QED BY <1>1 DEF Begins

\* A line with a new id at the end of the file.
LEMMA GrowsInOrder ==
  ASSUME NEW entries \in Seq(Entries), NEW e \in Entries, Distinct(entries),
         e.id \notin IdsOf(entries)
  PROVE  Distinct(Append(entries, e))
  <1> DEFINE s == Append(entries, e)
  <1>1. /\ Len(s) = Len(entries) + 1 /\ Len(entries) \in Nat
        /\ s[Len(entries) + 1] = e /\ \A i \in 1..Len(entries) : s[i] = entries[i]
    OBVIOUS
  <1> HIDE DEF s
  <1>2. \A i \in 1..Len(entries) : s[i].id # e.id BY <1>1 DEF IdsOf
  <1>3. \A i, j \in 1..Len(entries) : s[i].id = s[j].id => i = j BY <1>1 DEF Distinct
  <1>4. ASSUME NEW i \in 1..Len(s), NEW j \in 1..Len(s), s[i].id = s[j].id PROVE i = j
    <2>1. (i \in 1..Len(entries) \/ i = Len(entries) + 1)
          /\ (j \in 1..Len(entries) \/ j = Len(entries) + 1)
      BY <1>1
    <2>2. s[Len(entries) + 1].id = e.id BY <1>1
    <2>3. CASE i \in 1..Len(entries) /\ j \in 1..Len(entries) BY <1>3, <1>4, <2>3
    <2>4. CASE i = Len(entries) + 1 /\ j = Len(entries) + 1 BY <2>4
    <2>5. CASE i \in 1..Len(entries) /\ j = Len(entries) + 1 BY <1>2, <1>4, <2>2, <2>5
    <2>6. CASE i = Len(entries) + 1 /\ j \in 1..Len(entries) BY <1>2, <1>4, <2>2, <2>6
    <2> QED BY <2>1, <2>3, <2>4, <2>5, <2>6
  <1> QED BY <1>4 DEF Distinct, s

LEMMA NumbersAppend ==
  ASSUME NEW entries \in Seq(Entries), NEW e \in Entries, Numbered(entries),
         e.id[2] <= sequence
  PROVE  Numbered(Append(entries, e))
  <1> DEFINE s == Append(entries, e)
  <1>1. /\ Len(s) = Len(entries) + 1 /\ Len(entries) \in Nat
        /\ s[Len(entries) + 1] = e /\ \A i \in 1..Len(entries) : s[i] = entries[i]
    OBVIOUS
  <1> HIDE DEF s
  <1>2. ASSUME NEW i \in 1..Len(s) PROVE s[i].id[2] <= sequence
    <2>1. CASE i \in 1..Len(entries) BY <1>1, <2>1 DEF Numbered
    <2>2. CASE i = Len(entries) + 1 BY <1>1, <2>2
    <2> QED BY <1>1, <2>1, <2>2
  <1> QED BY <1>2 DEF Numbered, s

LEMMA BeginsAppend ==
  ASSUME TypeOK, Openable, NEW e \in Entries, NEW entries \in Seq(Entries),
         Begins(entries), file' = Append(file, e)
  PROVE  /\ Len(entries) <= Len(file')
         /\ \A i \in 1..Len(entries) : entries[i] = file'[i]
  <1>1. file \in Seq(Entries) BY OpenableType
  <1> QED BY <1>1 DEF Begins

\* A call that begins to write, for a caller that is not overlapped and whose
\* object is not stale.
LEMMA WritesInOrder ==
  ASSUME LinkInv, SerialInv, NEW c \in Calls, NEW h \in Handles,
         NEW entries \in Seq(Entries), NEW e \in Entries, NEW summary \in BOOLEAN,
         Writes(c, h, entries, e, summary), e.id = NewId(entries), file' = file,
         storage'[h].entries = entries, ~raced /\ Openable => Begins(entries)
  PROVE  /\ ~raced' => ~raced /\ (\A d \in Calls : InFlight(d)' => d = c)
         /\ ~raced' /\ Openable' =>
              /\ Openable /\ entries = file /\ Distinct(file)' /\ Numbered(file)'
              /\ CallFits(c)'
  <1>1. /\ call'[c].pc = "writing" /\ call'[c].on = h /\ call'[c].entry = e
        /\ \A d \in Calls \ {c} : call'[d] = call[d]
    BY WritesLinks
  <1>2. /\ raced' = (raced \/ (\E d \in Calls \ {c} : InFlight(d))
                           \/ Len(entries) # Len(file))
        /\ sequence' = IF e.id[2] = 0 THEN sequence ELSE sequence + 1
    BY DEF Writes
  <1>3. ~raced' => ~raced /\ (\A d \in Calls : InFlight(d)' => d = c)
    BY <1>1, <1>2 DEF InFlight
  <1>4. ASSUME ~raced', Openable'
        PROVE  /\ Openable /\ entries = file /\ Distinct(file)' /\ Numbered(file)'
               /\ CallFits(c)'
    <2>1. Openable /\ ~raced /\ Len(entries) = Len(file) BY <1>2, <1>4 DEF Openable
    <2>2. entries = file BY <2>1, BeginsWhole DEF LinkInv
    <2>3. Distinct(file) /\ Numbered(file) BY <2>1 DEF SerialInv, Ordered, InOrder
    <2>4. /\ e.id \notin IdsOf(file)
          /\ e.id[2] = 0 \/ e.id[2] = sequence + 1
      BY <2>2, <2>3, NewIdIsNew DEF LinkInv
    <2>5. sequence \in Nat /\ e.id[2] \in Nat BY DEF LinkInv, TypeOK, Entries, Ids
    <2>6. sequence <= sequence' /\ e.id[2] <= sequence' /\ sequence' \in Nat BY <1>2, <2>4, <2>5
    <2>7. ASSUME NEW i \in 1..Len(file) PROVE file[i].id[2] \in Nat
      <3>1. file[i] \in Entries BY <2>1, OpenableType DEF LinkInv
      <3> QED BY <3>1 DEF Entries, Ids
    <2>8. Numbered(file)' BY <2>3, <2>5, <2>6, <2>7 DEF Numbered
    <2>9. Distinct(file)' BY <2>3 DEF Distinct
    <2>10. CallFits(c)' BY <1>1, <2>2, <2>4, <2>6 DEF CallFits
    <2> QED BY <2>1, <2>2, <2>8, <2>9, <2>10
  <1> QED BY <1>3, <1>4

\* A call begins; the objects and the file stay as they are.
LEMMA BeginInOrder ==
  ASSUME LinkInv, SerialInv, NEW c \in Calls, call[c].pc = "new", NEW h \in Handles, Open(h),
         NEW e \in Entries, NEW summary \in BOOLEAN, e.id = NewId(storage[h].entries),
         Writes(c, h, storage[h].entries, e, summary),
         UNCHANGED <<disk, storage, window, bounds>>
  PROVE  SerialInv'
  <1> DEFINE entries == storage[h].entries
  <1>1. entries \in Seq(Entries) BY ObjectType
  <1>2. ~raced /\ Openable => Begins(entries) BY DEF SerialInv, Ordered, InOrder
  <1>3. storage' = storage /\ file' = file /\ damaged' = damaged BY DEF disk
  <1>4. /\ ~raced' => ~raced /\ (\A d \in Calls : InFlight(d)' => d = c)
        /\ ~raced' /\ Openable' =>
             Openable /\ Distinct(file)' /\ Numbered(file)' /\ CallFits(c)'
    BY <1>1, <1>2, <1>3, WritesInOrder
  <1>5. OneCall' BY <1>4 DEF OneCall
  <1>6. Ordered'
    <2>1. ASSUME ~raced', Openable' PROVE InOrder'
      <3>1. \A g \in Handles : Open(g)' => Begins(storage[g].entries)'
        BY <1>3, <1>4, <2>1 DEF SerialInv, Ordered, InOrder, Begins, Open
      <3>2. \A d \in Calls : InFlight(d)' => CallFits(d)' BY <1>4, <2>1
      <3> QED BY <1>4, <2>1, <3>1, <3>2 DEF InOrder
    <2> QED BY <2>1 DEF Ordered
  <1>7. LeafKnown' BY <1>3 DEF SerialInv, LeafKnown, Open
  <1>8. Whole' BY <1>3 DEF SerialInv, Whole, Openable
  <1>9. AloneKnows'
    <2>1. \A d \in Calls : call[d].pc = "written" => call'[d].pc = "written"
      BY DEF Writes
    <2> QED BY <1>3, <1>4, <2>1 DEF SerialInv, AloneKnows, Alone, Open
  <1> QED BY <1>5, <1>6, <1>7, <1>8, <1>9 DEF SerialInv

LEMMA AppendEntryInOrder ==
  ASSUME LinkInv, SerialInv, NEW c \in Appends, NEW h \in Handles, AppendEntry(c, h)
  PROVE  SerialInv'
  <1> DEFINE entries == storage[h].entries
             e == [id |-> NewId(entries), parent |-> storage[h].leaf,
                   kind |-> "entry", target |-> None]
  <1>1. NewId(entries) \in Ids BY NewIdType DEF LinkInv
  <1>2. e \in Entries /\ e.id = NewId(entries) BY <1>1, ObjectType DEF Entries
  <1>3. Writes(c, h, entries, e, FALSE) /\ Open(h) /\ call[c].pc = "new" BY DEF AppendEntry
  <1>4. UNCHANGED <<disk, storage, window, bounds>> BY DEF AppendEntry
  <1>5. c \in Calls BY DEF Calls
  <1> HIDE DEF e
  <1> QED BY <1>2, <1>3, <1>4, <1>5, BeginInOrder

LEMMA MoveToInOrder ==
  ASSUME LinkInv, SerialInv, NEW c \in Moves, NEW h \in Handles, NEW summary \in BOOLEAN,
         NEW target \in IdsOf(storage[h].entries) \cup {None},
         MoveTo(c, h, target, summary)
  PROVE  SerialInv'
  <1> DEFINE entries == storage[h].entries
             e == [id |-> NewId(entries), parent |-> storage[h].leaf,
                   kind |-> "leaf", target |-> target]
  <1>1. NewId(entries) \in Ids BY NewIdType DEF LinkInv
  <1>2. target \in Ids \cup {None} BY ObjectType
  <1>3. e \in Entries /\ e.id = NewId(entries) BY <1>1, <1>2, ObjectType DEF Entries
  <1>4. Open(h) /\ Writes(c, h, entries, e, summary) /\ call[c].pc = "new" BY DEF MoveTo
  <1>5. UNCHANGED <<disk, storage, window, bounds>> BY DEF MoveTo
  <1>6. c \in Calls BY DEF Calls
  <1> HIDE DEF e
  <1> QED BY <1>3, <1>4, <1>5, <1>6, BeginInOrder

LEMMA LoadInOrder ==
  ASSUME LinkInv, SerialInv, NEW h \in Handles, Load(h)
  PROVE  SerialInv'
  <1> DEFINE rec == [state |-> "open", entries |-> file, leaf |-> LeafOf(file)]
  <1>1. storage \in [Handles -> StorageRecords] /\ storage' = [storage EXCEPT ![h] = rec]
    BY DEF LinkInv, TypeOK, Load, StorageRecords
  <1>2. rec.state = "open" /\ rec.entries = file /\ rec.leaf = LeafOf(file) OBVIOUS
  <1> HIDE DEF rec
  <1>3. storage'[h] = rec /\ \A g \in Handles \ {h} : storage'[g] = storage[g] BY <1>1
  <1>4. /\ file' = file /\ damaged' = damaged /\ call' = call
        /\ raced' = raced /\ sequence' = sequence
    BY DEF Load, disk, ids
  <1>5. ~Open(h) /\ Open(h)' BY <1>2, <1>3 DEF Load, Open
  <1>6. \A g \in Handles \ {h} : Open(g)' <=> Open(g) BY <1>3 DEF Open
  <1>7. OneCall' BY <1>4 DEF SerialInv, OneCall, InFlight
  <1>8. Ordered'
    <2>1. ASSUME ~raced', Openable' PROVE InOrder'
      <3>1. InOrder BY <1>4, <2>1 DEF SerialInv, Ordered, Openable
      <3>2. Distinct(file)' /\ Numbered(file)' BY <1>4, <3>1 DEF InOrder, Distinct, Numbered
      <3>3. ASSUME NEW g \in Handles, Open(g)' PROVE Begins(storage[g].entries)'
        <4>1. CASE g = h
          <5>1. Len(file) \in Nat BY DEF LinkInv, TypeOK
          <5> QED BY <1>2, <1>3, <1>4, <4>1, <5>1 DEF Begins
        <4>2. CASE g # h BY <1>3, <1>4, <1>6, <3>1, <3>3, <4>2 DEF InOrder, Begins
        <4> QED BY <4>1, <4>2
      <3>4. ASSUME NEW d \in Calls, InFlight(d)' PROVE CallFits(d)'
        <4>1. InFlight(d) BY <1>4, <3>4 DEF InFlight
        <4>2. CallFits(d) BY <3>1, <4>1 DEF InOrder
        <4>3. call[d].on \in Handles \ {h}
          BY <1>5, <4>1 DEF LinkInv, CallsLink, CallLinks
        <4> QED BY <1>3, <1>4, <4>2, <4>3 DEF CallFits
      <3> QED BY <3>2, <3>3, <3>4 DEF InOrder
    <2> QED BY <2>1 DEF Ordered
  <1>9. LeafKnown'
    <2>1. ASSUME NEW g \in Handles, Open(g)'
          PROVE  storage'[g].leaf = LeafOf(storage'[g].entries)
      BY <1>2, <1>3, <1>6, <2>1 DEF SerialInv, LeafKnown
    <2>2. \A g \in Handles : Open(g)' => storage'[g].leaf = LeafOf(storage'[g].entries)
      BY <2>1
    <2> QED BY <2>2 DEF LeafKnown, LeafOf, LeafIdAfterEntry
  <1>10. Whole' BY <1>4 DEF SerialInv, Whole, Openable
  <1>11. AloneKnows'
    <2>1. ASSUME NEW g \in Handles, Alone(g)' PROVE storage'[g].entries = file'
      <3>1. g = h BY <1>5, <2>1 DEF Alone
      <3> QED BY <1>2, <1>3, <1>4, <3>1
    <2> QED BY <2>1 DEF AloneKnows
  <1> QED BY <1>7, <1>8, <1>9, <1>10, <1>11 DEF SerialInv

\* What a write of c, whole or cut short or not begun, leaves of the order.
LEMMA FileStaysInOrder ==
  ASSUME LinkInv, SerialInv, NEW c \in Calls, call[c].pc = "writing",
         \/ file' = file
         \/ \E line \in {Garbage, call[c].entry} : file' = Added(line),
         UNCHANGED <<raced, sequence>>, ~raced', Openable'
  PROVE  /\ Openable /\ InOrder /\ Distinct(file)' /\ Numbered(file)'
         /\ \A h \in Handles : Open(h) =>
              /\ Len(storage[h].entries) <= Len(file')
              /\ \A i \in 1..Len(storage[h].entries) : storage[h].entries[i] = file'[i]
         /\ file' = file \/ file' = Append(file, call[c].entry)
  <1> DEFINE e == call[c].entry
  <1>1. CallLinks(c) /\ InFlight(c) BY DEF LinkInv, CallsLink, InFlight
  <1>2. e \in Entries BY <1>1 DEF CallLinks
  <1>3. Openable' => Openable BY FileAfterWrite
  <1>4. Openable /\ InOrder BY <1>3 DEF SerialInv, Ordered
  <1>5. file \in Seq(Entries) BY <1>4, OpenableType DEF LinkInv
  <1>6. CASE file' = file
    BY <1>4, <1>6 DEF InOrder, Distinct, Numbered, Begins
  <1>7. ASSUME NEW line \in {Garbage, e}, file' = Added(line)
        PROVE  file' = Append(file, e)
    <2>1. line \in Entries \cup {Garbage} BY <1>2
    <2>2. file' = Append(file, line) BY <1>7, <2>1, AddedLine DEF LinkInv, Openable
    <2>3. file'[Len(file) + 1] = line /\ Len(file) + 1 \in DOMAIN file' BY <1>5, <2>2
    <2> QED BY <1>7, <2>2, <2>3 DEF Openable
  <1>8. CASE file' = Append(file, e)
    <2>1. CallFits(c) BY <1>1, <1>4 DEF InOrder
    <2>2. e.id \notin IdsOf(file) /\ e.id[2] <= sequence BY <2>1 DEF CallFits
    <2>3. Distinct(Append(file, e)) /\ Numbered(Append(file, e))
      BY <1>2, <1>4, <1>5, <2>2, GrowsInOrder, NumbersAppend DEF InOrder
    <2>4. Distinct(file)' /\ Numbered(file)' BY <1>8, <2>3 DEF Distinct, Numbered
    <2>5. ASSUME NEW h \in Handles, Open(h)
          PROVE  /\ Len(storage[h].entries) <= Len(file')
                 /\ \A i \in 1..Len(storage[h].entries) : storage[h].entries[i] = file'[i]
      <3>1. storage[h].entries \in Seq(Entries) BY ObjectType
      <3>2. Begins(storage[h].entries) BY <1>4, <2>5 DEF InOrder
      <3> QED BY <1>2, <1>4, <1>8, <3>1, <3>2, BeginsAppend DEF LinkInv
    <2> QED BY <1>4, <1>8, <2>4, <2>5
  <1> QED BY <1>4, <1>6, <1>7, <1>8

LEMMA WriteLineInOrder ==
  ASSUME LinkInv, SerialInv, NEW c \in Calls, WriteLine(c)
  PROVE  SerialInv'
  <1> DEFINE e == call[c].entry
  <1>1. /\ call[c].pc = "writing" /\ file' = Added(e) /\ damaged' = damaged
        /\ storage' = storage /\ UNCHANGED <<raced, sequence>>
    BY DEF WriteLine, ids
  <1>2. call \in [Calls -> CallRecords] BY DEF LinkInv, TypeOK, CallRecords
  <1>3. /\ call'[c].pc = "written" /\ call'[c].on = call[c].on /\ call'[c].entry = e
        /\ \A d \in Calls \ {c} : call'[d] = call[d]
    BY <1>2 DEF WriteLine, CallRecords
  <1>4. CallLinks(c) /\ InFlight(c) BY <1>1 DEF LinkInv, CallsLink, InFlight
  <1>5. e \in Entries BY <1>4 DEF CallLinks
  <1>6. \A d \in Calls : InFlight(d)' => InFlight(d) BY <1>3, <1>4 DEF InFlight
  <1>7. OneCall' BY <1>1, <1>6 DEF SerialInv, OneCall
  <1>8. Ordered'
    <2>1. ASSUME ~raced', Openable' PROVE InOrder'
      <3>1. /\ Openable /\ InOrder /\ Distinct(file)' /\ Numbered(file)'
            /\ \A h \in Handles : Open(h) =>
                 /\ Len(storage[h].entries) <= Len(file')
                 /\ \A i \in 1..Len(storage[h].entries) : storage[h].entries[i] = file'[i]
        BY <1>1, <2>1, FileStaysInOrder
      <3>2. file' = Append(file, e)
        BY <1>1, <1>5, <2>1, AddedLine DEF LinkInv, Openable
      <3>3. ASSUME NEW h \in Handles, Open(h)' PROVE Begins(storage[h].entries)'
        BY <1>1, <3>1, <3>3 DEF Begins, Open
      <3>4. ASSUME NEW d \in Calls, InFlight(d)' PROVE CallFits(d)'
        <4>1. d = c BY <1>1, <1>4, <1>6, <2>1, <3>4 DEF SerialInv, OneCall
        <4>2. CallFits(c) BY <1>4, <3>1 DEF InOrder
        <4> QED BY <1>1, <1>3, <3>2, <4>1, <4>2 DEF CallFits
      <3> QED BY <3>1, <3>3, <3>4 DEF InOrder
    <2> QED BY <2>1 DEF Ordered
  <1>9. LeafKnown' BY <1>1 DEF SerialInv, LeafKnown, Open
  <1>10. Whole'
    <2>1. ASSUME ~damaged' PROVE Openable'
      <3>1. Openable /\ ended /\ file' = Append(file, e)
        BY <1>1, <2>1 DEF SerialInv, Whole, LinkInv, FileEnds, Added
      <3>2. file \in Seq(Entries) BY <3>1, OpenableType DEF LinkInv
      <3>3. file' \in Seq(Entries) BY <1>5, <3>1, <3>2
      <3>4. Garbage \notin Entries BY DEF Garbage, Entries
      <3> QED BY <3>3, <3>4 DEF Openable
    <2> QED BY <2>1 DEF Whole
  <1>11. AloneKnows' BY <1>3 DEF AloneKnows
  <1> QED BY <1>7, <1>8, <1>9, <1>10, <1>11 DEF SerialInv

LEMMA WriteFailsInOrder ==
  ASSUME LinkInv, SerialInv, NEW c \in Calls, WriteFails(c)
  PROVE  SerialInv'
  <1>1. /\ call[c].pc = "writing" /\ CutShort(c) /\ storage' = storage
        /\ UNCHANGED <<raced, sequence>>
    BY DEF WriteFails, AppendThrows, ids
  <1>2. call \in [Calls -> CallRecords] BY DEF LinkInv, TypeOK, CallRecords
  <1>3. /\ call'[c].pc = "failed" /\ \A d \in Calls \ {c} : call'[d] = call[d]
    BY <1>2 DEF WriteFails, CallRecords
  <1>4. InFlight(c) BY <1>1 DEF InFlight
  <1>5. \A d \in Calls : InFlight(d)' => d # c /\ InFlight(d) BY <1>3 DEF InFlight
  <1>6. ~raced' => \A d \in Calls : ~InFlight(d)'
    BY <1>1, <1>4, <1>5 DEF SerialInv, OneCall
  <1>7. OneCall' BY <1>6 DEF OneCall
  <1>8. \/ file' = file
        \/ \E line \in {Garbage, call[c].entry} : file' = Added(line)
    BY <1>1 DEF CutShort, disk
  <1>9. Ordered'
    <2>1. ASSUME ~raced', Openable' PROVE InOrder'
      <3>1. /\ Distinct(file)' /\ Numbered(file)'
            /\ \A h \in Handles : Open(h) =>
                 /\ Len(storage[h].entries) <= Len(file')
                 /\ \A i \in 1..Len(storage[h].entries) : storage[h].entries[i] = file'[i]
        BY <1>1, <1>8, <2>1, FileStaysInOrder
      <3>2. ASSUME NEW h \in Handles, Open(h)' PROVE Begins(storage[h].entries)'
        BY <1>1, <3>1, <3>2 DEF Begins, Open
      <3> QED BY <1>6, <2>1, <3>1, <3>2 DEF InOrder
    <2> QED BY <2>1 DEF Ordered
  <1>10. LeafKnown' BY <1>1 DEF SerialInv, LeafKnown, Open
  <1>11. ~damaged' => ~damaged /\ file' = file BY <1>1 DEF CutShort, disk
  <1>12. Whole' BY <1>11 DEF SerialInv, Whole, Openable
  <1>13. AloneKnows'
    <2>1. ASSUME ~raced', ~damaged', NEW h \in Handles, Alone(h)'
          PROVE  storage'[h].entries = file'
      <3>1. Alone(h) /\ file' = file /\ ~raced /\ ~damaged
        BY <1>1, <1>11, <2>1 DEF Alone, Open
      <3>2. \A d \in Calls : call[d].pc # "written"
        BY <1>1, <1>4, <3>1 DEF SerialInv, OneCall, InFlight
      <3> QED BY <1>1, <3>1, <3>2 DEF SerialInv, AloneKnows
    <2> QED BY <2>1 DEF AloneKnows
  <1> QED BY <1>7, <1>9, <1>10, <1>12, <1>13 DEF SerialInv

LEMMA CrashInOrder ==
  ASSUME LinkInv, SerialInv, Crash
  PROVE  SerialInv'
  <1>1. \A h \in Handles : ~Open(h)'
    <2>1. \A rec \in StorageRecords : [rec EXCEPT !.state = "dead"].state = "dead"
      BY DEF StorageRecords
    <2>2. storage \in [Handles -> StorageRecords] BY DEF LinkInv, TypeOK, StorageRecords
    <2> QED BY <2>1, <2>2 DEF Crash, Open
  <1>2. \A c \in Calls : ~InFlight(c)'
    <2>1. \A rec \in CallRecords : [rec EXCEPT !.pc = "failed"].pc = "failed"
      BY DEF CallRecords
    <2>2. call \in [Calls -> CallRecords] BY DEF LinkInv, TypeOK, CallRecords
    <2> QED BY <2>1, <2>2 DEF Crash, InFlight
  <1>3. UNCHANGED <<raced, sequence>> BY DEF Crash, ids
  <1>4. OneCall' BY <1>2 DEF OneCall
  <1>5. Ordered'
    <2>1. ASSUME ~raced', Openable' PROVE Distinct(file)' /\ Numbered(file)'
      <3>1. CASE UNCHANGED disk
        BY <1>3, <2>1, <3>1
           DEF SerialInv, Ordered, InOrder, Openable, Distinct, Numbered, disk
      <3>2. ASSUME NEW c \in Calls, call[c].pc = "writing", CutShort(c)
            PROVE  Distinct(file)' /\ Numbered(file)'
        <4>1. \/ file' = file
              \/ \E line \in {Garbage, call[c].entry} : file' = Added(line)
          BY <3>2 DEF CutShort, disk
        <4> QED BY <1>3, <2>1, <3>2, <4>1, FileStaysInOrder
      <3> QED BY <3>1, <3>2 DEF Crash
    <2> QED BY <1>1, <1>2, <2>1 DEF Ordered, InOrder
  <1>6. LeafKnown' BY <1>1 DEF LeafKnown
  <1>7. ~damaged' => ~damaged /\ file' = file BY DEF Crash, CutShort, disk
  <1>8. Whole' BY <1>7 DEF SerialInv, Whole, Openable
  <1>9. AloneKnows' BY <1>1 DEF AloneKnows, Alone
  <1> QED BY <1>4, <1>5, <1>6, <1>8, <1>9 DEF SerialInv

LEMMA AcknowledgeInOrder ==
  ASSUME LinkInv, SerialInv, NEW c \in Calls, Acknowledge(c)
  PROVE  SerialInv'
  <1> DEFINE h == call[c].on
             e == call[c].entry
             entries == Append(storage[h].entries, e)
             rec == [storage[h] EXCEPT !.entries = entries, !.leaf = LeafWith(h, e)]
             next == [id |-> NewId(entries), parent |-> e.target, kind |-> "entry",
                      target |-> None]
  <1>1. call[c].pc = "written" /\ file' = file /\ damaged' = damaged
    BY DEF Acknowledge, disk
  <1>2. CallLinks(c) /\ InFlight(c) BY <1>1 DEF LinkInv, CallsLink, InFlight
  <1>3. h \in Handles /\ Open(h) /\ e \in Entries BY <1>2 DEF CallLinks
  <1>4. storage[h].entries \in Seq(Entries) BY <1>3, ObjectType
  <1>5. entries \in Seq(Entries) BY <1>3, <1>4
  <1>6. storage[h] \in StorageRecords /\ storage \in [Handles -> StorageRecords]
    BY <1>3 DEF LinkInv, TypeOK, StorageRecords
  <1>7. rec.state = "open" /\ rec.entries = entries /\ rec.leaf = LeafIdAfterEntry(e)
    BY <1>3, <1>6 DEF StorageRecords, LeafWith, Open
  <1>8. storage' = [storage EXCEPT ![h] = rec]
    BY <1>6 DEF Acknowledge, Remember, StorageRecords
  <1>9. storage'[h] = rec /\ \A g \in Handles \ {h} : storage'[g] = storage[g]
    BY <1>3, <1>6, <1>8
  <1>10. \A g \in Handles : Open(g)' <=> Open(g) BY <1>3, <1>7, <1>9 DEF Open
  <1>11. ~raced /\ Openable => InOrder /\ file = entries
    BY <1>1, <1>2 DEF SerialInv, Ordered, InOrder, CallFits
  <1>12. /\ ~raced' => ~raced /\ (\A d \in Calls : InFlight(d)' => d = c)
         /\ ~raced' /\ Openable' =>
              /\ Openable /\ Distinct(file)' /\ Numbered(file)'
              /\ InFlight(c)' => CallFits(c)'
    <2>1. CASE call[c].summary
      <3>1. NewId(entries) \in Ids BY NewIdType DEF LinkInv
      <3>2. next \in Entries /\ next.id = NewId(entries)
        BY <1>2, <3>1 DEF Entries, CallLinks
      <3>3. Writes(c, h, entries, next, FALSE) BY <2>1 DEF Acknowledge
      <3>4. storage'[h].entries = entries BY <1>7, <1>9
      <3>5. ~raced /\ Openable => Begins(entries)
        <4>1. Len(entries) \in Nat BY <1>5
        <4>2. ASSUME file = entries PROVE Begins(entries)
          <5> HIDE DEF entries
          <5> QED BY <4>1, <4>2 DEF Begins
        <4> QED BY <1>11, <4>2
      <3> HIDE DEF next, entries, rec
      <3>6. FALSE \in BOOLEAN OBVIOUS
      <3> QED BY <1>1, <1>3, <1>5, <3>2, <3>3, <3>4, <3>5, <3>6, WritesInOrder
    <2>2. CASE ~call[c].summary
      <3>1. /\ call' = [call EXCEPT ![c].pc = "done"]
            /\ raced' = raced /\ sequence' = sequence
        BY <2>2 DEF Acknowledge
      <3>2. call \in [Calls -> CallRecords] BY DEF LinkInv, TypeOK, CallRecords
      <3>3. call'[c].pc = "done" /\ \A d \in Calls \ {c} : call'[d] = call[d]
        BY <3>1, <3>2 DEF CallRecords
      <3>4. ~InFlight(c)' /\ \A d \in Calls : InFlight(d)' => InFlight(d)
        BY <1>2, <3>3 DEF InFlight
      <3>5. ~raced' => \A d \in Calls : InFlight(d)' => d = c
        BY <1>2, <3>1, <3>4 DEF SerialInv, OneCall
      <3>6. ~raced' /\ Openable' => Openable /\ Distinct(file)' /\ Numbered(file)'
        BY <1>1, <1>11, <3>1 DEF Openable, InOrder, Distinct, Numbered
      <3> QED BY <3>1, <3>4, <3>5, <3>6
    <2> QED BY <2>1, <2>2
  <1> HIDE DEF rec, next
  <1>13. OneCall' BY <1>12 DEF OneCall
  <1>14. Ordered'
    <2>1. ASSUME ~raced', Openable' PROVE InOrder'
      <3>1. InOrder /\ file = entries BY <1>11, <1>12, <2>1
      <3>2. ASSUME NEW g \in Handles, Open(g)' PROVE Begins(storage[g].entries)'
        <4>1. CASE g = h
          <5>1. storage'[g].entries = file' BY <1>1, <1>7, <1>9, <3>1, <4>1
          <5>2. Len(file') \in Nat BY <1>1, <1>5, <3>1
          <5> HIDE DEF entries
          <5> QED BY <5>1, <5>2 DEF Begins
        <4>2. CASE g # h
          BY <1>1, <1>9, <1>10, <3>1, <3>2, <4>2 DEF InOrder, Begins
        <4> QED BY <4>1, <4>2
      <3> QED BY <1>12, <2>1, <3>2 DEF InOrder
    <2> QED BY <2>1 DEF Ordered
  <1>15. LeafKnown'
    <2>1. storage'[h].leaf = LeafOf(storage'[h].entries)
      BY <1>3, <1>4, <1>7, <1>9, LeafOfAppend
    <2>2. \A g \in Handles : Open(g)' => storage'[g].leaf = LeafOf(storage'[g].entries)
      BY <1>9, <1>10, <2>1 DEF SerialInv, LeafKnown
    <2> QED BY <2>2 DEF LeafKnown, LeafOf, LeafIdAfterEntry
  <1>16. Whole' BY <1>1 DEF SerialInv, Whole, Openable
  <1>17. AloneKnows'
    <2>1. ASSUME ~raced', ~damaged', NEW g \in Handles, Alone(g)'
          PROVE  storage'[g].entries = file'
      <3>1. g = h BY <1>3, <1>10, <2>1 DEF Alone
      <3>2. Openable /\ ~raced BY <1>1, <1>12, <2>1 DEF SerialInv, Whole
      <3> QED BY <1>1, <1>7, <1>9, <1>11, <3>1, <3>2
    <2> QED BY <2>1 DEF AloneKnows
  <1> QED BY <1>13, <1>14, <1>15, <1>16, <1>17 DEF SerialInv

LEMMA IdleInOrder ==
  ASSUME SerialInv, NextWindow \/ UNCHANGED vars
  PROVE  SerialInv'
  <1>1. UNCHANGED <<disk, storage, call, raced, sequence>>
    BY DEF NextWindow, vars, ids
  <1>2. OneCall' /\ LeafKnown' /\ Whole' /\ AloneKnows'
    BY <1>1 DEF SerialInv, OneCall, LeafKnown, Whole, AloneKnows, Alone, InFlight, Open,
                Openable, disk
  <1>3. Ordered'
    BY <1>1 DEF SerialInv, Ordered, InOrder, Distinct, Numbered, Begins, CallFits,
                InFlight, Open, Openable, disk
  <1> QED BY <1>2, <1>3 DEF SerialInv

LEMMA InitInOrder == Init => SerialInv
  <1> SUFFICES ASSUME Init PROVE SerialInv OBVIOUS
  <1>1. OneCall /\ LeafKnown /\ AloneKnows
    BY DEF Init, OneCall, LeafKnown, AloneKnows, Alone, InFlight, Open
  <1>2. file = <<>> /\ Len(file) = 0 BY DEF Init
  <1>3. Distinct(file) /\ Numbered(file) BY <1>2 DEF Distinct, Numbered
  <1>4. Ordered BY <1>3 DEF Init, Ordered, InOrder, InFlight, Open
  <1>5. Whole BY <1>2 DEF Whole, Openable
  <1> QED BY <1>1, <1>4, <1>5 DEF SerialInv

LEMMA NextInOrder == LinkInv /\ SerialInv /\ [Next]_vars => SerialInv'
  <1> SUFFICES ASSUME LinkInv, SerialInv, [Next]_vars PROVE SerialInv' OBVIOUS
  <1>1. CASE \E h \in Handles : Load(h) BY <1>1, LoadInOrder
  <1>2. CASE \E c \in Appends, h \in Handles : AppendEntry(c, h)
    BY <1>2, AppendEntryInOrder
  <1>3. CASE \E c \in Moves, h \in Handles, summary \in BOOLEAN :
               \E target \in IdsOf(storage[h].entries) \cup {None} :
                 MoveTo(c, h, target, summary)
    BY <1>3, MoveToInOrder
  <1>4. CASE \E c \in Calls : WriteLine(c) \/ Acknowledge(c) \/ WriteFails(c)
    BY <1>4, WriteLineInOrder, AcknowledgeInOrder, WriteFailsInOrder
  <1>5. CASE Crash BY <1>5, CrashInOrder
  <1>6. CASE NextWindow \/ UNCHANGED vars BY <1>6, IdleInOrder
  <1> QED BY <1>1, <1>2, <1>3, <1>4, <1>5, <1>6 DEF Next, Rest

-----------------------------------------------------------------------------
(***************************************************************************)
(* Paths to the root.  What a recursive function computes is shown with a  *)
(* least counterexample: a set of natural numbers has a least element.     *)
(***************************************************************************)

LEMMA LeastNumber ==
  ASSUME NEW T \in SUBSET Nat, T # {}
  PROVE  \E x \in T : \A y \in T : x <= y
  <1>1. PICK x \in T : \A y \in T : ~(<<y, x>> \in OpToRel(<, Nat))
    BY NatLessThanWellFounded, WFMin, Zenon
  <1>2. \A y \in T : ~(y < x) BY <1>1, Zenon DEF OpToRel
  <1> QED BY <1>2

\* The index under which byId has an id.
LastWith(entries, id, i) ==
  /\ i \in DOMAIN entries /\ entries[i].id = id
  /\ \A j \in DOMAIN entries : j > i => entries[j].id # id

LEMMA LastIndex ==
  ASSUME NEW entries \in Seq(Entries), NEW id \in IdsOf(entries)
  PROVE  \E i \in DOMAIN entries : LastWith(entries, id, i) /\ ById(entries, id) = entries[i]
  <1> DEFINE n == Len(entries)
             T == {k \in Nat : k <= n /\ n - k \in DOMAIN entries /\ entries[n - k].id = id}
  <1>1. n \in Nat /\ DOMAIN entries = 1..n OBVIOUS
  <1>2. PICK i0 \in DOMAIN entries : entries[i0].id = id BY DEF IdsOf
  <1>3. n - i0 \in T
    <2>1. n - (n - i0) = i0 /\ n - i0 \in Nat /\ n - i0 <= n BY <1>1
    <2> QED BY <1>2, <2>1
  <1>4. T \in SUBSET Nat /\ T # {} BY <1>3
  <1>5. PICK k \in T : \A m \in T : k <= m
    <2> HIDE DEF T
    <2> QED BY <1>4, LeastNumber
  <1>6. ASSUME NEW j \in DOMAIN entries, j > n - k PROVE entries[j].id # id
    <2>1. n - (n - j) = j /\ n - j \in Nat /\ n - j <= n /\ n - j < k BY <1>1, <1>6
    <2>2. n - j \notin T BY <1>5, <2>1
    <2> QED BY <2>1, <2>2
  <1>7. LastWith(entries, id, n - k) BY <1>5, <1>6 DEF LastWith
  <1> HIDE DEF T, n
  <1>8. \E i : LastWith(entries, id, i) BY <1>7
  <1>9. LastWith(entries, id, CHOOSE i : LastWith(entries, id, i)) BY <1>8
  <1>10. ById(entries, id) = entries[CHOOSE i : LastWith(entries, id, i)]
    <2>1. \A i : LastWith(entries, id, i) <=>
                   /\ i \in DOMAIN entries
                   /\ entries[i].id = id
                   /\ \A j \in DOMAIN entries : j > i => entries[j].id # id
      BY DEF LastWith
    <2>2. (CHOOSE i : LastWith(entries, id, i)) =
            CHOOSE i \in DOMAIN entries :
              entries[i].id = id /\ \A j \in DOMAIN entries : j > i => entries[j].id # id
      BY <2>1
    <2> QED BY <2>2 DEF ById
  <1> QED BY <1>9, <1>10 DEF LastWith

\* One round of getPathToRoot().
After(entries, x) == IF x = None THEN None ELSE ById(entries, x).parent

\* The first k rounds from id on.
RoundsUpTo(entries, id, k, up) ==
  up = [n \in 0..k |-> IF n = 0 THEN id ELSE After(entries, up[n - 1])]

LEMMA RoundsExist ==
  ASSUME NEW entries, NEW id, NEW k \in Nat
  PROVE  \E up : RoundsUpTo(entries, id, k, up)
  <1> DEFINE T == {m \in Nat : ~\E up : RoundsUpTo(entries, id, m, up)}
  <1> SUFFICES ASSUME T # {} PROVE FALSE OBVIOUS
  <1>1. PICK m \in T : \A j \in T : m <= j
    <2>1. T \in SUBSET Nat OBVIOUS
    <2> HIDE DEF T
    <2> QED BY <2>1, LeastNumber
  <1>2. CASE m = 0
    <2> DEFINE up == [n \in 0..0 |-> id]
    <2>1. up = [n \in 0..0 |-> IF n = 0 THEN id ELSE After(entries, up[n - 1])] OBVIOUS
    <2> HIDE DEF up
    <2>2. RoundsUpTo(entries, id, 0, up) BY <2>1 DEF RoundsUpTo
    <2> QED BY <1>1, <1>2, <2>2
  <1>3. CASE m # 0
    <2>1. m - 1 \in Nat /\ m - 1 \notin T BY <1>1, <1>3
    <2>2. PICK f : RoundsUpTo(entries, id, m - 1, f) BY <2>1
    <2> DEFINE up == [n \in 0..m |-> IF n = m THEN After(entries, f[m - 1]) ELSE f[n]]
    <2>3. ASSUME NEW n \in 0..m
          PROVE  up[n] = IF n = 0 THEN id ELSE After(entries, up[n - 1])
      <3>1. CASE n = m
        <4>1. m - 1 \in 0..m /\ m - 1 # m BY <1>3
        <4>2. up[m - 1] = f[m - 1] BY <4>1
        <4>3. up[m] = After(entries, f[m - 1]) OBVIOUS
        <4> QED BY <1>3, <3>1, <4>2, <4>3
      <3>2. CASE n # m /\ n # 0
        <4>1. n \in 0..(m - 1) /\ n - 1 \in 0..m /\ n - 1 # m BY <3>2
        <4>2. up[n] = f[n] /\ up[n - 1] = f[n - 1] BY <3>2, <4>1
        <4>3. f[n] = After(entries, f[n - 1]) BY <2>2, <3>2, <4>1 DEF RoundsUpTo
        <4> QED BY <3>2, <4>2, <4>3
      <3>3. CASE n # m /\ n = 0
        <4>1. 0 \in 0..(m - 1) BY <2>1
        <4>2. up[0] = f[0] BY <3>3
        <4>3. f[0] = id BY <2>2, <4>1 DEF RoundsUpTo
        <4> QED BY <3>3, <4>2, <4>3
      <3> QED BY <3>1, <3>2, <3>3
    <2>4. up = [n \in 0..m |-> up[n]] OBVIOUS
    <2> HIDE DEF up
    <2>5. RoundsUpTo(entries, id, m, up) BY <2>3, <2>4 DEF RoundsUpTo
    <2> QED BY <1>1, <2>5
  <1> QED BY <1>2, <1>3

\* What Ancestor stands for.
LEMMA AncestorIsLastRound ==
  ASSUME NEW entries \in Seq(Entries), NEW id
  PROVE  \E up : /\ RoundsUpTo(entries, id, Len(entries), up)
                 /\ Ancestor(entries, id) = up[Len(entries)]
  <1> DEFINE k == Len(entries)
             up == CHOOSE f : RoundsUpTo(entries, id, k, f)
  <1>1. RoundsUpTo(entries, id, k, up) BY RoundsExist, Len(entries) \in Nat
  <1>2. Ancestor(entries, id) = up[k]
    BY DEF Ancestor, RoundsUpTo, After
  <1> QED BY <1>1, <1>2

\* The order of ids: by period, then by number.
Below(x, y) == x[1] < y[1] \/ (x[1] = y[1] /\ x[2] < y[2])

Descends(e) == e.parent = None \/ Below(e.parent, e.id)

LEMMA BelowOrders ==
  ASSUME NEW x \in Ids, NEW y \in Ids, NEW z \in Ids
  PROVE  ~Below(x, x) /\ (Below(x, y) /\ Below(y, z) => Below(x, z))
  <1>1. /\ x[1] \in Int /\ x[2] \in Int /\ y[1] \in Int /\ y[2] \in Int
        /\ z[1] \in Int /\ z[2] \in Int
    BY ConstantsAssumption DEF Ids
  <1> QED BY <1>1 DEF Below

LEMMA IdsOfType ==
  ASSUME NEW entries \in Seq(Entries)
  PROVE  IdsOf(entries) \subseteq Ids
  <1>1. \A i \in DOMAIN entries : entries[i] \in Entries OBVIOUS
  <1>2. \A e \in Entries : e.id \in Ids BY DEF Entries
  <1> QED BY <1>1, <1>2 DEF IdsOf

\* A round goes to an id that is there and below.
LEMMA RoundDescends ==
  ASSUME NEW entries \in Seq(Entries), NEW leaf, Linked(entries, leaf),
         \A i \in DOMAIN entries : Descends(entries[i]),
         NEW x \in IdsOf(entries) \cup {None}
  PROVE  /\ After(entries, x) \in IdsOf(entries) \cup {None}
         /\ After(entries, x) # None =>
              /\ x \in IdsOf(entries) /\ x # None
              /\ After(entries, x) \in IdsOf(entries) /\ Below(After(entries, x), x)
  <1>1. CASE x = None BY <1>1 DEF After
  <1>2. CASE x # None
    <2>1. PICK i \in DOMAIN entries : LastWith(entries, x, i) /\ ById(entries, x) = entries[i]
      BY <1>2, LastIndex
    <2>2. After(entries, x) = entries[i].parent BY <1>2, <2>1 DEF After
    <2>3. entries[i].parent \in IdsOf(entries) \cup {None} BY DEF Linked
    <2>4. entries[i].parent # None => Below(entries[i].parent, x)
      BY <2>1 DEF Descends, LastWith
    <2> QED BY <1>2, <2>2, <2>3, <2>4
  <1> QED BY <1>1, <1>2

\* Descending parents lead to the root in as many rounds as there are entries:
\* one more and an entry would have been met twice.
LEMMA DescendingPathEnds ==
  ASSUME NEW entries \in Seq(Entries), NEW leaf, Linked(entries, leaf),
         \A i \in DOMAIN entries : Descends(entries[i]),
         NEW id \in IdsOf(entries)
  PROVE  Ancestor(entries, id) = None
  <1> DEFINE k == Len(entries)
  <1>1. PICK up : RoundsUpTo(entries, id, k, up) /\ Ancestor(entries, id) = up[k]
    BY AncestorIsLastRound
  <1>2. k \in Nat /\ DOMAIN entries = 1..k OBVIOUS
  <1>3. up[0] = id /\ \A n \in 1..k : up[n] = After(entries, up[n - 1])
    <2>1. \A n \in 0..k : up[n] = IF n = 0 THEN id ELSE After(entries, up[n - 1])
      BY <1>1 DEF RoundsUpTo
    <2> QED BY <1>2, <2>1
  <1> HIDE DEF k
  <1>4. \A n \in 0..k : up[n] \in IdsOf(entries) \cup {None}
    <2> DEFINE T == {n \in 0..k : up[n] \notin IdsOf(entries) \cup {None}}
    <2> SUFFICES ASSUME T # {} PROVE FALSE OBVIOUS
    <2>1. PICK n \in T : \A m \in T : n <= m
      <3>1. T \in SUBSET Nat BY <1>2
      <3> HIDE DEF T
      <3> QED BY <3>1, LeastNumber
    <2>2. n # 0 BY <1>3
    <2>3. n - 1 \in 0..k /\ n \in 1..k /\ n - 1 \notin T BY <1>2, <2>1, <2>2
    <2>4. up[n - 1] \in IdsOf(entries) \cup {None} BY <2>3
    <2>5. up[n] \in IdsOf(entries) \cup {None} BY <1>3, <2>3, <2>4, RoundDescends
    <2> QED BY <2>1, <2>5
  <1>5. ASSUME NEW i \in 0..k, NEW j \in 0..k, i < j, up[j] # None
        PROVE  up[i] \in IdsOf(entries) /\ up[i] # None /\ Below(up[j], up[i])
    <2> DEFINE T == {n \in 0..k : /\ i < n /\ up[n] # None
                                  /\ ~(/\ up[i] \in IdsOf(entries) /\ up[i] # None
                                       /\ Below(up[n], up[i]))}
    <2> SUFFICES ASSUME T # {} PROVE FALSE BY <1>5
    <2>1. PICK n \in T : \A m \in T : n <= m
      <3>1. T \in SUBSET Nat BY <1>2
      <3> HIDE DEF T
      <3> QED BY <3>1, LeastNumber
    <2>2. n - 1 \in 0..k /\ n \in 1..k /\ n - 1 \notin T /\ i <= n - 1 BY <1>2, <2>1
    <2>3. up[n] = After(entries, up[n - 1]) BY <1>3, <2>2
    <2>4. /\ up[n - 1] \in IdsOf(entries) /\ up[n - 1] # None
          /\ up[n] \in IdsOf(entries) /\ Below(up[n], up[n - 1])
      BY <1>4, <2>1, <2>2, <2>3, RoundDescends
    <2>5. CASE i = n - 1 BY <2>1, <2>4, <2>5
    <2>6. CASE i # n - 1
      <3>1. up[i] \in IdsOf(entries) /\ up[i] # None /\ Below(up[n - 1], up[i])
        BY <2>2, <2>4, <2>6
      <3> QED BY <2>1, <2>4, <3>1, BelowOrders, IdsOfType
    <2> QED BY <2>5, <2>6
  <1>6. SUFFICES ASSUME up[k] # None PROVE FALSE BY <1>1
  <1>7. \A i \in 0..k : up[i] \in IdsOf(entries)
    <2>1. up[k] \in IdsOf(entries) BY <1>2, <1>4, <1>6
    <2> QED BY <1>2, <1>5, <1>6, <2>1
  <1> DEFINE at == [i \in 0..k |-> CHOOSE j \in 1..k : entries[j].id = up[i]]
  <1>8. \A i \in 0..k : at[i] \in 1..k /\ entries[at[i]].id = up[i]
    BY <1>2, <1>7 DEF IdsOf
  <1>9. at \in [0..k -> 1..k] BY <1>8
  <1> HIDE DEF at
  <1>10. /\ IsFiniteSet(0..k) /\ IsFiniteSet(1..k)
         /\ Cardinality(1..k) < Cardinality(0..k)
    <2>1. /\ IsFiniteSet(0..k) /\ Cardinality(0..k) = IF 0 > k THEN 0 ELSE k - 0 + 1
          /\ IsFiniteSet(1..k) /\ Cardinality(1..k) = IF 1 > k THEN 0 ELSE k - 1 + 1
      BY <1>2, FS_Interval
    <2> QED BY <1>2, <2>1
  <1>11. PICK i, j \in 0..k : i # j /\ at[i] = at[j] BY <1>9, <1>10, FS_PigeonHole
  <1>12. up[i] = up[j] BY <1>8, <1>11
  <1>13. /\ i < j => Below(up[j], up[i])
         /\ j < i => Below(up[i], up[j])
    <2>1. \A n \in 0..k : up[n] # None BY <1>2, <1>5, <1>6
    <2> QED BY <1>5, <2>1
  <1>14. up[i] \in Ids /\ up[j] \in Ids BY <1>7, IdsOfType
  <1>15. i < j \/ j < i BY <1>2, <1>11
  <1> QED BY <1>12, <1>13, <1>14, <1>15, BelowOrders

-----------------------------------------------------------------------------
(***************************************************************************)
(* Parents descend.  A new id is above every id its object knows: a short  *)
(* one is only made when the object knows none of the current period, and  *)
(* full ones are numbered.  It needs that whoever knows a full id knows    *)
(* the short one of its period.                                            *)
(***************************************************************************)

Ranked(entries, w, n) ==
  \A i \in DOMAIN entries :
    /\ Descends(entries[i])
    /\ entries[i].id[1] <= w /\ entries[i].id[2] <= n
    /\ <<entries[i].id[1], 0>> \in IdsOf(entries)

\* What a call has in hand will keep ranked those who come to know it.
CallRanked(c) ==
  LET e == call[c].entry
  IN  /\ Descends(e) /\ e.id[1] <= window /\ e.id[2] <= sequence
      /\ <<e.id[1], 0>> \in IdsOf(storage[call[c].on].entries) \cup {e.id}

ObjectsRanked == \A h \in Handles : Open(h) => Ranked(storage[h].entries, window, sequence)
FileRanked == Openable => Ranked(file, window, sequence)
CallsRanked == \A c \in Calls : InFlight(c) => CallRanked(c)

RankInv == ObjectsRanked /\ FileRanked /\ CallsRanked

\* Periods and numbers only grow.
LEMMA RankedStays ==
  ASSUME NEW entries \in Seq(Entries), NEW w \in Nat, NEW n \in Nat, NEW v \in Nat,
         NEW m \in Nat, w <= v, n <= m, Ranked(entries, w, n)
  PROVE  Ranked(entries, v, m)
  <1>1. ASSUME NEW i \in DOMAIN entries
        PROVE  entries[i].id[1] <= v /\ entries[i].id[2] <= m
    <2>1. entries[i].id \in Ids BY IdsOfType DEF IdsOf
    <2>2. entries[i].id[1] \in Int /\ entries[i].id[2] \in Int
      BY <2>1, ConstantsAssumption DEF Ids
    <2>3. entries[i].id[1] <= w /\ entries[i].id[2] <= n BY DEF Ranked
    <2> QED BY <2>2, <2>3
  <1> QED BY <1>1 DEF Ranked

LEMMA RankedAppend ==
  ASSUME NEW entries \in Seq(Entries), NEW e \in Entries, NEW w, NEW n,
         Ranked(entries, w, n), Descends(e), e.id[1] <= w, e.id[2] <= n,
         <<e.id[1], 0>> \in IdsOf(entries) \cup {e.id}
  PROVE  Ranked(Append(entries, e), w, n)
  <1> DEFINE s == Append(entries, e)
  <1>1. IdsOf(s) = IdsOf(entries) \cup {e.id} BY IdsOfAppend
  <1>2. DOMAIN s = 1..Len(entries) + 1 /\ DOMAIN entries = 1..Len(entries)
          /\ Len(entries) \in Nat
    OBVIOUS
  <1>3. s[Len(entries) + 1] = e /\ \A i \in 1..Len(entries) : s[i] = entries[i]
    OBVIOUS
  <1> HIDE DEF s
  <1>4. ASSUME NEW i \in DOMAIN s
        PROVE  /\ Descends(s[i]) /\ s[i].id[1] <= w /\ s[i].id[2] <= n
               /\ <<s[i].id[1], 0>> \in IdsOf(s)
    <2>1. CASE i = Len(entries) + 1 BY <1>1, <1>3, <2>1
    <2>2. CASE i \in DOMAIN entries BY <1>1, <1>2, <1>3, <2>2 DEF Ranked
    <2> QED BY <1>2, <1>4, <2>1, <2>2
  <1> QED BY <1>4 DEF Ranked, s

\* A new id is above all that are known.
LEMMA NewIdIsAbove ==
  ASSUME TypeOK, NEW entries \in Seq(Entries), Ranked(entries, window, sequence),
         NEW p \in IdsOf(entries) \cup {None}
  PROVE  /\ p = None \/ Below(p, NewId(entries))
         /\ NewId(entries)[1] = window
         /\ NewId(entries)[2] = 0 \/ NewId(entries)[2] = sequence + 1
         /\ <<window, 0>> \in IdsOf(entries) \cup {NewId(entries)}
  <1>1. window \in Nat /\ sequence \in Nat BY ConstantsAssumption DEF TypeOK
  <1>2. ASSUME p # None
        PROVE  /\ p[1] \in Int /\ p[2] \in Int /\ p[1] <= window /\ p[2] <= sequence
               /\ <<p[1], 0>> \in IdsOf(entries)
    <2>1. PICK i \in DOMAIN entries : entries[i].id = p BY <1>2 DEF IdsOf
    <2>2. p \in Ids BY <2>1, IdsOfType DEF IdsOf
    <2>3. p[1] \in Int /\ p[2] \in Int BY <2>2, ConstantsAssumption DEF Ids
    <2> QED BY <2>1, <2>3 DEF Ranked
  <1>3. CASE <<window, 0>> \in IdsOf(entries)
    <2>1. NewId(entries) = <<window, sequence + 1>> BY <1>3 DEF NewId
    <2>2. NewId(entries)[1] = window /\ NewId(entries)[2] = sequence + 1 BY <2>1
    <2>3. p # None => Below(p, NewId(entries)) BY <1>1, <1>2, <2>2 DEF Below
    <2> QED BY <1>3, <2>2, <2>3
  <1>4. CASE <<window, 0>> \notin IdsOf(entries)
    <2>1. NewId(entries) = <<window, 0>> BY <1>4 DEF NewId
    <2>2. NewId(entries)[1] = window /\ NewId(entries)[2] = 0 BY <2>1
    <2>3. p # None => p[1] # window BY <1>2, <1>4
    <2>4. p # None => Below(p, NewId(entries)) BY <1>1, <1>2, <2>2, <2>3 DEF Below
    <2> QED BY <2>1, <2>2, <2>4
  <1> QED BY <1>3, <1>4

\* The entry a call begins to write for an object that knows entries.
LEMMA WritesRanked ==
  ASSUME LinkInv, NEW c \in Calls, NEW h \in Handles, NEW entries \in Seq(Entries),
         Ranked(entries, window, sequence), NEW e \in Entries, NEW summary \in BOOLEAN,
         Writes(c, h, entries, e, summary), e.id = NewId(entries),
         e.parent \in IdsOf(entries) \cup {None}, window' = window,
         storage'[h].entries = entries
  PROVE  /\ CallRanked(c)'
         /\ sequence' \in Nat /\ sequence <= sequence'
  <1>1. call'[c].on = h /\ call'[c].entry = e BY WritesLinks
  <1>2. /\ Descends(e) /\ e.id[1] = window /\ (e.id[2] = 0 \/ e.id[2] = sequence + 1)
        /\ <<window, 0>> \in IdsOf(entries) \cup {e.id}
    BY NewIdIsAbove DEF LinkInv, Descends
  <1>3. window \in Nat /\ sequence \in Nat BY ConstantsAssumption DEF LinkInv, TypeOK
  <1>4. sequence' = IF e.id[2] = 0 THEN sequence ELSE sequence + 1 BY DEF Writes
  <1>5. sequence' \in Nat /\ sequence <= sequence' /\ e.id[2] <= sequence'
        /\ e.id[1] <= window
    BY <1>2, <1>3, <1>4
  <1> QED BY <1>1, <1>2, <1>5 DEF CallRanked

\* The objects, the file and a call that stay as they are.
LEMMA RanksStay ==
  ASSUME LinkInv, RankInv, window' \in Nat, sequence' \in Nat, window <= window',
         sequence <= sequence'
  PROVE  /\ \A h \in Handles : Open(h) => Ranked(storage[h].entries, window', sequence')
         /\ Openable => Ranked(file, window', sequence')
         /\ \A c \in Calls : InFlight(c) /\ call'[c].entry = call[c].entry
                               /\ call'[c].on = call[c].on
                               /\ IdsOf(storage[call[c].on].entries)
                                    \subseteq IdsOf(storage'[call[c].on].entries)
                               => CallRanked(c)'
  <1>1. window \in Nat /\ sequence \in Nat BY ConstantsAssumption DEF LinkInv, TypeOK
  <1>2. ASSUME NEW h \in Handles, Open(h) PROVE Ranked(storage[h].entries, window', sequence')
    <2>1. storage[h].entries \in Seq(Entries) BY ObjectType
    <2>2. Ranked(storage[h].entries, window, sequence) BY <1>2 DEF RankInv, ObjectsRanked
    <2> QED BY <1>1, <2>1, <2>2, RankedStays
  <1>3. ASSUME Openable PROVE Ranked(file, window', sequence')
    <2>1. file \in Seq(Entries) BY <1>3, OpenableType DEF LinkInv
    <2>2. Ranked(file, window, sequence) BY <1>3 DEF RankInv, FileRanked
    <2> QED BY <1>1, <2>1, <2>2, RankedStays
  <1>4. ASSUME NEW c \in Calls, InFlight(c), call'[c].entry = call[c].entry,
               call'[c].on = call[c].on,
               IdsOf(storage[call[c].on].entries) \subseteq IdsOf(storage'[call[c].on].entries)
        PROVE  CallRanked(c)'
    <2>1. CallRanked(c) BY <1>4 DEF RankInv, CallsRanked
    <2>2. call[c].entry.id \in Ids
      <3>1. call[c].entry \in Entries BY <1>4 DEF LinkInv, CallsLink, CallLinks
      <3> QED BY <3>1 DEF Entries
    <2>3. call[c].entry.id[1] \in Int /\ call[c].entry.id[2] \in Int
      BY <2>2, ConstantsAssumption DEF Ids
    <2>4. call[c].entry.id[1] <= window' /\ call[c].entry.id[2] <= sequence'
      BY <1>1, <2>1, <2>3 DEF CallRanked
    <2> QED BY <1>4, <2>1, <2>4 DEF CallRanked
  <1> QED BY <1>2, <1>3, <1>4

\* An object that loads the file knows what it says.
LEMMA LoadRanked ==
  ASSUME LinkInv, RankInv, NEW h \in Handles, Load(h)
  PROVE  RankInv'
  <1> DEFINE rec == [state |-> "open", entries |-> file, leaf |-> LeafOf(file)]
  <1>1. Openable /\ storage[h].state = "new" /\ storage' = [storage EXCEPT ![h] = rec]
        /\ UNCHANGED <<disk, call, ids, raced, bounds>>
    BY DEF Load
  <1>2. DOMAIN storage = Handles BY DEF LinkInv, TypeOK
  <1>3. rec.entries = file OBVIOUS
  <1> HIDE DEF rec
  <1>4. storage'[h] = rec /\ \A g \in Handles \ {h} : storage'[g] = storage[g] BY <1>1, <1>2
  <1>5. window' = window /\ sequence' = sequence /\ file' = file /\ call' = call
    BY <1>1 DEF disk, ids
  <1>6. Openable' <=> Openable BY <1>5 DEF Openable
  <1>7. Ranked(file, window, sequence) BY <1>1 DEF RankInv, FileRanked
  <1>8. FileRanked' BY <1>5, <1>7 DEF FileRanked
  <1>9. ObjectsRanked'
    <2>1. ASSUME NEW g \in Handles, Open(g)' PROVE Ranked(storage'[g].entries, window', sequence')
      <3>1. CASE g = h BY <1>3, <1>4, <1>5, <1>7, <3>1
      <3>2. CASE g # h BY <1>4, <1>5, <2>1, <3>2 DEF RankInv, ObjectsRanked, Open
      <3> QED BY <3>1, <3>2
    <2> QED BY <2>1 DEF ObjectsRanked
  <1>10. CallsRanked'
    <2>1. ASSUME NEW d \in Calls, InFlight(d)' PROVE CallRanked(d)'
      <3>1. InFlight(d) BY <1>5, <2>1 DEF InFlight
      <3>2. call[d].on \in Handles \ {h}
        BY <1>1, <3>1 DEF LinkInv, CallsLink, CallLinks, Open
      <3>3. CallRanked(d) BY <3>1 DEF RankInv, CallsRanked
      <3> QED BY <1>4, <1>5, <3>2, <3>3 DEF CallRanked
    <2> QED BY <2>1 DEF CallsRanked
  <1> QED BY <1>8, <1>9, <1>10 DEF RankInv

LEMMA BeginRanked ==
  ASSUME LinkInv, RankInv, NEW c \in Calls, NEW h \in Handles, Open(h),
         NEW e \in Entries, e.id = NewId(storage[h].entries),
         e.parent \in IdsOf(storage[h].entries) \cup {None}, NEW summary \in BOOLEAN,
         Writes(c, h, storage[h].entries, e, summary),
         UNCHANGED <<disk, storage, window, bounds>>
  PROVE  RankInv'
  <1>1. storage[h].entries \in Seq(Entries) /\ Ranked(storage[h].entries, window, sequence)
    BY ObjectType DEF RankInv, ObjectsRanked
  <1>2. storage' = storage /\ file' = file /\ window' = window BY DEF disk
  <1>3. CallRanked(c)' /\ sequence' \in Nat /\ sequence <= sequence'
    BY <1>1, <1>2, WritesRanked
  <1>4. window \in Nat BY ConstantsAssumption DEF LinkInv, TypeOK
  <1>5. /\ \A g \in Handles : Open(g) => Ranked(storage[g].entries, window', sequence')
        /\ Openable => Ranked(file, window', sequence')
        /\ \A d \in Calls : InFlight(d) /\ call'[d].entry = call[d].entry
                              /\ call'[d].on = call[d].on
                              /\ IdsOf(storage[call[d].on].entries)
                                   \subseteq IdsOf(storage'[call[d].on].entries)
                              => CallRanked(d)'
    BY <1>2, <1>3, <1>4, RanksStay
  <1>6. ObjectsRanked' BY <1>2, <1>5 DEF ObjectsRanked, Open
  <1>7. FileRanked' BY <1>2, <1>5 DEF FileRanked, Openable
  <1>8. \A d \in Calls \ {c} : call'[d] = call[d] BY WritesLinks
  <1>9. CallsRanked'
    <2>1. ASSUME NEW d \in Calls, InFlight(d)', d # c PROVE CallRanked(d)'
      <3>1. InFlight(d) BY <1>8, <2>1 DEF InFlight
      <3> QED BY <1>2, <1>5, <1>8, <2>1, <3>1
    <2> QED BY <1>3, <2>1 DEF CallsRanked
  <1> QED BY <1>6, <1>7, <1>9 DEF RankInv

LEMMA AppendEntryRanked ==
  ASSUME LinkInv, RankInv, NEW c \in Appends, NEW h \in Handles, AppendEntry(c, h)
  PROVE  RankInv'
  <1> DEFINE entries == storage[h].entries
             e == [id |-> NewId(entries), parent |-> storage[h].leaf,
                   kind |-> "entry", target |-> None]
  <1>1. NewId(entries) \in Ids BY NewIdType DEF LinkInv
  <1>2. e \in Entries BY <1>1, ObjectType DEF Entries
  <1>3. Writes(c, h, entries, e, FALSE) /\ Open(h) BY DEF AppendEntry
  <1>4. UNCHANGED <<disk, storage, window, bounds>> BY DEF AppendEntry
  <1>5. e.id = NewId(entries) /\ e.parent = storage[h].leaf OBVIOUS
  <1>6. storage[h].leaf \in IdsOf(entries) \cup {None} BY DEF AppendEntry
  <1>7. c \in Calls BY DEF Calls
  <1> HIDE DEF e
  <1> QED BY <1>2, <1>3, <1>4, <1>5, <1>6, <1>7, BeginRanked

LEMMA MoveToRanked ==
  ASSUME LinkInv, RankInv, NEW c \in Moves, NEW h \in Handles, NEW summary \in BOOLEAN,
         NEW target \in IdsOf(storage[h].entries) \cup {None},
         MoveTo(c, h, target, summary)
  PROVE  RankInv'
  <1> DEFINE entries == storage[h].entries
             e == [id |-> NewId(entries), parent |-> storage[h].leaf,
                   kind |-> "leaf", target |-> target]
  <1>1. NewId(entries) \in Ids BY NewIdType DEF LinkInv
  <1>2. target \in Ids \cup {None} BY ObjectType
  <1>3. e \in Entries BY <1>1, <1>2, ObjectType DEF Entries
  <1>4. Open(h) /\ Writes(c, h, entries, e, summary) BY DEF MoveTo
  <1>5. UNCHANGED <<disk, storage, window, bounds>> BY DEF MoveTo
  <1>6. e.id = NewId(entries) /\ e.parent = storage[h].leaf OBVIOUS
  <1>7. storage[h].leaf \in IdsOf(entries) \cup {None}
    BY <1>4 DEF LinkInv, ObjectsKnow, ObjectKnows, Linked
  <1>8. c \in Calls BY DEF Calls
  <1> HIDE DEF e
  <1> QED BY <1>3, <1>4, <1>5, <1>6, <1>7, <1>8, BeginRanked

\* The file after a write of c, whole or cut short or not begun.
LEMMA FileAfterWriteRanked ==
  ASSUME LinkInv, RankInv, NEW c \in Calls, call[c].pc = "writing",
         UNCHANGED <<window, sequence>>,
         \/ file' = file
         \/ \E line \in {Garbage, call[c].entry} : file' = Added(line)
  PROVE  FileRanked'
  <1> DEFINE e == call[c].entry
             h == call[c].on
  <1>1. CallLinks(c) /\ CallRanked(c)
    BY DEF LinkInv, CallsLink, RankInv, CallsRanked, InFlight
  <1>2. CASE file' = file BY <1>2 DEF RankInv, FileRanked, Openable
  <1>3. ASSUME NEW line \in {Garbage, e}, file' = Added(line), Openable'
        PROVE  Ranked(file', window, sequence)
    <2>1. line \in Entries \cup {Garbage} BY <1>1 DEF CallLinks
    <2>2. Openable /\ line \in Entries /\ file' = Append(file, line)
      BY <1>3, <2>1, AddedLine DEF LinkInv, Openable
    <2>3. file \in Seq(Entries) BY <2>2, OpenableType DEF LinkInv
    <2>4. line = e
      <3>1. file'[Len(file) + 1] = line /\ Len(file) + 1 \in DOMAIN file' BY <2>2, <2>3
      <3> QED BY <1>3, <3>1 DEF Openable
    <2>5. IdsOf(storage[h].entries) \subseteq IdsOf(file)
      BY <1>1, <2>2 DEF LinkInv, ObjectsKnow, ObjectKnows, CallLinks
    <2>6. Ranked(file, window, sequence) BY <2>2 DEF RankInv, FileRanked
    <2> QED BY <1>1, <2>2, <2>3, <2>4, <2>5, <2>6, RankedAppend DEF CallRanked
  <1> QED BY <1>2, <1>3 DEF FileRanked

LEMMA WriteEndsRanked ==
  ASSUME LinkInv, RankInv, NEW c \in Calls, WriteLine(c) \/ WriteFails(c)
  PROVE  RankInv'
  <1>1. call[c].pc = "writing" /\ UNCHANGED <<storage, window, sequence>>
    BY DEF WriteLine, WriteFails, AppendThrows, ids
  <1>2. file' = file \/ \E line \in {Garbage, call[c].entry} : file' = Added(line)
    BY DEF WriteLine, WriteFails, CutShort, disk
  <1>3. FileRanked' BY <1>1, <1>2, FileAfterWriteRanked
  <1>4. ObjectsRanked' BY <1>1 DEF RankInv, ObjectsRanked, Open
  <1>5. CallsRanked'
    <2>1. call \in [Calls -> CallRecords] BY DEF LinkInv, TypeOK, CallRecords
    <2>2. \E pc \in {"written", "failed"} : call' = [call EXCEPT ![c].pc = pc]
      BY DEF WriteLine, WriteFails
    <2>3. ASSUME NEW d \in Calls
          PROVE  /\ call'[d].entry = call[d].entry /\ call'[d].on = call[d].on
                 /\ InFlight(d)' => InFlight(d)
      BY <1>1, <2>1, <2>2 DEF CallRecords, InFlight
    <2> QED BY <1>1, <2>3 DEF RankInv, CallsRanked, CallRanked
  <1> QED BY <1>3, <1>4, <1>5 DEF RankInv

LEMMA AcknowledgeRanked ==
  ASSUME LinkInv, RankInv, NEW c \in Calls, Acknowledge(c)
  PROVE  RankInv'
  <1> DEFINE h == call[c].on
             e == call[c].entry
             entries == Append(storage[h].entries, e)
             rec == [storage[h] EXCEPT !.entries = entries, !.leaf = LeafWith(h, e)]
             next == [id |-> NewId(entries), parent |-> e.target, kind |-> "entry",
                      target |-> None]
  <1>1. call[c].pc = "written" /\ UNCHANGED <<disk, window, bounds>> BY DEF Acknowledge
  <1>2. CallLinks(c) /\ CallRanked(c)
    BY <1>1 DEF LinkInv, CallsLink, RankInv, CallsRanked, InFlight
  <1>3. /\ h \in Handles /\ Open(h) /\ e \in Entries
        /\ LinksTo(e, storage[h].entries)
    BY <1>2 DEF CallLinks
  <1>4. storage[h].entries \in Seq(Entries) BY <1>3, ObjectType
  <1>5. entries \in Seq(Entries) BY <1>3, <1>4
  <1>6. storage[h] \in StorageRecords /\ storage \in [Handles -> StorageRecords]
    BY <1>3 DEF LinkInv, TypeOK, StorageRecords
  <1>7. rec.entries = entries BY <1>6 DEF StorageRecords
  <1>8. storage' = [storage EXCEPT ![h] = rec]
    BY <1>6 DEF Acknowledge, Remember, StorageRecords
  <1>9. storage'[h] = rec /\ \A g \in Handles \ {h} : storage'[g] = storage[g]
    BY <1>3, <1>6, <1>8
  <1>10. IdsOf(entries) = IdsOf(storage[h].entries) \cup {e.id}
    BY <1>3, <1>4, IdsOfAppend
  <1>11. Ranked(storage[h].entries, window, sequence)
    BY <1>3 DEF RankInv, ObjectsRanked
  <1>12. Ranked(entries, window, sequence)
    BY <1>2, <1>3, <1>4, <1>11, RankedAppend DEF CallRanked
  <1>13. window \in Nat /\ sequence \in Nat BY ConstantsAssumption DEF LinkInv, TypeOK
  <1>14. /\ sequence' \in Nat /\ sequence <= sequence'
         /\ InFlight(c)' => CallRanked(c)'
         /\ \A d \in Calls \ {c} : call'[d] = call[d]
    <2>1. CASE call[c].summary
      <3>1. NewId(entries) \in Ids BY NewIdType DEF LinkInv
      <3>2. next \in Entries BY <1>3, <3>1 DEF Entries
      <3>3. next.parent = e.target /\ next.id = NewId(entries) OBVIOUS
      <3>4. Writes(c, h, entries, next, FALSE) BY <2>1 DEF Acknowledge
      <3>5. e.target \in IdsOf(entries) \cup {None} BY <1>3, <1>10 DEF LinksTo
      <3>6. FALSE \in BOOLEAN OBVIOUS
      <3>7. storage'[h].entries = entries BY <1>7, <1>9
      <3> HIDE DEF next, entries
      <3>8. CallRanked(c)' /\ sequence' \in Nat /\ sequence <= sequence'
        BY <1>1, <1>3, <1>5, <1>12, <3>2, <3>3, <3>4, <3>5, <3>6, <3>7, WritesRanked
      <3>9. \A d \in Calls \ {c} : call'[d] = call[d]
        BY <1>3, <3>2, <3>4, <3>6, WritesLinks
      <3> QED BY <3>8, <3>9
    <2>2. CASE ~call[c].summary
      <3>1. call' = [call EXCEPT ![c].pc = "done"] /\ UNCHANGED <<sequence, raced>>
        BY <2>2 DEF Acknowledge
      <3>2. call \in [Calls -> CallRecords] BY DEF LinkInv, TypeOK, CallRecords
      <3>3. call'[c].pc = "done" /\ \A d \in Calls \ {c} : call'[d] = call[d]
        BY <3>1, <3>2 DEF CallRecords
      <3> QED BY <1>13, <3>1, <3>3 DEF InFlight
    <2> QED BY <2>1, <2>2
  <1> HIDE DEF rec, next, entries
  <1>15. /\ \A g \in Handles : Open(g) => Ranked(storage[g].entries, window', sequence')
         /\ Openable => Ranked(file, window', sequence')
         /\ \A d \in Calls : InFlight(d) /\ call'[d].entry = call[d].entry
                               /\ call'[d].on = call[d].on
                               /\ IdsOf(storage[call[d].on].entries)
                                    \subseteq IdsOf(storage'[call[d].on].entries)
                               => CallRanked(d)'
    BY <1>1, <1>13, <1>14, RanksStay
  <1>16. ObjectsRanked'
    <2>1. ASSUME NEW g \in Handles, Open(g)' PROVE Ranked(storage'[g].entries, window', sequence')
      <3>1. CASE g = h
        BY <1>1, <1>5, <1>7, <1>9, <1>12, <1>13, <1>14, <3>1, RankedStays
      <3>2. CASE g # h BY <1>9, <1>15, <2>1, <3>2 DEF Open
      <3> QED BY <3>1, <3>2
    <2> QED BY <2>1 DEF ObjectsRanked
  <1>17. FileRanked' BY <1>1, <1>15 DEF FileRanked, Openable, disk
  <1>18. CallsRanked'
    <2>1. ASSUME NEW d \in Calls, InFlight(d)', d # c PROVE CallRanked(d)'
      <3>1. InFlight(d) /\ call'[d] = call[d] BY <1>14, <2>1 DEF InFlight
      <3>2. call[d].on \in Handles BY <3>1 DEF LinkInv, CallsLink, CallLinks
      <3>3. IdsOf(storage[call[d].on].entries) \subseteq IdsOf(storage'[call[d].on].entries)
        BY <1>7, <1>9, <1>10, <3>2
      <3> QED BY <1>15, <3>1, <3>3
    <2> QED BY <1>14, <2>1 DEF CallsRanked
  <1> QED BY <1>16, <1>17, <1>18 DEF RankInv

LEMMA CrashRanked ==
  ASSUME LinkInv, RankInv, Crash
  PROVE  RankInv'
  <1>1. \A h \in Handles : ~Open(h)'
    <2>1. \A rec \in StorageRecords : [rec EXCEPT !.state = "dead"].state = "dead"
      BY DEF StorageRecords
    <2>2. storage \in [Handles -> StorageRecords] BY DEF LinkInv, TypeOK, StorageRecords
    <2> QED BY <2>1, <2>2 DEF Crash, Open
  <1>2. \A c \in Calls : ~InFlight(c)'
    <2>1. \A rec \in CallRecords : [rec EXCEPT !.pc = "failed"].pc = "failed"
      BY DEF CallRecords
    <2>2. call \in [Calls -> CallRecords] BY DEF LinkInv, TypeOK, CallRecords
    <2> QED BY <2>1, <2>2 DEF Crash, InFlight
  <1>3. FileRanked'
    <2>1. UNCHANGED <<window, sequence>> BY DEF Crash, ids
    <2>2. CASE UNCHANGED disk
      BY <2>1, <2>2 DEF RankInv, FileRanked, Openable, disk
    <2>3. ASSUME NEW c \in Calls, call[c].pc = "writing", CutShort(c) PROVE FileRanked'
      <3>1. file' = file \/ \E line \in {Garbage, call[c].entry} : file' = Added(line)
        BY <2>3 DEF CutShort, disk
      <3> QED BY <2>1, <2>3, <3>1, FileAfterWriteRanked
    <2> QED BY <2>2, <2>3 DEF Crash
  <1> QED BY <1>1, <1>2, <1>3 DEF RankInv, ObjectsRanked, CallsRanked

LEMMA IdleRanked ==
  ASSUME LinkInv, RankInv, NextWindow \/ UNCHANGED vars
  PROVE  RankInv'
  <1>1. UNCHANGED <<file, storage, call, sequence>>
    BY DEF NextWindow, vars, ids, disk
  <1>2. window \in Nat /\ sequence \in Nat /\ (window' = window \/ window' = window + 1)
    BY ConstantsAssumption DEF LinkInv, TypeOK, NextWindow, vars, ids
  <1>3. /\ \A g \in Handles : Open(g) => Ranked(storage[g].entries, window', sequence')
        /\ Openable => Ranked(file, window', sequence')
        /\ \A d \in Calls : InFlight(d) /\ call'[d].entry = call[d].entry
                              /\ call'[d].on = call[d].on
                              /\ IdsOf(storage[call[d].on].entries)
                                   \subseteq IdsOf(storage'[call[d].on].entries)
                              => CallRanked(d)'
    BY <1>1, <1>2, RanksStay
  <1> QED
    BY <1>1, <1>3 DEF RankInv, ObjectsRanked, FileRanked, CallsRanked, Open, Openable,
                      InFlight

LEMMA InitRanked == Init => RankInv
  <1> SUFFICES ASSUME Init PROVE RankInv OBVIOUS
  <1>1. DOMAIN file = {} BY DEF Init
  <1> QED
    BY <1>1 DEF Init, RankInv, ObjectsRanked, FileRanked, CallsRanked, Ranked, Open, InFlight

LEMMA NextRanked == LinkInv /\ RankInv /\ [Next]_vars => RankInv'
  <1> SUFFICES ASSUME LinkInv, RankInv, [Next]_vars PROVE RankInv' OBVIOUS
  <1>1. CASE \E h \in Handles : Load(h) BY <1>1, LoadRanked
  <1>2. CASE \E c \in Appends, h \in Handles : AppendEntry(c, h)
    BY <1>2, AppendEntryRanked
  <1>3. CASE \E c \in Moves, h \in Handles, summary \in BOOLEAN :
               \E target \in IdsOf(storage[h].entries) \cup {None} :
                 MoveTo(c, h, target, summary)
    BY <1>3, MoveToRanked
  <1>4. CASE \E c \in Calls : WriteLine(c) \/ Acknowledge(c) \/ WriteFails(c)
    BY <1>4, WriteEndsRanked, AcknowledgeRanked
  <1>5. CASE Crash BY <1>5, CrashRanked
  <1>6. CASE NextWindow \/ UNCHANGED vars BY <1>6, IdleRanked
  <1> QED BY <1>1, <1>2, <1>3, <1>4, <1>5, <1>6 DEF Next, Rest

-----------------------------------------------------------------------------
(***************************************************************************)
(* The theorems.                                                           *)
(***************************************************************************)

LEMMA LinkInvariant == Spec => []LinkInv
  BY InitLinks, NextLinks, PTL DEF Spec

\* Every variable of the session tree keeps its type.
THEOREM SessionTypeCorrect == Spec => []TypeOK
  <1>1. LinkInv => TypeOK BY DEF LinkInv
  <1> QED BY <1>1, LinkInvariant, PTL

\* Parents, targets and leaves name entries that are there, in every object in
\* use and in every file that opens, for any number of overlapping calls, stale
\* objects, failing writes and crashes (jsonl-storage.ts:219-229, 275-288).
THEOREM LinksAlwaysResolve == Spec => []LinksResolve
  <1>1. LinkInv => LinksResolve
    BY DEF LinkInv, LinksResolve, ObjectsKnow, ObjectKnows, FileLinked
  <1> QED BY <1>1, LinkInvariant, PTL

\* What was acknowledged is in the file, whatever overlapped, failed or died,
\* as long as no write stopped in the middle of its line.
THEOREM AcknowledgedStays == Spec => []AcknowledgedIsDurable
  <1>1. Durable => AcknowledgedIsDurable BY DEF Durable, AcknowledgedIsDurable
  <1> QED BY <1>1, InitDurable, NextDurable, LinkInvariant, PTL DEF Spec

LEMMA SerialInvariant == Spec => []SerialInv
  BY InitInOrder, NextInOrder, LinkInvariant, PTL DEF Spec

\* No two lines have one id, if calls follow one another and objects are not
\* stale, for any number of moves, failing writes and crashes: an object that is
\* not stale looks through all ids in use (jsonl-storage.ts:35-41).
THEOREM IdsStayUnique == Spec => []IdsUnique
  <1>1. LinkInv /\ SerialInv => IdsUnique
    <2> SUFFICES ASSUME LinkInv, SerialInv, ~raced, Openable,
                        NEW i \in DOMAIN file, NEW j \in DOMAIN file,
                        file[i].id = file[j].id
                 PROVE  i = j
      BY DEF IdsUnique
    <2>1. DOMAIN file = 1..Len(file) BY DEF LinkInv, TypeOK
    <2> QED BY <2>1 DEF SerialInv, Ordered, InOrder, Distinct
  <1> QED BY <1>1, LinkInvariant, SerialInvariant, PTL

\* With nothing under way the only object in use has the lines of the file and
\* the leaf the next opening finds, if calls followed one another and no write
\* stopped in the middle (jsonl-storage.ts:142-160).
THEOREM ReopeningFindsLeaf == Spec => []ReopensAtLeaf
  <1>1. SerialInv => ReopensAtLeaf
    <2> SUFFICES ASSUME SerialInv, ~raced, ~damaged, \A c \in Calls : ~InFlight(c),
                        NEW h \in Handles, Alone(h)
                 PROVE  storage[h].entries = file /\ storage[h].leaf = LeafOf(file)
      BY DEF ReopensAtLeaf, Alone
    <2>1. storage[h].entries = file BY DEF SerialInv, AloneKnows, InFlight
    <2>2. storage[h].leaf = LeafOf(storage[h].entries) BY DEF SerialInv, LeafKnown, Alone
    <2> QED BY <2>1, <2>2
  <1> QED BY <1>1, SerialInvariant, PTL

\* getPathToRoot() ends, for every object in use and every file that opens,
\* however many calls overlap, objects are stale, writes fail and processes die
\* (jsonl-storage.ts:275-288): ids may be given twice, but parents descend.
THEOREM PathsAlwaysEnd == Spec => []PathsEnd
  <1>1. LinkInv /\ RankInv => PathsEnd
    <2> SUFFICES ASSUME LinkInv, RankInv PROVE PathsEnd OBVIOUS
    <2>1. ASSUME NEW h \in Handles, Open(h), NEW id \in IdsOf(storage[h].entries)
          PROVE  Ancestor(storage[h].entries, id) = None
      <3>1. storage[h].entries \in Seq(Entries) BY ObjectType
      <3>2. Linked(storage[h].entries, storage[h].leaf)
        BY <2>1 DEF LinkInv, ObjectsKnow, ObjectKnows
      <3>3. \A i \in DOMAIN storage[h].entries : Descends(storage[h].entries[i])
        BY <2>1 DEF RankInv, ObjectsRanked, Ranked
      <3> QED BY <2>1, <3>1, <3>2, <3>3, DescendingPathEnds
    <2>2. ASSUME Openable, NEW id \in IdsOf(file) PROVE Ancestor(file, id) = None
      <3>1. file \in Seq(Entries) BY <2>2, OpenableType DEF LinkInv
      <3>2. Linked(file, LeafOf(file)) BY <2>2 DEF LinkInv, FileLinked
      <3>3. \A i \in DOMAIN file : Descends(file[i])
        BY <2>2 DEF RankInv, FileRanked, Ranked
      <3> QED BY <2>2, <3>1, <3>2, <3>3, DescendingPathEnds
    <2> QED BY <2>1, <2>2 DEF PathsEnd
  <1>2. Spec => []RankInv BY InitRanked, NextRanked, LinkInvariant, PTL DEF Spec
  <1> QED BY <1>1, <1>2, LinkInvariant, PTL


-----------------------------------------------------------------------------
(***************************************************************************)
(* The branch: a call under way that met no other continues the branch of  *)
(* its object.                                                             *)
(***************************************************************************)

\* The entry of a call under way goes below the leaf of its object, unless the
\* call met another; what is followed by a summary is a move.
OnLeaf ==
  \A c \in Calls : InFlight(c) =>
    /\ call[c].summary => call[c].entry.kind = "leaf"
    /\ ~raced => call[c].entry.parent = storage[call[c].on].leaf

\* Calls that go on as they were stay on the leaf.
LEMMA StaysOnLeaf ==
  ASSUME OnLeaf, raced' = raced,
         \A c \in Calls : InFlight(c)' =>
           /\ InFlight(c) /\ call'[c].summary = call[c].summary
           /\ call'[c].entry = call[c].entry /\ call'[c].on = call[c].on
           /\ storage'[call[c].on].leaf = storage[call[c].on].leaf
  PROVE  OnLeaf'
  <1> SUFFICES ASSUME NEW c \in Calls, InFlight(c)'
               PROVE  /\ call'[c].summary => call'[c].entry.kind = "leaf"
                      /\ ~raced' => call'[c].entry.parent = storage'[call'[c].on].leaf
    BY DEF OnLeaf
  <1>1. /\ call[c].summary => call[c].entry.kind = "leaf"
        /\ ~raced => call[c].entry.parent = storage[call[c].on].leaf
    BY DEF OnLeaf
  <1> QED BY <1>1

LEMMA BeginOnLeaf ==
  ASSUME LinkInv, OnLeaf, NEW c \in Calls, NEW h \in Handles, NEW entries, NEW e \in Entries,
         NEW summary \in BOOLEAN, Writes(c, h, entries, e, summary), storage' = storage,
         e.parent = storage[h].leaf, summary => e.kind = "leaf"
  PROVE  OnLeaf'
  <1>1. /\ call'[c].pc = "writing" /\ call'[c].on = h /\ call'[c].entry = e
        /\ \A d \in Calls \ {c} : call'[d] = call[d]
    BY WritesLinks
  <1>2. call'[c].summary = summary
    <2>1. call \in [Calls -> CallRecords] BY DEF LinkInv, TypeOK, CallRecords
    <2> QED BY <2>1 DEF Writes
  <1>3. ~raced' => ~raced BY DEF Writes
  <1> SUFFICES ASSUME NEW d \in Calls, InFlight(d)'
               PROVE  /\ call'[d].summary => call'[d].entry.kind = "leaf"
                      /\ ~raced' => call'[d].entry.parent = storage'[call'[d].on].leaf
    BY DEF OnLeaf
  <1>4. CASE d = c BY <1>1, <1>2, <1>4
  <1>5. CASE d # c
    <2>1. call'[d] = call[d] /\ InFlight(d) BY <1>1, <1>5 DEF InFlight
    <2>2. /\ call[d].summary => call[d].entry.kind = "leaf"
          /\ ~raced => call[d].entry.parent = storage[call[d].on].leaf
      BY <2>1 DEF OnLeaf
    <2> QED BY <1>3, <2>1, <2>2
  <1> QED BY <1>4, <1>5

LEMMA AcknowledgeOnLeaf ==
  ASSUME LinkInv, SerialInv, OnLeaf, NEW c \in Calls, Acknowledge(c)
  PROVE  OnLeaf'
  <1> DEFINE h == call[c].on
             e == call[c].entry
             entries == Append(storage[h].entries, e)
             next == [id |-> NewId(entries), parent |-> e.target, kind |-> "entry",
                      target |-> None]
  <1>1. InFlight(c) /\ CallLinks(c) BY DEF Acknowledge, LinkInv, CallsLink, InFlight
  <1>2. h \in Handles /\ e \in Entries BY <1>1 DEF CallLinks
  <1>3. storage'[h].leaf = LeafIdAfterEntry(e)
    <2>1. storage \in [Handles -> StorageRecords] BY DEF LinkInv, TypeOK, StorageRecords
    <2>2. Remember(h, e) BY DEF Acknowledge
    <2> QED BY <1>2, <2>1, <2>2 DEF Remember, LeafWith, StorageRecords
  <1>4. /\ ~raced' => ~raced
        /\ \A d \in Calls \ {c} : call'[d] = call[d]
        /\ InFlight(c)' => /\ call[c].summary /\ ~call'[c].summary /\ call'[c].on = h
                           /\ call'[c].entry.parent = e.target
    <2>1. call \in [Calls -> CallRecords] BY DEF LinkInv, TypeOK, CallRecords
    <2>2. CASE call[c].summary
      <3>1. Writes(c, h, entries, next, FALSE) BY <2>2 DEF Acknowledge
      <3>2. next.parent = e.target OBVIOUS
      <3> HIDE DEF next, entries
      <3> QED BY <2>1, <2>2, <3>1, <3>2 DEF Writes
    <2>3. CASE ~call[c].summary
      <3>1. call' = [call EXCEPT ![c].pc = "done"] /\ raced' = raced
        BY <2>3 DEF Acknowledge
      <3> QED BY <2>1, <3>1 DEF InFlight, CallRecords
    <2> QED BY <2>2, <2>3
  <1> SUFFICES ASSUME NEW d \in Calls, InFlight(d)'
               PROVE  /\ call'[d].summary => call'[d].entry.kind = "leaf"
                      /\ ~raced' => call'[d].entry.parent = storage'[call'[d].on].leaf
    BY DEF OnLeaf
  <1>5. CASE d = c
    <2>1. e.kind = "leaf" BY <1>1, <1>4, <1>5 DEF OnLeaf
    <2>2. storage'[h].leaf = e.target BY <1>3, <2>1 DEF LeafIdAfterEntry
    <2> QED BY <1>4, <1>5, <2>2
  <1>6. CASE d # c
    <2>1. call'[d] = call[d] /\ InFlight(d) BY <1>4, <1>6 DEF InFlight
    <2>2. raced' BY <1>1, <1>4, <1>6, <2>1 DEF SerialInv, OneCall
    <2>3. call[d].summary => call[d].entry.kind = "leaf" BY <2>1 DEF OnLeaf
    <2> QED BY <2>1, <2>2, <2>3
  <1> QED BY <1>5, <1>6

LEMMA NextOnLeaf == LinkInv /\ SerialInv /\ OnLeaf /\ [Next]_vars => OnLeaf'
  <1> SUFFICES ASSUME LinkInv, SerialInv, OnLeaf, [Next]_vars PROVE OnLeaf' OBVIOUS
  <1>0. /\ call \in [Calls -> CallRecords] /\ storage \in [Handles -> StorageRecords]
        /\ Calls = Appends \cup Moves
    BY DEF LinkInv, TypeOK, CallRecords, StorageRecords, Calls
  <1>1. ASSUME NEW h \in Handles, Load(h) PROVE OnLeaf'
    <2>1. /\ storage[h].state = "new" /\ call' = call /\ raced' = raced
          /\ \A g \in Handles \ {h} : storage'[g] = storage[g]
      BY <1>0, <1>1 DEF Load
    <2>2. \A c \in Calls : InFlight(c) => call[c].on \in Handles \ {h}
      BY <2>1 DEF LinkInv, CallsLink, CallLinks, Open
    <2> QED BY <2>1, <2>2, StaysOnLeaf DEF InFlight
  <1>2. ASSUME NEW c \in Appends, NEW h \in Handles, AppendEntry(c, h) PROVE OnLeaf'
    <2> DEFINE entries == storage[h].entries
               e == [id |-> NewId(entries), parent |-> storage[h].leaf,
                     kind |-> "entry", target |-> None]
    <2>1. e \in Entries
      <3>1. NewId(entries) \in Ids BY NewIdType DEF LinkInv
      <3>2. storage[h].leaf \in Ids \cup {None} BY <1>0 DEF StorageRecords
      <3> QED BY <3>1, <3>2 DEF Entries
    <2>2. Writes(c, h, entries, e, FALSE) /\ storage' = storage BY <1>2 DEF AppendEntry
    <2>3. e.parent = storage[h].leaf /\ c \in Calls BY <1>0
    <2> HIDE DEF e, entries
    <2> QED BY <2>1, <2>2, <2>3, BeginOnLeaf
  <1>3. ASSUME NEW c \in Moves, NEW h \in Handles, NEW summary \in BOOLEAN,
               NEW target \in IdsOf(storage[h].entries) \cup {None},
               MoveTo(c, h, target, summary)
        PROVE  OnLeaf'
    <2> DEFINE entries == storage[h].entries
               e == [id |-> NewId(entries), parent |-> storage[h].leaf,
                     kind |-> "leaf", target |-> target]
    <2>1. e \in Entries
      <3>1. NewId(entries) \in Ids BY NewIdType DEF LinkInv
      <3>2. storage[h].leaf \in Ids \cup {None} BY <1>0 DEF StorageRecords
      <3>3. entries \in Seq(Entries) BY <1>0 DEF StorageRecords
      <3>4. target \in Ids \cup {None} BY <3>3, IdsOfType
      <3> QED BY <3>1, <3>2, <3>4 DEF Entries
    <2>2. Writes(c, h, entries, e, summary) /\ storage' = storage BY <1>3 DEF MoveTo
    <2>3. e.parent = storage[h].leaf /\ e.kind = "leaf" /\ c \in Calls BY <1>0
    <2> HIDE DEF e, entries
    <2> QED BY <2>1, <2>2, <2>3, BeginOnLeaf
  <1>4. ASSUME NEW c \in Calls, WriteLine(c) \/ WriteFails(c) PROVE OnLeaf'
    <2>1. /\ call[c].pc = "writing" /\ storage' = storage /\ raced' = raced
          /\ \/ call' = [call EXCEPT ![c].pc = "written"]
             \/ call' = [call EXCEPT ![c].pc = "failed"]
      BY <1>4 DEF WriteLine, WriteFails, AppendThrows
    <2>2. \A d \in Calls : /\ call'[d].summary = call[d].summary /\ call'[d].on = call[d].on
                           /\ call'[d].entry = call[d].entry
                           /\ d # c => call'[d].pc = call[d].pc
      BY <1>0, <2>1 DEF CallRecords
    <2> QED BY <2>1, <2>2, StaysOnLeaf DEF InFlight
  <1>5. CASE Crash
    <2>1. \A c \in Calls : ~InFlight(c)'
      BY <1>0, <1>5 DEF Crash, InFlight, CallRecords
    <2> QED BY <2>1 DEF OnLeaf
  <1>6. CASE NextWindow \/ Rest \/ UNCHANGED vars
    <2>1. UNCHANGED <<storage, call, raced>> BY <1>6 DEF NextWindow, Rest, vars
    <2> QED BY <2>1, StaysOnLeaf DEF InFlight
  <1> QED BY <1>1, <1>2, <1>3, <1>4, <1>5, <1>6, AcknowledgeOnLeaf DEF Next

\* What the comment at agent-runtime.ts:1673 says ("no tree fork") holds of the
\* appends that meet no other call and go through an object that knows the
\* whole file: each continues the branch of its object.  Others may fork it.
THEOREM SerialAppendsDoNotFork ==
  Spec => [][~raced => \A c \in Appends : call[c].pc = "written" /\ call'[c].pc = "done" =>
               call[c].entry.parent = storage[call[c].on].leaf]_vars
  <1>1. Init => OnLeaf BY DEF Init, OnLeaf, InFlight
  <1>2. OnLeaf => (~raced => \A c \in Appends :
                     call[c].pc = "written" /\ call'[c].pc = "done" =>
                       call[c].entry.parent = storage[call[c].on].leaf)
    BY DEF OnLeaf, InFlight, Calls
  <1> QED BY <1>1, <1>2, NextOnLeaf, LinkInvariant, SerialInvariant, PTL DEF Spec

=============================================================================
