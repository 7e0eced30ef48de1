----------------------- MODULE CredentialStore_proofs -----------------------
(***************************************************************************)
(* Proofs about CredentialStore for any number of processes, calls and     *)
(* providers: type correctness, and that the file is an atomic map until   *)
(* the lock has been broken.                                               *)
(*                                                                         *)
(* The argument: as long as nothing is broken, a live operation that is    *)
(* about to write has the lock and its copy is the file.  Whoever takes    *)
(* the lock over takes it from a dead process or from a refresh, which is  *)
(* then known to be robbed; whoever writes has the lock.  Who lets go of   *)
(* it removes its own lock file, that of a dead process, or none: the      *)
(* removal of another one breaks the lock by definition.                   *)
(***************************************************************************)
EXTENDS CredentialStore, FiniteSetTheorems, TLAPS

\* Only changes write synchronously, only refreshes make requests.
Kinds ==
  \A op \in Ops :
    /\ pc[op] = "locked" => op \in Changes
    /\ pc[op] \in {"request", "wait", "reload"} => op \in Refreshes

\* Whoever has got past its look at the file has a file.
Present == \A op \in Ops : pc[op] \notin {"new", "create"} => file # Missing

\* The operation may write what it has read.
Writer(op) ==
  /\ Process(op) \notin dead
  /\ pc[op] = "locked" \/ (pc[op] = "request" /\ op \notin stolen)

CopiesCurrent == ~broken => \A op \in Ops : Writer(op) => lock = op /\ copy[op] = file

StoreInv ==
  /\ TypeOK
  /\ Kinds
  /\ Present
  /\ CopiesCurrent

-----------------------------------------------------------------------------
LEMMA OpsFacts ==
  /\ \A op \in Ops : Process(op) \in Stores
  /\ EmptyMap \in Maps
  /\ None \notin Ops
  /\ Changes \subseteq Calls /\ Refreshes \subseteq Calls /\ Calls \subseteq Ops
  /\ Stores \subseteq Ops
  /\ \A op \in Calls : Process(op) = StoreOf[op]
  /\ \A s \in Stores : Process(s) = s
  BY ConstantsAssumption DEF Ops, Calls, Process, EmptyMap, Maps, Credentials

LEMMA InitInv ==
  ASSUME Init
  PROVE  StoreInv
  <1> USE DEF Init
  <1>1. EmptyMap \in Maps BY OpsFacts
  <1>2. [EmptyMap EXCEPT ![OAuth] = Expired] \in Maps
    BY ConstantsAssumption DEF EmptyMap, Maps, Credentials
  <1>3. TypeOK BY <1>1, <1>2 DEF TypeOK, PCs
  <1>4. Kinds /\ Present BY DEF Kinds, Present
  <1>5. CopiesCurrent BY DEF CopiesCurrent, Writer
  <1> QED BY <1>3, <1>4, <1>5 DEF StoreInv

\* The effect of Goto.
LEMMA GotoChanges ==
  ASSUME TypeOK, NEW op \in Ops, NEW label \in PCs, Goto(op, label)
  PROVE  /\ pc' \in [Ops -> PCs]
         /\ pc'[op] = label
         /\ \A o \in Ops : o # op => pc'[o] = pc[o]
  BY DEF Goto, TypeOK

LEMMA ContentsType ==
  ASSUME TypeOK, file # Torn
  PROVE  Contents \in Maps
  BY OpsFacts DEF TypeOK, Contents

\* proper-lockfile's table, and what is released.
TableType == entry \in [Stores -> Ops \cup {None}] /\ released \subseteq Ops

LEMMA TakeType ==
  ASSUME TypeOK, NEW op \in Ops, Take(op) \/ TakeAndRelease(op), UNCHANGED released
  PROVE  TableType'
  <1>1. Process(op) \in Stores BY OpsFacts
  <1> QED BY <1>1 DEF TypeOK, TableType, Take, TakeAndRelease

\* What letting go of the lock does.
LEMMA ReleaseFacts ==
  ASSUME StoreInv, NEW op \in Ops, Release(op)
  PROVE  /\ TableType'
         /\ released \subseteq released'
         /\ lock' \in Ops \cup {None}
         /\ lock' # lock => lock' = None /\ Unlocks(op)
  <1>1. Process(op) \in Stores BY OpsFacts
  <1>2. CASE Unlocks(op)
    <2>1. entry[Process(op)] \in Ops BY <1>1, <1>2 DEF Unlocks, StoreInv, TypeOK
    <2>2. released' \subseteq Ops /\ released \subseteq released'
      BY <1>2, <2>1 DEF Release, StoreInv, TypeOK
    <2>3. entry' \in [Stores -> Ops \cup {None}]
      BY <1>1, <1>2 DEF Release, StoreInv, TypeOK
    <2>4. lock' = None BY <1>2 DEF Release
    <2> QED BY <1>2, <2>2, <2>3, <2>4 DEF TableType
  <1>3. CASE ~Unlocks(op) BY <1>3 DEF Release, StoreInv, TypeOK, TableType
  <1> QED BY <1>2, <1>3

\* Whose lock is removed by another operation has died, or the lock is broken.
LEMMA ReleaseKeeps ==
  ASSUME StoreInv, NEW op \in Ops, Release(op), ~Breaks(op),
         NEW o \in Ops, o # op, Writer(o), lock = o
  PROVE  lock' = o
  <1>1. o # None /\ Process(o) \notin dead BY OpsFacts DEF Writer
  <1>2. ~Unlocks(op) BY <1>1 DEF Breaks
  <1> QED BY <1>2 DEF Release

\* A step of one operation that neither makes it a writer nor touches the file.
LEMMA PlainStep ==
  ASSUME StoreInv, NEW op \in Ops, NEW label \in PCs, Goto(op, label),
         label \notin {"locked", "request"},
         label \in {"wait", "reload"} => op \in Refreshes,
         label \notin {"new", "create"} => file # Missing,
         UNCHANGED <<file, copy, dead, noticed>>,
         TableType', released \subseteq released',
         broken' \in BOOLEAN, broken => broken',
         data' \in [Stores -> Maps], failed' \subseteq Stores,
         stolen' \subseteq Refreshes, stolen \subseteq stolen',
         exchanged' \subseteq Refreshes,
         lock' \in Ops \cup {None},
         \A o \in Ops :
           o # op /\ Writer(o) /\ lock = o /\ ~broken' => lock' = o \/ ~Writer(o)'
  PROVE  StoreInv'
  <1>1. /\ pc' \in [Ops -> PCs]
        /\ pc'[op] = label
        /\ \A o \in Ops : o # op => pc'[o] = pc[o]
    BY GotoChanges DEF StoreInv
  <1>2. TypeOK' BY <1>1 DEF StoreInv, TypeOK, TableType
  <1>3. Kinds' BY <1>1 DEF StoreInv, Kinds
  <1>4. Present' BY <1>1 DEF StoreInv, Present
  <1>5. CopiesCurrent'
    <2> SUFFICES ASSUME ~broken', NEW o \in Ops, Writer(o)'
                 PROVE  lock' = o /\ copy'[o] = file'
      BY DEF CopiesCurrent
    <2>1. o # op BY <1>1 DEF Writer
    <2>2. Writer(o) BY <1>1, <2>1 DEF Writer, Process
    <2> QED BY <2>1, <2>2 DEF StoreInv, CopiesCurrent
  <1> QED BY <1>2, <1>3, <1>4, <1>5 DEF StoreInv

\* Who takes the lock from a writer robs a refresh.
LEMMA TakenOver ==
  ASSUME StoreInv, NEW op \in Ops, Acquirable(op), NEW o \in Ops, Writer(o), lock = o
  PROVE  o \in Robbed /\ pc[o] = "request" /\ op \notin Refreshes
  <1>1. Process(o) \notin dead /\ lock # None BY OpsFacts DEF Writer
  <1>2. op \notin Refreshes /\ pc[o] = "request" BY <1>1 DEF Acquirable
  <1>3. o \in Refreshes BY <1>2 DEF StoreInv, Kinds
  <1>4. Process(o) = StoreOf[o] BY <1>3, OpsFacts
  <1> QED BY <1>1, <1>2, <1>3, <1>4 DEF Robbed

LEMMA RobbedType == Robbed \subseteq Refreshes
  BY DEF Robbed

\* A refresh finds nobody alive with the lock.
LEMMA NobodyWrites ==
  ASSUME StoreInv, NEW r \in Refreshes, Acquirable(r), ~broken
  PROVE  \A o \in Ops : ~Writer(o)
  <1>1. r \in Ops BY OpsFacts
  <1> QED BY <1>1, TakenOver DEF StoreInv, CopiesCurrent

-----------------------------------------------------------------------------
LEMMA StartInv ==
  ASSUME StoreInv, NEW op \in Ops, NEW label \in {"lock", "wait"},
         Goto(op, "over") \/ EnsureFile(op, label),
         label = "wait" => op \in Refreshes,
         Goto(op, "over") => file # Missing,
         data' \in [Stores -> Maps],
         UNCHANGED <<file, lock, entry, released, copy, failed, dead, stolen, noticed,
                     exchanged, broken>>
  PROVE  StoreInv'
  <1>0. TableType' /\ broken' \in BOOLEAN BY DEF StoreInv, TypeOK, TableType
  <1>1. /\ label \in PCs /\ "create" \in PCs /\ "over" \in PCs
        /\ failed' \subseteq Stores /\ stolen' \subseteq Refreshes
        /\ exchanged' \subseteq Refreshes /\ lock' \in Ops \cup {None}
    BY DEF PCs, StoreInv, TypeOK
  <1>2. CASE Goto(op, "over") BY <1>0, <1>1, <1>2, PlainStep
  <1>3. CASE file = Missing /\ Goto(op, "create") BY <1>0, <1>1, <1>3, PlainStep
  <1>4. CASE file # Missing /\ Goto(op, label) BY <1>0, <1>1, <1>4, PlainStep
  <1> QED BY <1>2, <1>3, <1>4 DEF EnsureFile

LEMMA StartLoadInv ==
  ASSUME StoreInv, NEW s \in Stores, StartLoad(s)
  PROVE  StoreInv'
  <1>1. s \in Ops /\ data' \in [Stores -> Maps] BY OpsFacts DEF StartLoad, StoreInv, TypeOK
  <1>2. Goto(s, "over") => FALSE
    BY <1>1 DEF StartLoad, EnsureFile, Goto, StoreInv, TypeOK
  <1> QED BY <1>1, <1>2, StartInv DEF StartLoad

LEMMA LoadedHasFile ==
  ASSUME StoreInv, NEW s \in Stores, pc[s] = "over"
  PROVE  file # Missing
  BY OpsFacts DEF StoreInv, Present

LEMMA StartChangeInv ==
  ASSUME StoreInv, NEW c \in Changes, StartChange(c)
  PROVE  StoreInv'
  <1>1. c \in Ops /\ StoreOf[c] \in Stores /\ ProviderOf[c] \in Providers
    BY OpsFacts, ConstantsAssumption
  <1>2. file # Missing BY <1>1, LoadedHasFile DEF StartChange
  <1>3. NewValue(c) \in Credentials BY <1>1 DEF NewValue, Credentials
  <1>4. data' \in [Stores -> Maps]
    BY <1>1, <1>3 DEF StartChange, StoreInv, TypeOK, Maps
  <1>5. Goto(c, "over") \/ EnsureFile(c, "lock") BY DEF StartChange
  <1> QED BY <1>1, <1>2, <1>4, <1>5, StartInv DEF StartChange

LEMMA StartRefreshInv ==
  ASSUME StoreInv, NEW r \in Refreshes, StartRefresh(r)
  PROVE  StoreInv'
  <1>1. r \in Ops /\ StoreOf[r] \in Stores BY OpsFacts, ConstantsAssumption
  <1>2. file # Missing BY <1>1, LoadedHasFile DEF StartRefresh
  <1>3. data' \in [Stores -> Maps] BY DEF StartRefresh, StoreInv, TypeOK
  <1>4. Goto(r, "over") \/ EnsureFile(r, "wait") BY DEF StartRefresh
  <1> QED BY <1>1, <1>2, <1>3, <1>4, StartInv DEF StartRefresh

\* reload(), at the start of a process or after a refresh that failed.
LEMMA ReloadInv ==
  ASSUME StoreInv, NEW op \in Ops, NEW s \in Stores, Process(op) = s,
         pc[op] \in {"lock", "reload"}, Reload(s), Goto(op, "over"),
         UNCHANGED <<file, released, copy, dead, noticed, exchanged, broken>>
  PROVE  StoreInv'
  <1>1. "over" \in PCs /\ exchanged' \subseteq Refreshes /\ broken' \in BOOLEAN
    BY DEF PCs, StoreInv, TypeOK
  <1>2. file # Missing BY DEF StoreInv, Present
  <1>3. CASE Acquirable(s) /\ ReadInto(s) /\ TakeAndRelease(s) /\ stolen' = stolen \cup Robbed
    <2>1. file # Torn => Contents \in Maps BY ContentsType DEF StoreInv
    <2>2. data' \in [Stores -> Maps] /\ failed' \subseteq Stores
      BY <1>3, <2>1 DEF ReadInto, StoreInv, TypeOK
    <2>3. stolen \subseteq stolen' /\ stolen' \subseteq Refreshes
      BY <1>3, RobbedType DEF StoreInv, TypeOK
    <2>4. ASSUME NEW o \in Ops, o # op, Writer(o), lock = o
          PROVE  ~Writer(o)'
      <3>1. s \in Ops BY OpsFacts
      <3>2. o \in Robbed /\ pc[o] = "request" BY <1>3, <2>4, <3>1, TakenOver
      <3>3. pc'[o] = pc[o] BY <1>1, <2>4, GotoChanges DEF StoreInv
      <3> QED BY <1>3, <3>2, <3>3 DEF Writer
    <2>5. TableType' /\ lock' = None
      BY <1>3, OpsFacts, TakeType DEF StoreInv, TakeAndRelease
    <2> QED BY <1>1, <1>2, <2>2, <2>3, <2>4, <2>5, PlainStep
  <1>4. CASE failed' = failed \cup {s} /\ UNCHANGED <<data, lock, entry, stolen>>
    <2>1. /\ data' \in [Stores -> Maps] /\ failed' \subseteq Stores
          /\ stolen' \subseteq Refreshes /\ lock' \in Ops \cup {None} /\ TableType'
      BY <1>4 DEF StoreInv, TypeOK, TableType
    <2> QED BY <1>1, <1>2, <1>4, <2>1, PlainStep
  <1> QED BY <1>3, <1>4 DEF Reload

LEMMA LoadInv ==
  ASSUME StoreInv, NEW s \in Stores, Load(s)
  PROVE  StoreInv'
  BY OpsFacts, ReloadInv DEF Load

LEMMA ReloadAfterInv ==
  ASSUME StoreInv, NEW r \in Refreshes, ReloadAfter(r)
  PROVE  StoreInv'
  <1>1. r \in Ops /\ StoreOf[r] \in Stores /\ Process(r) = StoreOf[r]
    BY OpsFacts, ConstantsAssumption
  <1> QED BY <1>1, ReloadInv DEF ReloadAfter

LEMMA RefusedInv ==
  ASSUME StoreInv, NEW op \in Ops,
         \/ op \in Changes /\ GiveUp(op)
         \/ op \in Refreshes /\ WaitFails(op)
  PROVE  StoreInv'
  <1>1. /\ "over" \in PCs /\ "reload" \in PCs
        /\ data' \in [Stores -> Maps] /\ failed' \subseteq Stores
        /\ stolen' \subseteq Refreshes /\ exchanged' \subseteq Refreshes
        /\ lock' \in Ops \cup {None} /\ TableType' /\ broken' \in BOOLEAN
    BY DEF PCs, StoreInv, TypeOK, TableType, GiveUp, WaitFails
  <1>2. file # Missing BY DEF StoreInv, Present, GiveUp, WaitFails
  <1>3. CASE op \in Changes /\ GiveUp(op) BY <1>1, <1>2, <1>3, PlainStep DEF GiveUp
  <1>4. CASE op \in Refreshes /\ WaitFails(op)
    BY <1>1, <1>2, <1>4, PlainStep DEF WaitFails
  <1> QED BY <1>3, <1>4

-----------------------------------------------------------------------------
LEMMA CreateInv ==
  ASSUME StoreInv, NEW op \in Ops, Create(op)
  PROVE  StoreInv'
  <1>1. PICK label \in PCs : /\ Goto(op, label) /\ label \in {"wait", "lock"}
                             /\ label = "wait" => op \in Refreshes
    BY DEF Create, PCs
  <1>2. /\ pc' \in [Ops -> PCs] /\ pc'[op] = label
        /\ \A o \in Ops : o # op => pc'[o] = pc[o]
    BY <1>1, GotoChanges DEF StoreInv
  <1>3. file' \in Maps /\ file' # Missing
    BY OpsFacts, ConstantsAssumption DEF Create
  <1>4. TypeOK' BY <1>2, <1>3 DEF Create, StoreInv, TypeOK
  <1>5. Kinds' BY <1>1, <1>2 DEF StoreInv, Kinds
  <1>6. Present' BY <1>3 DEF Present
  <1>7. CopiesCurrent'
    <2> SUFFICES ASSUME ~broken', NEW o \in Ops, Writer(o)'
                 PROVE  FALSE
      BY DEF CopiesCurrent
    <2>1. file = Missing BY DEF Create
    <2>2. o # op /\ pc[o] \in {"locked", "request"} BY <1>1, <1>2 DEF Writer
    <2> QED BY <2>1, <2>2 DEF StoreInv, Present
  <1> QED BY <1>4, <1>5, <1>6, <1>7 DEF StoreInv

LEMMA LockChangeInv ==
  ASSUME StoreInv, NEW c \in Changes, LockChange(c)
  PROVE  StoreInv'
  <1>1. c \in Ops /\ {"over", "locked"} \subseteq PCs BY OpsFacts DEF PCs
  <1>2. /\ stolen \subseteq stolen' /\ stolen' \subseteq Refreshes
        /\ data' \in [Stores -> Maps] /\ failed' \subseteq Stores
        /\ exchanged' \subseteq Refreshes /\ broken' \in BOOLEAN
    BY RobbedType DEF LockChange, StoreInv, TypeOK
  <1>3. file # Missing BY <1>1 DEF LockChange, StoreInv, Present
  <1>4. ASSUME NEW o \in Ops, o # c, Writer(o), lock = o, pc'[o] = pc[o]
        PROVE  ~Writer(o)'
    <2>1. o \in Robbed /\ pc[o] = "request" BY <1>1, <1>4, TakenOver DEF LockChange
    <2> QED BY <1>4, <2>1 DEF LockChange, Writer
  <1>5. CASE file = Torn
    <2>1. lock' = None /\ TableType' /\ Goto(c, "over") /\ UNCHANGED copy
      BY <1>1, <1>5, TakeType DEF LockChange, TakeAndRelease, StoreInv
    <2>2. \A o \in Ops : o # c => pc'[o] = pc[o] BY <1>1, <2>1, GotoChanges DEF StoreInv
    <2> QED BY <1>1, <1>2, <1>3, <1>4, <2>1, <2>2, PlainStep DEF LockChange
  <1>6. CASE file # Torn
    <2>1. /\ lock' = c /\ TableType' /\ Goto(c, "locked")
          /\ copy' = [copy EXCEPT ![c] = Contents] /\ Contents \in Maps
      BY <1>1, <1>6, ContentsType, TakeType DEF LockChange, Take, StoreInv
    <2>2. /\ pc' \in [Ops -> PCs] /\ pc'[c] = "locked"
          /\ \A o \in Ops : o # c => pc'[o] = pc[o]
      BY <1>1, <2>1, GotoChanges DEF StoreInv
    <2>3. TypeOK'
      BY <1>1, <1>2, <2>1, <2>2 DEF LockChange, StoreInv, TypeOK, TableType
    <2>4. Kinds' /\ Present'
      BY <1>3, <2>2 DEF LockChange, StoreInv, Kinds, Present
    <2>5. CopiesCurrent'
      <3> SUFFICES ASSUME ~broken', NEW o \in Ops, Writer(o)'
                   PROVE  lock' = o /\ copy'[o] = file'
        BY DEF CopiesCurrent
      <3>1. CASE o = c
        BY <1>3, <2>1, <3>1 DEF LockChange, Contents, StoreInv, TypeOK
      <3>2. CASE o # c
        <4>1. pc'[o] = pc[o] BY <2>2, <3>2
        <4>2. Writer(o) BY <4>1 DEF LockChange, Writer
        <4>3. lock = o BY <4>2 DEF LockChange, StoreInv, CopiesCurrent
        <4> QED BY <1>4, <3>2, <4>1, <4>2, <4>3
      <3> QED BY <3>1, <3>2
    <2> QED BY <2>3, <2>4, <2>5 DEF StoreInv
  <1> QED BY <1>5, <1>6

LEMMA MergedType ==
  ASSUME TypeOK, NEW c \in Changes
  PROVE  Merged(c) \in Maps
  <1>1. c \in Ops /\ ProviderOf[c] \in Providers BY OpsFacts, ConstantsAssumption
  <1>2. NewValue(c) \in Credentials BY <1>1 DEF NewValue, Credentials
  <1> QED BY <1>1, <1>2 DEF Merged, TypeOK, Maps

\* As long as nothing is broken there is one writer.
LEMMA OneWriter ==
  ASSUME StoreInv, ~broken, NEW op \in Ops, Writer(op), NEW o \in Ops, Writer(o)
  PROVE  o = op
  BY DEF StoreInv, CopiesCurrent

LEMMA WriteInv ==
  ASSUME StoreInv, NEW c \in Changes, Write(c)
  PROVE  StoreInv'
  <1>1. c \in Ops /\ "over" \in PCs BY OpsFacts DEF PCs
  <1>2. /\ pc' \in [Ops -> PCs] /\ pc'[c] = "over"
        /\ \A o \in Ops : o # c => pc'[o] = pc[o]
    BY <1>1, GotoChanges DEF Write, StoreInv
  <1>3. file' \in Maps /\ file' # Missing
    BY MergedType, ConstantsAssumption DEF Write, StoreInv
  <1>4. TypeOK'
    <2>1. TableType' /\ lock' \in Ops \cup {None} /\ released \subseteq released'
      BY <1>1, ReleaseFacts DEF Write
    <2> QED BY <1>2, <1>3, <2>1 DEF Write, StoreInv, TypeOK, TableType
  <1>5. Kinds' BY <1>2 DEF StoreInv, Kinds
  <1>6. Present' BY <1>3 DEF Present
  <1>7. CopiesCurrent'
    <2> SUFFICES ASSUME ~broken', NEW o \in Ops, Writer(o)'
                 PROVE  FALSE
      BY DEF CopiesCurrent
    <2>1. o # c BY <1>2 DEF Writer
    <2>2. Writer(o) BY <1>2, <2>1 DEF Write, Writer
    <2>3. Writer(c) BY DEF Write, Runs, Writer
    <2> QED BY <1>1, <2>1, <2>2, <2>3, OneWriter DEF Write
  <1> QED BY <1>4, <1>5, <1>6, <1>7 DEF StoreInv

-----------------------------------------------------------------------------
LEMMA LockRefreshInv ==
  ASSUME StoreInv, NEW r \in Refreshes, LockRefresh(r)
  PROVE  StoreInv'
  <1>1. r \in Ops /\ StoreOf[r] \in Stores /\ {"over", "request", "reload"} \subseteq PCs
    BY OpsFacts, ConstantsAssumption DEF PCs
  <1>2. file # Missing BY <1>1 DEF LockRefresh, StoreInv, Present
  <1>3. /\ Acquirable(r)
        /\ UNCHANGED <<file, released, dead, stolen, noticed, exchanged, broken>>
        /\ stolen' \subseteq Refreshes /\ exchanged' \subseteq Refreshes
        /\ broken' \in BOOLEAN
    BY DEF LockRefresh, StoreInv, TypeOK
  <1>4. ASSUME NEW o \in Ops, o # r, Writer(o), lock = o
        PROVE  FALSE
    BY <1>1, <1>3, <1>4, TakenOver
  <1>5. CASE /\ file = Torn
             /\ TakeAndRelease(r)
             /\ Goto(r, "reload")
             /\ UNCHANGED <<copy, data, failed>>
    <2>1. /\ data' \in [Stores -> Maps] /\ failed' \subseteq Stores
          /\ TableType' /\ lock' = None
      BY <1>1, <1>3, <1>5, TakeType DEF StoreInv, TypeOK, TakeAndRelease
    <2> QED BY <1>1, <1>2, <1>3, <1>4, <1>5, <2>1, PlainStep
  <1>6. CASE /\ file # Torn
             /\ data' = [data EXCEPT ![StoreOf[r]] = Contents]
             /\ failed' = failed \ {StoreOf[r]}
    <2>1. Contents \in Maps BY <1>6, ContentsType DEF StoreInv
    <2>2. data' \in [Stores -> Maps] /\ failed' \subseteq Stores
      BY <1>6, <2>1 DEF StoreInv, TypeOK
    <2>3. CASE TakeAndRelease(r) /\ Goto(r, "over") /\ UNCHANGED copy
      <3>1. TableType' /\ lock' = None
        BY <1>1, <1>3, <2>3, TakeType DEF StoreInv, TakeAndRelease
      <3> QED BY <1>1, <1>2, <1>3, <1>4, <2>2, <2>3, <3>1, PlainStep
    <2>4. CASE Take(r) /\ Goto(r, "request") /\ copy' = [copy EXCEPT ![r] = Contents]
      <3>1. /\ pc' \in [Ops -> PCs] /\ pc'[r] = "request"
            /\ \A o \in Ops : o # r => pc'[o] = pc[o]
        BY <1>1, <2>4, GotoChanges DEF StoreInv
      <3>0. TableType' /\ lock' = r BY <1>1, <1>3, <2>4, TakeType DEF StoreInv, Take
      <3>2. TypeOK'
        BY <1>1, <1>3, <2>1, <2>2, <2>4, <3>0, <3>1 DEF StoreInv, TypeOK, TableType
      <3>3. Kinds' /\ Present' BY <1>2, <1>3, <3>1 DEF StoreInv, Kinds, Present
      <3>4. CopiesCurrent'
        <4> SUFFICES ASSUME ~broken', NEW o \in Ops, Writer(o)'
                     PROVE  lock' = o /\ copy'[o] = file'
          BY DEF CopiesCurrent
        <4>1. CASE o = r
          BY <1>1, <1>2, <1>3, <2>4, <3>0, <4>1 DEF Contents, StoreInv, TypeOK
        <4>2. CASE o # r
          <5>1. Writer(o) BY <1>3, <3>1, <4>2 DEF Writer
          <5> QED BY <1>3, <5>1, NobodyWrites
        <4> QED BY <4>1, <4>2
      <3> QED BY <3>2, <3>3, <3>4 DEF StoreInv
    <2> QED BY <1>6, <2>3, <2>4 DEF LockRefresh
  <1> QED BY <1>5, <1>6 DEF LockRefresh

\* A refresh that has noticed that it was robbed removes nothing.
LEMMA NoticedKeeps ==
  ASSUME StoreInv, NEW r \in Ops, r \in noticed, Release(r)
  PROVE  UNCHANGED <<lock, entry, released>> /\ ~Breaks(r)
  BY DEF StoreInv, TypeOK, Release, Unlocks, Breaks

LEMMA RespondInv ==
  ASSUME StoreInv, NEW r \in Refreshes, Respond(r)
  PROVE  StoreInv'
  <1> DEFINE merged == [copy[r] EXCEPT ![OAuth] = r]
  <1>1. r \in Ops /\ StoreOf[r] \in Stores /\ {"over", "reload"} \subseteq PCs
    BY OpsFacts, ConstantsAssumption DEF PCs
  <1>2. merged \in Maps BY <1>1 DEF StoreInv, TypeOK, Maps, Credentials
  <1>3. /\ data' = [data EXCEPT ![StoreOf[r]] = merged]
        /\ failed' = failed \ {StoreOf[r]} /\ exchanged' = exchanged \cup {r}
        /\ Release(r) /\ UNCHANGED <<copy, dead, stolen, noticed>>
        /\ pc[r] = "request" /\ Runs(r)
    BY DEF Respond
  <1>4. data' \in [Stores -> Maps] /\ failed' \subseteq Stores /\ exchanged' \subseteq Refreshes
    BY <1>1, <1>2, <1>3 DEF StoreInv, TypeOK
  <1>5. /\ lock' \in Ops \cup {None} /\ TableType' /\ released \subseteq released'
        /\ broken' \in BOOLEAN
    BY <1>1, <1>3, ReleaseFacts DEF Respond, StoreInv, TypeOK
  <1>6. file # Missing BY <1>1, <1>3 DEF StoreInv, Present
  <1>7. CASE r \in noticed
    <2>1. Goto(r, "reload") /\ UNCHANGED file BY <1>7 DEF Respond
    <2>2. stolen' \subseteq Refreshes BY <1>3 DEF StoreInv, TypeOK
    <2>3. UNCHANGED lock /\ ~Breaks(r) BY <1>1, <1>3, <1>7, NoticedKeeps
    <2>4. \A o \in Ops :
            o # r /\ Writer(o) /\ lock = o /\ ~broken' => lock' = o \/ ~Writer(o)'
      BY <2>3
    <2>5. UNCHANGED <<file, copy, dead, noticed>> /\ stolen \subseteq stolen'
      BY <1>3, <2>1
    <2>6. broken' = broken BY <1>7, <2>3 DEF Respond, StoreInv, TypeOK
    <2> QED BY <1>1, <1>4, <1>5, <1>6, <2>1, <2>2, <2>4, <2>5, <2>6, PlainStep
  <1>8. CASE r \notin noticed
    <2>1. /\ file' = merged /\ Goto(r, "over")
          /\ broken' = (broken \/ r \in stolen \/ Breaks(r))
      BY <1>8 DEF Respond
    <2>2. /\ pc' \in [Ops -> PCs] /\ pc'[r] = "over"
          /\ \A o \in Ops : o # r => pc'[o] = pc[o]
      BY <1>1, <2>1, GotoChanges DEF StoreInv
    <2>3. TypeOK' BY <1>2, <1>3, <1>4, <1>5, <2>1, <2>2
      DEF StoreInv, TypeOK, TableType
    <2>4. Kinds' BY <2>2 DEF StoreInv, Kinds
    <2>5. Present' BY <1>2, <2>1, ConstantsAssumption DEF Present
    <2>6. CopiesCurrent'
      <3> SUFFICES ASSUME ~broken', NEW o \in Ops, Writer(o)'
                   PROVE  FALSE
        BY DEF CopiesCurrent
      <3>1. ~broken /\ r \notin stolen BY <2>1
      <3>2. Writer(r) BY <1>3, <3>1 DEF Runs, Writer
      <3>3. o # r BY <2>2 DEF Writer
      <3>4. Writer(o) BY <1>3, <2>2, <3>3 DEF Writer
      <3> QED BY <1>1, <3>1, <3>2, <3>3, <3>4, OneWriter
    <2> QED BY <2>3, <2>4, <2>5, <2>6 DEF StoreInv
  <1> QED BY <1>7, <1>8

LEMMA RequestFailsInv ==
  ASSUME StoreInv, NEW r \in Refreshes, RequestFails(r)
  PROVE  StoreInv'
  <1>1. r \in Ops /\ "reload" \in PCs BY OpsFacts DEF PCs
  <1>2. /\ data' \in [Stores -> Maps] /\ failed' \subseteq Stores
        /\ stolen' \subseteq Refreshes /\ exchanged' \subseteq Refreshes
        /\ broken' = (broken \/ Breaks(r)) /\ broken' \in BOOLEAN
        /\ Release(r)
    BY DEF RequestFails, LetGo, StoreInv, TypeOK
  <1>3. file # Missing BY <1>1 DEF RequestFails, StoreInv, Present
  <1>4. lock' \in Ops \cup {None} /\ TableType' /\ released \subseteq released'
    BY <1>1, <1>2, ReleaseFacts
  <1>5. \A o \in Ops : o # r /\ Writer(o) /\ lock = o /\ ~broken' => lock' = o
    BY <1>1, <1>2, ReleaseKeeps
  <1> QED BY <1>1, <1>2, <1>3, <1>4, <1>5, PlainStep DEF RequestFails

LEMMA NoticeInv ==
  ASSUME StoreInv, NEW r \in Refreshes, Notice(r)
  PROVE  StoreInv'
  <1> USE DEF Notice, StoreInv
  <1>1. TypeOK' BY OpsFacts, ConstantsAssumption DEF TypeOK
  <1>2. Kinds' /\ Present' BY DEF Kinds, Present
  <1>3. CopiesCurrent' BY DEF CopiesCurrent, Writer
  <1> QED BY <1>1, <1>2, <1>3

LEMMA CrashInv ==
  ASSUME StoreInv, NEW s \in Stores, Crash(s)
  PROVE  StoreInv'
  <1>1. TypeOK'
    <2>1. file' \in Maps \cup {Missing, Torn} BY OpsFacts DEF Crash, StoreInv, TypeOK
    <2>2. dead' \subseteq Stores BY DEF Crash, StoreInv, TypeOK
    <2>3. broken' \in BOOLEAN BY DEF Crash, StoreInv, TypeOK
    <2> QED BY <2>1, <2>2, <2>3 DEF Crash, StoreInv, TypeOK
  <1>2. Kinds' BY DEF Crash, StoreInv, Kinds
  <1>3. Present' BY ConstantsAssumption, OpsFacts DEF Crash, StoreInv, Present
  <1>4. CopiesCurrent'
    <2> SUFFICES ASSUME ~broken', NEW o \in Ops, Writer(o)'
                 PROVE  lock' = o /\ copy'[o] = file'
      BY DEF CopiesCurrent
    <2>1. ~broken BY DEF Crash
    <2>2. Writer(o) /\ Process(o) # s BY DEF Crash, Writer, Process
    <2>3. CASE UNCHANGED file BY <2>1, <2>2, <2>3 DEF Crash, StoreInv, CopiesCurrent
    <2>4. ASSUME NEW op \in Calls, StoreOf[op] = s,
                 pc[op] = "locked" \/ pc[op] = "request",
                 broken' = (broken \/ op \in stolen \/ file' = EmptyMap)
          PROVE  FALSE
      <3>1. op \in Ops /\ Process(op) = s BY <2>4, OpsFacts
      <3>2. Writer(op) BY <2>1, <2>4, <3>1 DEF Crash, Writer
      <3> QED BY <2>1, <2>2, <3>1, <3>2, OneWriter
    <2> QED BY <2>3, <2>4 DEF Crash
  <1> QED BY <1>1, <1>2, <1>3, <1>4 DEF StoreInv

LEMMA StepInv ==
  ASSUME StoreInv, [Next]_vars
  PROVE  StoreInv'
  <1>1. ASSUME NEW op \in Ops, Step(op)
        PROVE  StoreInv'
    <2>1. CASE op \in Stores /\ (StartLoad(op) \/ Load(op))
      BY <2>1, StartLoadInv, LoadInv
    <2>2. CASE op \in Changes /\ (StartChange(op) \/ LockChange(op) \/ GiveUp(op) \/ Write(op))
      BY <2>2, StartChangeInv, LockChangeInv, RefusedInv, WriteInv
    <2>3. CASE op \in Refreshes /\ (\/ StartRefresh(op) \/ LockRefresh(op) \/ WaitFails(op)
                                    \/ Respond(op) \/ RequestFails(op) \/ ReloadAfter(op))
      BY <2>3, StartRefreshInv, LockRefreshInv, RefusedInv, RespondInv, RequestFailsInv,
         ReloadAfterInv
    <2>4. CASE Create(op) BY <2>4, CreateInv
    <2> QED BY <1>1, <2>1, <2>2, <2>3, <2>4 DEF Step
  <1>2. ASSUME NEW r \in Refreshes, Notice(r) PROVE StoreInv' BY <1>2, NoticeInv
  <1>3. ASSUME NEW s \in Stores, Crash(s) PROVE StoreInv' BY <1>3, CrashInv
  <1>4. CASE UNCHANGED vars
    <2> USE <1>4 DEF vars, StoreInv
    <2>1. TypeOK' BY DEF TypeOK
    <2>2. Kinds' /\ Present' /\ CopiesCurrent'
      BY DEF Kinds, Present, CopiesCurrent, Writer
    <2> QED BY <2>1, <2>2
  <1> QED BY <1>1, <1>2, <1>3, <1>4 DEF Next

-----------------------------------------------------------------------------
(***************************************************************************)
(* The file as an atomic map.                                              *)
(***************************************************************************)

LEMMA InitRefines ==
  ASSUME Init
  PROVE  Contract!Init
  <1>1. [EmptyMap EXCEPT ![OAuth] = Expired] \in Maps
    BY ConstantsAssumption DEF EmptyMap, Maps, Credentials
  <1> QED BY <1>1 DEF Init, Contract!Init, Maps

LEMMA CreateRefines ==
  ASSUME StoreInv, NEW op \in Ops, Create(op)
  PROVE  Contract!Next
  <1>1. CASE file = Missing /\ UNCHANGED broken
    BY <1>1 DEF Create, Contract!Next, Contract!Create, Contract!Empty, EmptyMap
  <1>2. CASE broken' BY <1>2 DEF Contract!Next, Contract!Break
  <1>3. file = Missing => (UNCHANGED broken \/ broken')
    BY DEF Create, StoreInv, TypeOK
  <1> QED BY <1>1, <1>2, <1>3 DEF Create

\* A file that a writer is about to change is its copy.
LEMMA WriterReads ==
  ASSUME StoreInv, ~broken, NEW op \in Ops, Writer(op)
  PROVE  copy[op] = file /\ file \in Maps /\ file \notin {Missing, Torn}
  BY ConstantsAssumption DEF StoreInv, TypeOK, CopiesCurrent

LEMMA WriteRefines ==
  ASSUME StoreInv, NEW c \in Changes, Write(c)
  PROVE  Contract!Next
  <1>1. c \in Ops /\ ProviderOf[c] \in Providers BY OpsFacts, ConstantsAssumption
  <1>2. NewValue(c) \in Credentials BY <1>1 DEF NewValue, Credentials
  <1>3. CASE broken BY <1>3 DEF Write, Contract!Next, Contract!Break
  <1>4. CASE ~broken
    <2>1. Writer(c) BY DEF Write, Runs, Writer
    <2>2. copy[c] = file /\ file \notin {Missing, Torn} BY <1>1, <1>4, <2>1, WriterReads
    <2>3. file' = [file EXCEPT ![ProviderOf[c]] = NewValue(c)]
      BY <2>2 DEF Write, Merged
    <2> QED BY <1>1, <1>2, <2>2, <2>3 DEF Write, Contract!Next, Contract!Change
  <1> QED BY <1>3, <1>4

LEMMA RespondRefines ==
  ASSUME StoreInv, NEW r \in Refreshes, Respond(r)
  PROVE  Contract!Next \/ UNCHANGED <<file, broken>>
  <1>1. r \in Ops /\ r \in Credentials /\ OAuth \in Providers
    BY OpsFacts, ConstantsAssumption DEF Credentials
  <1>2. CASE r \in noticed
    <2>1. ~Breaks(r) BY <1>1, <1>2, NoticedKeeps DEF Respond
    <2> QED BY <1>2, <2>1 DEF Respond, StoreInv, TypeOK
  <1>3. CASE r \notin noticed
    <2>1. /\ file' = [copy[r] EXCEPT ![OAuth] = r]
          /\ broken' = (broken \/ r \in stolen \/ Breaks(r))
      BY <1>3 DEF Respond
    <2>2. CASE broken' BY <2>2 DEF Contract!Next, Contract!Break
    <2>3. CASE ~broken'
      <3>0. ~broken /\ r \notin stolen BY <2>1, <2>3
      <3>1. Writer(r) BY <3>0 DEF Respond, Runs, Writer
      <3>2. copy[r] = file /\ file \notin {Missing, Torn} BY <1>1, <3>0, <3>1, WriterReads
      <3>3. file' = [file EXCEPT ![OAuth] = r] BY <2>1, <3>2
      <3>4. UNCHANGED broken BY <2>3, <3>0 DEF StoreInv, TypeOK, Respond
      <3> QED BY <1>1, <3>2, <3>3, <3>4 DEF Contract!Next, Contract!Change
    <2> QED BY <2>2, <2>3
  <1> QED BY <1>2, <1>3

LEMMA CrashRefines ==
  ASSUME StoreInv, NEW s \in Stores, Crash(s)
  PROVE  Contract!Next \/ UNCHANGED <<file, broken>>
  <1>1. ASSUME NEW op \in Calls, StoreOf[op] = s,
               pc[op] = "locked" \/ pc[op] = "request",
               file' \in {Torn, EmptyMap},
               broken' = (broken \/ op \in stolen \/ file' = EmptyMap)
        PROVE  Contract!Next
    <2>1. op \in Ops /\ Process(op) = s BY <1>1, OpsFacts
    <2>2. CASE broken \/ op \in stolen \/ file' = EmptyMap
      BY <1>1, <2>2 DEF Contract!Next, Contract!Break
    <2>3. CASE ~broken /\ op \notin stolen /\ file' # EmptyMap
      <3>1. Writer(op) BY <1>1, <2>1, <2>3 DEF Crash, Writer
      <3>2. file \notin {Missing, Torn} BY <2>1, <2>3, <3>1, WriterReads
      <3>3. UNCHANGED broken BY <1>1, <2>3 DEF StoreInv, TypeOK
      <3> QED BY <1>1, <2>3, <3>2, <3>3 DEF Contract!Next, Contract!Tear
    <2> QED BY <2>2, <2>3
  <1> QED BY <1>1 DEF Crash

LEMMA NextRefines ==
  ASSUME StoreInv, [Next]_vars
  PROVE  [Contract!Next]_<<file, broken>>
  <1>1. ASSUME NEW op \in Ops, Step(op)
        PROVE  Contract!Next \/ UNCHANGED <<file, broken>>
    <2>1. CASE op \in Stores /\ (StartLoad(op) \/ Load(op))
      BY <2>1 DEF StartLoad, Load
    <2>2. CASE op \in Changes /\ (StartChange(op) \/ LockChange(op) \/ GiveUp(op))
      BY <2>2 DEF StartChange, LockChange, GiveUp
    <2>3. CASE op \in Changes /\ Write(op) BY <2>3, WriteRefines
    <2>4. CASE op \in Refreshes /\ (\/ StartRefresh(op) \/ LockRefresh(op) \/ WaitFails(op)
                                    \/ ReloadAfter(op))
      BY <2>4 DEF StartRefresh, LockRefresh, WaitFails, ReloadAfter
    <2>7. CASE op \in Refreshes /\ RequestFails(op)
      <3>1. CASE broken' BY <3>1 DEF Contract!Next, Contract!Break
      <3>2. CASE ~broken' BY <2>7, <3>2 DEF RequestFails, StoreInv, TypeOK
      <3> QED BY <3>1, <3>2
    <2>5. CASE op \in Refreshes /\ Respond(op) BY <2>5, RespondRefines
    <2>6. CASE Create(op) BY <2>6, CreateRefines
    <2> QED BY <1>1, <2>1, <2>2, <2>3, <2>4, <2>5, <2>6, <2>7 DEF Step
  <1>2. ASSUME NEW r \in Refreshes, Notice(r)
        PROVE  UNCHANGED <<file, broken>>
    BY <1>2 DEF Notice
  <1>3. ASSUME NEW s \in Stores, Crash(s)
        PROVE  Contract!Next \/ UNCHANGED <<file, broken>>
    BY <1>3, CrashRefines
  <1>4. CASE UNCHANGED vars BY <1>4 DEF vars
  <1> QED BY <1>1, <1>2, <1>3, <1>4 DEF Next

\* Every variable has its type, a live writer has the lock, and its copy is the
\* file, until the lock has been broken.
THEOREM SpecInv == Spec => []StoreInv
  <1>1. Init => StoreInv BY InitInv
  <1>2. StoreInv /\ [Next]_vars => StoreInv' BY StepInv
  <1> QED BY <1>1, <1>2, PTL DEF Spec

\* For any number of processes, calls, providers and crashes the file changes in
\* one provider at a time, and a torn file stays, until the lock has been broken.
THEOREM SpecFileIsAtomicMap == Spec => FileIsAtomicMap
  <1>1. Init => Contract!Init BY InitRefines
  <1>2. StoreInv /\ [Next]_vars => [Contract!Next]_<<file, broken>> BY NextRefines
  <1> QED BY <1>1, <1>2, SpecInv, PTL DEF Spec, FileIsAtomicMap, Contract!Spec

-----------------------------------------------------------------------------
(***************************************************************************)
(* One refresh exchanges the token.                                        *)
(***************************************************************************)

Clean == stolen = {} /\ dead = {} /\ ~broken

\* A request is made for an expired token only.
Requested ==
  \A r \in Refreshes : pc[r] = "request" => copy[r][OAuth] = Expired

\* After an exchange the file has no expired token any more.
Exchanged ==
  Clean => \/ exchanged = {}
           \/ /\ \E r \in Refreshes : exchanged = {r}
              /\ file \in Maps /\ file[OAuth] # Expired

\* Nobody has anything to notice.
Unnoticed == Clean => noticed = {}

RefreshInv == Requested /\ Exchanged

\* No step makes the history clean again.
LEMMA CleanBefore ==
  ASSUME StoreInv, [Next]_vars, Clean'
  PROVE  Clean
  <1> USE DEF Clean
  <1>1. ASSUME NEW op \in Ops, Step(op) PROVE Clean
    <2>1. CASE op \in Stores /\ (StartLoad(op) \/ Load(op))
      BY <2>1 DEF StartLoad, Load, Reload
    <2>2. CASE op \in Changes /\ (StartChange(op) \/ LockChange(op) \/ GiveUp(op) \/ Write(op))
      BY <2>2 DEF StartChange, LockChange, GiveUp, Write
    <2>3. CASE op \in Refreshes /\ (\/ StartRefresh(op) \/ LockRefresh(op) \/ WaitFails(op)
                                    \/ Respond(op) \/ RequestFails(op) \/ ReloadAfter(op))
      <3>1. CASE StartRefresh(op) \/ LockRefresh(op) \/ WaitFails(op)
        BY <3>1 DEF StartRefresh, LockRefresh, WaitFails
      <3>2. CASE Respond(op) BY <3>2 DEF Respond
      <3>3. CASE RequestFails(op) BY <3>3 DEF RequestFails
      <3>4. CASE ReloadAfter(op) BY <3>4 DEF ReloadAfter, Reload
      <3> QED BY <2>3, <3>1, <3>2, <3>3, <3>4
    <2>4. CASE Create(op) BY <2>4 DEF Create
    <2> QED BY <1>1, <2>1, <2>2, <2>3, <2>4 DEF Step
  <1>2. ASSUME NEW r \in Refreshes, Notice(r) PROVE Clean BY <1>2 DEF Notice
  <1>3. ASSUME NEW s \in Stores, Crash(s) PROVE Clean BY <1>3 DEF Crash
  <1>4. CASE UNCHANGED vars BY <1>4 DEF vars
  <1> QED BY <1>1, <1>2, <1>3, <1>4 DEF Next

\* A refresh that has not been robbed has its lock file, and nothing to notice.
LEMMA UnnoticedStep ==
  ASSUME StoreInv, Unnoticed, [Next]_vars
  PROVE  Unnoticed'
  <1> SUFFICES ASSUME Clean' PROVE noticed' = {}
    BY DEF Unnoticed
  <1>1. Clean /\ noticed = {} BY CleanBefore DEF Unnoticed
  <1>2. ASSUME NEW op \in Ops, Step(op) PROVE UNCHANGED noticed
    BY <1>2
    DEF Step, StartLoad, Load, StartChange, LockChange, GiveUp, Write, StartRefresh, LockRefresh,
        WaitFails, Respond, RequestFails, ReloadAfter, Create
  <1>3. ASSUME NEW r \in Refreshes, Notice(r) PROVE FALSE
    <2>1. r \in Ops /\ pc[r] = "request" /\ lock # r BY <1>3, OpsFacts DEF Notice
    <2>2. Writer(r) BY <1>1, <2>1 DEF Writer, Clean
    <2> QED BY <1>1, <2>1, <2>2 DEF StoreInv, CopiesCurrent, Clean
  <1>4. ASSUME NEW s \in Stores, Crash(s) PROVE UNCHANGED noticed BY <1>4 DEF Crash
  <1> QED BY <1>1, <1>2, <1>3, <1>4 DEF Next, vars

LEMMA FreshValues ==
  /\ \A op \in Ops : op # Expired
  /\ \A c \in Changes : NewValue(c) # Expired
  BY ConstantsAssumption, OpsFacts DEF NewValue

LEMMA RefreshInit ==
  ASSUME Init
  PROVE  RefreshInv
  BY OpsFacts DEF Init, RefreshInv, Requested, Exchanged

\* A step that makes no request and leaves the file alone.
LEMMA QuietRefresh ==
  ASSUME RefreshInv, UNCHANGED <<file, exchanged>>,
         stolen \subseteq stolen', dead \subseteq dead', broken => broken',
         \A r \in Refreshes : pc'[r] = "request" => pc[r] = "request" /\ copy'[r] = copy[r]
  PROVE  RefreshInv'
  BY DEF RefreshInv, Requested, Exchanged, Clean

LEMMA RefreshSteps ==
  ASSUME StoreInv, Unnoticed, RefreshInv, NEW op \in Ops, Step(op)
  PROVE  RefreshInv'
  <1>1. pc \in [Ops -> PCs] /\ copy \in [Ops -> Maps] /\ Refreshes \subseteq Ops
    BY OpsFacts DEF StoreInv, TypeOK
  <1>2. CASE op \in Stores /\ (StartLoad(op) \/ Load(op))
    BY <1>1, <1>2, QuietRefresh DEF StartLoad, Load, EnsureFile, Goto, Reload
  <1>3. CASE op \in Changes /\ (StartChange(op) \/ GiveUp(op))
    BY <1>1, <1>3, QuietRefresh DEF StartChange, GiveUp, EnsureFile, Goto
  <1>4. CASE op \in Changes /\ LockChange(op)
    <2>1. op \notin Refreshes BY <1>4, ConstantsAssumption
    <2> QED BY <1>1, <1>4, <2>1, QuietRefresh DEF LockChange, Goto
  <1>5. CASE op \in Refreshes /\ (StartRefresh(op) \/ WaitFails(op) \/ ReloadAfter(op))
    BY <1>1, <1>5, QuietRefresh
    DEF StartRefresh, WaitFails, ReloadAfter, EnsureFile, Goto, Reload
  <1>10. CASE op \in Refreshes /\ RequestFails(op)
    <2>1. /\ UNCHANGED <<file, exchanged, stolen, dead, copy>> /\ Goto(op, "reload")
          /\ broken => broken'
      BY <1>10 DEF RequestFails
    <2>2. \A r \in Refreshes : pc'[r] = "request" => pc[r] = "request" BY <1>1, <2>1 DEF Goto
    <2> QED BY <2>1, <2>2, QuietRefresh
  <1>6. CASE op \in Refreshes /\ LockRefresh(op)
    <2>1. CASE UNCHANGED copy /\ (Goto(op, "over") \/ Goto(op, "reload"))
      BY <1>1, <1>6, <2>1, QuietRefresh DEF LockRefresh, Goto
    <2>2. CASE Needed(op) /\ Goto(op, "request") /\ copy' = [copy EXCEPT ![op] = Contents]
      <3>1. Requested' BY <1>1, <2>2 DEF Needed, Goto, RefreshInv, Requested
      <3>2. Exchanged' BY <1>6 DEF LockRefresh, RefreshInv, Exchanged, Clean
      <3> QED BY <3>1, <3>2 DEF RefreshInv
    <2> QED BY <1>6, <2>1, <2>2 DEF LockRefresh
  <1>7. CASE op \in Changes /\ Write(op)
    <2>1. Requested' BY <1>1, <1>7 DEF Write, Goto, RefreshInv, Requested
    <2>2. Exchanged'
      <3> SUFFICES ASSUME Clean', exchanged' # {}
                   PROVE  /\ \E r \in Refreshes : exchanged' = {r}
                          /\ file' \in Maps /\ file'[OAuth] # Expired
        BY DEF Exchanged
      <3>1. Clean /\ exchanged # {} BY <1>7 DEF Write, Clean
      <3>2. Writer(op) /\ ~broken BY <1>7, <3>1 DEF Write, Runs, Writer, Clean
      <3>3. copy[op] = file BY <3>2, WriterReads
      <3>4. file \in Maps /\ file[OAuth] # Expired BY <3>1 DEF RefreshInv, Exchanged
      <3>5. file' \in Maps BY <1>7, MergedType DEF Write, StoreInv
      <3>6. file' = [file EXCEPT ![ProviderOf[op]] = NewValue(op)]
        BY <1>7, <3>3 DEF Write, Merged
      <3>7. file'[OAuth] # Expired
        BY <1>7, <3>4, <3>6, FreshValues, ConstantsAssumption DEF Maps
      <3> QED BY <1>7, <3>1, <3>5, <3>7 DEF Write, RefreshInv, Exchanged
    <2> QED BY <2>1, <2>2 DEF RefreshInv
  <1>8. CASE op \in Refreshes /\ Respond(op)
    <2>1. Requested' BY <1>1, <1>8 DEF Respond, Goto, RefreshInv, Requested
    <2>2. Exchanged'
      <3> SUFFICES ASSUME Clean'
                   PROVE  /\ exchanged' = {op}
                          /\ file' \in Maps /\ file'[OAuth] # Expired
        BY <1>8 DEF Exchanged
      <3>2. Clean BY <1>8 DEF Respond, Clean
      <3>1. op \notin noticed /\ op \notin stolen BY <3>2 DEF Clean, Unnoticed
      <3>3. Writer(op) /\ ~broken BY <1>8, <3>1, <3>2 DEF Respond, Runs, Writer, Clean
      <3>4. copy[op] = file /\ file \in Maps BY <3>3, WriterReads
      <3>5. file[OAuth] = Expired BY <1>8, <3>4 DEF Respond, RefreshInv, Requested
      <3>6. exchanged = {} BY <3>2, <3>5 DEF RefreshInv, Exchanged
      <3>7. file' = [file EXCEPT ![OAuth] = op] BY <1>8, <3>1, <3>4 DEF Respond
      <3>8. file' \in Maps /\ file'[OAuth] # Expired
        BY <3>4, <3>7, FreshValues, ConstantsAssumption DEF Maps, Credentials
      <3> QED BY <1>8, <3>6, <3>8 DEF Respond
    <2> QED BY <2>1, <2>2 DEF RefreshInv
  <1>9. CASE Create(op)
    <2>1. Requested' BY <1>1, <1>9 DEF Create, Goto, RefreshInv, Requested
    <2>2. Exchanged'
      <3> SUFFICES ASSUME Clean' PROVE exchanged' = {}
        BY DEF Exchanged
      <3>1. Clean /\ file = Missing BY <1>9 DEF Create, Clean
      <3> QED BY <1>9, <3>1, ConstantsAssumption DEF Create, RefreshInv, Exchanged
    <2> QED BY <2>1, <2>2 DEF RefreshInv
  <1> QED BY <1>2, <1>3, <1>4, <1>5, <1>6, <1>7, <1>8, <1>9, <1>10 DEF Step

LEMMA RefreshStep ==
  ASSUME StoreInv, Unnoticed, RefreshInv, [Next]_vars
  PROVE  RefreshInv'
  <1>1. ASSUME NEW r \in Refreshes, Notice(r) PROVE RefreshInv'
    BY <1>1, QuietRefresh DEF Notice
  <1>2. ASSUME NEW s \in Stores, Crash(s) PROVE RefreshInv'
    BY <1>2 DEF Crash, RefreshInv, Requested, Exchanged, Clean
  <1>3. CASE UNCHANGED vars BY <1>3, QuietRefresh DEF vars
  <1> QED BY <1>1, <1>2, <1>3, RefreshSteps DEF Next

\* While nobody has died and the lock has held, one refresh at most exchanges the
\* expired token, however many processes and calls find it expired.
THEOREM SpecRefreshesOnce == Spec => []RefreshesOnce
  <1>1. Init => RefreshInv BY RefreshInit
  <1>2. StoreInv /\ Unnoticed /\ RefreshInv /\ [Next]_vars => RefreshInv' BY RefreshStep
  <1>3. Init => Unnoticed BY DEF Init, Unnoticed
  <1>4. StoreInv /\ Unnoticed /\ [Next]_vars => Unnoticed' BY UnnoticedStep
  <1>5. RefreshInv => RefreshesOnce
    <2>1. Cardinality({}) = 0 BY FS_EmptySet
    <2>2. \A r \in Refreshes : Cardinality({r}) = 1 BY FS_Singleton
    <2> QED BY <2>1, <2>2 DEF RefreshInv, Exchanged, Clean, RefreshesOnce
  <1> QED BY <1>1, <1>2, <1>3, <1>4, <1>5, SpecInv, PTL DEF Spec

=============================================================================
