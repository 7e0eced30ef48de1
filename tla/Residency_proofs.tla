-------------------------- MODULE Residency_proofs --------------------------
(***************************************************************************)
(* Proofs about Residency for any number of clients, prompts, dialogs and  *)
(* objects: type correctness, that turns keep their session, that clients  *)
(* hear the session, and that dialogs which were shown have clients.       *)
(*                                                                         *)
(* The argument: every object that a request is about to use is resident   *)
(* or loose, since whatever leaves the map while it is held becomes loose; *)
(* so a turn starts on such an object, and neither the last client nor a   *)
(* deletion takes a streaming one.  Once a deletion has begun, what is in  *)
(* the map is loose.                                                       *)
(***************************************************************************)
EXTENDS Residency, TLAPS

PCs == {"new", "reading", "building", "holding", "attached", "hook", "turn", "over"}

RequestRecords == [pc : PCs, object : {NoObject} \cup Objects]

DialogRecords == [pc : {"new", "parked", "settled"}, turn : SUBSET Prompts, shown : BOOLEAN]

\* The file is there until a deletion begins; then the map holds nothing that
\* was there before.
FileBacked ==
  /\ deleting = "no" => file = "stored"
  /\ deleting # "no" => resident \in {NoObject} \cup loose

\* What a request is about to use.
HeldKnown ==
  \A r \in Requests : At(r) \in {"holding", "hook"} =>
    Of(r) \in Objects /\ Of(r) \in {resident} \cup loose

TurnsKnown == busy \subseteq {resident} \cup loose

Listens ==
  /\ listening \in {NoObject, resident} \cup loose
  /\ clients # {} => listening # NoObject

Joined == \A c \in clients : At(c) = "attached"

ResidencyInv ==
  /\ TypeOK
  /\ FileBacked
  /\ HeldKnown
  /\ TurnsKnown
  /\ Listens
  /\ Joined
  /\ DialogsHaveClients

-----------------------------------------------------------------------------
LEMMA NoObjectIsNone == NoObject \notin Objects
  BY DEF NoObject, Objects

LEMMA InitInv ==
  ASSUME Init
  PROVE  ResidencyInv
  <1> USE DEF Init, At, Of
  <1>1. 1 \in Objects BY ConstantsAssumption DEF Objects
  <1>2. TypeOK BY <1>1 DEF TypeOK
  <1>3. FileBacked /\ HeldKnown /\ TurnsKnown /\ Listens /\ Joined
    BY DEF FileBacked, HeldKnown, TurnsKnown, Listens, Joined
  <1>4. DialogsHaveClients BY DEF DialogsHaveClients, Parked
  <1> QED BY <1>2, <1>3, <1>4 DEF ResidencyInv

\* What Goto does to the program counters and objects.
LEMMA GotoChanges ==
  ASSUME TypeOK, NEW r \in Requests, NEW pc \in PCs,
         NEW object \in {NoObject} \cup Objects, Goto(r, pc, object)
  PROVE  /\ request' \in [Requests -> RequestRecords]
         /\ At(r)' = pc /\ Of(r)' = object
         /\ \A s \in Requests : s # r => At(s)' = At(s) /\ Of(s)' = Of(s)
  <1>1. request \in [Requests -> RequestRecords]
    BY DEF TypeOK, RequestRecords, PCs
  <1>2. [pc |-> pc, object |-> object] \in RequestRecords BY DEF RequestRecords
  <1> QED BY <1>1, <1>2 DEF Goto, At, Of, RequestRecords

\* A step of the requests that leaves file, map and history alone.
LEMMA RequestStep ==
  ASSUME ResidencyInv,
         UNCHANGED <<file, deleting, resident, dropped, dialog, loose>>,
         request' \in [Requests -> RequestRecords],
         HeldKnown',
         clients' \in SUBSET Clients, clients \subseteq clients',
         listening' \in {NoObject} \cup Objects,
         busy' \in SUBSET Objects, TurnsKnown', Listens', Joined',
         \A c \in Requests : At(c) = "attached" => At(c)' = "attached"
  PROVE  ResidencyInv'
  <1>1. TypeOK' BY DEF ResidencyInv, TypeOK, RequestRecords, PCs
  <1>2. FileBacked' BY DEF ResidencyInv, FileBacked
  <1>3. DialogsHaveClients'
    <2> SUFFICES ASSUME NEW d \in Parked', dialog'[d].shown
                 PROVE  clients' # {} \/ Ghosts' # {}
      BY DEF DialogsHaveClients
    <2>1. d \in Parked /\ dialog[d].shown BY DEF Parked
    <2>2. clients # {} \/ Ghosts # {} BY <2>1 DEF ResidencyInv, DialogsHaveClients
    <2>3. dropped \subseteq Requests BY DEF ResidencyInv, TypeOK, Requests
    <2>4. Ghosts \subseteq Ghosts' BY <2>3 DEF Ghosts
    <2> QED BY <2>2, <2>4
  <1> QED BY <1>1, <1>2, <1>3 DEF ResidencyInv

-----------------------------------------------------------------------------
LEMMA JoinInv ==
  ASSUME ResidencyInv, NEW c \in Clients, NEW object \in Objects,
         object \in {resident} \cup loose, At(c) # "attached", Join(c, object),
         UNCHANGED <<file, deleting, resident, dropped, busy, dialog, loose>>
  PROVE  ResidencyInv'
  <1>1. c \in Requests /\ "attached" \in PCs BY DEF Requests, PCs
  <1>2. /\ request' \in [Requests -> RequestRecords]
        /\ At(c)' = "attached"
        /\ \A s \in Requests : s # c => At(s)' = At(s) /\ Of(s)' = Of(s)
    BY <1>1, GotoChanges DEF Join, ResidencyInv
  <1>3. HeldKnown' BY <1>2 DEF ResidencyInv, HeldKnown
  <1>4. TurnsKnown' BY DEF ResidencyInv, TurnsKnown
  <1>5. listening' \in {NoObject} \cup Objects BY DEF Join, ResidencyInv, TypeOK
  <1>6. Listens' BY NoObjectIsNone DEF Join, ResidencyInv, Listens
  <1>7. clients \subseteq Requests BY DEF ResidencyInv, TypeOK, Requests
  <1>8. Joined' BY <1>2, <1>7 DEF Join, ResidencyInv, Joined
  <1>9. clients' \in SUBSET Clients /\ clients \subseteq clients'
    BY DEF Join, ResidencyInv, TypeOK
  <1>10. busy' \in SUBSET Objects BY DEF ResidencyInv, TypeOK
  <1>11. \A s \in Requests : At(s) = "attached" => At(s)' = "attached" BY <1>2
  <1> QED BY <1>2, <1>3, <1>4, <1>5, <1>6, <1>8, <1>9, <1>10, <1>11, RequestStep

\* A step of one request that does not join and holds only what it may.
LEMMA GotoInv ==
  ASSUME ResidencyInv, NEW r \in Requests, NEW pc \in PCs,
         NEW object \in {NoObject} \cup Objects, Goto(r, pc, object),
         At(r) # "attached",
         pc \in {"holding", "hook"} => object \in Objects /\ object \in {resident} \cup loose,
         busy' \in SUBSET Objects, TurnsKnown',
         UNCHANGED <<file, deleting, resident, dropped, clients, listening, dialog, loose>>
  PROVE  ResidencyInv'
  <1>1. /\ request' \in [Requests -> RequestRecords]
        /\ At(r)' = pc /\ Of(r)' = object
        /\ \A s \in Requests : s # r => At(s)' = At(s) /\ Of(s)' = Of(s)
    BY GotoChanges DEF ResidencyInv
  <1>2. HeldKnown' BY <1>1 DEF ResidencyInv, HeldKnown
  <1>3. listening' \in {NoObject} \cup Objects /\ Listens'
    BY DEF ResidencyInv, TypeOK, Listens
  <1>4. clients \subseteq Requests BY DEF ResidencyInv, TypeOK, Requests
  <1>5. Joined' BY <1>1, <1>4 DEF ResidencyInv, Joined
  <1>6. clients' \in SUBSET Clients /\ clients \subseteq clients'
    BY DEF ResidencyInv, TypeOK
  <1>7. \A s \in Requests : At(s) = "attached" => At(s)' = "attached" BY <1>1
  <1> QED BY <1>1, <1>2, <1>3, <1>5, <1>6, <1>7, RequestStep

LEMMA DeliverInv ==
  ASSUME ResidencyInv, NEW p \in Prompts, NEW object \in Objects,
         object \in {resident} \cup loose, At(p) # "attached", Deliver(p, object),
         UNCHANGED <<file, deleting, resident, dropped, clients, listening, dialog, loose>>
  PROVE  ResidencyInv'
  <1>1. p \in Requests /\ "over" \in PCs /\ "turn" \in PCs BY DEF Requests, PCs
  <1>2. busy' \in SUBSET Objects BY DEF Deliver, ResidencyInv, TypeOK
  <1>3. TurnsKnown' BY DEF Deliver, ResidencyInv, TurnsKnown
  <1>4. CASE Goto(p, "over", NoObject) BY <1>1, <1>2, <1>3, <1>4, GotoInv
  <1>5. CASE Goto(p, "turn", object) BY <1>1, <1>2, <1>3, <1>5, GotoInv
  <1> QED BY <1>4, <1>5 DEF Deliver

LEMMA ArriveInv ==
  ASSUME ResidencyInv, NEW r \in Requests, NEW object \in Objects,
         object \in {resident} \cup loose, At(r) # "attached", Arrive(r, object),
         UNCHANGED <<file, deleting, resident, dropped, dialog, loose>>
  PROVE  ResidencyInv'
  <1>1. CASE r \in Clients /\ Join(r, object) /\ UNCHANGED busy BY <1>1, JoinInv
  <1>2. CASE r \in Prompts /\ Prompt(r, object) /\ UNCHANGED <<clients, listening>>
    <2>1. CASE Goto(r, "hook", object) /\ UNCHANGED busy
      <3>1. "hook" \in PCs BY DEF PCs
      <3>2. busy' \in SUBSET Objects /\ TurnsKnown'
        BY <2>1 DEF ResidencyInv, TypeOK, TurnsKnown
      <3> QED BY <1>2, <2>1, <3>1, <3>2, GotoInv
    <2>2. CASE Deliver(r, object) BY <1>2, <2>2, DeliverInv
    <2> QED BY <1>2, <2>1, <2>2 DEF Prompt
  <1> QED BY <1>1, <1>2 DEF Arrive

-----------------------------------------------------------------------------
LEMMA FindResidentInv ==
  ASSUME ResidencyInv, NEW r \in Requests, FindResident(r)
  PROVE  ResidencyInv'
  <1>1. resident \in Objects BY DEF FindResident, ResidencyInv, TypeOK
  <1> QED BY <1>1, ArriveInv DEF FindResident

LEMMA OpenedInv ==
  ASSUME ResidencyInv, NEW r \in Requests, Opened(r)
  PROVE  ResidencyInv'
  <1>1. Of(r) \in Objects /\ Of(r) \in {resident} \cup loose
    BY DEF Opened, ResidencyInv, HeldKnown
  <1> QED BY <1>1, ArriveInv DEF Opened

LEMMA OpeningInv ==
  ASSUME ResidencyInv, NEW r \in Requests, AskToOpen(r) \/ ReadFile(r)
  PROVE  ResidencyInv'
  <1>1. /\ {"reading", "holding", "building", "over"} \subseteq PCs
        /\ resident \in {NoObject} \cup Objects
        /\ busy' \in SUBSET Objects /\ TurnsKnown'
    BY DEF AskToOpen, ReadFile, PCs, ResidencyInv, TypeOK, TurnsKnown
  <1>2. CASE AskToOpen(r) BY <1>1, <1>2, GotoInv DEF AskToOpen
  <1>3. CASE ReadFile(r)
    <2>1. CASE Goto(r, "over", NoObject) BY <1>1, <1>3, <2>1, GotoInv DEF ReadFile
    <2>2. CASE resident # NoObject /\ Goto(r, "holding", resident)
      BY <1>1, <1>3, <2>2, GotoInv DEF ReadFile
    <2>3. CASE Goto(r, "building", NoObject) BY <1>1, <1>3, <2>3, GotoInv DEF ReadFile
    <2> QED BY <1>3, <2>1, <2>2, <2>3 DEF ReadFile
  <1> QED BY <1>2, <1>3

LEMMA PromptInv ==
  ASSUME ResidencyInv, NEW p \in Prompts, AfterHook(p) \/ EndTurn(p)
  PROVE  ResidencyInv'
  <1>1. p \in Requests /\ "over" \in PCs BY DEF Requests, PCs
  <1>2. CASE AfterHook(p) /\ Goto(p, "over", NoObject) /\ UNCHANGED busy
    <2>1. busy' \in SUBSET Objects /\ TurnsKnown'
      BY <1>2 DEF ResidencyInv, TypeOK, TurnsKnown, AfterHook
    <2> QED BY <1>1, <1>2, <2>1, GotoInv DEF AfterHook
  <1>3. CASE AfterHook(p) /\ Deliver(p, Of(p))
    <2>1. Of(p) \in Objects /\ Of(p) \in {resident} \cup loose
      BY <1>1, <1>3 DEF AfterHook, ResidencyInv, HeldKnown
    <2> QED BY <1>3, <2>1, DeliverInv DEF AfterHook
  <1>4. CASE EndTurn(p)
    <2>1. busy' \in SUBSET Objects /\ TurnsKnown'
      BY <1>4 DEF ResidencyInv, TypeOK, TurnsKnown, EndTurn
    <2> QED BY <1>1, <1>4, <2>1, GotoInv DEF EndTurn
  <1> QED BY <1>2, <1>3, <1>4 DEF AfterHook

LEMMA BuildInv ==
  ASSUME ResidencyInv, NEW r \in Requests, Build(r)
  PROVE  ResidencyInv'
  <1>1. /\ NewObject \in Unused /\ NewObject \in Objects
        /\ Unused \cap ({resident, listening} \cup busy) = {}
        /\ \A s \in Requests : Of(s) \notin Unused
    BY DEF Build, NewObject, Unused
  <1>2. /\ request' \in [Requests -> RequestRecords]
        /\ At(r)' = "holding" /\ Of(r)' = NewObject
        /\ \A s \in Requests : s # r => At(s)' = At(s) /\ Of(s)' = Of(s)
    BY <1>1, GotoChanges DEF Build, ResidencyInv, PCs
  <1>3. /\ resident' = NewObject
        /\ loose \ Unused \subseteq loose'
        /\ resident # NoObject => resident \in loose'
        /\ loose' \subseteq Objects
    BY <1>1 DEF Build, ResidencyInv, TypeOK
  <1>4. TypeOK' BY <1>1, <1>2, <1>3 DEF Build, ResidencyInv, TypeOK, RequestRecords, PCs
  <1>5. FileBacked' BY <1>1, <1>3 DEF Build, ResidencyInv, FileBacked
  <1>6. HeldKnown'
    <2> SUFFICES ASSUME NEW s \in Requests, At(s)' \in {"holding", "hook"}
                 PROVE  Of(s)' \in Objects /\ Of(s)' \in {resident'} \cup loose'
      BY DEF HeldKnown
    <2>1. CASE s = r BY <1>1, <1>2, <1>3, <2>1
    <2>2. CASE s # r
      <3>1. Of(s) \in Objects /\ Of(s) \in {resident} \cup loose
        BY <1>2, <2>2 DEF ResidencyInv, HeldKnown
      <3> QED BY <1>1, <1>2, <1>3, <2>2, <3>1, NoObjectIsNone
    <2> QED BY <2>1, <2>2
  <1>7. TurnsKnown'
    BY <1>1, <1>3, NoObjectIsNone DEF Build, ResidencyInv, TypeOK, TurnsKnown
  <1>8. Listens' BY <1>1, <1>3 DEF Build, ResidencyInv, Listens
  <1>9. Joined'
    BY <1>2 DEF Build, ResidencyInv, Joined, TypeOK, Requests
  <1>10. DialogsHaveClients'
    <2>1. Ghosts \subseteq Ghosts'
      BY <1>2 DEF Build, Ghosts, ResidencyInv, TypeOK, Requests
    <2> QED BY <2>1 DEF Build, ResidencyInv, DialogsHaveClients, Parked
  <1> QED BY <1>4, <1>5, <1>6, <1>7, <1>8, <1>9, <1>10 DEF ResidencyInv

LEMMA DropEarlyInv ==
  ASSUME ResidencyInv, NEW c \in Clients, DropEarly(c)
  PROVE  ResidencyInv'
  <1> USE DEF DropEarly, ResidencyInv
  <1>1. TypeOK' BY DEF TypeOK
  <1>2. FileBacked' /\ TurnsKnown' /\ Listens' BY DEF FileBacked, TurnsKnown, Listens
  <1>3. HeldKnown' /\ Joined' BY DEF HeldKnown, Joined, At, Of
  <1>4. DialogsHaveClients'
    <2>1. Ghosts \subseteq Ghosts' BY DEF Ghosts, At
    <2> QED BY <2>1 DEF DialogsHaveClients, Parked
  <1> QED BY <1>1, <1>2, <1>3, <1>4

\* A step that touches neither requests nor map.
LEMMA OutsideStep ==
  ASSUME ResidencyInv, UNCHANGED <<deleting, resident, request, dropped, listening, busy, loose>>,
         file' \in {"stored", "gone", "headless"}, FileBacked',
         clients' \subseteq clients, dialog' \in [Dialogs -> DialogRecords],
         DialogsHaveClients'
  PROVE  ResidencyInv'
  <1> USE DEF ResidencyInv
  <1>1. TypeOK' BY DEF TypeOK, DialogRecords
  <1>2. HeldKnown' BY DEF HeldKnown, At, Of
  <1>3. TurnsKnown' /\ Listens' BY DEF TurnsKnown, Listens
  <1>4. Joined' BY DEF Joined, At
  <1> QED BY <1>1, <1>2, <1>3, <1>4

LEMMA AppendInv ==
  ASSUME ResidencyInv, NEW p \in Prompts, Append(p)
  PROVE  ResidencyInv'
  <1>1. dialog \in [Dialogs -> DialogRecords] BY DEF ResidencyInv, TypeOK, DialogRecords
  <1>2. FileBacked' BY DEF Append, ResidencyInv, FileBacked
  <1>3. DialogsHaveClients' BY DEF Append, ResidencyInv, DialogsHaveClients, Parked, Ghosts, At
  <1> QED BY <1>1, <1>2, <1>3, OutsideStep DEF Append

\* Forgetting aborted clients leaves a client, or they were ghosts.
LEMMA Pruned ==
  ASSUME ResidencyInv, clients # {}, UNCHANGED <<request, dropped>>,
         clients' = clients \ dropped
  PROVE  clients' # {} \/ Ghosts' # {}
  BY DEF ResidencyInv, Joined, Ghosts, At

LEMMA BroadcastInv ==
  ASSUME ResidencyInv, Broadcast
  PROVE  ResidencyInv'
  <1>1. dialog \in [Dialogs -> DialogRecords] /\ file \in {"stored", "gone", "headless"}
    BY DEF ResidencyInv, TypeOK, DialogRecords
  <1>2. FileBacked' BY DEF Broadcast, ResidencyInv, FileBacked
  <1>3. DialogsHaveClients'
    <2> SUFFICES ASSUME NEW d \in Parked', dialog'[d].shown
                 PROVE  clients' # {} \/ Ghosts' # {}
      BY DEF DialogsHaveClients
    <2>1. clients # {} \/ Ghosts # {}
      BY DEF Broadcast, Parked, ResidencyInv, DialogsHaveClients
    <2>2. Ghosts' = Ghosts BY DEF Broadcast, Ghosts, At
    <2> QED BY <2>1, <2>2, Pruned DEF Broadcast
  <1> QED BY <1>1, <1>2, <1>3, OutsideStep DEF Broadcast

LEMMA ParkInv ==
  ASSUME ResidencyInv, NEW d \in Dialogs, NEW turn \in SUBSET Prompts, Park(d, turn)
  PROVE  ResidencyInv'
  <1>1. [pc |-> "parked", turn |-> turn, shown |-> clients' # {}] \in DialogRecords
    BY DEF DialogRecords
  <1>2. dialog' \in [Dialogs -> DialogRecords] /\ file \in {"stored", "gone", "headless"}
    BY <1>1 DEF Park, ResidencyInv, TypeOK, DialogRecords
  <1>3. FileBacked' BY DEF Park, ResidencyInv, FileBacked
  <1>4. DialogsHaveClients'
    <2> SUFFICES ASSUME NEW e \in Parked', dialog'[e].shown
                 PROVE  clients' # {} \/ Ghosts' # {}
      BY DEF DialogsHaveClients
    <2>1. CASE e = d BY <2>1 DEF Park, Parked, ResidencyInv, TypeOK
    <2>2. CASE e # d
      <3>1. e \in Parked /\ dialog[e].shown
        BY <2>2 DEF Park, Parked, ResidencyInv, TypeOK
      <3>2. clients # {} \/ Ghosts # {}
        BY <3>1 DEF ResidencyInv, DialogsHaveClients
      <3>3. Ghosts' = Ghosts BY DEF Park, Ghosts, At
      <3> QED BY <3>2, <3>3, Pruned DEF Park
    <2> QED BY <2>1, <2>2
  <1> QED BY <1>2, <1>3, <1>4, OutsideStep DEF Park

LEMMA Settled ==
  ASSUME TypeOK, NEW ds, Settle(ds)
  PROVE  /\ dialog' \in [Dialogs -> DialogRecords]
         /\ Parked' = Parked \ ds
         /\ \A d \in Parked' : dialog'[d] = dialog[d]
  BY DEF Settle, TypeOK, DialogRecords, Parked

LEMMA SettleInv ==
  ASSUME ResidencyInv, NEW d \in Dialogs, Answer(d) \/ TimesOut(d)
  PROVE  ResidencyInv'
  <1>1. /\ Settle({d})
        /\ UNCHANGED <<file, deleting, resident, request, dropped, clients, listening,
                       busy, loose>>
    BY DEF Answer, TimesOut
  <1>2. /\ dialog' \in [Dialogs -> DialogRecords]
        /\ Parked' = Parked \ {d}
        /\ \A e \in Parked' : dialog'[e] = dialog[e]
    BY <1>1, Settled DEF ResidencyInv
  <1>3. DialogsHaveClients'
    BY <1>1, <1>2 DEF ResidencyInv, DialogsHaveClients, Ghosts, At
  <1>4. FileBacked' /\ file' \in {"stored", "gone", "headless"}
    BY <1>1 DEF ResidencyInv, FileBacked, TypeOK
  <1> QED BY <1>1, <1>2, <1>3, <1>4, OutsideStep

\* What leaves the map is not streaming, and loose if a request holds it.
LEMMA EvictKeeps ==
  ASSUME ResidencyInv, Evict, MayEvict, UNCHANGED <<deleting, file, busy>>,
         NEW c \in Clients, At(c) # "holding", Goto(c, "over", NoObject)
  PROVE  /\ FileBacked' /\ HeldKnown' /\ TurnsKnown'
         /\ loose \subseteq loose' /\ loose' \subseteq Objects
  <1>1. c \in Requests /\ "over" \in PCs BY DEF Requests, PCs
  <1>2. /\ At(c)' = "over"
        /\ \A s \in Requests : s # c => At(s)' = At(s) /\ Of(s)' = Of(s)
    BY <1>1, GotoChanges DEF ResidencyInv
  <1>3. loose \subseteq loose' /\ loose' \subseteq Objects
    BY DEF Evict, ResidencyInv, TypeOK
  <1>4. FileBacked' BY DEF Evict, ResidencyInv, FileBacked
  <1>5. TurnsKnown' BY <1>3 DEF Evict, MayEvict, ResidencyInv, TurnsKnown
  <1>6. HeldKnown'
    <2> SUFFICES ASSUME NEW s \in Requests, At(s)' \in {"holding", "hook"}
                 PROVE  Of(s)' \in Objects /\ Of(s)' \in loose'
      BY DEF HeldKnown
    <2>1. At(s) \in {"holding", "hook"} /\ Of(s)' = Of(s) BY <1>2
    <2>2. Of(s) \in Objects /\ Of(s) \in {resident} \cup loose
      BY <2>1 DEF ResidencyInv, HeldKnown
    <2>3. CASE Of(s) = resident BY <2>1, <2>2, <2>3 DEF Evict, Held
    <2> QED BY <1>3, <2>1, <2>2, <2>3
  <1> QED BY <1>3, <1>4, <1>5, <1>6

LEMMA DetachInv ==
  ASSUME ResidencyInv, NEW c \in Clients, Detach(c)
  PROVE  ResidencyInv'
  <1>1. c \in Requests /\ "over" \in PCs BY DEF Requests, PCs
  <1>2. /\ request' \in [Requests -> RequestRecords]
        /\ At(c)' = "over"
        /\ \A s \in Requests : s # c => At(s)' = At(s) /\ Of(s)' = Of(s)
    BY <1>1, GotoChanges DEF Detach, ResidencyInv
  <1>3. Joined' BY <1>2 DEF Detach, ResidencyInv, Joined, TypeOK, Requests
  <1>4. CASE clients' # {}
    <2>1. UNCHANGED <<dialog, listening, resident, loose>> BY <1>4 DEF Detach
    <2>2. TypeOK' BY <1>2, <2>1 DEF Detach, ResidencyInv, TypeOK, RequestRecords, PCs
    <2>3. FileBacked' /\ TurnsKnown'
      BY <2>1 DEF Detach, ResidencyInv, FileBacked, TurnsKnown
    <2>4. HeldKnown' BY <1>2, <2>1 DEF ResidencyInv, HeldKnown
    <2>5. Listens' BY <2>1 DEF Detach, ResidencyInv, Listens
    <2>6. DialogsHaveClients' BY <1>4 DEF DialogsHaveClients
    <2> QED BY <1>3, <2>2, <2>3, <2>4, <2>5, <2>6 DEF ResidencyInv
  <1>5. CASE clients' = {}
    <2>1. /\ Settle(Drain) /\ listening' = NoObject
          /\ IF MayEvict THEN Evict ELSE UNCHANGED <<resident, loose>>
      BY <1>5 DEF Detach, StopListening
    <2>2. dialog' \in [Dialogs -> DialogRecords] /\ Parked' = {}
      BY <2>1, Settled DEF Drain, ResidencyInv
    <2>3. DialogsHaveClients' BY <2>2 DEF DialogsHaveClients
    <2>4. Listens' BY <1>5, <2>1 DEF Listens
    <2>5. /\ FileBacked' /\ HeldKnown' /\ TurnsKnown'
          /\ loose' \subseteq Objects /\ resident' \in {NoObject} \cup Objects
      <3>1. CASE MayEvict /\ Evict
        <4>1. resident' = NoObject BY <3>1 DEF Evict
        <4>2. At(c) # "holding" /\ Goto(c, "over", NoObject)
              /\ UNCHANGED <<deleting, file, busy>> BY DEF Detach
        <4> QED BY <3>1, <4>1, <4>2, EvictKeeps
      <3>2. CASE UNCHANGED <<resident, loose>>
        <4>1. FileBacked' /\ TurnsKnown'
          BY <3>2 DEF Detach, ResidencyInv, FileBacked, TurnsKnown
        <4>2. HeldKnown' BY <1>2, <3>2 DEF ResidencyInv, HeldKnown
        <4> QED BY <3>2, <4>1, <4>2 DEF ResidencyInv, TypeOK
      <3> QED BY <2>1, <3>1, <3>2
    <2>6. TypeOK'
      BY <1>2, <2>1, <2>2, <2>5
      DEF Detach, ResidencyInv, TypeOK, RequestRecords, DialogRecords, PCs
    <2> QED BY <1>3, <2>3, <2>4, <2>5, <2>6 DEF ResidencyInv
  <1> QED BY <1>4, <1>5

LEMMA DeleteInv ==
  ASSUME ResidencyInv, Delete
  PROVE  ResidencyInv'
  <1> USE DEF Delete, ResidencyInv
  <1>1. TypeOK' BY DEF TypeOK
  <1>2. FileBacked' /\ Joined' BY DEF FileBacked, Joined, At
  <1>3. HeldKnown' BY DEF HeldKnown, Held, At, Of
  <1>4. TurnsKnown' BY DEF TurnsKnown, MayDelete
  <1>5. Listens' BY DEF Listens, TypeOK
  <1>6. DialogsHaveClients' BY DEF DialogsHaveClients, Parked, Ghosts, At
  <1> QED BY <1>1, <1>2, <1>3, <1>4, <1>5, <1>6

LEMMA UnlinkInv ==
  ASSUME ResidencyInv, Unlink
  PROVE  ResidencyInv'
  <1> USE DEF Unlink, ResidencyInv
  <1>1. TypeOK' BY DEF TypeOK
  <1>2. FileBacked' /\ Joined' BY DEF FileBacked, Joined, At
  <1>3. HeldKnown' BY DEF HeldKnown, At, Of
  <1>4. TurnsKnown' /\ Listens' BY DEF TurnsKnown, Listens
  <1>5. DialogsHaveClients' BY DEF DialogsHaveClients, Parked, Ghosts, At
  <1> QED BY <1>1, <1>2, <1>3, <1>4, <1>5

LEMMA StepInv ==
  ASSUME ResidencyInv, [Next]_vars
  PROVE  ResidencyInv'
  <1>1. ASSUME NEW r \in Requests,
               FindResident(r) \/ AskToOpen(r) \/ ReadFile(r) \/ Build(r) \/ Opened(r)
        PROVE  ResidencyInv'
    BY <1>1, FindResidentInv, OpeningInv, BuildInv, OpenedInv
  <1>2. ASSUME NEW c \in Clients, DropEarly(c) \/ Detach(c)
        PROVE  ResidencyInv'
    BY <1>2, DropEarlyInv, DetachInv
  <1>3. ASSUME NEW p \in Prompts, AfterHook(p) \/ Append(p) \/ EndTurn(p)
        PROVE  ResidencyInv'
    BY <1>3, PromptInv, AppendInv
  <1>4. ASSUME NEW d \in Dialogs,
               AskWorkflow(d) \/ \E p \in Prompts : AskGate(d, p)
        PROVE  ResidencyInv'
    <2>1. CASE AskWorkflow(d) BY <2>1, ParkInv DEF AskWorkflow
    <2>2. CASE \E p \in Prompts : AskGate(d, p)
      <3>1. PICK p \in Prompts : AskGate(d, p) BY <2>2
      <3>2. {p} \in SUBSET Prompts /\ Park(d, {p}) BY <3>1 DEF AskGate
      <3> QED BY <3>2, ParkInv
    <2> QED BY <1>4, <2>1, <2>2
  <1>5. ASSUME NEW d \in Dialogs, Answer(d) \/ TimesOut(d)
        PROVE  ResidencyInv'
    BY <1>5, SettleInv
  <1>6. CASE Broadcast \/ Delete \/ Unlink BY <1>6, BroadcastInv, DeleteInv, UnlinkInv
  <1>7. CASE UNCHANGED vars
    <2> USE <1>7 DEF vars, ResidencyInv
    <2>1. TypeOK' BY DEF TypeOK
    <2>2. FileBacked' /\ HeldKnown' /\ TurnsKnown' /\ Listens' /\ Joined'
      BY DEF FileBacked, HeldKnown, TurnsKnown, Listens, Joined, At, Of
    <2>3. DialogsHaveClients' BY DEF DialogsHaveClients, Parked, Ghosts, At
    <2> QED BY <2>1, <2>2, <2>3
  <1> QED BY <1>1, <1>2, <1>3, <1>4, <1>5, <1>6, <1>7 DEF Next

-----------------------------------------------------------------------------
\* The inductive invariant, which says the types as well, holds throughout:
\* what a request is about to use is in the map or loose.
THEOREM SpecInv == Spec => []ResidencyInv
  <1>1. Init => ResidencyInv BY InitInv
  <1>2. ResidencyInv /\ [Next]_vars => ResidencyInv' BY StepInv
  <1> QED BY <1>1, <1>2, PTL DEF Spec

\* A turn runs on the resident session of a stored file, or on an object that
\* was displaced, taken while held, or opened during the deletion.
THEOREM SpecTurnsKeepTheirSession == Spec => []TurnsKeepTheirSession
  <1>1. ResidencyInv => TurnsKeepTheirSession
    <2> SUFFICES ASSUME ResidencyInv, NEW o \in busy \ loose
                 PROVE  o = resident /\ file = "stored"
      BY DEF TurnsKeepTheirSession
    <2>1. o = resident BY DEF ResidencyInv, TurnsKnown
    <2>2. o \in Objects /\ o # NoObject BY NoObjectIsNone DEF ResidencyInv, TypeOK
    <2> QED BY <2>1, <2>2 DEF ResidencyInv, FileBacked
  <1> QED BY <1>1, SpecInv, PTL

\* The broadcaster of an attached client listens to the resident session, or to
\* one that was displaced or deleted under the client.
THEOREM SpecClientsHearTheSession == Spec => []ClientsHearTheSession
  <1>1. ResidencyInv => ClientsHearTheSession
    BY DEF ResidencyInv, TypeOK, Listens, ClientsHearTheSession
  <1> QED BY <1>1, SpecInv, PTL

\* A dialog that was shown to a client is still parked only while there are
\* clients, or a connection that was lost early has joined.
THEOREM SpecDialogsHaveClients == Spec => []DialogsHaveClients
  <1>1. ResidencyInv => DialogsHaveClients BY DEF ResidencyInv
  <1> QED BY <1>1, SpecInv, PTL

=============================================================================
