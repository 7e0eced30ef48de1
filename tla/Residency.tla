----------------------------- MODULE Residency -----------------------------
(***************************************************************************)
(* One stored session and the daemon: openSession(), closeSession() and    *)
(* deleteSession() of packages/wolli/src/core/agent-runtime.ts against the *)
(* requests of packages/wolli/src/server.ts that attach to the session,    *)
(* prompt it, answer its dialogs and go away.                              *)
(*                                                                         *)
(* A session object is a number; at most one is resident, that is, in the  *)
(* map.  openSession() awaits twice between its look at the map and its    *)
(* own entry, and a request that has got an object awaits more before it   *)
(* uses it: meanwhile the map goes on.  The turn itself, the frames of the *)
(* event stream and the login dialogs are left out.                        *)
(***************************************************************************)
EXTENDS Integers, FiniteSets

CONSTANTS
  Clients,     (* connections to GET /sessions/:id/events                  *)
  Prompts,     (* prompts sent to POST /sessions/:id/control               *)
  Dialogs,     (* dialogs, of the approval gate or of a workflow           *)
  MaxObjects   (* bound on the session objects that are in use at a time   *)

ASSUME ConstantsAssumption ==
  /\ Clients \cap Prompts = {}
  /\ MaxObjects \in Nat \ {0}

VARIABLES
  file,       (* the JSONL file: "stored", "gone", or "headless" when an   *)
              (* append has created it again                               *)
  deleting,   (* deleteSession(): "no", "closing" or "done"                *)
  resident,   (* _sessions.get(id), 0 when there is none                   *)
  request,    (* for each request its program counter and object           *)
  dropped,    (* clients whose connection was lost before they joined      *)
  clients,    (* sessionClients.get(id)                                    *)
  listening,  (* the object the broadcaster of sessionUnsub listens to     *)
  busy,       (* the objects with a turn: not harness.isIdle               *)
  dialog,     (* for each dialog its state, who asks and if it was shown   *)
  loose       (* history: objects displaced in the map, taken from it      *)
              (* while a request or a client had them, or opened from a    *)
              (* file that is being deleted                                *)

vars == <<file, deleting, resident, request, dropped, clients, listening,
          busy, dialog, loose>>

Requests == Clients \cup Prompts
Objects == 1..MaxObjects
NoObject == 0

At(r) == request[r].pc
Of(r) == request[r].object

\* An object that a request has got and not begun to use.
Held(o) == \E r \in Requests : At(r) \in {"holding", "hook"} /\ Of(r) = o

\* The connections that were lost before the session was open, which have
\* joined all the same.
Ghosts == {c \in dropped : At(c) = "attached"}

TypeOK ==
  /\ file \in {"stored", "gone", "headless"}
  /\ deleting \in {"no", "closing", "done"}
  /\ resident \in {NoObject} \cup Objects
  /\ request \in [Requests -> [pc : {"new", "reading", "building", "holding",
                                     "attached", "hook", "turn", "over"},
                               object : {NoObject} \cup Objects]]
  /\ dropped \subseteq Clients
  /\ clients \subseteq Clients
  /\ listening \in {NoObject} \cup Objects
  /\ busy \subseteq Objects
  /\ dialog \in [Dialogs -> [pc : {"new", "parked", "settled"},
                             turn : SUBSET Prompts, shown : BOOLEAN]]
  /\ loose \subseteq Objects

\* The daemon has opened the latest session at startup.
Init ==
  /\ file = "stored"
  /\ deleting = "no"
  /\ resident = 1
  /\ request = [r \in Requests |-> [pc |-> "new", object |-> NoObject]]
  /\ dropped = {}
  /\ clients = {}
  /\ listening = NoObject
  /\ busy = {}
  /\ dialog = [d \in Dialogs |-> [pc |-> "new", turn |-> {}, shown |-> FALSE]]
  /\ loose = {}

\* An object that nothing refers to is gone; its number names a new one.
Unused == Objects \ ({resident, listening} \cup busy \cup {Of(r) : r \in Requests})

NewObject == CHOOSE o \in Unused : TRUE

Goto(r, pc, object) == request' = [request EXCEPT ![r] = [pc |-> pc, object |-> object]]

\* closeSession(): the resident object leaves the map.
Evict ==
  /\ resident' = NoObject
  /\ loose' = loose \cup {o \in {resident} \cap Objects : Held(o)}

-----------------------------------------------------------------------------
(***************************************************************************)
(* A request resolves its session: a stream joins its clients, a prompt    *)
(* goes through handlePrompt() to the prompt() of AgentSession.            *)
(***************************************************************************)

\* A client joins; the first one makes the broadcaster listen, unless it does
\* already.
Join(c, object) ==
  /\ Goto(c, "attached", NoObject)
  /\ clients' = clients \cup {c}
  /\ listening' = IF clients = {} /\ listening = NoObject THEN object ELSE listening

\* The harness takes a prompt: it starts a turn, or the turn that is under way
\* has it queued or refused.
Deliver(p, object) ==
  IF object \in busy
    THEN Goto(p, "over", NoObject) /\ UNCHANGED busy
    ELSE Goto(p, "turn", object) /\ busy' = busy \cup {object}

\* prompt() awaits an input hook first, if there is one.
Prompt(p, object) ==
  \/ Goto(p, "hook", object) /\ UNCHANGED busy
  \/ Deliver(p, object)

\* A request has its session, and goes on at once.
Arrive(r, object) ==
  \/ r \in Clients /\ Join(r, object) /\ UNCHANGED busy
  \/ r \in Prompts /\ Prompt(r, object) /\ UNCHANGED <<clients, listening>>

\* runtime.getSession(id) finds the session.
FindResident(r) ==
  /\ At(r) = "new"
  /\ resident # NoObject
  /\ Arrive(r, resident)
  /\ UNCHANGED <<file, deleting, resident, dropped, dialog, loose>>

\* Otherwise openSession(id) begins to list and read the files.
AskToOpen(r) ==
  /\ At(r) = "new"
  /\ resident = NoObject
  /\ Goto(r, "reading", NoObject)
  /\ UNCHANGED <<file, deleting, resident, dropped, clients, listening, busy,
                 dialog, loose>>

\* The file has been read, or is not there; the map is looked at again.
ReadFile(r) ==
  /\ At(r) = "reading"
  /\ \/ file # "stored" /\ Goto(r, "over", NoObject)
     \/ file = "stored" /\ resident # NoObject /\ Goto(r, "holding", resident)
     \/ file = "stored" /\ resident = NoObject /\ Goto(r, "building", NoObject)
  /\ UNCHANGED <<file, deleting, resident, dropped, clients, listening, busy,
                 dialog, loose>>

\* The environments are there: a new object takes its place in the map, whoever
\* has it.
Build(r) ==
  /\ At(r) = "building"
  /\ Unused # {}
  /\ resident' = NewObject
  /\ Goto(r, "holding", NewObject)
  /\ loose' = (loose \ Unused) \cup ({resident} \cap Objects)
                               \cup (IF deleting = "no" THEN {} ELSE {NewObject})
  /\ UNCHANGED <<file, deleting, dropped, clients, listening, busy, dialog>>

\* openSession() has returned, to a stream that may be aborted by now.
Opened(r) ==
  /\ At(r) = "holding"
  /\ Arrive(r, Of(r))
  /\ UNCHANGED <<file, deleting, resident, dropped, dialog, loose>>

\* The connection was lost while the session was being opened, at any time of
\* it, as nobody listens to the abort yet.
DropEarly(c) ==
  /\ At(c) = "holding"
  /\ c \notin dropped
  /\ dropped' = dropped \cup {c}
  /\ UNCHANGED <<file, deleting, resident, request, clients, listening, busy,
                 dialog, loose>>

-----------------------------------------------------------------------------
(***************************************************************************)
(* The rest of a prompt, and its turn.                                     *)
(***************************************************************************)

\* The input hook has handled the prompt, or lets it through.
AfterHook(p) ==
  /\ At(p) = "hook"
  /\ \/ Goto(p, "over", NoObject) /\ UNCHANGED busy
     \/ Deliver(p, Of(p))
  /\ UNCHANGED <<file, deleting, resident, dropped, clients, listening, dialog,
                 loose>>

\* The turn appends an entry: a file that is gone is created without a header.
Append(p) ==
  /\ At(p) = "turn"
  /\ file = "gone"
  /\ file' = "headless"
  /\ UNCHANGED <<deleting, resident, request, dropped, clients, listening, busy,
                 dialog, loose>>

\* The turn emits an event: the broadcaster forgets the clients that are
\* aborted.
Broadcast ==
  /\ listening \in busy
  /\ clients' = clients \ dropped
  /\ UNCHANGED <<file, deleting, resident, request, dropped, listening, busy, dialog,
                 loose>>

\* The turn ends; it awaits its dialogs.
EndTurn(p) ==
  /\ At(p) = "turn"
  /\ \A d \in Dialogs : dialog[d].pc = "parked" => p \notin dialog[d].turn
  /\ busy' = busy \ {Of(p)}
  /\ Goto(p, "over", NoObject)
  /\ UNCHANGED <<file, deleting, resident, dropped, clients, listening, dialog,
                 loose>>

-----------------------------------------------------------------------------
(***************************************************************************)
(* Dialogs: createSessionUI(), the answers and the abort of a stream.      *)
(***************************************************************************)

\* A dialog is parked and shown to the clients; aborted ones are forgotten.
Park(d, turn) ==
  /\ dialog[d].pc = "new"
  /\ clients' = clients \ dropped
  /\ dialog' = [dialog EXCEPT ![d] = [pc |-> "parked", turn |-> turn, shown |-> clients' # {}]]
  /\ UNCHANGED <<file, deleting, resident, request, dropped, listening, busy,
                 loose>>

\* The approval gate asks for a turn, which awaits the answer.
AskGate(d, p) == At(p) = "turn" /\ Park(d, {p})

\* A workflow asks without a timeout.
AskWorkflow(d) == Park(d, {})

Settle(ds) ==
  dialog' = [d \in Dialogs |-> IF d \in ds
                               THEN [pc |-> "settled", turn |-> {}, shown |-> FALSE]
                               ELSE dialog[d]]

Parked == {d \in Dialogs : dialog[d].pc = "parked"}

\* POST /sessions/:id/ui-response from a client that was shown the dialog.
Answer(d) ==
  /\ d \in Parked
  /\ dialog[d].shown
  /\ Settle({d})
  /\ UNCHANGED <<file, deleting, resident, request, dropped, clients, listening,
                 busy, loose>>

\* Mutant: without a client there is nobody to time out for.
TimesOutAttended(d) ==
  /\ d \in Parked
  /\ dialog[d].turn # {}
  /\ clients # {}
  /\ Settle({d})
  /\ UNCHANGED <<file, deleting, resident, request, dropped, clients, listening,
                 busy, loose>>

\* The timeout of the gate, or the abort of the turn, settles its dialog.
TimesOut(d) ==
  /\ d \in Parked
  /\ dialog[d].turn # {}
  /\ Settle({d})
  /\ UNCHANGED <<file, deleting, resident, request, dropped, clients, listening,
                 busy, loose>>

\* Mutant: the dialogs are left to the turn.
DrainIdle == IF resident \in busy THEN {} ELSE Parked

\* The dialogs that are cancelled when the last client leaves.
Drain == Parked

\* Mutant: a turn does not keep its session.
EvictAlways == TRUE

\* closeSession() is called unless the session streams.
MayEvict == resident \notin busy

\* Mutant: the subscription of the broadcaster is left in place.
StayListening == listening

\* unsubscribeSession().
StopListening == NoObject

\* The abort of a stream that has attached in time.
Detach(c) ==
  /\ At(c) = "attached"
  /\ c \notin dropped
  /\ Goto(c, "over", NoObject)
  /\ clients' = clients \ {c}
  /\ IF clients' # {}
       THEN UNCHANGED <<dialog, listening, resident, loose>>
       ELSE /\ Settle(Drain)
            /\ listening' = StopListening
            /\ IF MayEvict THEN Evict ELSE UNCHANGED <<resident, loose>>
  /\ UNCHANGED <<file, deleting, dropped, busy>>

-----------------------------------------------------------------------------
(***************************************************************************)
(* delete_session, sent to another session, and deleteSession().           *)
(***************************************************************************)

\* Mutant: a session that streams is deleted as well.
DeleteAlways == deleting = "no"

\* A session that streams is not deleted.
MayDelete == deleting = "no" /\ resident \notin busy

\* Any other one leaves the map.
Delete ==
  /\ MayDelete
  /\ deleting' = "closing"
  /\ resident' = NoObject
  /\ loose' = loose \cup {o \in {resident} \cap Objects : Held(o) \/ o = listening}
  /\ UNCHANGED <<file, request, dropped, clients, listening, busy, dialog>>

\* deleteAgentSession(): the file is found and removed.
Unlink ==
  /\ deleting = "closing"
  /\ deleting' = "done"
  /\ file' = "gone"
  /\ UNCHANGED <<resident, request, dropped, clients, listening, busy, dialog,
                 loose>>

-----------------------------------------------------------------------------
Next ==
  \/ \E r \in Requests : \/ FindResident(r) \/ AskToOpen(r) \/ ReadFile(r)
                         \/ Build(r) \/ Opened(r)
  \/ \E c \in Clients : DropEarly(c) \/ Detach(c)
  \/ \E p \in Prompts : AfterHook(p) \/ Append(p) \/ EndTurn(p)
  \/ \E d \in Dialogs : \/ AskWorkflow(d) \/ Answer(d) \/ TimesOut(d)
                        \/ \E p \in Prompts : AskGate(d, p)
  \/ Broadcast
  \/ Delete
  \/ Unlink

Spec == Init /\ [][Next]_vars

\* The daemon goes on with what it has begun: file system and hooks answer, the
\* turn comes to its end, and timers fire.
FairSpec ==
  /\ Spec
  /\ \A r \in Requests : WF_vars(ReadFile(r) \/ Build(r) \/ Opened(r))
  /\ \A p \in Prompts : WF_vars(AfterHook(p)) /\ WF_vars(EndTurn(p))
  /\ \A d \in Dialogs : WF_vars(TimesOut(d))

-----------------------------------------------------------------------------
\* A turn runs on the session object that is in the map and whose file is
\* there: neither the client that leaves nor a deletion takes it from under the
\* turn, except for an object that a second open displaced, that left the map
\* while its prompt was on its way, or that was opened during the deletion.
TurnsKeepTheirSession ==
  \A o \in busy \ loose : o = resident /\ file = "stored"

\* While a client is connected the broadcaster listens to the resident session:
\* whoever joins, leaves, is forgotten or has the session evicted, no client
\* waits for the events of an object that is no longer the session, unless it
\* was displaced or deleted under the client.
ClientsHearTheSession ==
  clients \ dropped # {} => listening \in ({resident} \cap Objects) \cup loose

\* A dialog that was shown to somebody waits only as long as there are clients:
\* the last one to leave cancels it ("so an awaited dialog never hangs forever"),
\* unless a connection lost during the open has joined the clients.
DialogsHaveClients ==
  \A d \in Parked : dialog[d].shown => clients # {} \/ Ghosts # {}

\* Every prompt comes to an end, though all clients leave during its turn and
\* nobody answers the gate.
PromptsEnd ==
  \A p \in Prompts : At(p) # "new" ~> At(p) = "over"

=============================================================================
