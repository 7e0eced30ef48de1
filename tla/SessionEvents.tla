--------------------------- MODULE SessionEvents ---------------------------
(***************************************************************************)
(* The event stream of one session: broadcastToSession() and the route     *)
(* GET /sessions/:id/events of packages/wolli/src/server.ts.               *)
(*                                                                         *)
(* An event gets the next number, enters the replay ring and is written to *)
(* the clients one after the other, awaiting each write; the next event    *)
(* may begin meanwhile.  A client that attaches again names the last event *)
(* it has received; what the ring still holds is replayed to it, a write   *)
(* at a time, while live events may be written to it as well.              *)
(*                                                                         *)
(* The session is resident throughout (a client attaches without an await, *)
(* so it cannot abort before its abort listener is there).  Contents,      *)
(* keepalives and the frames without a number are left out, hello aside.   *)
(***************************************************************************)
EXTENDS Integers, Sequences, Functions, SequencesExt

CONSTANTS
  Readers,      (* clients, each with one connection at a time             *)
  RingSize,     (* RING_SIZE                                               *)
  LastEvent,    (* bound on the events                                     *)
  MaxAttached,  (* bound on the connections                                *)
  None          (* undefined                                               *)

ASSUME ConstantsAssumption ==
  /\ RingSize \in Nat \ {0}
  /\ LastEvent \in Nat
  /\ MaxAttached \in Nat
  /\ None \notin Nat \cup (Readers \X Nat)

VARIABLES
  seq,      (* sessionSeq: the number of the last event                    *)
  ring,     (* sessionRing: the numbers of the events kept                 *)
  clients,  (* sessionClients: the connections, in the order of insertion  *)
  conn,     (* for each reader its latest connection                       *)
  loop,     (* for each event the loop that writes it                      *)
  got,      (* history: what each reader received on earlier connections   *)
  raced     (* history: live events and a replay have overlapped, or the   *)
            (* ring no longer held what a reader had missed                *)

vars == <<seq, ring, clients, conn, loop, got, raced>>

Events == 1..LastEvent
Connections == Readers \X Nat

\* A frame is the number of its event, 0 for hello, and whether it is live.
Frames == [id : 0..LastEvent, live : BOOLEAN]

Latest(r) == <<r, conn[r].number>>

NoLoop == [at |-> None, awaits |-> 0, visited |-> {}]

\* A connection that was aborted, or gave way to the next one.
Gone(c) == c # Latest(c[1]) \/ conn[c[1]].pc = "off"

ConnRecords == [pc : {"off", "replay", "live"}, number : Nat,
                after : (0..LastEvent) \cup {None}, watermark : 0..LastEvent,
                index : Nat \ {0},  \* where in the ring the replay goes on
                awaits : Nat,       \* how many frames it waits to be taken
                out : Seq(Frames), accepted : Nat]

LoopRecords == [at : Connections \cup {None}, awaits : Nat, visited : SUBSET Connections]

TypeOK ==
  /\ seq \in 0..LastEvent
  /\ ring \in Seq(Events) /\ Len(ring) <= RingSize
  /\ clients \in Seq(Connections)
  /\ conn \in [Readers -> ConnRecords]
  /\ loop \in [Events -> LoopRecords]
  /\ got \in [Readers -> Seq(Frames)]
  /\ raced \in BOOLEAN

Init ==
  /\ seq = 0
  /\ ring = <<>>
  /\ clients = <<>>
  /\ conn = [r \in Readers |-> [pc |-> "off", number |-> 0, after |-> None,
                                watermark |-> 0, index |-> 1, awaits |-> 0,
                                out |-> <<>>, accepted |-> 0]]
  /\ loop = [e \in Events |-> NoLoop]
  /\ got = [r \in Readers |-> <<>>]
  /\ raced = FALSE

\* Where a sequence of frames has events.
EventsIn(frames) == {i \in DOMAIN frames : frames[i].id # 0}

\* The event the reader r names when it attaches again.
LastReceived(r) ==
  IF EventsIn(got[r]) = {} THEN None ELSE got[r][Max(EventsIn(got[r]))].id

\* The write that the loop of e awaits has settled: it is accepted, or its
\* stream is aborted.
Ready(e) ==
  LET c == loop[e].at
  IN c # None /\ (Gone(c) \/ loop[e].awaits <= conn[c[1]].accepted)

ReplayReady(r) == conn[r].pc = "replay" /\ conn[r].awaits <= conn[r].accepted

\* The event loop: the writes to an aborted stream settle, and the loops that
\* awaited them go on, in the microtasks of the abort, ...
Unwound == \A e \in Events : loop[e].at # None => ~Gone(loop[e].at)

\* ... and a request or an abort comes after all microtasks.
Drained == (\A e \in Events : ~Ready(e)) /\ (\A r \in Readers : ~ReplayReady(r))

-----------------------------------------------------------------------------
(***************************************************************************)
(* broadcastToSession().                                                   *)
(***************************************************************************)

\* Mutant: the clients are an array that is iterated by index.
NextByIndex(visited) ==
  LET i == Cardinality(visited) + 1
  IN IF i \in DOMAIN clients THEN clients[i] ELSE None

\* Where the iteration over the Set goes on: after those it has visited come
\* the others in the order of insertion, later ones included.
NextClient(visited) ==
  LET rest == {i \in DOMAIN clients : clients[i] \notin visited}
  IN IF rest = {} THEN None ELSE clients[Min(rest)]

\* The loop of event e writes to the next client, or ends.
Visit(e, visited) ==
  LET c == NextClient(visited)
      r == c[1]
  IN IF c = None
     THEN /\ loop' = [loop EXCEPT ![e] = NoLoop]
          /\ UNCHANGED conn
     ELSE /\ conn' = [conn EXCEPT ![r].out = Append(@, [id |-> e, live |-> TRUE])]
          /\ loop' = [loop EXCEPT ![e] = [at |-> c, awaits |-> Len(conn[r].out) + 1,
                                          visited |-> visited \cup {c}]]

\* Mutant: the ring keeps everything.
KeepAll(events) == events

\* The events the ring keeps.
Kept(events) == IF Len(events) > RingSize THEN Tail(events) ELSE events

\* The harness emits an event; without clients it is dropped.
Emit ==
  /\ Unwound
  /\ seq < LastEvent
  /\ clients # <<>>
  /\ seq' = seq + 1
  /\ ring' = Kept(Append(ring, seq + 1))
  /\ Visit(seq + 1, {})
  /\ raced' = (raced \/ \E r \in Readers : conn[r].pc = "replay")
  /\ UNCHANGED <<clients, got>>

\* The awaited write settles.  Writes to one client settle in their order.
BroadcastStep(e) ==
  /\ Ready(e)
  /\ \A d \in Events : loop[d].at = loop[e].at => d >= e
  /\ Visit(e, loop[e].visited)
  /\ UNCHANGED <<seq, ring, clients, got, raced>>

-----------------------------------------------------------------------------
(***************************************************************************)
(* Attaching, replay and detaching.                                        *)
(***************************************************************************)

\* Mutant: the last event the client names is replayed as well.
ReplayedFrom(k, id) == k.after <= id /\ id <= k.watermark

\* The event is one to replay on the connection k.
Replayed(k, id) == k.after < id /\ id <= k.watermark

\* The connection k of r writes the next event to replay, from its index on in
\* the array as it is now, or else hello.
WriteNext(r, k) ==
  LET found == {i \in k.index..Len(ring) : k.after # None /\ Replayed(k, ring[i])}
      i == Min(found)
  IN conn' = [conn EXCEPT ![r] =
       IF found = {}
       THEN [k EXCEPT !.pc = "live", !.out = Append(@, [id |-> 0, live |-> FALSE])]
       ELSE [k EXCEPT !.pc = "replay", !.index = i + 1, !.awaits = Len(k.out) + 1,
                      !.out = Append(@, [id |-> ring[i], live |-> FALSE])]]

\* How many connections there have been.
Attached == FoldFunction(+, 0, [r \in Readers |-> conn[r].number])

\* A client attaches; one that has received an event names it.
Attach(r) ==
  LET n == conn[r].number + 1
      after == LastReceived(r)
  IN /\ Drained
     /\ conn[r].pc = "off"
     /\ Attached < MaxAttached
     /\ clients' = Append(clients, <<r, n>>)
     /\ WriteNext(r, [pc |-> "replay", number |-> n, after |-> after, watermark |-> seq,
                      index |-> 1, awaits |-> 0, out |-> <<>>, accepted |-> 0])
     /\ raced' = (raced \/ (\E e \in Events : loop[e].at # None)
                        \/ (after # None /\ after + Len(ring) < seq))
     /\ UNCHANGED <<seq, ring, loop, got>>

\* The write of the replay loop settles.
ReplayStep(r) ==
  /\ ReplayReady(r)
  /\ WriteNext(r, conn[r])
  /\ UNCHANGED <<seq, ring, clients, loop, got, raced>>

\* The connection of r takes the next frame.
Accept(r) ==
  /\ Unwound
  /\ conn[r].pc # "off"
  /\ conn[r].accepted < Len(conn[r].out)
  /\ conn' = [conn EXCEPT ![r].accepted = @ + 1]
  /\ UNCHANGED <<seq, ring, clients, loop, got, raced>>

\* The connection is lost, and with it the end of what it has taken.
Detach(r) ==
  /\ Drained
  /\ conn[r].pc # "off"
  /\ conn' = [conn EXCEPT ![r].pc = "off", ![r].out = <<>>, ![r].accepted = 0]
  /\ clients' = RemoveAt(clients, CHOOSE i \in DOMAIN clients : clients[i] = Latest(r))
  /\ \E n \in 0..conn[r].accepted :
       got' = [got EXCEPT ![r] = @ \o SubSeq(conn[r].out, 1, n)]
  /\ UNCHANGED <<seq, ring, loop, raced>>

\* The turn is over and nothing is under way.
Rest ==
  /\ \A e \in Events : loop[e].at = None
  /\ \A r \in Readers : conn[r].pc # "replay"
  /\ UNCHANGED vars

Next ==
  \/ Emit
  \/ \E e \in Events : BroadcastStep(e)
  \/ \E r \in Readers : Attach(r) \/ ReplayStep(r) \/ Accept(r) \/ Detach(r)
  \/ Rest

Spec == Init /\ [][Next]_vars

-----------------------------------------------------------------------------
(***************************************************************************)
(* Properties.                                                             *)
(***************************************************************************)

\* The frames at the places S are those of the events from `first` on, each
\* once and in order: what comes before one of them is all from `first` on.
InOrderFrom(first, frames, S) ==
  \A i \in S : {frames[j].id : j \in {k \in S : k < i}} = first..(frames[i].id - 1)

\* A connection gets every event after the one it attached at, once and in
\* order, whichever clients before it stall, leave or arrive while the loops
\* of several events are suspended (server.ts:521-527).
LiveInOrder ==
  \A r \in Readers : conn[r].pc # "off" =>
    LET k == conn[r]
        live == {i \in DOMAIN k.out : k.out[i].live /\ k.out[i].id > k.watermark}
    IN InOrderFrom(k.watermark + 1, k.out, live)

\* Attaching again with Last-Event-ID continues where the reader was, without a
\* gap and without a repetition, as long as no live event overlapped a replay
\* and the ring held what was missed (server.ts:849-858).
ReplayContinues ==
  ~raced => \A r \in Readers :
    LET frames == got[r] \o conn[r].out
    IN EventsIn(frames) # {} =>
         \E first \in Events : InOrderFrom(first, frames, EventsIn(frames))

\* "live broadcasts (id > watermark) and replayed events (id <= watermark) stay
\* disjoint - no double-delivery across reconnect" (server.ts:819-820).
NoDoubleDelivery ==
  \A r \in Readers : \A i, j \in EventsIn(conn[r].out) :
    conn[r].out[i].id = conn[r].out[j].id => i = j

=============================================================================
