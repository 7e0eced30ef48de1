-------------------------- MODULE MessageDelivery --------------------------
(***************************************************************************)
(* What the harness promises about the messages its callers queue          *)
(* (packages/agent/src/harness/agent-harness.ts): each queue is a channel  *)
(* that delivers in the order of acceptance; a message leaves its channel  *)
(* once, by delivery into the session, by being handed back to the caller  *)
(* that empties the queues, or because the run that held it failed.        *)
(***************************************************************************)
EXTENDS Naturals, Sequences, Functions

CONSTANTS Messages

VARIABLES
  channel,    (* accepted messages not yet delivered, first in first out   *)
  delivered,  (* messages appended to the session                          *)
  returned,   (* messages handed back by clearQueue() or abort()           *)
  lost        (* messages that went down with a failing run                *)

vars == <<channel, delivered, returned, lost>>

Channels == {"steer", "followUp", "nextTurn"}

\* Only these two are emptied by clearQueue() and abort().
Clearable == {"steer", "followUp"}

Accepted == delivered \cup returned \cup lost
              \cup UNION {Range(channel[q]) : q \in Channels}

Init ==
  /\ channel = [q \in Channels |-> <<>>]
  /\ delivered = {}
  /\ returned = {}
  /\ lost = {}

Accept(q, m) ==
  /\ m \notin Accepted
  /\ channel' = [channel EXCEPT ![q] = Append(@, m)]
  /\ UNCHANGED <<delivered, returned, lost>>

Deliver(q) ==
  /\ channel[q] # <<>>
  /\ delivered' = delivered \cup {Head(channel[q])}
  /\ channel' = [channel EXCEPT ![q] = Tail(@)]
  /\ UNCHANGED <<returned, lost>>

\* The caller gets back what no run holds: the end of the two channels.
GiveBack(held) ==
  /\ held \in [Clearable -> Nat]
  /\ channel' = [q \in Channels |->
                   IF q \in Clearable THEN SubSeq(channel[q], 1, held[q])
                                      ELSE channel[q]]
  /\ returned' = returned \cup
       UNION {Range(SubSeq(channel[q], held[q] + 1, Len(channel[q]))) : q \in Clearable}
  /\ UNCHANGED <<delivered, lost>>

\* A failing run takes the messages it holds with it: the start of one channel.
Lose(q, k) ==
  /\ lost' = lost \cup Range(SubSeq(channel[q], 1, k))
  /\ channel' = [channel EXCEPT ![q] = SubSeq(@, k + 1, Len(@))]
  /\ UNCHANGED <<delivered, returned>>

Next ==
  \/ \E q \in Channels, m \in Messages : Accept(q, m)
  \/ \E q \in Channels : Deliver(q)
  \/ \E s \in 0..Len(channel["steer"]), f \in 0..Len(channel["followUp"]) :
       GiveBack([q \in Clearable |-> IF q = "steer" THEN s ELSE f])
  \/ \E q \in Channels : \E k \in 1..Len(channel[q]) : Lose(q, k)

Spec == Init /\ [][Next]_vars

=============================================================================
