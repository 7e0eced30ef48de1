----------------------------- MODULE KeyedLock -----------------------------
(***************************************************************************)
(* What withFileMutationQueue() promises                                   *)
(* (packages/wolli/src/core/tools/file-mutation-queue.ts): one lock per    *)
(* key, granted in the order in which the callers queued up, to one caller *)
(* at a time; callers with different keys do not wait for each other.      *)
(***************************************************************************)
EXTENDS Naturals, Sequences, Functions

CONSTANTS Keys, Callers

VARIABLES
  line,    (* for each key the callers that have queued up and not left    *)
  holding  (* the callers that have been granted their lock                *)

vars == <<line, holding>>

Init ==
  /\ line = [k \in Keys |-> <<>>]
  /\ holding = {}

QueueUp(k, c) ==
  /\ \A q \in Keys : c \notin Range(line[q])
  /\ line' = [line EXCEPT ![k] = Append(@, c)]
  /\ UNCHANGED holding

Acquire(k) ==
  /\ line[k] # <<>>
  /\ Head(line[k]) \notin holding
  /\ holding' = holding \cup {Head(line[k])}
  /\ UNCHANGED line

Release(k) ==
  /\ line[k] # <<>>
  /\ Head(line[k]) \in holding
  /\ holding' = holding \ {Head(line[k])}
  /\ line' = [line EXCEPT ![k] = Tail(@)]

Next ==
  \E k \in Keys :
    \/ \E c \in Callers : QueueUp(k, c)
    \/ Acquire(k)
    \/ Release(k)

Spec == Init /\ [][Next]_vars

=============================================================================
