----------------------------- MODULE AtomicMap -----------------------------
(***************************************************************************)
(* What a locked file of credentials promises: it is a map that changes in *)
(* one key at a time, whoever changes it, and once it cannot be read it is *)
(* left as it is.  The promise ends when the lock has been broken.         *)
(***************************************************************************)
CONSTANTS
  Keys,
  Values,
  Missing,     (* there is no file                                         *)
  Torn,        (* a write was cut short                                    *)
  NoValue      (* a key without an entry                                   *)

VARIABLES
  map,
  broken

Empty == [k \in Keys |-> NoValue]

Init ==
  /\ map \in {Missing} \cup [Keys -> Values]
  /\ broken = FALSE

Create ==
  /\ map = Missing
  /\ map' = Empty
  /\ UNCHANGED broken

Change ==
  /\ map \notin {Missing, Torn}
  /\ \E k \in Keys, v \in Values : map' = [map EXCEPT ![k] = v]
  /\ UNCHANGED broken

Tear ==
  /\ map \notin {Missing, Torn}
  /\ map' = Torn
  /\ UNCHANGED broken

Break == broken'

Next == Create \/ Change \/ Tear \/ Break

Spec == Init /\ [][Next]_<<map, broken>>

=============================================================================
