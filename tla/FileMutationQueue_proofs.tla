---------------------- MODULE FileMutationQueue_proofs ----------------------
(***************************************************************************)
(* Proofs about FileMutationQueue for any number of calls and paths: type  *)
(* correctness, that the map of queues is empty when all calls have        *)
(* settled, that the queues implement KeyedLock, and, when symbolic links  *)
(* lead to files that exist, that two calls never work on one file and an  *)
(* edit overwrites what it has read.                                       *)
(*                                                                         *)
(* The argument: calls with the same key are numbered by their tickets.  A *)
(* call with a predecessor knows that everything before the predecessor is *)
(* released once that is, because the predecessor had to wait as well; the *)
(* entry of the map is the predecessor of the next call.                   *)
(***************************************************************************)
EXTENDS FileMutationQueue, FiniteSetTheorems, TLAPS

CallRecords ==
  [pc : PCs, path : Paths \cup {None}, key : Paths \cup {None},
   behind : Calls \cup {None}, ticket : Nat, read : SUBSET Calls, aborted : BOOLEAN]

\* Which calls have a path and a key.
Known ==
  \A c \in Calls :
    /\ call[c].pc # "new" => call[c].path \in Paths
    /\ HasKey(c) <=> call[c].pc \in Working \cup {"wait", "done"}
    /\ HasKey(c) => call[c].ticket \in 1..registered

\* d registered before c with the same key.
Before(d, c) ==
  /\ HasKey(c) /\ HasKey(d)
  /\ call[d].key = call[c].key
  /\ call[d].ticket < call[c].ticket

TicketsDiffer ==
  \A c, d \in Calls :
    (HasKey(c) /\ HasKey(d) /\ call[c].ticket = call[d].ticket) => c = d

\* What the wait for the predecessor is worth.
Chained ==
  \A c, d \in Calls : Before(d, c) =>
    \/ Released(d)
    \/ call[c].behind = d
    \/ \E b \in Calls : call[c].behind = b /\ Before(d, b) /\ Before(b, c)

\* Who has had its turn has nobody before it.
Turns ==
  \A c, d \in Calls :
    (Before(d, c) /\ call[c].pc \in Working \cup {"done"}) => Released(d)

\* The map holds the last call for each key, unless all have let go.
Tails ==
  \A k \in Paths, c \in Calls : call[c].key = k =>
    \/ queues[k] = None /\ Released(c)
    \/ queues[k] = c
    \/ \E b \in Calls : queues[k] = b /\ Before(c, b)

\* An entry of the map is a call with that key that has not let go.
Entries ==
  \A k \in Paths : queues[k] # None =>
    call[queues[k]].key = k /\ call[queues[k]].pc # "done"

QueueInv ==
  /\ TypeOK
  /\ Known
  /\ TicketsDiffer
  /\ Chained
  /\ Turns
  /\ Tails
  /\ Entries

-----------------------------------------------------------------------------
LEMMA InitInv ==
  ASSUME Init
  PROVE  QueueInv
  <1>1. NewCall \in CallRecords BY DEF NewCall, CallRecords, PCs
  <1>2. TypeOK BY <1>1 DEF Init, TypeOK, CallRecords
  <1>3. \A c \in Calls : ~HasKey(c) /\ call[c].pc = "new"
    BY DEF Init, NewCall, HasKey
  <1>4. \A c \in Calls, k \in Paths : call[c].key # k
    BY <1>3, PathsAssumption DEF HasKey
  <1>5. \A c, d \in Calls : ~Before(c, d) BY <1>3 DEF Before
  <1>6. Known BY <1>3 DEF Known, Working
  <1>7. TicketsDiffer BY <1>3 DEF TicketsDiffer
  <1>8. Chained /\ Turns BY <1>5 DEF Chained, Turns
  <1>9. Tails BY <1>4 DEF Tails
  <1>10. Entries BY DEF Init, Entries
  <1> QED BY <1>2, <1>6, <1>7, <1>8, <1>9, <1>10 DEF QueueInv

\* A step of a call that changes neither its key nor whether it waits, works
\* or is done, and leaves the map alone.
LEMMA SameQueue ==
  ASSUME QueueInv, NEW c \in Calls, NEW rec \in CallRecords,
         call' = [call EXCEPT ![c] = rec],
         registrations' \in Seq(Calls),
         content' \in [Files -> (SUBSET Calls) \cup {None}],
         UNCHANGED <<queues, registered>>,
         rec.key = call[c].key, rec.behind = call[c].behind,
         rec.ticket = call[c].ticket,
         rec.path \in Paths,
         rec.pc \in Working <=> call[c].pc \in Working,
         rec.pc = "wait" <=> call[c].pc = "wait",
         rec.pc = "done" <=> call[c].pc = "done"
  PROVE  QueueInv'
  <1>1. call \in [Calls -> CallRecords] BY DEF QueueInv, TypeOK, CallRecords
  <1>2. call' \in [Calls -> CallRecords] BY <1>1
  <1>3. TypeOK' BY <1>2 DEF QueueInv, TypeOK, CallRecords
  <1>4. call'[c] = rec /\ \A d \in Calls : d # c => call'[d] = call[d] BY <1>1
  <1>5. \A d \in Calls : HasKey(d)' = HasKey(d) BY <1>4 DEF HasKey
  <1>6. \A d \in Calls : Released(d)' = Released(d) BY <1>4, <1>5 DEF Released
  <1>7. \A d, e \in Calls : Before(d, e)' = Before(d, e) BY <1>4, <1>5 DEF Before
  <1>8. \A d \in Calls :
          /\ call'[d].key = call[d].key
          /\ call'[d].behind = call[d].behind
          /\ call'[d].ticket = call[d].ticket
          /\ call'[d].pc # "new" => call'[d].path = call[d].path \/ call'[d].path \in Paths
          /\ call'[d].pc = "done" <=> call[d].pc = "done"
          /\ call'[d].pc \in Working \cup {"done"} <=> call[d].pc \in Working \cup {"done"}
          /\ call'[d].pc \in Working \cup {"wait", "done"}
               <=> call[d].pc \in Working \cup {"wait", "done"}
    BY <1>4
  <1>9. Known' BY <1>4, <1>5, <1>8 DEF QueueInv, Known
  <1>10. TicketsDiffer' BY <1>5, <1>8 DEF QueueInv, TicketsDiffer
  <1>11. Chained' BY <1>6, <1>7, <1>8 DEF QueueInv, Chained
  <1>12. Turns' BY <1>6, <1>7, <1>8 DEF QueueInv, Turns
  <1>13. Tails'
    <2>1. \A d \in Calls : call'[d].key = call[d].key BY <1>8
    <2> QED BY <2>1, <1>6, <1>7 DEF QueueInv, Tails
  <1>14. Entries' BY <1>8, <1>1 DEF QueueInv, Entries, TypeOK
  <1> QED BY <1>3, <1>9, <1>10, <1>11, <1>12, <1>13, <1>14 DEF QueueInv

LEMMA KeyType ==
  ASSUME NEW p \in Paths
  PROVE  Key(p) \in Paths
  BY PathsAssumption DEF Key

\* The new call is the last one with its key.
LEMMA RegisterInv ==
  ASSUME QueueInv, NEW c \in Calls, Register(c)
  PROVE  QueueInv'
  <1> DEFINE k == Key(call[c].path)
             t == registered + 1
             rec == [call[c] EXCEPT !.pc = "wait", !.key = k, !.behind = queues[k],
                                    !.ticket = t]
  <1>1. call \in [Calls -> CallRecords] /\ registered \in Nat /\ t \in Nat
    BY DEF QueueInv, TypeOK, CallRecords
  <1>2. call[c].path \in Paths /\ k \in Paths /\ k # None
    BY KeyType, PathsAssumption DEF QueueInv, Known, Register
  <1>3. queues \in [Paths -> Calls \cup {None}] BY DEF QueueInv, TypeOK
  <1>4. rec \in CallRecords
    <2>1. queues[k] \in Calls \cup {None} BY <1>2, <1>3
    <2>2. "wait" \in PCs BY DEF PCs
    <2>3. call[c] \in CallRecords BY <1>1
    <2> HIDE DEF k, t
    <2> QED BY <1>1, <1>2, <2>1, <2>2, <2>3 DEF CallRecords
  <1>5. call' = [call EXCEPT ![c] = rec]
    BY <1>1 DEF Register, Predecessor, CallRecords
  <1>6. queues' = [queues EXCEPT ![k] = c] /\ registered' = t
    BY DEF Register
  <1>7. call' \in [Calls -> CallRecords] BY <1>1, <1>4, <1>5
  <1>8. TypeOK'
    BY <1>1, <1>2, <1>3, <1>6, <1>7 DEF Register, QueueInv, TypeOK, CallRecords
  <1>9. call'[c].key = k /\ call'[c].ticket = t /\ call'[c].behind = queues[k]
        /\ call'[c].pc = "wait" /\ call'[c].path = call[c].path
    BY <1>1, <1>4, <1>5 DEF CallRecords
  <1>10. \A d \in Calls : d # c => call'[d] = call[d] BY <1>1, <1>5
  <1>11. ~HasKey(c) /\ HasKey(c)' /\ ~Released(c) /\ ~Released(c)'
    BY <1>2, <1>9 DEF Register, QueueInv, Known, Working, HasKey, Released
  <1>12. \A d \in Calls : d # c => (HasKey(d)' = HasKey(d) /\ Released(d)' = Released(d))
    BY <1>10 DEF HasKey, Released
  <1>13. \A d \in Calls : HasKey(d) => call[d].ticket \in Nat /\ call[d].ticket < t
    BY <1>1 DEF QueueInv, Known
  <1>14. \A d, e \in Calls : (d # c /\ e # c) => Before(d, e)' = Before(d, e)
    BY <1>10, <1>12 DEF Before
  <1>15. \A d \in Calls : ~Before(c, d)'
    <2> SUFFICES ASSUME NEW d \in Calls, Before(c, d)' PROVE FALSE
      OBVIOUS
    <2>1. HasKey(d)' /\ call'[c].ticket < call'[d].ticket BY DEF Before
    <2>2. CASE d = c BY <2>1, <2>2, <1>1, <1>9
    <2>3. CASE d # c
      <3>1. HasKey(d) /\ t < call[d].ticket BY <2>1, <2>3, <1>9, <1>10, <1>12
      <3> QED BY <3>1, <1>1, <1>13
    <2> QED BY <2>2, <2>3
  <1>16. \A d \in Calls : Before(d, c)' <=> (d # c /\ HasKey(d) /\ call[d].key = k)
    <2> SUFFICES ASSUME NEW d \in Calls
                 PROVE  Before(d, c)' <=> (d # c /\ HasKey(d) /\ call[d].key = k)
      OBVIOUS
    <2>1. CASE d = c BY <2>1, <1>15
    <2>2. CASE d # c
      <3>1. Before(d, c)' <=> HasKey(d) /\ call[d].key = k /\ call[d].ticket < t
        BY <2>2, <1>9, <1>10, <1>11, <1>12 DEF Before
      <3> QED BY <2>2, <3>1, <1>13
    <2> QED BY <2>1, <2>2
  <1> HIDE DEF k, t, rec
  <1>17. Known'
    <2> SUFFICES ASSUME NEW d \in Calls
                 PROVE  /\ call'[d].pc # "new" => call'[d].path \in Paths
                        /\ HasKey(d)' <=> call'[d].pc \in Working \cup {"wait", "done"}
                        /\ HasKey(d)' => call'[d].ticket \in 1..registered'
      BY DEF Known
    <2>1. CASE d = c
      BY <2>1, <1>1, <1>2, <1>6, <1>9, <1>11 DEF t
    <2>2. CASE d # c
      BY <2>2, <1>1, <1>6, <1>10, <1>12 DEF QueueInv, Known, t
    <2> QED BY <2>1, <2>2
  <1>18. TicketsDiffer'
    BY <1>9, <1>10, <1>12, <1>13, <1>1 DEF QueueInv, TicketsDiffer, t
  <1>19. Chained'
    <2> SUFFICES ASSUME NEW d \in Calls, NEW e \in Calls, Before(e, d)'
                 PROVE  \/ Released(e)'
                        \/ call'[d].behind = e
                        \/ \E b \in Calls :
                             call'[d].behind = b /\ Before(e, b)' /\ Before(b, d)'
      BY DEF Chained
    <2>1. e # c BY <1>15
    <2>2. CASE d # c
      <3>1. Before(e, d) BY <2>1, <2>2, <1>14
      <3>2. \A b \in Calls : Before(b, d) => b # c BY <1>11 DEF Before
      <3> QED BY <3>1, <3>2, <2>1, <2>2, <1>10, <1>12, <1>14 DEF QueueInv, Chained
    <2>3. CASE d = c
      <3>1. HasKey(e) /\ call[e].key = k BY <2>3, <2>1, <1>16
      <3>2. \/ queues[k] = None /\ Released(e)
            \/ queues[k] = e
            \/ \E b \in Calls : queues[k] = b /\ Before(e, b)
        BY <3>1, <1>2 DEF QueueInv, Tails
      <3>3. \A b \in Calls : Before(e, b) => b # c /\ HasKey(b) /\ call[b].key = k
        BY <3>1, <1>11 DEF Before
      <3> QED BY <3>2, <3>3, <2>1, <2>3, <1>9, <1>12, <1>14, <1>16
    <2> QED BY <2>2, <2>3
  <1>20. Turns'
    <2> SUFFICES ASSUME NEW d \in Calls, NEW e \in Calls, Before(e, d)',
                        call'[d].pc \in Working \cup {"done"}
                 PROVE  Released(e)'
      BY DEF Turns
    <2>1. d # c BY <1>9 DEF Working
    <2>2. e # c BY <1>15
    <2> QED BY <2>1, <2>2, <1>10, <1>12, <1>14 DEF QueueInv, Turns
  <1>21. Tails'
    <2> SUFFICES ASSUME NEW q \in Paths, NEW d \in Calls, call'[d].key = q
                 PROVE  \/ queues'[q] = None /\ Released(d)'
                        \/ queues'[q] = d
                        \/ \E b \in Calls : queues'[q] = b /\ Before(d, b)'
      BY DEF Tails
    <2>1. CASE q = k
      <3>1. queues'[q] = c BY <2>1, <1>2, <1>3, <1>6
      <3>2. d # c => HasKey(d) /\ call[d].key = k
        BY <2>1, <1>2, <1>10 DEF HasKey
      <3> QED BY <3>1, <3>2, <1>16
    <2>2. CASE q # k
      <3>1. d # c BY <2>2, <1>9
      <3>2. queues'[q] = queues[q] BY <2>2, <1>3, <1>6
      <3>3. \A b \in Calls : Before(d, b) => b # c BY <1>11 DEF Before
      <3> QED BY <3>1, <3>2, <3>3, <1>10, <1>12, <1>14 DEF QueueInv, Tails
    <2> QED BY <2>1, <2>2
  <1>22. Entries'
    <2> SUFFICES ASSUME NEW q \in Paths, queues'[q] # None
                 PROVE  call'[queues'[q]].key = q /\ call'[queues'[q]].pc # "done"
      BY DEF Entries
    <2>1. CASE q = k BY <2>1, <1>2, <1>3, <1>6, <1>9
    <2>2. CASE q # k
      <3>1. queues'[q] = queues[q] /\ queues[q] \in Calls BY <2>2, <1>3, <1>6
      <3>2. call[queues[q]].key = q /\ call[queues[q]].pc # "done"
        BY <3>1 DEF QueueInv, Entries
      <3>3. queues[q] # c BY <3>2, <1>11, PathsAssumption DEF HasKey
      <3> QED BY <3>1, <3>2, <3>3, <1>10
    <2> QED BY <2>1, <2>2
  <1> QED BY <1>8, <1>17, <1>18, <1>19, <1>20, <1>21, <1>22 DEF QueueInv

\* The call whose turn it is has nobody before it.
LEMMA StartInv ==
  ASSUME QueueInv, NEW c \in Calls, Start(c)
  PROVE  QueueInv'
  <1> DEFINE to == IF call[c].aborted THEN "settle" ELSE "prepare"
             rec == [call[c] EXCEPT !.pc = to]
  <1>1. call \in [Calls -> CallRecords] BY DEF QueueInv, TypeOK, CallRecords
  <1>2. to \in Working /\ to \in PCs BY DEF Working, PCs
  <1>3. rec \in CallRecords BY <1>1, <1>2 DEF CallRecords
  <1>4. call' = [call EXCEPT ![c] = rec] BY <1>1 DEF Start, CallRecords
  <1>5. call' \in [Calls -> CallRecords] BY <1>1, <1>3, <1>4
  <1>6. TypeOK' BY <1>5 DEF Start, QueueInv, TypeOK, CallRecords
  <1>7. call'[c].pc = to /\ call'[c].key = call[c].key /\ call'[c].path = call[c].path
        /\ call'[c].ticket = call[c].ticket /\ call'[c].behind = call[c].behind
    BY <1>1, <1>4 DEF CallRecords
  <1>8. \A d \in Calls : d # c => call'[d] = call[d] BY <1>1, <1>4
  <1> HIDE DEF to, rec
  <1>9. \A d \in Calls : HasKey(d)' = HasKey(d) BY <1>7, <1>8 DEF HasKey
  <1>10. call[c].pc = "wait" /\ UNCHANGED <<queues, registered>> BY DEF Start
  <1>11. \A d \in Calls : Released(d)' = Released(d)
    BY <1>2, <1>7, <1>8, <1>9, <1>10 DEF Released, Working
  <1>12. \A d, e \in Calls : Before(d, e)' = Before(d, e)
    BY <1>7, <1>8, <1>9 DEF Before
  <1>13. Known' BY <1>2, <1>7, <1>8, <1>9, <1>10 DEF QueueInv, Known, Working
  <1>14. TicketsDiffer' BY <1>7, <1>8, <1>9 DEF QueueInv, TicketsDiffer
  <1>15. Chained' BY <1>7, <1>8, <1>11, <1>12 DEF QueueInv, Chained
  <1>16. \A d \in Calls : Before(d, c) => Released(d)
    <2> SUFFICES ASSUME NEW d \in Calls, Before(d, c) PROVE Released(d)
      OBVIOUS
    <2>1. \A e \in Calls : call[c].behind = e => Released(e) BY DEF Start
    <2>2. \A e \in Calls : Released(e) /\ Before(d, e) => Released(d)
      BY DEF QueueInv, Turns, Released
    <2> QED BY <2>1, <2>2 DEF QueueInv, Chained
  <1>17. Turns'
    BY <1>8, <1>11, <1>12, <1>16 DEF QueueInv, Turns
  <1>18. Tails' BY <1>7, <1>8, <1>10, <1>11, <1>12 DEF QueueInv, Tails
  <1>19. Entries'
    <2> SUFFICES ASSUME NEW q \in Paths, queues[q] # None
                 PROVE  call'[queues[q]].key = q /\ call'[queues[q]].pc # "done"
      BY <1>10 DEF Entries
    <2>1. queues[q] \in Calls /\ call[queues[q]].key = q /\ call[queues[q]].pc # "done"
      BY DEF QueueInv, Entries, TypeOK
    <2> QED BY <2>1, <1>2, <1>7, <1>8 DEF Working
  <1> QED BY <1>6, <1>13, <1>14, <1>15, <1>17, <1>18, <1>19 DEF QueueInv

\* When the last call with a key lets go, all of them have.
LEMMA SettleInv ==
  ASSUME QueueInv, NEW c \in Calls, Settle(c)
  PROVE  QueueInv'
  <1> DEFINE rec == [call[c] EXCEPT !.pc = "done"]
             k == call[c].key
  <1>1. call \in [Calls -> CallRecords] /\ queues \in [Paths -> Calls \cup {None}]
    BY DEF QueueInv, TypeOK, CallRecords
  <1>2. rec \in CallRecords BY <1>1 DEF CallRecords, PCs
  <1>3. call' = [call EXCEPT ![c] = rec] BY <1>1 DEF Settle, CallRecords
  <1>4. call' \in [Calls -> CallRecords] BY <1>1, <1>2, <1>3
  <1>5. call[c].pc = "settle" /\ HasKey(c) /\ k \in Paths
    BY <1>1 DEF Settle, QueueInv, Known, Working, HasKey, CallRecords
  <1>6. queues' = IF queues[k] = c THEN [queues EXCEPT ![k] = None] ELSE queues
    BY DEF Settle, Deleted
  <1>7. queues' \in [Paths -> Calls \cup {None}] BY <1>1, <1>6
  <1>8. TypeOK' BY <1>4, <1>7 DEF Settle, QueueInv, TypeOK, CallRecords
  <1>9. call'[c].pc = "done" /\ call'[c].key = k /\ call'[c].path = call[c].path
        /\ call'[c].ticket = call[c].ticket /\ call'[c].behind = call[c].behind
    BY <1>1, <1>3 DEF CallRecords
  <1>10. \A d \in Calls : d # c => call'[d] = call[d] BY <1>1, <1>3
  <1>11. registered' = registered BY DEF Settle
  <1> HIDE DEF rec, k
  <1>12. \A d \in Calls : HasKey(d)' = HasKey(d) BY <1>9, <1>10 DEF HasKey, k
  <1>13. \A d, e \in Calls : Before(d, e)' = Before(d, e)
    BY <1>9, <1>10, <1>12 DEF Before, k
  <1>14. \A d \in Calls : Released(d) => Released(d)'
    BY <1>9, <1>10, <1>12 DEF Released
  <1>15. Released(c)' BY <1>5, <1>9, <1>12 DEF Released
  <1>16. Known' BY <1>5, <1>9, <1>10, <1>11, <1>12 DEF QueueInv, Known
  <1>17. TicketsDiffer' BY <1>9, <1>10, <1>12 DEF QueueInv, TicketsDiffer
  <1>18. Chained' BY <1>9, <1>10, <1>13, <1>14 DEF QueueInv, Chained
  <1>19. Turns'
    BY <1>5, <1>9, <1>10, <1>13, <1>14 DEF QueueInv, Turns, Working
  <1>20. Tails'
    <2> SUFFICES ASSUME NEW q \in Paths, NEW d \in Calls, call'[d].key = q
                 PROVE  \/ queues'[q] = None /\ Released(d)'
                        \/ queues'[q] = d
                        \/ \E b \in Calls : queues'[q] = b /\ Before(d, b)'
      BY DEF Tails
    <2>1. call[d].key = q BY <1>9, <1>10 DEF k
    <2>2. CASE q = k /\ queues[k] = c
      <3>1. queues'[q] = None BY <2>2, <1>1, <1>6
      <3>2. d # c => Before(d, c)
        BY <2>1, <2>2, <1>5, PathsAssumption DEF QueueInv, Tails
      <3>3. Before(d, c) => Released(d)
        BY <1>5 DEF QueueInv, Turns, Working
      <3> QED BY <3>1, <3>2, <3>3, <1>14, <1>15
    <2>3. CASE ~(q = k /\ queues[k] = c)
      <3>1. queues'[q] = queues[q] BY <2>3, <1>1, <1>6
      <3> QED BY <3>1, <2>1, <1>13, <1>14 DEF QueueInv, Tails
    <2> QED BY <2>2, <2>3
  <1>21. Entries'
    <2> SUFFICES ASSUME NEW q \in Paths, queues'[q] # None
                 PROVE  call'[queues'[q]].key = q /\ call'[queues'[q]].pc # "done"
      BY DEF Entries
    <2>1. queues'[q] = queues[q] /\ queues[q] \in Calls BY <1>1, <1>5, <1>6
    <2>2. call[queues[q]].key = q /\ call[queues[q]].pc # "done"
      BY <2>1 DEF QueueInv, Entries
    <2>3. queues[q] # c BY <2>1, <2>2, <1>1, <1>5, <1>6 DEF k
    <2> QED BY <2>1, <2>2, <2>3, <1>10
  <1> QED BY <1>8, <1>16, <1>17, <1>18, <1>19, <1>20, <1>21 DEF QueueInv

\* The other steps of a call leave the queues alone.
LEMMA OtherInv ==
  ASSUME QueueInv, NEW c \in Calls,
         \/ \E p \in Paths : Call(c, p)
         \/ RegisterFails(c) \/ Prepared(c) \/ ReadFile(c) \/ Truncate(c) \/ Fill(c)
         \/ WorkFails(c) \/ Abort(c)
  PROVE  QueueInv'
  <1>1. /\ call \in [Calls -> CallRecords] /\ call[c] \in CallRecords
        /\ registrations \in Seq(Calls)
        /\ content \in [Files -> (SUBSET Calls) \cup {None}]
        /\ call[c].pc # "new" => call[c].path \in Paths
    BY DEF QueueInv, TypeOK, Known, CallRecords
  <1>2. \A pc \in PCs : [call[c] EXCEPT !.pc = pc] \in CallRecords
    BY <1>1 DEF CallRecords
  <1>3. \A pc \in PCs : LET rec == [call[c] EXCEPT !.pc = pc] IN
          /\ rec.pc = pc /\ rec.path = call[c].path /\ rec.key = call[c].key
          /\ rec.behind = call[c].behind /\ rec.ticket = call[c].ticket
    BY <1>1 DEF CallRecords
  \* A step that only moves a call, and perhaps works on its file.
  <1>4. ASSUME NEW pc \in PCs, call' = [call EXCEPT ![c].pc = pc],
               registrations' \in Seq(Calls),
               content' \in [Files -> (SUBSET Calls) \cup {None}],
               UNCHANGED <<queues, registered>>, call[c].pc # "new",
               pc \in Working <=> call[c].pc \in Working,
               call[c].pc \notin {"wait", "done"}, pc \notin {"wait", "done"}
        PROVE  QueueInv'
    <2> DEFINE rec == [call[c] EXCEPT !.pc = pc]
    <2>1. rec \in CallRecords BY <1>2
    <2>2. call' = [call EXCEPT ![c] = rec] BY <1>4
    <2>3. /\ rec.pc = pc /\ rec.path = call[c].path /\ rec.key = call[c].key
          /\ rec.behind = call[c].behind /\ rec.ticket = call[c].ticket
      BY <1>3
    <2> HIDE DEF rec
    <2> QED BY <1>1, <1>4, <2>1, <2>2, <2>3, SameQueue
  <1>5. ASSUME NEW p \in Paths, Call(c, p) PROVE QueueInv'
    <2> DEFINE rec == [call[c] EXCEPT !.pc = "register", !.path = p]
    <2>1. rec \in CallRecords BY <1>1 DEF CallRecords, PCs
    <2>2. /\ call' = [call EXCEPT ![c] = rec]
          /\ registrations' = Append(registrations, c)
          /\ UNCHANGED <<queues, content, registered>> /\ call[c].pc = "new"
      BY <1>5 DEF Call
    <2>3. registrations' \in Seq(Calls) BY <1>1, <2>2
    <2>4. /\ rec.pc = "register" /\ rec.path = p /\ rec.key = call[c].key
          /\ rec.behind = call[c].behind /\ rec.ticket = call[c].ticket
      BY <1>1 DEF CallRecords
    <2> HIDE DEF rec
    <2> QED BY <1>1, <2>1, <2>2, <2>3, <2>4, SameQueue DEF Working
  <1>6. CASE RegisterFails(c)
    <2>1. registrations' \in Seq(Calls) BY <1>6, <1>1 DEF RegisterFails
    <2>2. "failed" \in PCs BY DEF PCs
    <2> QED BY <1>6, <1>1, <2>1, <2>2, <1>4 DEF RegisterFails, Working
  <1>7. CASE Prepared(c)
    <2> DEFINE pc == Then(c, IF c \in Edits THEN "read" ELSE "write")
    <2>1. pc \in PCs /\ pc \in Working BY DEF Then, PCs, Working
    <2>2. call' = [call EXCEPT ![c].pc = pc] /\ call[c].pc = "prepare"
          /\ UNCHANGED <<registrations, queues, content, registered>>
      BY <1>7 DEF Prepared
    <2> HIDE DEF pc
    <2> QED BY <1>1, <2>1, <2>2, <1>4 DEF Working
  <1>8. CASE ReadFile(c)
    <2> DEFINE pc == Then(c, "write")
               rec == [call[c] EXCEPT !.pc = pc, !.read = content[FileOf(c)]]
    <2>1. pc \in PCs /\ pc \in Working BY DEF Then, PCs, Working
    <2>2. call' = [call EXCEPT ![c] = rec] /\ call[c].pc = "read"
          /\ UNCHANGED <<registrations, queues, content, registered>>
      BY <1>8 DEF ReadFile
    <2>3. FileOf(c) \in Files BY <1>1, <2>2 DEF FileOf, Files
    <2>4. content[FileOf(c)] \in SUBSET Calls
      BY <1>1, <1>8, <2>3 DEF ReadFile, Exists
    <2> HIDE DEF pc
    <2>5. rec \in CallRecords BY <1>1, <2>1, <2>4 DEF CallRecords
    <2>6. /\ rec.pc = pc /\ rec.path = call[c].path /\ rec.key = call[c].key
          /\ rec.behind = call[c].behind /\ rec.ticket = call[c].ticket
      BY <1>1 DEF CallRecords
    <2> HIDE DEF rec
    <2> QED BY <1>1, <2>1, <2>2, <2>5, <2>6, SameQueue DEF Working
  <1>9. CASE Truncate(c)
    <2>1. content' \in [Files -> (SUBSET Calls) \cup {None}]
      BY <1>1, <1>9 DEF Truncate
    <2>2. "fill" \in PCs BY DEF PCs, Working
    <2> QED BY <1>1, <1>9, <2>1, <2>2, <1>4 DEF Truncate, Working
  <1>10. CASE Fill(c)
    <2>1. call[c].read \in SUBSET Calls BY <1>1 DEF CallRecords
    <2>2. content' \in [Files -> (SUBSET Calls) \cup {None}]
      BY <1>1, <1>10, <2>1 DEF Fill
    <2>3. "settle" \in PCs BY DEF PCs, Working
    <2> QED BY <1>1, <1>10, <2>2, <2>3, <1>4 DEF Fill, Working
  <1>11. CASE WorkFails(c)
    <2>1. "settle" \in PCs BY DEF PCs, Working
    <2> QED BY <1>1, <1>11, <2>1, <1>4 DEF WorkFails, Working
  <1>12. CASE Abort(c)
    <2> DEFINE rec == [call[c] EXCEPT !.aborted = TRUE]
    <2>1. call' = [call EXCEPT ![c] = rec] /\ call[c].pc # "new"
          /\ UNCHANGED <<registrations, queues, content, registered>>
      BY <1>12 DEF Abort
    <2>2. rec \in CallRecords BY <1>1 DEF CallRecords
    <2>3. /\ rec.pc = call[c].pc /\ rec.path = call[c].path /\ rec.key = call[c].key
          /\ rec.behind = call[c].behind /\ rec.ticket = call[c].ticket
      BY <1>1 DEF CallRecords
    <2> HIDE DEF rec
    <2> QED BY <1>1, <2>1, <2>2, <2>3, SameQueue
  <1> QED BY <1>5, <1>6, <1>7, <1>8, <1>9, <1>10, <1>11, <1>12

LEMMA NextInv ==
  ASSUME QueueInv, [Next]_vars
  PROVE  QueueInv'
  <1>1. ASSUME NEW c \in Calls,
               (\E p \in Paths : Call(c, p)) \/ Step(c) \/ Fails(c) \/ Abort(c)
        PROVE  QueueInv'
    BY <1>1, RegisterInv, StartInv, SettleInv, OtherInv DEF Step, Fails
  <1>2. ASSUME UNCHANGED vars PROVE QueueInv'
    BY <1>2 DEF vars, QueueInv, TypeOK, Known, HasKey, TicketsDiffer, Before,
      Chained, Released, Turns, Tails, Entries
  <1> QED BY <1>1, <1>2 DEF Next, Rest

THEOREM QueueInvariant == Spec => []QueueInv
  <1>1. Init => QueueInv BY InitInv
  <1>2. QueueInv /\ [Next]_vars => QueueInv' BY NextInv
  <1> QED BY <1>1, <1>2, PTL DEF Spec

\* Every variable keeps its type, for any number of calls and paths.
THEOREM QueueTypeCorrect == Spec => []TypeOK
  <1>1. QueueInv => TypeOK BY DEF QueueInv
  <1> QED BY <1>1, QueueInvariant, PTL

\* fileMutationQueues is empty whenever every call has settled: neither a
\* failure nor an abort leaves an entry behind (file-mutation-queue.ts:59-63).
THEOREM QueuesAreRemoved == Spec => []QueuesRemoved
  <1>1. QueueInv => QueuesRemoved
    <2> SUFFICES ASSUME QueueInv, Quiet, NEW k \in Paths, queues[k] # None
                 PROVE  FALSE
      BY DEF QueuesRemoved
    <2>1. queues[k] \in Calls /\ call[queues[k]].key = k /\ call[queues[k]].pc # "done"
      BY DEF QueueInv, TypeOK, Entries
    <2>2. call[queues[k]].pc \in Working \cup {"wait", "done"}
      BY <2>1, PathsAssumption DEF QueueInv, Known, HasKey
    <2> QED BY <2>1, <2>2 DEF Quiet, Working
  <1> QED BY <1>1, QueueInvariant, PTL

-----------------------------------------------------------------------------
(***************************************************************************)
(* Exclusion.  A key is the real path, provided a path with a symbolic     *)
(* link leads to a file that is there when it is resolved.                 *)
(***************************************************************************)

\* A file that exists stays, and keys name the files the calls work on.
KeysReal ==
  /\ \A f \in Existing \cap Files : Exists(f)
  /\ \A c \in Calls : HasKey(c) => call[c].key = FileOf(c)

LEMMA KeysRealNext ==
  ASSUME AliasesExist, QueueInv, KeysReal, [Next]_vars
  PROVE  KeysReal'
  <1>1. call \in [Calls -> CallRecords] /\ content \in [Files -> (SUBSET Calls) \cup {None}]
    BY DEF QueueInv, TypeOK, CallRecords
  <1>2. \A f \in Files : Exists(f) => Exists(f)'
    <2> SUFFICES ASSUME NEW f \in Files, Exists(f) PROVE Exists(f)'
      OBVIOUS
    <2>1. CASE content' = content BY <2>1 DEF Exists
    <2>2. ASSUME NEW c \in Calls, Truncate(c) PROVE Exists(f)'
      BY <2>2, <1>1, PathsAssumption DEF Truncate, Exists
    <2>3. ASSUME NEW c \in Calls, Fill(c) PROVE Exists(f)'
      <3>1. call[c].read \cup {c} \in SUBSET Calls BY <1>1 DEF CallRecords
      <3> QED BY <2>3, <3>1, <1>1, PathsAssumption DEF Fill, Exists
    <2> QED BY <2>1, <2>2, <2>3
        DEF Next, Call, Step, Register, Start, Settle, Prepared, ReadFile, Fails,
            RegisterFails, WorkFails, Abort, Rest, vars
  <1>3. \A f \in Existing \cap Files : Exists(f)'
    BY <1>2 DEF KeysReal
  <1>4. ASSUME NEW c \in Calls, HasKey(c)' PROVE (call[c].key = FileOf(c))'
    <2>1. CASE Register(c)
      <3>1. call[c].path \in Paths BY <2>1 DEF Register, QueueInv, Known
      <3>2. Key(call[c].path) = RealPath[call[c].path]
        BY <3>1, PathsAssumption DEF Key, KeysReal, AliasesExist, Files
      <3>3. call'[c].key = Key(call[c].path) /\ call'[c].path = call[c].path
        BY <2>1, <1>1 DEF Register, CallRecords
      <3> QED BY <3>2, <3>3 DEF FileOf
    <2>2. CASE call'[c].key = call[c].key /\ call'[c].path = call[c].path
      BY <2>2, <1>4 DEF KeysReal, HasKey, FileOf
    <2>3. ASSUME NEW p \in Paths, Call(c, p) PROVE FALSE
      <3>1. ~HasKey(c) BY <2>3 DEF Call, QueueInv, Known, Working
      <3>2. call'[c].key = call[c].key BY <2>3, <1>1 DEF Call, CallRecords
      <3> QED BY <3>1, <3>2, <1>4 DEF HasKey
    <2>4. ASSUME NEW d \in Calls, d # c,
                 (\E p \in Paths : Call(d, p)) \/ Step(d) \/ Fails(d) \/ Abort(d)
          PROVE  call'[c] = call[c]
      BY <2>4, <1>1 DEF Call, Step, Register, Start, Settle, Prepared, ReadFile,
        Truncate, Fill, Fails, RegisterFails, WorkFails, Abort
    <2>5. ASSUME Step(c) \/ Fails(c) \/ Abort(c), ~Register(c)
          PROVE  call'[c].key = call[c].key /\ call'[c].path = call[c].path
      BY <2>5, <1>1 DEF Step, Start, Settle, Prepared, ReadFile,
        Truncate, Fill, Fails, RegisterFails, WorkFails, Abort, CallRecords
    <2> QED BY <2>1, <2>2, <2>3, <2>4, <2>5 DEF Next, Rest, vars
  <1> QED BY <1>3, <1>4 DEF KeysReal

\* "Serialize file mutation operations targeting the same file"
\* (file-mutation-queue.ts:32): no two calls ever work on one file, whatever
\* fails or is aborted, for any number of calls and paths, as long as a path
\* with a symbolic link leads to a file that existed from the start.
THEOREM CallsExclude == AliasesExist => (Spec => []FileExclusion)
  <1> SUFFICES ASSUME AliasesExist PROVE Spec => []FileExclusion
    OBVIOUS
  <1>1. Init => KeysReal
    <2> SUFFICES ASSUME Init PROVE KeysReal
      OBVIOUS
    <2>1. \A c \in Calls : ~HasKey(c) BY DEF Init, NewCall, HasKey
    <2>2. \A f \in Existing \cap Files : content[f] = {} BY DEF Init
    <2>3. \A f \in Existing \cap Files : Exists(f) BY <2>2, PathsAssumption DEF Exists
    <2> QED BY <2>1, <2>3 DEF KeysReal
  <1>2. QueueInv /\ KeysReal /\ [Next]_vars => KeysReal' BY KeysRealNext
  <1>3. QueueInv /\ KeysReal => FileExclusion
    <2> SUFFICES ASSUME QueueInv, KeysReal, NEW c \in Calls, NEW d \in Calls,
                        c # d, Works(c), Works(d), FileOf(c) = FileOf(d)
                 PROVE  FALSE
      BY DEF FileExclusion
    <2>1. HasKey(c) /\ HasKey(d) BY DEF QueueInv, Known, Works
    <2>2. call[c].key = call[d].key BY <2>1 DEF KeysReal
    <2>3. call[c].ticket \in Nat /\ call[d].ticket \in Nat BY DEF QueueInv, TypeOK
    <2>4. call[c].ticket # call[d].ticket BY <2>1 DEF QueueInv, TicketsDiffer
    <2>5. Before(c, d) \/ Before(d, c) BY <2>1, <2>2, <2>3, <2>4 DEF Before
    <2>6. ~Released(c) /\ ~Released(d) BY DEF Works, Working, Released
    <2> QED BY <2>5, <2>6 DEF QueueInv, Turns, Works
  <1> QED BY <1>1, <1>2, <1>3, QueueInvariant, PTL DEF Spec

-----------------------------------------------------------------------------
(***************************************************************************)
(* No lost update.  Nobody else changes the file between the read and the  *)
(* write of an edit.                                                       *)
(***************************************************************************)
LEMMA EditsAtomicNext ==
  ASSUME QueueInv, FileExclusion, EditsAreAtomic, [Next]_vars
  PROVE  EditsAreAtomic'
  <1> SUFFICES ASSUME NEW c \in Edits, call'[c].pc = "write"
               PROVE  content'[FileOf(c)'] = call'[c].read
    BY DEF EditsAreAtomic
  <1>1. call \in [Calls -> CallRecords] /\ content \in [Files -> (SUBSET Calls) \cup {None}]
    BY DEF QueueInv, TypeOK, CallRecords
  <1>2. c \in Calls BY DEF Calls
  <1>3. CASE ReadFile(c)
    BY <1>1, <1>2, <1>3 DEF ReadFile, FileOf, CallRecords
  <1>4. ASSUME ~ReadFile(c)
        PROVE  call[c].pc = "write" /\ call'[c].read = call[c].read
                 /\ call'[c].path = call[c].path
    <2>1. ASSUME NEW d \in Calls, d # c,
                 (\E p \in Paths : Call(d, p)) \/ Step(d) \/ Fails(d) \/ Abort(d)
          PROVE  call'[c] = call[c]
      BY <2>1, <1>1, <1>2 DEF Call, Step, Register, Start, Settle, Prepared, ReadFile,
        Truncate, Fill, Fails, RegisterFails, WorkFails, Abort
    <2>2. ASSUME (\E p \in Paths : Call(c, p)) \/ Step(c) \/ Fails(c) PROVE FALSE
      BY <2>2, <1>1, <1>2, <1>4 DEF Call, Step, Register, Start, Settle, Prepared, Then,
        Truncate, Fill, Fails, RegisterFails, WorkFails, CallRecords
    <2>3. CASE Abort(c) BY <2>3, <1>1, <1>2 DEF Abort, CallRecords
    <2> QED BY <2>1, <2>2, <2>3, <1>2 DEF Next, Rest, vars
  <1>5. ASSUME ~ReadFile(c) PROVE content'[FileOf(c)] = content[FileOf(c)]
    <2>1. c \in Calls /\ Works(c) BY <1>2, <1>4, <1>5 DEF Works, Working
    <2>2. ASSUME NEW d \in Calls, Truncate(d) \/ Fill(d)
          PROVE  content'[FileOf(c)] = content[FileOf(c)]
      <3>1. d # c
        BY <2>2, <1>1, <1>4, <1>5 DEF Truncate, Fill, CallRecords
      <3>2. Works(d) BY <2>2 DEF Truncate, Fill, Works, Working
      <3>3. FileOf(c) # FileOf(d) BY <2>1, <3>1, <3>2 DEF FileExclusion
      <3>4. FileOf(c) \in Files
        BY <2>1 DEF QueueInv, Known, Works, Working, FileOf, Files
      <3> QED BY <2>2, <3>3, <3>4, <1>1 DEF Truncate, Fill
    <2>3. CASE content' = content BY <2>3
    <2> QED BY <2>2, <2>3
        DEF Next, Call, Step, Register, Start, Settle, Prepared, ReadFile, Fails,
            RegisterFails, WorkFails, Abort, Rest, vars
  <1>6. CASE ~ReadFile(c)
    BY <1>4, <1>5, <1>6 DEF EditsAreAtomic, FileOf
  <1> QED BY <1>3, <1>6

\* No update is lost (edit.ts:133-146): an edit overwrites what it has read,
\* for any number of calls, failures and aborts, if links lead to files that
\* existed from the start.
THEOREM EditsStayAtomic == AliasesExist => (Spec => []EditsAreAtomic)
  <1> SUFFICES ASSUME AliasesExist PROVE Spec => []EditsAreAtomic
    OBVIOUS
  <1>1. Init => EditsAreAtomic BY DEF Init, EditsAreAtomic, NewCall, Calls
  <1>2. QueueInv /\ FileExclusion /\ EditsAreAtomic /\ [Next]_vars => EditsAreAtomic'
    BY EditsAtomicNext
  <1>3. Spec => []FileExclusion BY CallsExclude
  <1> QED BY <1>1, <1>2, <1>3, QueueInvariant, PTL DEF Spec

-----------------------------------------------------------------------------
(***************************************************************************)
(* The members of a finite set S in the order of the numbers t that they   *)
(* carry: what Line is made of.                                            *)
(***************************************************************************)
Upto(S, t, c) == {d \in S : t[d] <= t[c]}
Rank(S, t, c) == Cardinality(Upto(S, t, c))
Sorted(S, t) == [i \in 1..Cardinality(S) |-> CHOOSE c \in S : Rank(S, t, c) = i]

Numbered(S, t) ==
  /\ IsFiniteSet(S)
  /\ \A c \in S : t[c] \in Nat
  /\ \A c, d \in S : t[c] = t[d] => c = d

\* Ranks count the members from 1.
LEMMA Ranks ==
  ASSUME NEW S, NEW t, Numbered(S, t)
  PROVE  /\ Cardinality(S) \in Nat
         /\ \A c \in S : Rank(S, t, c) \in 1..Cardinality(S)
         /\ \A c, d \in S : Rank(S, t, c) = Rank(S, t, d) => c = d
         /\ \A i \in 1..Cardinality(S) : \E c \in S : Rank(S, t, c) = i
  <1>1. IsFiniteSet(S) /\ Cardinality(S) \in Nat
    BY FS_CardinalityType DEF Numbered
  <1>2. ASSUME NEW c \in S
        PROVE  /\ IsFiniteSet(Upto(S, t, c)) /\ c \in Upto(S, t, c)
               /\ Rank(S, t, c) \in 1..Cardinality(S)
    <2>1. Upto(S, t, c) \in SUBSET S BY DEF Upto
    <2>2. c \in Upto(S, t, c) BY DEF Upto, Numbered
    <2>3. /\ IsFiniteSet(Upto(S, t, c))
          /\ Cardinality(Upto(S, t, c)) <= Cardinality(S)
      BY <1>1, <2>1, FS_Subset
    <2>4. Cardinality(Upto(S, t, c)) \in Nat BY <2>3, FS_CardinalityType
    <2>5. Cardinality(Upto(S, t, c)) # 0 BY <2>2, <2>3, FS_EmptySet
    <2> QED BY <1>1, <2>2, <2>3, <2>4, <2>5 DEF Rank
  <1>3. ASSUME NEW c \in S, NEW d \in S, t[c] < t[d], Rank(S, t, c) = Rank(S, t, d)
        PROVE  FALSE
    <2>1. Upto(S, t, c) \in SUBSET Upto(S, t, d) BY <1>3 DEF Upto, Numbered
    <2>2. Upto(S, t, d) = Upto(S, t, c)
      BY <1>2, <1>3, <2>1, FS_Subset DEF Rank
    <2>3. d \notin Upto(S, t, c) BY <1>3 DEF Upto, Numbered
    <2> QED BY <1>2, <2>2, <2>3
  <1>4. ASSUME NEW c \in S, NEW d \in S, Rank(S, t, c) = Rank(S, t, d)
        PROVE  c = d
    <2>1. t[c] \in Nat /\ t[d] \in Nat BY DEF Numbered
    <2>2. ~(t[c] < t[d]) /\ ~(t[d] < t[c]) BY <1>3, <1>4
    <2> QED BY <2>1, <2>2 DEF Numbered
  <1> DEFINE T == 1..Cardinality(S)
             rank == [c \in S |-> Rank(S, t, c)]
  <1>5. rank \in Injection(S, T)
    BY <1>2, <1>4 DEF Injection, IsInjective
  <1>6. IsFiniteSet(T) /\ Cardinality(T) = Cardinality(S)
    BY <1>1, FS_Interval
  <1> HIDE DEF T
  <1>7. rank \in Surjection(S, T) BY <1>5, <1>6, FS_Injection
  <1> USE DEF T
  <1>8. ASSUME NEW i \in T PROVE \E c \in S : Rank(S, t, c) = i
    BY <1>7 DEF Surjection
  <1> QED BY <1>1, <1>2, <1>4, <1>8

\* Who stands where.
LEMMA SortedIs ==
  ASSUME NEW S, NEW t, Numbered(S, t)
  PROVE  /\ Sorted(S, t) \in Seq(S)
         /\ Len(Sorted(S, t)) = Cardinality(S)
         /\ \A c \in S : Sorted(S, t)[Rank(S, t, c)] = c
  <1>1. /\ Cardinality(S) \in Nat
        /\ \A c \in S : Rank(S, t, c) \in 1..Cardinality(S)
        /\ \A c, d \in S : Rank(S, t, c) = Rank(S, t, d) => c = d
        /\ \A i \in 1..Cardinality(S) : \E c \in S : Rank(S, t, c) = i
    BY Ranks
  <1>2. ASSUME NEW i \in 1..Cardinality(S)
        PROVE  Sorted(S, t)[i] \in S /\ Rank(S, t, Sorted(S, t)[i]) = i
    BY <1>1 DEF Sorted
  <1>3. Sorted(S, t) \in [1..Cardinality(S) -> S] BY <1>2 DEF Sorted
  <1> HIDE DEF Sorted
  <1>4. Sorted(S, t) \in Seq(S) /\ Len(Sorted(S, t)) = Cardinality(S)
    BY <1>1, <1>3
  <1>5. ASSUME NEW c \in S PROVE Sorted(S, t)[Rank(S, t, c)] = c
    BY <1>1, <1>2
  <1> QED BY <1>4, <1>5

\* Two sequences of the members of a set that agree on where each one stands.
LEMMA SortedUnique ==
  ASSUME NEW S, NEW t, Numbered(S, t), NEW s \in Seq(S), Len(s) = Cardinality(S),
         \A c \in S : s[Rank(S, t, c)] = c
  PROVE  Sorted(S, t) = s
  <1>1. /\ Sorted(S, t) \in Seq(S) /\ Len(Sorted(S, t)) = Cardinality(S)
        /\ \A c \in S : Sorted(S, t)[Rank(S, t, c)] = c
    BY SortedIs
  <1>2. \A i \in 1..Cardinality(S) : \E c \in S : Rank(S, t, c) = i BY Ranks
  <1>3. \A i \in 1..Cardinality(S) : Sorted(S, t)[i] = s[i] BY <1>1, <1>2
  <1> QED BY <1>1, <1>3

\* A new member with the greatest number comes last.
LEMMA SortedAppend ==
  ASSUME NEW S, NEW t, NEW c, c \notin S, Numbered(S \cup {c}, t),
         \A d \in S : t[d] < t[c]
  PROVE  Sorted(S \cup {c}, t) = Append(Sorted(S, t), c)
  <1> DEFINE U == S \cup {c}
             s == Sorted(S, t)
  <1>1. S \in SUBSET U /\ IsFiniteSet(U) BY DEF Numbered
  <1>2. IsFiniteSet(S) BY <1>1, FS_Subset
  <1>3. Numbered(S, t) BY <1>2 DEF Numbered
  <1>4. Cardinality(U) = Cardinality(S) + 1 BY <1>2, FS_AddElement
  <1>5. /\ s \in Seq(S) /\ Len(s) = Cardinality(S)
        /\ \A d \in S : s[Rank(S, t, d)] = d
    BY <1>3, SortedIs
  <1>6. Cardinality(S) \in Nat /\ \A d \in S : Rank(S, t, d) \in 1..Cardinality(S)
    BY <1>3, Ranks
  <1>7. ASSUME NEW d \in S PROVE Rank(U, t, d) = Rank(S, t, d)
    <2>1. Upto(U, t, d) = Upto(S, t, d)
      BY <1>7 DEF Upto, Numbered
    <2> QED BY <2>1 DEF Rank
  <1>8. Rank(U, t, c) = Cardinality(S) + 1
    <2>1. Upto(U, t, c) = U BY DEF Upto, Numbered
    <2> QED BY <2>1, <1>4 DEF Rank
  <1> HIDE DEF s
  <1>9. Append(s, c) \in Seq(U) /\ Len(Append(s, c)) = Cardinality(U)
    BY <1>4, <1>5, <1>6
  <1>10. ASSUME NEW d \in U PROVE Append(s, c)[Rank(U, t, d)] = d
    <2>1. CASE d = c BY <2>1, <1>5, <1>6, <1>8
    <2>2. CASE d \in S
      <3> DEFINE i == Rank(S, t, d)
      <3>1. i \in 1..Len(s) /\ s[i] = d /\ Rank(U, t, d) = i BY <2>2, <1>5, <1>6, <1>7
      <3> HIDE DEF i, U
      <3>2. Append(s, c)[i] = s[i] BY <1>5, <3>1
      <3> QED BY <3>1, <3>2
    <2> QED BY <2>1, <2>2
  <1> HIDE DEF U
  <1>11. Numbered(U, t) BY DEF U
  <1>12. Sorted(U, t) = Append(s, c) BY <1>9, <1>10, <1>11, SortedUnique
  <1> QED BY <1>12 DEF U, s

LEMMA TailIs ==
  ASSUME NEW S, NEW s \in Seq(S), s # <<>>
  PROVE  /\ Head(s) = s[1] /\ Len(s) \in Nat \ {0}
         /\ Tail(s) \in [1..Len(s) - 1 -> S]
         /\ \A i \in 1..Len(s) - 1 : Tail(s)[i] = s[i + 1]
  <1>1. Len(s) \in Nat /\ s \in [1..Len(s) -> S] OBVIOUS
  <1>2. Len(s) # 0 OBVIOUS
  <1>3. Head(s) = s[1] OBVIOUS
  <1>4. Tail(s) \in Seq(S) BY <1>2
  <1>5. Len(Tail(s)) = Len(s) - 1 BY <1>1, <1>2
  <1>6. \A i \in 1..Len(s) - 1 : Tail(s)[i] = s[i + 1] BY <1>1, <1>2
  <1>7. Tail(s) \in [1..Len(s) - 1 -> S]
    <2>1. ASSUME NEW r \in Seq(S) PROVE r \in [1..Len(r) -> S]
      OBVIOUS
    <2> QED BY <2>1, <1>4, <1>5
  <1> QED BY <1>1, <1>2, <1>3, <1>6, <1>7

\* The member with the least number comes first.
LEMMA SortedTail ==
  ASSUME NEW S, NEW t, NEW c \in S, Numbered(S, t),
         \A d \in S \ {c} : t[c] < t[d]
  PROVE  /\ Sorted(S, t) # <<>> /\ Head(Sorted(S, t)) = c
         /\ Sorted(S \ {c}, t) = Tail(Sorted(S, t))
  <1> DEFINE U == S \ {c}
             s == Sorted(S, t)
  <1>1. IsFiniteSet(S) BY DEF Numbered
  <1>2. IsFiniteSet(U) /\ Cardinality(U) = Cardinality(S) - 1
    BY <1>1, FS_RemoveElement
  <1>3. Numbered(U, t) BY <1>2 DEF Numbered
  <1>4. /\ s \in Seq(S) /\ Len(s) = Cardinality(S)
        /\ \A d \in S : s[Rank(S, t, d)] = d
    BY SortedIs
  <1>5. Cardinality(U) \in Nat /\ \A d \in U : Rank(U, t, d) \in 1..Cardinality(U)
    BY <1>3, Ranks
  <1>6. Rank(S, t, c) = 1
    <2>1. Upto(S, t, c) = {c} BY DEF Upto, Numbered
    <2> QED BY <2>1, FS_Singleton DEF Rank
  <1>7. ASSUME NEW d \in U PROVE Rank(S, t, d) = Rank(U, t, d) + 1
    <2>1. Upto(S, t, d) = Upto(U, t, d) \cup {c} /\ c \notin Upto(U, t, d)
      BY <1>7 DEF Upto, Numbered
    <2>2. Upto(U, t, d) \in SUBSET U BY DEF Upto
    <2>3. IsFiniteSet(Upto(U, t, d)) BY <1>2, <2>2, FS_Subset
    <2> QED BY <2>1, <2>3, FS_AddElement DEF Rank
  <1> HIDE DEF s
  <1>8. Cardinality(S) \in Nat /\ Cardinality(S) = Cardinality(U) + 1
    BY <1>1, <1>2, FS_CardinalityType
  <1>9. s # <<>> /\ s[1] = c
    <2>1. Len(s) # 0 BY <1>4, <1>5, <1>8
    <2> QED BY <1>4, <1>6, <2>1
  <1> DEFINE n == Cardinality(U)
  <1> HIDE DEF n, U
  <1>10. /\ Head(s) = s[1] /\ Tail(s) \in [1..n -> S] /\ n \in Nat
         /\ \A i \in 1..n : Tail(s)[i] = s[i + 1]
    <2>1. n \in Nat /\ Len(s) - 1 = n BY <1>4, <1>5, <1>8 DEF n
    <2> QED BY <2>1, <1>4, <1>9, TailIs
  <1>11. ASSUME NEW d \in U PROVE Tail(s)[Rank(U, t, d)] = d
    <2>1. d \in S /\ Rank(U, t, d) \in 1..n BY <1>5 DEF U, n
    <2>2. s[Rank(U, t, d) + 1] = d BY <2>1, <1>4, <1>7
    <2> QED BY <2>1, <2>2, <1>10
  <1>12. Tail(s) \in Seq(U) /\ Len(Tail(s)) = n
    <2>1. ASSUME NEW i \in 1..n PROVE Tail(s)[i] \in U
      <3>1. PICK d \in U : Rank(U, t, d) = i BY <1>3, Ranks DEF n
      <3> QED BY <3>1, <1>11
    <2>2. Tail(s) \in [1..n -> U] BY <2>1, <1>10
    <2>3. ASSUME NEW r \in [1..n -> U] PROVE r \in Seq(U) /\ Len(r) = n BY <1>10
    <2> QED BY <2>2, <2>3
  <1>13. Sorted(U, t) = Tail(s) BY <1>3, <1>11, <1>12, SortedUnique DEF n
  <1> QED BY <1>9, <1>10, <1>13 DEF U, s

-----------------------------------------------------------------------------
(***************************************************************************)
(* The queues implement KeyedLock.  Registering, starting and settling are *)
(* its three steps, and all the others change neither who is in a line nor *)
(* who works.                                                              *)
(***************************************************************************)
Held(k) == {c \in Calls : call[c].key = k /\ call[c].pc # "done"}
Tickets == [c \in Calls |-> call[c].ticket]
Lines == [k \in Paths |-> Line(k)]
Holders == {c \in Calls : Works(c)}

LEMMA LineIsSorted ==
  QueueInv => \A k \in Paths : Line(k) = Sorted(Held(k), Tickets) /\ Numbered(Held(k), Tickets)
  <1> SUFFICES ASSUME QueueInv, NEW k \in Paths
               PROVE  Line(k) = Sorted(Held(k), Tickets) /\ Numbered(Held(k), Tickets)
    OBVIOUS
  <1>1. \A c \in Held(k) : c \in Calls /\ Tickets[c] = call[c].ticket
    BY DEF Held, Tickets
  <1>2. \A c \in Held(k) : HasKey(c) /\ Tickets[c] \in 1..registered
    BY <1>1, PathsAssumption DEF QueueInv, Known, Held, HasKey
  <1>3. \A c, d \in Held(k) : Tickets[c] = Tickets[d] => c = d
    BY <1>1, <1>2 DEF QueueInv, TicketsDiffer
  <1>4. IsFiniteSet(Held(k))
    <2> DEFINE f == [c \in Held(k) |-> Tickets[c]]
    <2>1. f \in Injection(Held(k), 1..registered)
      BY <1>2, <1>3 DEF Injection, IsInjective
    <2>2. IsFiniteSet(1..registered) BY FS_Interval DEF QueueInv, TypeOK
    <2> QED BY <2>1, <2>2, FS_Injection
  <1>5. registered \in Nat BY DEF QueueInv, TypeOK
  <1>6. Numbered(Held(k), Tickets) BY <1>2, <1>3, <1>4, <1>5 DEF Numbered
  <1>7. Line(k) = Sorted(Held(k), Tickets)
    <2> DEFINE S == Held(k)
               upto(c) == {d \in S : call[d].ticket <= call[c].ticket}
    <2>1. Line(k) = [i \in 1..Cardinality(S) |-> CHOOSE c \in S : Cardinality(upto(c)) = i]
      BY DEF Line, Held
    <2>2. ASSUME NEW c \in S PROVE Cardinality(upto(c)) = Rank(S, Tickets, c)
      <3>1. upto(c) = Upto(S, Tickets, c) BY <1>1 DEF Upto
      <3> QED BY <3>1 DEF Rank
    <2> HIDE DEF S, upto
    <2>3. ASSUME NEW i \in 1..Cardinality(S)
          PROVE  (CHOOSE c \in S : Cardinality(upto(c)) = i) = Sorted(S, Tickets)[i]
      <3> DEFINE p == CHOOSE c \in S : Cardinality(upto(c)) = i
                 q == CHOOSE c \in S : Rank(S, Tickets, c) = i
      <3>1. \E c \in S : Rank(S, Tickets, c) = i BY <1>6, Ranks DEF S
      <3>2. q \in S /\ Rank(S, Tickets, q) = i BY <3>1
      <3>3. p \in S /\ Cardinality(upto(p)) = i BY <2>2, <3>1
      <3>4. Sorted(S, Tickets)[i] = q BY DEF Sorted
      <3> HIDE DEF p, q
      <3>5. p = q BY <1>6, <2>2, <3>2, <3>3, Ranks DEF S
      <3> QED BY <3>4, <3>5 DEF p
    <2>4. DOMAIN Sorted(S, Tickets) = 1..Cardinality(S)
            /\ Sorted(S, Tickets) = [i \in 1..Cardinality(S) |-> Sorted(S, Tickets)[i]]
      BY DEF Sorted
    <2> HIDE DEF Sorted
    <2>5. Line(k) = Sorted(S, Tickets) BY <2>1, <2>3, <2>4
    <2> QED BY <2>5 DEF S
  <1> QED BY <1>6, <1>7

LEMMA LineIsSortedNext ==
  ASSUME QueueInv'
  PROVE  \A k \in Paths : /\ Line(k)' = Sorted(Held(k)', Tickets')
                          /\ Numbered(Held(k)', Tickets')
  <1>1. (\A k \in Paths : Line(k) = Sorted(Held(k), Tickets)
                            /\ Numbered(Held(k), Tickets))'
    BY LineIsSorted, PTL
  <1> QED BY <1>1

\* Tickets do not matter outside the set.
LEMMA SortedSame ==
  ASSUME NEW S, NEW t, NEW u, \A c \in S : t[c] = u[c]
  PROVE  Sorted(S, t) = Sorted(S, u)
  <1>1. \A c \in S : Upto(S, t, c) = Upto(S, u, c) BY DEF Upto
  <1> QED BY <1>1 DEF Sorted, Rank

LEMMA InLine ==
  ASSUME QueueInv, NEW k \in Paths
  PROVE  Line(k) \in Seq(Held(k))
  BY LineIsSorted, SortedIs

\* What the steps of the lock look like from here.
LEMMA LockSteps ==
  ASSUME QueueInv, QueueInv', NEW k \in Paths, NEW c \in Calls,
         \A q \in Paths \ {k} : Held(q)' = Held(q),
         \A d \in Calls \ {c} : Tickets'[d] = Tickets[d],
         c \in Held(k) => Tickets'[c] = Tickets[c],
         \A q \in Paths \ {k} : c \notin Held(q),
         NEW s, Sorted(Held(k)', Tickets') = s
  PROVE  Lines' = [Lines EXCEPT ![k] = s]
  <1>1. \A q \in Paths : Line(q) = Sorted(Held(q), Tickets) BY LineIsSorted
  <1>2. \A q \in Paths : Line(q)' = Sorted(Held(q)', Tickets')
                         /\ Numbered(Held(q)', Tickets')
    BY LineIsSortedNext
  <1>3. Line(k)' = s BY <1>2
  <1>4. ASSUME NEW q \in Paths, q # k PROVE Line(q)' = Line(q)
    <2>1. \A d \in Held(q) : Tickets'[d] = Tickets[d] BY <1>4 DEF Held
    <2>2. Sorted(Held(q), Tickets') = Sorted(Held(q), Tickets) BY <2>1, SortedSame
    <2>3. Line(q)' = Sorted(Held(q)', Tickets') BY <1>2
    <2>4. Held(q)' = Held(q) BY <1>4
    <2> QED BY <1>1, <2>2, <2>3, <2>4
  <1> QED BY <1>3, <1>4 DEF Lines

\* A step that nobody notices in a line.
LEMMA LinesKeep ==
  ASSUME QueueInv, QueueInv',
         \A d \in Calls : /\ call'[d].key = call[d].key /\ call'[d].ticket = call[d].ticket
                          /\ HasKey(d) => (call'[d].pc = "done" <=> call[d].pc = "done")
  PROVE  Lines' = Lines
  <1>1. \A k \in Paths : Held(k)' = Held(k) BY PathsAssumption DEF Held, HasKey
  <1>2. Tickets' = Tickets BY DEF Tickets
  <1>3. \A k \in Paths : Line(k) = Sorted(Held(k), Tickets) BY LineIsSorted
  <1>4. \A k \in Paths : Line(k)' = Sorted(Held(k)', Tickets') BY LineIsSortedNext
  <1>5. \A k \in Paths : Line(k)' = Line(k) BY <1>1, <1>2, <1>3, <1>4
  <1> QED BY <1>5 DEF Lines

\* Who has nobody before it that has not let go is the head of its line.
LEMMA HeadOfLine ==
  ASSUME QueueInv, NEW c \in Calls, HasKey(c), call[c].pc # "done",
         \A d \in Calls : Before(d, c) => Released(d)
  PROVE  LET k == call[c].key
         IN  /\ k \in Paths /\ c \in Held(k)
             /\ Line(k) # <<>> /\ Head(Line(k)) = c
             /\ Sorted(Held(k) \ {c}, Tickets) = Tail(Line(k))
  <1> DEFINE k == call[c].key
  <1>1. k \in Paths BY DEF QueueInv, TypeOK, HasKey
  <1>2. c \in Held(k) BY DEF Held
  <1>3. Line(k) = Sorted(Held(k), Tickets) /\ Numbered(Held(k), Tickets)
    BY <1>1, LineIsSorted
  <1>4. ASSUME NEW d \in Held(k) \ {c} PROVE Tickets[c] < Tickets[d]
    <2>1. d \in Calls /\ HasKey(d) /\ call[d].key = k /\ call[d].pc # "done"
      BY <1>1, PathsAssumption DEF Held, HasKey
    <2>2. ~Before(d, c) BY <2>1 DEF Released
    <2>3. ~(call[d].ticket < call[c].ticket) BY <2>1, <2>2 DEF Before
    <2>4. call[d].ticket # call[c].ticket BY <1>4, <2>1 DEF QueueInv, TicketsDiffer
    <2>5. call[c].ticket \in Nat /\ call[d].ticket \in Nat BY <2>1 DEF QueueInv, TypeOK
    <2> QED BY <2>1, <2>3, <2>4, <2>5 DEF Tickets
  <1> HIDE DEF k
  <1>5. /\ Sorted(Held(k), Tickets) # <<>> /\ Head(Sorted(Held(k), Tickets)) = c
        /\ Sorted(Held(k) \ {c}, Tickets) = Tail(Sorted(Held(k), Tickets))
    BY <1>2, <1>3, <1>4, SortedTail
  <1> QED BY <1>1, <1>2, <1>3, <1>5 DEF k

LEMMA RegisterQueuesUp ==
  ASSUME QueueInv, QueueInv', NEW c \in Calls, Register(c)
  PROVE  \E k \in Paths : Lock!QueueUp(k, c)
  <1>1. call \in [Calls -> CallRecords] BY DEF QueueInv, TypeOK, CallRecords
  <1>2. call[c].pc = "register" /\ ~HasKey(c) /\ call[c].path \in Paths
    BY DEF Register, QueueInv, Known, Working
  <1>3. PICK k \in Paths : k = Key(call[c].path) BY <1>2, PathsAssumption DEF Key
  <1>4. /\ call'[c].key = k /\ call'[c].pc = "wait" /\ call'[c].ticket = registered + 1
        /\ \A d \in Calls \ {c} : call'[d] = call[d]
    BY <1>1, <1>3 DEF Register, CallRecords
  <1>5. \A q \in Paths : c \notin Held(q) BY <1>2, PathsAssumption DEF Held, HasKey
  <1>6. Held(k)' = Held(k) \cup {c} BY <1>4 DEF Held
  <1>7. \A q \in Paths \ {k} : Held(q)' = Held(q) BY <1>4, <1>5 DEF Held
  <1>8. \A d \in Calls \ {c} : Tickets'[d] = Tickets[d] BY <1>4 DEF Tickets
  <1>9. \A q \in Paths : Line(q)' = Sorted(Held(q)', Tickets')
                         /\ Numbered(Held(q)', Tickets')
    BY LineIsSortedNext
  <1>10. \A d \in Held(k) : Tickets'[d] < Tickets'[c]
    <2>1. ASSUME NEW d \in Held(k) PROVE Tickets'[d] < Tickets'[c]
      <3>1. d \in Calls /\ d # c /\ HasKey(d) BY <1>3, <1>5, PathsAssumption DEF Held, HasKey
      <3>2. call[d].ticket \in 1..registered /\ registered \in Nat
        BY <3>1 DEF QueueInv, Known, TypeOK
      <3>3. Tickets'[d] = call[d].ticket /\ Tickets'[c] = registered + 1
        BY <1>4, <3>1 DEF Tickets
      <3> QED BY <3>2, <3>3
    <2> QED BY <2>1
  <1>11. Sorted(Held(k) \cup {c}, Tickets') = Append(Sorted(Held(k), Tickets'), c)
    <2>1. Numbered(Held(k) \cup {c}, Tickets') BY <1>3, <1>6, <1>9
    <2> QED BY <1>3, <1>5, <1>10, <2>1, SortedAppend
  <1>12. Sorted(Held(k), Tickets') = Line(k)
    <2>1. \A d \in Held(k) : Tickets'[d] = Tickets[d] BY <1>3, <1>5, <1>8 DEF Held
    <2>2. Sorted(Held(k), Tickets') = Sorted(Held(k), Tickets) BY <2>1, SortedSame
    <2> QED BY <1>3, <2>2, LineIsSorted
  <1>13. Lines' = [Lines EXCEPT ![k] = Append(Line(k), c)]
    <2>1. Sorted(Held(k)', Tickets') = Append(Line(k), c) BY <1>6, <1>11, <1>12
    <2> QED BY <1>3, <1>5, <1>7, <1>8, <2>1, LockSteps
  <1>14. \A q \in Paths : c \notin {Line(q)[i] : i \in DOMAIN Line(q)}
    <2>1. ASSUME NEW q \in Paths, c \in {Line(q)[i] : i \in DOMAIN Line(q)} PROVE FALSE
      <3>1. Line(q) \in Seq(Held(q)) BY InLine
      <3>2. \A i \in DOMAIN Line(q) : Line(q)[i] \in Held(q) BY <3>1
      <3> QED BY <2>1, <3>2, <1>5
    <2> QED BY <2>1
  <1>15. Holders' = Holders
    <2>1. \A d \in Calls : Works(d)' = Works(d) BY <1>2, <1>4 DEF Works, Working
    <2> QED BY <2>1 DEF Holders
  <1>16. \A q \in Paths : c \notin Lock!Range(Lines[q])
    BY <1>14 DEF Lock!Range, Lines
  <1>17. Lines' = [Lines EXCEPT ![k] = Append(Lines[k], c)] BY <1>13 DEF Lines
  <1>18. Lock!QueueUp(k, c) BY <1>15, <1>16, <1>17 DEF Lock!QueueUp, Lines, Holders
  <1> QED BY <1>18

LEMMA StartAcquires ==
  ASSUME QueueInv, QueueInv', NEW c \in Calls, Start(c)
  PROVE  \E k \in Paths : Lock!Acquire(k)
  <1> DEFINE k == call[c].key
  <1>1. call \in [Calls -> CallRecords] BY DEF QueueInv, TypeOK, CallRecords
  <1>2. call[c].pc = "wait" /\ HasKey(c) BY DEF Start, QueueInv, Known
  <1>3. /\ call'[c].key = k /\ call'[c].ticket = call[c].ticket
        /\ call'[c].pc \in Working /\ call'[c].pc # "done"
        /\ \A d \in Calls \ {c} : call'[d] = call[d]
    BY <1>1 DEF Start, Working, CallRecords
  <1>4. ASSUME NEW d \in Calls, Before(d, c) PROVE Released(d)
    <2>1. Before(d, c)' BY <1>3, <1>4 DEF Before, HasKey
    <2>2. Released(d)' BY <1>3, <2>1 DEF QueueInv, Turns
    <2>3. d # c BY <1>3, <2>2 DEF Released
    <2> QED BY <1>3, <2>2, <2>3 DEF Released, HasKey
  <1>5. k \in Paths /\ Line(k) # <<>> /\ Head(Line(k)) = c
    BY <1>2, <1>4, HeadOfLine
  <1>6. Lines' = Lines
    <2>1. \A d \in Calls : /\ call'[d].key = call[d].key /\ call'[d].ticket = call[d].ticket
                           /\ call'[d].pc = "done" <=> call[d].pc = "done"
      BY <1>2, <1>3
    <2> QED BY <2>1, LinesKeep
  <1> HIDE DEF k
  <1>7. c \notin Holders BY <1>2 DEF Holders, Works, Working
  <1>8. Holders' = Holders \cup {c} BY <1>3 DEF Holders, Works
  <1> QED BY <1>5, <1>6, <1>7, <1>8 DEF Lock!Acquire, Lines, Holders

LEMMA SettleReleases ==
  ASSUME QueueInv, QueueInv', NEW c \in Calls, Settle(c)
  PROVE  \E k \in Paths : Lock!Release(k)
  <1>1. call \in [Calls -> CallRecords] BY DEF QueueInv, TypeOK, CallRecords
  <1>2. call[c].pc = "settle" /\ HasKey(c) BY DEF Settle, QueueInv, Known, Working
  <1>3. PICK k \in Paths : k = call[c].key BY <1>1, <1>2 DEF HasKey, CallRecords
  <1>4. /\ call'[c].key = k /\ call'[c].ticket = call[c].ticket /\ call'[c].pc = "done"
        /\ \A d \in Calls \ {c} : call'[d] = call[d]
    BY <1>3, <1>1 DEF Settle, CallRecords
  <1>5. \A d \in Calls : Before(d, c) => Released(d)
    BY <1>2 DEF QueueInv, Turns, Working
  <1>6. /\ k \in Paths /\ c \in Held(k) /\ Line(k) # <<>> /\ Head(Line(k)) = c
        /\ Sorted(Held(k) \ {c}, Tickets) = Tail(Line(k))
    BY <1>3, <1>2, <1>5, HeadOfLine
  <1>7. Tickets' = Tickets BY <1>4 DEF Tickets
  <1>8. Held(k)' = Held(k) \ {c} BY <1>4 DEF Held
  <1>9. \A q \in Paths \ {k} : Held(q)' = Held(q) /\ c \notin Held(q) BY <1>3, <1>4 DEF Held
  <1>10. Lines' = [Lines EXCEPT ![k] = Tail(Line(k))]
    <2>1. Sorted(Held(k)', Tickets') = Tail(Line(k)) BY <1>6, <1>7, <1>8
    <2> QED BY <1>6, <1>7, <1>9, <2>1, LockSteps
  <1>11. c \in Holders BY <1>2 DEF Holders, Works, Working
  <1>12. Holders' = Holders \ {c} BY <1>4 DEF Holders, Works, Working
  <1> QED BY <1>6, <1>10, <1>11, <1>12 DEF Lock!Release, Lines, Holders

LEMMA OthersStutter ==
  ASSUME QueueInv, QueueInv', NEW c \in Calls,
         \/ \E p \in Paths : Call(c, p)
         \/ Prepared(c) \/ ReadFile(c) \/ Truncate(c) \/ Fill(c)
         \/ Fails(c) \/ Abort(c)
  PROVE  Lines' = Lines /\ Holders' = Holders
  <1>1. call \in [Calls -> CallRecords] BY DEF QueueInv, TypeOK, CallRecords
  <1>2. \A d \in Calls \ {c} : call'[d] = call[d]
    BY <1>1 DEF Call, Prepared, ReadFile, Truncate, Fill, Fails, RegisterFails,
      WorkFails, Abort
  <1>3. /\ call'[c].key = call[c].key /\ call'[c].ticket = call[c].ticket
        /\ call'[c].pc = "done" <=> call[c].pc = "done"
        /\ call'[c].pc \in Working <=> call[c].pc \in Working
    BY <1>1 DEF Call, Prepared, ReadFile, Truncate, Fill, Fails, RegisterFails,
      WorkFails, Abort, Then, Working, CallRecords
  <1>4. Lines' = Lines BY <1>2, <1>3, LinesKeep
  <1>5. Holders' = Holders
    <2>1. \A d \in Calls : Works(d)' = Works(d) BY <1>2, <1>3 DEF Works
    <2> QED BY <2>1 DEF Holders
  <1> QED BY <1>4, <1>5

LEMMA NextRefines ==
  ASSUME QueueInv, QueueInv', [Next]_vars
  PROVE  [Lock!Next]_<<Lines, Holders>>
  <1>1. CASE UNCHANGED vars
    <2>1. Lines' = Lines /\ Holders' = Holders
      BY <1>1 DEF vars, Lines, Holders, Line, Works
    <2> QED BY <2>1
  <1>2. ASSUME NEW c \in Calls, Register(c) \/ Start(c) \/ Settle(c)
        PROVE  Lock!Next
    BY <1>2, RegisterQueuesUp, StartAcquires, SettleReleases DEF Lock!Next
  <1>3. ASSUME NEW c \in Calls,
               \/ \E p \in Paths : Call(c, p)
               \/ Prepared(c) \/ ReadFile(c) \/ Truncate(c) \/ Fill(c)
               \/ Fails(c) \/ Abort(c)
        PROVE  UNCHANGED <<Lines, Holders>>
    BY <1>3, OthersStutter
  <1> QED BY <1>1, <1>2, <1>3 DEF Next, Step, Rest

LEMMA InitRefines ==
  ASSUME Init
  PROVE  Lock!Init
  <1>1. \A c \in Calls : call[c].key = None /\ ~Works(c)
    BY DEF Init, NewCall, Works, Working
  <1>2. ASSUME NEW k \in Paths PROVE Line(k) = <<>>
    <2>1. k # None BY PathsAssumption
    <2>2. Held(k) = {} BY <1>1, <2>1 DEF Held
    <2>3. Line(k) \in Seq({}) BY <2>2, InitInv, InLine
    <2> QED BY <2>3
  <1> QED BY <1>1, <1>2 DEF Lock!Init

\* withFileMutationQueue() is one lock per key, granted in the order of
\* registration to one caller at a time (file-mutation-queue.ts:34-65), for any
\* number of calls and paths, whatever fails or is aborted.
THEOREM FirstCome == Spec => FirstComeFirstServed
  <1>1. Init => Lock!Init BY InitRefines
  <1>2. QueueInv /\ QueueInv' /\ [Next]_vars => [Lock!Next]_<<Lines, Holders>>
    BY NextRefines
  <1>3. [Lock!Next]_<<Lines, Holders>> => [Lock!Next]_(Lock!vars)
    BY DEF Lock!vars, Lines, Holders
  <1> QED BY <1>1, <1>2, <1>3, QueueInvariant, PTL
      DEF Spec, FirstComeFirstServed, Lock!Spec

=============================================================================
