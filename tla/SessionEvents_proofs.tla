------------------------ MODULE SessionEvents_proofs ------------------------
(***************************************************************************)
(* Proofs about SessionEvents for any number of readers, connections and   *)
(* events and a ring of any size.                                          *)
(*                                                                         *)
(* The argument for the live events: no loop overtakes the loop of an      *)
(* earlier event (Ordered).  Each loop has visited the clients up to the   *)
(* one it writes to (Prefix), and the later of two loops has visited none  *)
(* that the earlier one has not; it stops where the earlier one is.  When  *)
(* a client leaves, the loops that write to it go on before any other      *)
(* (GoneFirst), so a loop whose place in the order is lost with its client *)
(* is not passed meanwhile.  And a connection has been sent an event after *)
(* its watermark exactly if the loop of that event has visited it, or has  *)
(* ended (SentByLoops).                                                    *)
(*                                                                         *)
(* For the replay: the ring holds the last events, numbered without a gap  *)
(* (RingIsTail), and unless an event has raced a replay the frames of a    *)
(* connection go on after the last event the reader has named (Resumes).   *)
(***************************************************************************)
EXTENDS SessionEvents, FiniteSetTheorems, WellFoundedInduction, TLAPS

On(r) == conn[r].pc # "off"

Active(e) == loop[e].at # None

\* A loop is that of an event that was emitted; it has visited connections
\* there were, the last one the one it writes to.
LoopsKnown ==
  \A e \in Events : Active(e) =>
    /\ e <= seq
    /\ loop[e].at \in loop[e].visited
    /\ \A c \in loop[e].visited : c[2] <= conn[c[1]].number

\* The clients are the connections that are on, each once.
ClientsOn ==
  /\ IsInjective(clients)
  /\ Range(clients) = {Latest(r) : r \in {s \in Readers : On(s)}}

\* The clients a loop has visited come before the others, and the one it
\* writes to is the last of them.
Prefix ==
  \A e \in Events : Active(e) =>
    \A i, j \in DOMAIN clients :
      /\ i < j /\ clients[j] \in loop[e].visited => clients[i] \in loop[e].visited
      /\ i < j /\ clients[i] = loop[e].at => clients[j] \notin loop[e].visited

\* Of two loops the later one does not pass the earlier one.
Ordered ==
  \A d, e \in Events : d < e /\ Active(d) /\ e <= seq =>
    /\ Active(e)
    /\ loop[e].visited \subseteq loop[d].visited
    /\ loop[d].at \in loop[e].visited => loop[e].at = loop[d].at

\* While loops write to a client that has left, only those go on, and it is one
\* client.
GoneFirst ==
  /\ \A d, e \in Events :
       Active(d) /\ Gone(loop[d].at) /\ Active(e) /\ Gone(loop[e].at)
         => loop[d].at = loop[e].at
  /\ \A d, e \in Events : Active(d) /\ Gone(loop[d].at) /\ Ready(e) => Gone(loop[e].at)

AcceptedSent == \A r \in Readers : conn[r].accepted <= Len(conn[r].out)

LiveAt(k) == {i \in DOMAIN k.out : k.out[i].live /\ k.out[i].id > k.watermark}

Ids(frames, S) == {frames[i].id : i \in S}

Sent(r, e) ==
  e <= seq /\ (Active(e) => Latest(r) \in loop[e].visited)

SentByLoops ==
  \A r \in Readers : On(r) =>
    /\ conn[r].watermark <= seq
    /\ Ids(conn[r].out, LiveAt(conn[r]))
         = {e \in Events : e > conn[r].watermark /\ Sent(r, e)}

LiveInv ==
  /\ TypeOK
  /\ LoopsKnown
  /\ ClientsOn
  /\ Prefix
  /\ Ordered
  /\ GoneFirst
  /\ AcceptedSent
  /\ SentByLoops
  /\ LiveInOrder

\* The ring holds the last events.
RingIsTail == Len(ring) <= seq /\ \A i \in DOMAIN ring : ring[i] = seq - Len(ring) + i

Named ==
  \A r \in Readers : IF On(r) THEN conn[r].after = LastReceived(r) ELSE conn[r].out = <<>>

\* What comes before the first event of a connection.
Base(k) == IF k.after = None THEN k.watermark ELSE k.after

\* The frames of a connection go on after the last event it has named: those it
\* missed, as far as the replay has come, and the live ones.
Resumes(k) ==
  /\ k.watermark <= seq /\ Base(k) <= k.watermark
  /\ InOrderFrom(Base(k) + 1, k.out, EventsIn(k.out))
  /\ \A e \in Events : Active(e) => e > k.watermark
  /\ k.pc = "live" =>
       Ids(k.out, EventsIn(k.out)) = ((Base(k) + 1)..k.watermark) \cup Ids(k.out, LiveAt(k))
  /\ k.pc = "replay" =>
       /\ k.after # None /\ k.watermark = seq /\ k.index - 1 \in DOMAIN ring
       /\ k.after < ring[k.index - 1]
       /\ LiveAt(k) = {} /\ \A e \in Events : ~Active(e)
       /\ Ids(k.out, EventsIn(k.out)) = (k.after + 1)..ring[k.index - 1]

\* The last event of a sequence of frames.
LastOf(frames) ==
  IF EventsIn(frames) = {} THEN None ELSE frames[Max(EventsIn(frames))].id

\* The events of a sequence of frames are a part of those that were emitted.
Continuous(frames) ==
  LET S == EventsIn(frames)
  IN S # {} => \E first \in Events :
                 /\ InOrderFrom(first, frames, S)
                 /\ Ids(frames, S) = first..LastOf(frames)
                 /\ LastOf(frames) <= seq

ResumeInv ==
  /\ RingIsTail
  /\ Named
  /\ ~raced => /\ \A r \in Readers : Continuous(got[r])
               /\ \A r \in Readers : On(r) => Resumes(conn[r])

-----------------------------------------------------------------------------
(***************************************************************************)
(* Numbers and sequences.                                                  *)
(***************************************************************************)

LEMMA LeastNumber ==
  ASSUME NEW T \in SUBSET Nat, T # {}
  PROVE  \E x \in T : \A y \in T : x <= y
  <1>1. PICK x \in T : \A y \in T : ~(<<y, x>> \in OpToRel(<, Nat))
    BY NatLessThanWellFounded, WFMin, Zenon
  <1>2. \A y \in T : ~(y < x) BY <1>1, Zenon DEF OpToRel
  <1> QED BY <1>2

LEMMA MinIs ==
  ASSUME NEW T \in SUBSET Nat, T # {}
  PROVE  Min(T) \in T /\ \A y \in T : Min(T) <= y
  <1>1. \E x \in T : \A y \in T : x <= y BY LeastNumber
  <1> QED BY <1>1 DEF Min

LEMMA MaxIs ==
  ASSUME NEW n \in Nat, NEW T \in SUBSET (1..n), T # {}
  PROVE  Max(T) \in T /\ \A y \in T : Max(T) >= y
  <1> DEFINE U == {n - x : x \in T}
  <1>1. U \in SUBSET Nat /\ U # {}
    <2>1. \A x \in T : n - x \in Nat OBVIOUS
    <2>2. PICK x \in T : TRUE OBVIOUS
    <2>3. n - x \in U OBVIOUS
    <2> QED BY <2>1, <2>3
  <1>2. PICK u \in U : \A v \in U : u <= v BY <1>1, LeastNumber
  <1>3. PICK x \in T : u = n - x BY <1>2
  <1>4. \A y \in T : x >= y
    <2> SUFFICES ASSUME NEW y \in T PROVE x >= y OBVIOUS
    <2>1. n - y \in U OBVIOUS
    <2>2. n - x <= n - y BY <1>2, <1>3, <2>1
    <2> QED BY <2>2
  <1> QED BY <1>4 DEF Max

\* What an appended frame f at the place next adds to those at the places S.
Appended(frames, f, longer, next, S, first) ==
  /\ longer \in Seq(Frames) /\ Len(longer) = next /\ next \in Nat
  /\ DOMAIN longer = DOMAIN frames \cup {next} /\ next \notin DOMAIN frames
  /\ longer[next] = f /\ \A i \in DOMAIN frames : longer[i] = frames[i]
  /\ Ids(longer, S) = Ids(frames, S)
  /\ Ids(longer, S \cup {next}) = Ids(frames, S) \cup {f.id}
  /\ InOrderFrom(first, frames, S) =>
       /\ InOrderFrom(first, longer, S)
       /\ Ids(frames, S) = first..(f.id - 1) => InOrderFrom(first, longer, S \cup {next})

LEMMA AppendFrame ==
  ASSUME NEW frames \in Seq(Frames), NEW f \in Frames, NEW longer, longer = Append(frames, f),
         NEW next, next = Len(frames) + 1, NEW S \in SUBSET DOMAIN frames, NEW first \in Int
  PROVE  Appended(frames, f, longer, next, S, first)
  <1>1. /\ longer \in Seq(Frames) /\ Len(longer) = next /\ next \in Nat
        /\ DOMAIN longer = 1..next /\ DOMAIN frames = 1..Len(frames) /\ Len(frames) \in Nat
        /\ longer[next] = f /\ \A i \in DOMAIN frames : longer[i] = frames[i]
    OBVIOUS
  <1>2. DOMAIN longer = DOMAIN frames \cup {next} /\ next \notin DOMAIN frames BY <1>1
  <1>3. /\ Ids(longer, S) = Ids(frames, S)
        /\ Ids(longer, S \cup {next}) = Ids(frames, S) \cup {f.id}
    BY <1>1 DEF Ids
  <1>4. ASSUME InOrderFrom(first, frames, S) PROVE InOrderFrom(first, longer, S)
    <2> SUFFICES ASSUME NEW i \in S
                 PROVE  {longer[j].id : j \in {k \in S : k < i}} = first..(longer[i].id - 1)
      BY DEF InOrderFrom
    <2>1. {longer[j].id : j \in {k \in S : k < i}} = {frames[j].id : j \in {k \in S : k < i}}
      BY <1>1
    <2> QED BY <1>1, <1>4, <2>1 DEF InOrderFrom
  <1>5. ASSUME InOrderFrom(first, frames, S), Ids(frames, S) = first..(f.id - 1)
        PROVE  InOrderFrom(first, longer, S \cup {next})
    <2> SUFFICES ASSUME NEW i \in S \cup {next}
                 PROVE  {longer[j].id : j \in {k \in S \cup {next} : k < i}}
                          = first..(longer[i].id - 1)
      BY DEF InOrderFrom
    <2>1. CASE i \in S
      <3>1. {k \in S \cup {next} : k < i} = {k \in S : k < i} BY <1>1, <2>1
      <3> QED BY <1>4, <1>5, <2>1, <3>1 DEF InOrderFrom
    <2>2. CASE i = next
      <3>1. {k \in S \cup {next} : k < i} = S BY <1>1, <2>2
      <3>2. {longer[j].id : j \in S} = Ids(frames, S) BY <1>1 DEF Ids
      <3> QED BY <1>1, <1>5, <2>2, <3>1, <3>2
    <2> QED BY <2>1, <2>2
  <1> QED BY <1>1, <1>2, <1>3, <1>4, <1>5 DEF Appended

LEMMA JoinSeq ==
  ASSUME NEW S, NEW a \in Seq(S), NEW b \in Seq(S)
  PROVE  /\ a \o b \in Seq(S) /\ Len(a \o b) = Len(a) + Len(b)
         /\ Len(a) \in Nat /\ Len(b) \in Nat
         /\ DOMAIN a = 1..Len(a) /\ DOMAIN b = 1..Len(b)
         /\ DOMAIN (a \o b) = 1..Len(a) + Len(b)
         /\ \A i \in 1..Len(a) : (a \o b)[i] = a[i]
         /\ \A i \in 1..Len(b) : (a \o b)[Len(a) + i] = b[i]
  OBVIOUS

\* Removing a client keeps the order of the others.
LEMMA RemoveOne ==
  ASSUME NEW S, NEW s \in Seq(S), IsInjective(s), NEW n \in DOMAIN s,
         NEW t, t = RemoveAt(s, n)
  PROVE  /\ t \in Seq(S) /\ IsInjective(t) /\ Range(t) = Range(s) \ {s[n]}
         /\ \A i, j \in DOMAIN t : i < j =>
              \E k, l \in DOMAIN s : k < l /\ s[k] = t[i] /\ s[l] = t[j]
  <1> DEFINE place(i) == IF i < n THEN i ELSE i + 1
  <1>1. /\ n \in 1..Len(s) /\ Len(s) \in Nat /\ DOMAIN s = 1..Len(s) OBVIOUS
  <1>2. /\ t \in Seq(S) /\ Len(t) = Len(s) - 1 /\ DOMAIN t = 1..Len(s) - 1
        /\ \A i \in DOMAIN t : t[i] = s[place(i)]
    <2> DEFINE a == SubSeq(s, 1, n - 1)
               b == SubSeq(s, n + 1, Len(s))
    <2>1. a \in Seq(S) /\ Len(a) = n - 1 /\ \A i \in 1..n - 1 : a[i] = s[i] BY <1>1
    <2>2. /\ b \in Seq(S) /\ Len(b) = Len(s) - n
          /\ \A i \in 1..Len(s) - n : b[i] = s[n + i]
      BY <1>1
    <2>3. t = a \o b BY DEF RemoveAt
    <2> HIDE DEF a, b
    <2>4. /\ t \in Seq(S) /\ Len(t) = Len(s) - 1 /\ DOMAIN t = 1..Len(s) - 1
          /\ \A i \in 1..n - 1 : t[i] = a[i]
          /\ \A i \in 1..Len(s) - n : t[(n - 1) + i] = b[i]
      <3>1. /\ a \o b \in Seq(S) /\ Len(a \o b) = Len(a) + Len(b)
            /\ DOMAIN (a \o b) = 1..Len(a) + Len(b)
            /\ \A i \in 1..Len(a) : (a \o b)[i] = a[i]
            /\ \A i \in 1..Len(b) : (a \o b)[Len(a) + i] = b[i]
        <4>1. a \in Seq(S) /\ b \in Seq(S) BY <2>1, <2>2
        <4> QED BY <4>1, JoinSeq
      <3>2. (n - 1) + (Len(s) - n) = Len(s) - 1 BY <1>1
      <3> QED BY <2>1, <2>2, <2>3, <3>1, <3>2
    <2>5. ASSUME NEW i \in 1..Len(s) - 1 PROVE t[i] = s[place(i)]
      <3>1. CASE i < n BY <1>1, <2>1, <2>4, <3>1
      <3>2. CASE i >= n
        <4>1. PICK m \in 1..Len(s) - n : i = (n - 1) + m /\ n + m = i + 1
          <5>1. i - (n - 1) \in 1..Len(s) - n BY <1>1, <3>2
          <5>2. i = (n - 1) + (i - (n - 1)) /\ n + (i - (n - 1)) = i + 1 BY <1>1
          <5> QED BY <5>1, <5>2
        <4>2. t[i] = b[m] /\ b[m] = s[n + m] BY <2>2, <2>4, <4>1
        <4> QED BY <1>1, <3>2, <4>1, <4>2
      <3> QED BY <1>1, <3>1, <3>2
    <2> QED BY <2>4, <2>5
  <1>3. \A i \in DOMAIN t : place(i) \in DOMAIN s /\ place(i) # n BY <1>1, <1>2
  <1>4. \A i, j \in DOMAIN t : i < j => place(i) < place(j) BY <1>1, <1>2
  <1>5. ASSUME NEW k \in DOMAIN s, k # n PROVE \E i \in DOMAIN t : place(i) = k
    <2>1. CASE k < n
      <3>1. k \in DOMAIN t /\ place(k) = k BY <1>1, <1>2, <2>1
      <3> QED BY <3>1
    <2>2. CASE k > n
      <3>1. k - 1 \in DOMAIN t /\ place(k - 1) = k BY <1>1, <1>2, <2>2
      <3> QED BY <3>1
    <2> QED BY <1>1, <1>5, <2>1, <2>2
  <1> HIDE DEF place
  <1>6. IsInjective(t)
    <2> SUFFICES ASSUME NEW i \in DOMAIN t, NEW j \in DOMAIN t, t[i] = t[j] PROVE i = j
      BY DEF IsInjective
    <2>1. place(i) = place(j) BY <1>2, <1>3 DEF IsInjective
    <2>2. ~(i < j) /\ ~(j < i) /\ i \in Int /\ j \in Int
      <3>1. place(i) \in Int /\ i \in Int /\ j \in Int BY <1>1, <1>2, <1>3
      <3> QED BY <1>4, <2>1, <3>1
    <2> QED BY <2>2
  <1>7. Range(t) = Range(s) \ {s[n]}
    <2>1. \A i \in DOMAIN t : t[i] \in Range(s) /\ t[i] # s[n]
      BY <1>2, <1>3 DEF IsInjective, Range
    <2>2. \A k \in DOMAIN s : s[k] # s[n] => s[k] \in Range(t)
      <3> TAKE k \in DOMAIN s
      <3> HAVE s[k] # s[n]
      <3>1. PICK i \in DOMAIN t : place(i) = k BY <1>5
      <3> QED BY <1>2, <3>1 DEF Range
    <2> QED BY <2>1, <2>2 DEF Range
  <1>8. ASSUME NEW i \in DOMAIN t, NEW j \in DOMAIN t, i < j
        PROVE  \E k, l \in DOMAIN s : k < l /\ s[k] = t[i] /\ s[l] = t[j]
    BY <1>2, <1>3, <1>4, <1>8
  <1> QED BY <1>2, <1>6, <1>7, <1>8

-----------------------------------------------------------------------------
(***************************************************************************)
(* What the steps do.                                                      *)
(***************************************************************************)

LEMMA FrameType ==
  /\ LastEvent \in Nat /\ 0 \in 0..LastEvent /\ Events \subseteq 0..LastEvent
  /\ \A id \in 0..LastEvent, b \in BOOLEAN : [id |-> id, live |-> b] \in Frames
  BY ConstantsAssumption DEF Events, Frames

\* A connection with another frame, at other awaits.
SameBut(n, k, out) ==
  /\ n \in ConnRecords /\ n.out = out /\ n.number = k.number /\ n.after = k.after
  /\ n.watermark = k.watermark /\ n.accepted = k.accepted

LEMMA SendUpdate ==
  ASSUME NEW k \in ConnRecords, NEW out \in Seq(Frames), NEW n, n = [k EXCEPT !.out = out]
  PROVE  SameBut(n, k, out) /\ n.pc = k.pc /\ n.index = k.index
  BY DEF ConnRecords, SameBut

LEMMA HelloUpdate ==
  ASSUME NEW k \in ConnRecords, NEW out \in Seq(Frames),
         NEW n, n = [k EXCEPT !.pc = "live", !.out = out]
  PROVE  SameBut(n, k, out) /\ n.pc = "live"
  BY DEF ConnRecords, SameBut

LEMMA ReplayUpdate ==
  ASSUME NEW k \in ConnRecords, NEW out \in Seq(Frames), NEW index \in Nat \ {0},
         NEW awaits \in Nat,
         NEW n, n = [k EXCEPT !.pc = "replay", !.index = index, !.awaits = awaits,
                              !.out = out]
  PROVE  SameBut(n, k, out) /\ n.pc = "replay" /\ n.index = index
  BY DEF ConnRecords, SameBut

LEMMA AppendType ==
  ASSUME NEW frames \in Seq(Frames), NEW f \in Frames
  PROVE  Append(frames, f) \in Seq(Frames) /\ Len(frames) \in Nat /\ Len(frames) + 1 \in Nat
  OBVIOUS

\* The loop of e, which has visited `visited`, ends or goes on to the client c.
VisitsNext(e, visited, i) ==
  LET c == clients[i]
  IN /\ c \notin visited /\ \A j \in DOMAIN clients : j < i => clients[j] \in visited
     /\ loop'[e] = [at |-> c, awaits |-> Len(conn[c[1]].out) + 1,
                    visited |-> visited \cup {c}]
     /\ \E k \in ConnRecords :
          /\ conn' = [conn EXCEPT ![c[1]] = k]
          /\ k.out = Append(conn[c[1]].out, [id |-> e, live |-> TRUE])
          /\ k.pc = conn[c[1]].pc /\ k.number = conn[c[1]].number
          /\ k.after = conn[c[1]].after /\ k.watermark = conn[c[1]].watermark
          /\ k.index = conn[c[1]].index /\ k.accepted = conn[c[1]].accepted

LEMMA ClientType ==
  ASSUME TypeOK, NEW i \in DOMAIN clients
  PROVE  /\ clients[i] \in Connections /\ clients[i][1] \in Readers /\ clients[i] # None
         /\ clients[i] = <<clients[i][1], clients[i][2]>> /\ clients[i][2] \in Nat
  <1>1. clients[i] \in Connections BY DEF TypeOK
  <1> QED BY <1>1, ConstantsAssumption DEF Connections

LEMMA VisitShape ==
  ASSUME TypeOK, NEW e \in Events, NEW visited \in SUBSET Connections, Visit(e, visited)
  PROVE  /\ loop'[e] \in LoopRecords /\ loop' = [loop EXCEPT ![e] = loop'[e]]
         /\ \/ /\ \A i \in DOMAIN clients : clients[i] \in visited
               /\ loop'[e].at = None /\ conn' = conn
            \/ \E i \in DOMAIN clients : VisitsNext(e, visited, i)
  <1> DEFINE rest == {i \in DOMAIN clients : clients[i] \notin visited}
  <1>1. rest \in SUBSET Nat /\ loop \in [Events -> LoopRecords] /\ conn \in [Readers -> ConnRecords]
    BY DEF TypeOK
  <1>2. CASE rest = {}
    <2>1. NextClient(visited) = None BY <1>2 DEF NextClient
    <2>2. loop' = [loop EXCEPT ![e] = NoLoop] /\ conn' = conn BY <2>1 DEF Visit
    <2>3. NoLoop \in LoopRecords /\ NoLoop.at = None BY DEF NoLoop, LoopRecords
    <2> QED BY <1>1, <1>2, <2>2, <2>3
  <1>3. CASE rest # {}
    <2>1. PICK i : i = Min(rest) OBVIOUS
    <2>2. i \in rest /\ \A j \in rest : i <= j BY <1>1, <1>3, <2>1, MinIs
    <2>3. \A j \in DOMAIN clients : j < i => clients[j] \in visited
      <3>1. \A j \in DOMAIN clients : j \in Int BY DEF TypeOK
      <3> QED BY <2>2, <3>1
    <2>4. PICK c, r : c = clients[i] /\ r = c[1] OBVIOUS
    <2>5. c \in Connections /\ r \in Readers /\ c # None BY <2>2, <2>4, ClientType
    <2>6. NextClient(visited) = c BY <1>3, <2>1, <2>4 DEF NextClient
    <2>7. PICK f \in Frames : f = [id |-> e, live |-> TRUE] BY FrameType
    <2>8. conn[r] \in ConnRecords /\ conn[r].out \in Seq(Frames)
      BY <1>1, <2>5 DEF ConnRecords
    <2>9. PICK out \in Seq(Frames) : out = Append(conn[r].out, f) BY <2>8, AppendType
    <2>10. PICK k : k = [conn[r] EXCEPT !.out = out] OBVIOUS
    <2>11. SameBut(k, conn[r], out) /\ k.pc = conn[r].pc /\ k.index = conn[r].index
      BY <2>8, <2>10, SendUpdate
    <2>12. PICK l : l = [at |-> c, awaits |-> Len(conn[r].out) + 1, visited |-> visited \cup {c}]
      OBVIOUS
    <2>13. l \in LoopRecords
      <3>1. Len(conn[r].out) + 1 \in Nat BY <2>7, <2>8, AppendType
      <3>2. visited \cup {c} \in SUBSET Connections BY <2>5
      <3> QED BY <2>5, <2>12, <3>1, <3>2 DEF LoopRecords
    <2>14. loop' = [loop EXCEPT ![e] = l] BY <2>4, <2>5, <2>6, <2>12 DEF Visit
    <2>15. conn' = [conn EXCEPT ![r] = k]
      BY <2>4, <2>5, <2>6, <2>7, <2>9, <2>10 DEF Visit
    <2>16. loop'[e] = l BY <1>1, <2>14
    <2>17. VisitsNext(e, visited, i)
      BY <2>2, <2>3, <2>4, <2>7, <2>9, <2>11, <2>12, <2>15, <2>16 DEF VisitsNext, SameBut
    <2> QED BY <2>2, <2>13, <2>14, <2>16, <2>17
  <1> QED BY <1>2, <1>3

\* The connection of r, which was k, writes the event at a place of the ring, or
\* hello.
Writes(r, k, n) ==
  /\ conn' = [conn EXCEPT ![r] = n]
  /\ n.number = k.number /\ n.after = k.after /\ n.watermark = k.watermark
  /\ n.accepted = k.accepted
  /\ \/ /\ \A i \in k.index..Len(ring) : k.after = None \/ ~Replayed(k, ring[i])
        /\ n.pc = "live" /\ n.out = Append(k.out, [id |-> 0, live |-> FALSE])
     \/ \E i \in k.index..Len(ring) :
          /\ k.after # None /\ Replayed(k, ring[i])
          /\ \A j \in k.index..(i - 1) : ~Replayed(k, ring[j])
          /\ n.pc = "replay" /\ n.out = Append(k.out, [id |-> ring[i], live |-> FALSE])
          /\ n.index = i + 1

LEMMA WriteNextShape ==
  ASSUME TypeOK, NEW r \in Readers, NEW k \in ConnRecords, WriteNext(r, k)
  PROVE  \E n \in ConnRecords : Writes(r, k, n)
  <1> DEFINE found == {i \in k.index..Len(ring) : k.after # None /\ Replayed(k, ring[i])}
  <1>1. /\ k.index \in Nat \ {0} /\ k.out \in Seq(Frames) /\ found \in SUBSET Nat
        /\ Len(ring) \in Nat /\ DOMAIN ring = 1..Len(ring)
    <2>1. k.index \in Nat \ {0} /\ k.out \in Seq(Frames) BY DEF ConnRecords
    <2>2. ring \in Seq(Events) BY DEF TypeOK
    <2>3. Len(ring) \in Nat /\ DOMAIN ring = 1..Len(ring) BY <2>2
    <2>4. found \in SUBSET Nat BY <2>1, <2>3
    <2> QED BY <2>1, <2>3, <2>4
  <1>2. CASE found = {}
    <2>1. PICK f \in Frames : f = [id |-> 0, live |-> FALSE] BY FrameType
    <2>2. PICK out \in Seq(Frames) : out = Append(k.out, f) BY <1>1, AppendType
    <2>3. PICK n : n = [k EXCEPT !.pc = "live", !.out = out] OBVIOUS
    <2>4. SameBut(n, k, out) /\ n.pc = "live" BY <2>3, HelloUpdate
    <2>5. conn' = [conn EXCEPT ![r] = n] BY <1>2, <2>1, <2>2, <2>3 DEF WriteNext
    <2> QED BY <1>2, <2>1, <2>2, <2>4, <2>5 DEF Writes, SameBut
  <1>3. CASE found # {}
    <2>1. PICK i : i = Min(found) OBVIOUS
    <2>2. i \in found /\ \A j \in found : i <= j BY <1>1, <1>3, <2>1, MinIs
    <2>3. i \in Nat \ {0} /\ i \in DOMAIN ring BY <1>1, <2>2
    <2>4. PICK f \in Frames : f = [id |-> ring[i], live |-> FALSE]
      <3>1. ring[i] \in Events BY <2>3 DEF TypeOK
      <3> QED BY <3>1, FrameType
    <2>5. PICK out \in Seq(Frames) : out = Append(k.out, f) BY <1>1, AppendType
    <2>6. PICK index \in Nat \ {0}, awaits \in Nat : index = i + 1 /\ awaits = Len(k.out) + 1
      <3>1. i + 1 \in Nat \ {0} BY <2>3
      <3>2. Len(k.out) + 1 \in Nat BY <1>1
      <3> QED BY <3>1, <3>2
    <2>7. PICK n : n = [k EXCEPT !.pc = "replay", !.index = index, !.awaits = awaits,
                                 !.out = out]
      OBVIOUS
    <2>10. SameBut(n, k, out) /\ n.pc = "replay" /\ n.index = index
      <3>1. index \in Nat \ {0} /\ awaits \in Nat /\ out \in Seq(Frames) OBVIOUS
      <3> QED BY <2>7, <3>1 DEF ConnRecords, SameBut
    <2>8. conn' = [conn EXCEPT ![r] = n]
      BY <1>3, <2>1, <2>4, <2>5, <2>6, <2>7 DEF WriteNext
    <2>9. \A j \in k.index..(i - 1) : ~Replayed(k, ring[j])
      <3> SUFFICES ASSUME NEW j \in k.index..(i - 1), Replayed(k, ring[j]) PROVE FALSE
        OBVIOUS
      <3>1. j \in k.index..Len(ring) /\ j < i BY <1>1, <2>3
      <3>2. j \in found BY <2>2, <3>1
      <3> QED BY <1>1, <2>2, <2>3, <3>1, <3>2
    <2> QED BY <2>2, <2>4, <2>5, <2>6, <2>8, <2>9, <2>10 DEF Writes, SameBut
  <1> QED BY <1>2, <1>3


-----------------------------------------------------------------------------
(***************************************************************************)
(* The live events.                                                        *)
(***************************************************************************)

LEMMA ClientsAreOn ==
  ASSUME TypeOK, ClientsOn
  PROVE  /\ \A i \in DOMAIN clients :
              /\ clients[i] \in Connections /\ clients[i] # None
              /\ clients[i][1] \in Readers /\ On(clients[i][1])
              /\ clients[i] = Latest(clients[i][1]) /\ ~Gone(clients[i])
         /\ \A c \in Connections : ~Gone(c) =>
              /\ c[1] \in Readers /\ On(c[1]) /\ c = Latest(c[1])
              /\ \E i \in DOMAIN clients : clients[i] = c
         /\ \A r \in Readers : On(r) => \E i \in DOMAIN clients : clients[i] = Latest(r)
         /\ \A r \in Readers : Latest(r)[1] = r /\ Latest(r)[2] = conn[r].number
  <1>1. \A r \in Readers : Latest(r)[1] = r /\ Latest(r)[2] = conn[r].number BY DEF Latest
  <1>2. ASSUME NEW i \in DOMAIN clients
        PROVE  /\ clients[i] \in Connections /\ clients[i] # None
               /\ clients[i][1] \in Readers /\ On(clients[i][1])
               /\ clients[i] = Latest(clients[i][1]) /\ ~Gone(clients[i])
    <2>1. clients[i] \in Range(clients) BY DEF Range
    <2>2. PICK r \in Readers : On(r) /\ clients[i] = Latest(r) BY <2>1 DEF ClientsOn
    <2>3. clients[i] \in Connections /\ clients[i] # None BY ClientType
    <2> QED BY <1>1, <2>2, <2>3 DEF Gone, On
  <1>3. ASSUME NEW r \in Readers, On(r) PROVE \E i \in DOMAIN clients : clients[i] = Latest(r)
    <2>1. Latest(r) \in Range(clients) BY <1>3 DEF ClientsOn
    <2> QED BY <2>1 DEF Range
  <1>4. ASSUME NEW c \in Connections, ~Gone(c)
        PROVE  /\ c[1] \in Readers /\ On(c[1]) /\ c = Latest(c[1])
               /\ \E i \in DOMAIN clients : clients[i] = c
    <2>1. c[1] \in Readers /\ On(c[1]) /\ c = Latest(c[1])
      BY <1>4 DEF Connections, Gone, On
    <2> QED BY <1>3, <2>1
  <1> QED BY <1>1, <1>2, <1>3, <1>4

\* A step that neither attaches nor detaches.
SameClients ==
  /\ clients' = clients
  /\ \A r \in Readers :
       /\ conn'[r].number = conn[r].number /\ conn'[r].watermark = conn[r].watermark
       /\ (conn'[r].pc = "off" <=> conn[r].pc = "off")

LEMMA SameClientsKeep ==
  ASSUME SameClients
  PROVE  /\ \A r \in Readers : (Latest(r)' = Latest(r)) /\ (On(r)' <=> On(r))
         /\ \A c \in Connections : Gone(c)' <=> Gone(c)
         /\ ClientsOn => ClientsOn'
  <1>1. \A r \in Readers : (Latest(r)' = Latest(r)) /\ (On(r)' <=> On(r))
    BY DEF SameClients, Latest, On
  <1>2. ASSUME NEW c \in Connections PROVE Gone(c)' <=> Gone(c)
    <2>1. c[1] \in Readers BY DEF Connections
    <2> QED BY <1>1, <2>1 DEF Gone, On
  <1>3. ASSUME ClientsOn PROVE ClientsOn'
    <2>1. {Latest(r)' : r \in {s \in Readers : On(s)'}}
            = {Latest(r) : r \in {s \in Readers : On(s)}}
      BY <1>1
    <2> QED BY <1>3, <2>1 DEF ClientsOn, SameClients
  <1> QED BY <1>1, <1>2, <1>3

\* What holds when the loop of e, which has visited `visited`, goes on.
VisitFrom(e, visited) ==
  /\ clients' = clients /\ seq <= seq' /\ seq' \in 0..LastEvent
  /\ \A x \in Events : x <= seq' <=> x <= seq \/ x = e
  /\ \A c \in visited : c[2] <= conn[c[1]].number
  /\ \A i, j \in DOMAIN clients :
       i < j /\ clients[j] \in visited => clients[i] \in visited
  /\ \A r \in Readers : Sent(r, e) <=> Latest(r) \in visited
  /\ \A d \in Events : d < e /\ Active(d) =>
       visited \subseteq loop[d].visited /\ loop[d].at \notin visited /\ ~Gone(loop[d].at)
  /\ \A d \in Events : e < d /\ d <= seq => Active(d) /\ loop[d].visited \subseteq visited

\* The loop of an earlier event writes to a client that this one has not
\* visited, and has visited the client this one goes on to.
LEMMA EarlierAhead ==
  ASSUME LiveInv, NEW e \in Events, NEW visited \in SUBSET Connections, VisitFrom(e, visited),
         NEW d \in Events, d < e, Active(d)
  PROVE  /\ \E k \in DOMAIN clients : clients[k] = loop[d].at /\ clients[k] \notin visited
         /\ \A i \in DOMAIN clients : VisitsNext(e, visited, i) => clients[i] \in loop[d].visited
  <1>1. loop[d].at \in Connections BY DEF LiveInv, TypeOK, LoopRecords, Active
  <1>2. PICK k \in DOMAIN clients : clients[k] = loop[d].at
    BY <1>1, ClientsAreOn DEF LiveInv, VisitFrom
  <1>3. clients[k] \notin visited /\ clients[k] \in loop[d].visited
    BY <1>2 DEF VisitFrom, LiveInv, LoopsKnown
  <1>4. ASSUME NEW i \in DOMAIN clients, VisitsNext(e, visited, i)
        PROVE  clients[i] \in loop[d].visited
    <2>1. ~(k < i) BY <1>3, <1>4 DEF VisitsNext
    <2>2. i = k \/ i < k
      <3>1. DOMAIN clients = 1..Len(clients) /\ Len(clients) \in Nat BY DEF LiveInv, TypeOK
      <3> QED BY <2>1, <3>1
    <2> QED BY <1>3, <2>2 DEF LiveInv, Prefix
  <1> QED BY <1>2, <1>3, <1>4


LEMMA LoopUpdate ==
  ASSUME TypeOK, NEW e \in Events, loop' = [loop EXCEPT ![e] = loop'[e]], loop'[e] \in LoopRecords
  PROVE  /\ loop' \in [Events -> LoopRecords] /\ \A d \in Events : d # e => loop'[d] = loop[d]
         /\ \A d \in Events : d # e => (Active(d)' <=> Active(d))
  BY DEF TypeOK, Active

LEMMA GoneFirstKept ==
  ASSUME GoneFirst,
         \A d \in Events : (Active(d) /\ Gone(loop[d].at))' =>
           Active(d) /\ Gone(loop[d].at) /\ loop'[d].at = loop[d].at,
         \A d \in Events : Ready(d)' => Gone(loop[d].at)' \/
           (Ready(d) /\ (Gone(loop[d].at) => Gone(loop[d].at)'))
  PROVE  GoneFirst'
  <1> DEFINE Left(d) == Active(d) /\ Gone(loop[d].at)
  <1>1. \A d, e \in Events : Left(d)' /\ Left(e)' => loop'[d].at = loop'[e].at
    BY DEF GoneFirst
  <1>2. \A d, e \in Events : Left(d)' /\ Ready(e)' => Gone(loop[e].at)'
    BY DEF GoneFirst
  <1> QED BY <1>1, <1>2, Zenon DEF GoneFirst

LEMMA VisitEnds ==
  ASSUME LiveInv, NEW e \in Events, NEW visited \in SUBSET Connections, VisitFrom(e, visited),
         loop' = [loop EXCEPT ![e] = loop'[e]], loop'[e] \in LoopRecords, loop'[e].at = None,
         conn' = conn, \A i \in DOMAIN clients : clients[i] \in visited
  PROVE  /\ LoopsKnown' /\ ClientsOn' /\ Prefix' /\ Ordered' /\ GoneFirst'
         /\ AcceptedSent' /\ SentByLoops' /\ LiveInOrder'
  <1>1. /\ \A d \in Events : d # e => loop'[d] = loop[d] /\ (Active(d)' <=> Active(d))
        /\ ~Active(e)'
    BY LoopUpdate DEF LiveInv, Active
  <1>2. SameClients BY DEF SameClients, VisitFrom
  <1>3. /\ \A r \in Readers : (Latest(r)' = Latest(r)) /\ (On(r)' <=> On(r))
        /\ \A c \in Connections : Gone(c)' <=> Gone(c)
        /\ ClientsOn'
    BY <1>2, SameClientsKeep DEF LiveInv
  <1>4. \A d \in Events : d < e => ~Active(d) BY EarlierAhead
  <1>5. \A d \in Events : Active(d) =>
          loop[d].at \in Connections /\ loop[d].visited \in SUBSET Connections
    BY DEF LiveInv, TypeOK, LoopRecords, Active
  <1>6. \A d \in Events : d <= seq => d <= seq' BY DEF VisitFrom
  <1>7. LoopsKnown'
    BY <1>1, <1>6 DEF LiveInv, LoopsKnown
  <1>8. Prefix'
    BY <1>1 DEF LiveInv, Prefix, VisitFrom
  <1>9. Ordered'
    <2> SUFFICES ASSUME NEW d \in Events, NEW f \in Events, d < f, Active(d)', f <= seq'
                 PROVE  /\ Active(f)' /\ loop'[f].visited \subseteq loop'[d].visited
                        /\ loop'[d].at \in loop'[f].visited => loop'[f].at = loop'[d].at
      BY DEF Ordered
    <2>1. d # e /\ Active(d) /\ loop'[d] = loop[d] BY <1>1
    <2>2. f # e BY <1>4, <2>1
    <2>3. f <= seq BY <2>2 DEF VisitFrom
    <2> QED BY <1>1, <2>1, <2>2, <2>3 DEF LiveInv, Ordered
  <1>10. GoneFirst'
    <2>1. \A d \in Events : Active(d)' => d # e /\ Active(d) /\ loop'[d] = loop[d] BY <1>1
    <2>2. \A d \in Events : Ready(d)' => d # e /\ Active(d) /\ Ready(d)
      <3> SUFFICES ASSUME NEW d \in Events, Ready(d)' PROVE d # e /\ Active(d) /\ Ready(d)
        OBVIOUS
      <3>1. d # e /\ Active(d) /\ loop'[d] = loop[d] BY <1>1 DEF Ready, Active
      <3> QED BY <1>3, <1>5, <3>1 DEF Ready, Active
    <2>3. \A d \in Events : (Active(d) /\ Gone(loop[d].at))' =>
            Active(d) /\ Gone(loop[d].at) /\ loop'[d].at = loop[d].at
      BY <1>3, <1>5, <2>1
    <2>4. \A d \in Events : Ready(d)' => Ready(d) /\ (Gone(loop[d].at) => Gone(loop[d].at)')
      BY <1>1, <1>3, <1>5, <2>2
    <2> QED BY <2>3, <2>4, GoneFirstKept DEF LiveInv
  <1>11. AcceptedSent' BY DEF LiveInv, AcceptedSent
  <1>12. SentByLoops'
    <2> SUFFICES ASSUME NEW r \in Readers, On(r)
                 PROVE  /\ conn[r].watermark <= seq'
                        /\ Ids(conn[r].out, LiveAt(conn[r]))
                             = {x \in Events : x > conn[r].watermark /\ Sent(r, x)'}
      BY <1>3 DEF SentByLoops, Ids, LiveAt
    <2>1. conn[r].watermark <= seq'
      <3>1. conn[r].watermark <= seq /\ seq <= seq' BY DEF LiveInv, SentByLoops, VisitFrom
      <3>2. conn[r].watermark \in Int /\ seq \in Int /\ seq' \in Int
        BY DEF LiveInv, TypeOK, ConnRecords, VisitFrom
      <3> QED BY <3>1, <3>2
    <2>2. Latest(r) \in visited BY ClientsAreOn DEF LiveInv
    <2>3. Sent(r, e) /\ Sent(r, e)'
      BY <1>1, <2>2 DEF VisitFrom, Sent
    <2>4. \A x \in Events : x # e => (Sent(r, x)' <=> Sent(r, x))
      BY <1>1, <1>3 DEF VisitFrom, Sent
    <2> QED BY <2>1, <2>3, <2>4 DEF LiveInv, SentByLoops
  <1>13. LiveInOrder' BY DEF LiveInv, LiveInOrder, InOrderFrom
  <1> QED BY <1>3, <1>7, <1>8, <1>9, <1>10, <1>11, <1>12, <1>13


LEMMA VisitFields ==
  ASSUME TypeOK, ClientsOn, NEW e \in Events, NEW visited \in SUBSET Connections,
         NEW i \in DOMAIN clients, VisitsNext(e, visited, i)
  PROVE  /\ conn' \in [Readers -> ConnRecords]
         /\ \A r \in Readers :
              /\ conn'[r].pc = conn[r].pc /\ conn'[r].number = conn[r].number
              /\ conn'[r].after = conn[r].after /\ conn'[r].watermark = conn[r].watermark
              /\ conn'[r].index = conn[r].index /\ conn'[r].accepted = conn[r].accepted
              /\ r # clients[i][1] => conn'[r].out = conn[r].out
         /\ conn'[clients[i][1]].out
              = Append(conn[clients[i][1]].out, [id |-> e, live |-> TRUE])
  <1>1. clients[i][1] \in Readers BY ClientsAreOn
  <1> QED BY <1>1 DEF VisitsNext, TypeOK

LEMMA VisitGoesOn ==
  ASSUME LiveInv, NEW e \in Events, NEW visited \in SUBSET Connections, VisitFrom(e, visited),
         loop' = [loop EXCEPT ![e] = loop'[e]], loop'[e] \in LoopRecords,
         NEW i \in DOMAIN clients, VisitsNext(e, visited, i)
  PROVE  /\ LoopsKnown' /\ ClientsOn' /\ Prefix' /\ Ordered' /\ GoneFirst'
         /\ AcceptedSent' /\ SentByLoops' /\ LiveInOrder'
  <1>. PICK c, r : c = clients[i] /\ r = c[1] OBVIOUS
  <1>1. /\ \A d \in Events : d # e => loop'[d] = loop[d] /\ (Active(d)' <=> Active(d))
    BY LoopUpdate DEF LiveInv
  <1>2. /\ c \in Connections /\ c # None /\ r \in Readers /\ On(r) /\ c = Latest(r) /\ ~Gone(c)
        /\ \A s \in Readers : s # r => Latest(s) # c
        /\ c[2] = conn[r].number
    BY ClientsAreOn DEF LiveInv
  <1>3. /\ loop'[e].at = c /\ loop'[e].visited = visited \cup {c} /\ Active(e)'
        /\ loop'[e].awaits = Len(conn[r].out) + 1
        /\ c \notin visited /\ \A j \in DOMAIN clients : j < i => clients[j] \in visited
    BY <1>2 DEF VisitsNext, Active
  <1>4. /\ \A s \in Readers :
              /\ conn'[s].pc = conn[s].pc /\ conn'[s].number = conn[s].number
              /\ conn'[s].watermark = conn[s].watermark /\ conn'[s].accepted = conn[s].accepted
              /\ s # r => conn'[s].out = conn[s].out
        /\ conn'[r].out = Append(conn[r].out, [id |-> e, live |-> TRUE])
    BY VisitFields DEF LiveInv
  <1>5. SameClients BY <1>4 DEF SameClients, VisitFrom
  <1>6. /\ \A s \in Readers : (Latest(s)' = Latest(s)) /\ (On(s)' <=> On(s))
        /\ \A b \in Connections : Gone(b)' <=> Gone(b)
        /\ ClientsOn'
    BY <1>5, SameClientsKeep DEF LiveInv
  <1>7. \A d \in Events : Active(d) =>
          loop[d].at \in Connections /\ loop[d].visited \in SUBSET Connections
    BY DEF LiveInv, TypeOK, LoopRecords, Active
  <1>8. \A d \in Events : d <= seq => d <= seq' BY DEF VisitFrom
  <1>9. /\ \A j, k \in DOMAIN clients : clients[j] = clients[k] => j = k
        /\ \A j, k \in DOMAIN clients : j # k => j < k \/ k < j
        /\ \A j, k \in DOMAIN clients : ~(j < k /\ k < j)
    <2>1. DOMAIN clients = 1..Len(clients) /\ Len(clients) \in Nat BY DEF LiveInv, TypeOK
    <2> QED BY <2>1 DEF LiveInv, ClientsOn, IsInjective
  <1>10. \A d \in Events : d < e /\ Active(d) =>
           c \in loop[d].visited /\ visited \subseteq loop[d].visited /\ loop[d].at \notin visited
    BY EarlierAhead DEF VisitFrom
  <1>11. \A d \in Events : e < d /\ d <= seq =>
           Active(d) /\ loop[d].visited \subseteq visited /\ c \notin loop[d].visited
    BY <1>3 DEF VisitFrom
  <1>12. LoopsKnown'
    <2> SUFFICES ASSUME NEW d \in Events, Active(d)'
                 PROVE  /\ d <= seq' /\ loop'[d].at \in loop'[d].visited
                        /\ \A b \in loop'[d].visited : b[2] <= conn'[b[1]].number
      BY DEF LoopsKnown
    <2>1. CASE d = e
      <3>1. e <= seq' BY DEF VisitFrom
      <3>2. \A b \in visited : b[2] <= conn'[b[1]].number
        <4>1. \A b \in visited : b[1] \in Readers BY DEF Connections
        <4> QED BY <1>4, <4>1 DEF VisitFrom
      <3>3. c[2] <= conn'[r].number
        <4>1. conn[r].number \in Nat
          <5>1. conn[r] \in ConnRecords BY <1>2 DEF LiveInv, TypeOK
          <5> QED BY <5>1 DEF ConnRecords
        <4>2. c[2] = conn[r].number /\ conn'[r].number = conn[r].number BY <1>2, <1>4
        <4> QED BY <4>1, <4>2
      <3> QED BY <1>3, <2>1, <3>1, <3>2, <3>3
    <2>2. CASE d # e
      <3>1. Active(d) /\ loop'[d] = loop[d] BY <1>1, <2>2
      <3>2. \A b \in loop[d].visited : b[1] \in Readers BY <1>7, <3>1 DEF Connections
      <3> QED BY <1>4, <1>8, <3>1, <3>2 DEF LiveInv, LoopsKnown
    <2> QED BY <2>1, <2>2
  <1>13. Prefix'
    <2> SUFFICES ASSUME NEW d \in Events, Active(d)', NEW j \in DOMAIN clients,
                        NEW k \in DOMAIN clients, j < k
                 PROVE  /\ clients[k] \in loop'[d].visited => clients[j] \in loop'[d].visited
                        /\ clients[j] = loop'[d].at => clients[k] \notin loop'[d].visited
      BY DEF Prefix, VisitFrom
    <2>1. CASE d # e BY <1>1, <2>1 DEF LiveInv, Prefix
    <2>2. CASE d = e
      <3>1. clients[k] \in loop'[e].visited => clients[j] \in loop'[e].visited
        BY <1>3, <1>9 DEF VisitFrom
      <3>2. clients[j] = c => clients[k] \notin loop'[e].visited
        BY <1>3, <1>9 DEF VisitFrom
      <3> QED BY <1>3, <2>2, <3>1, <3>2
    <2> QED BY <2>1, <2>2
  <1>14. Ordered'
    <2> SUFFICES ASSUME NEW d \in Events, NEW f \in Events, d < f, Active(d)', f <= seq'
                 PROVE  /\ Active(f)' /\ loop'[f].visited \subseteq loop'[d].visited
                        /\ loop'[d].at \in loop'[f].visited => loop'[f].at = loop'[d].at
      BY DEF Ordered
    <2>1. CASE f = e
      <3>1. d # e /\ Active(d) /\ loop'[d] = loop[d] BY <1>1, <2>1 DEF Events
      <3> QED BY <1>3, <1>10, <2>1, <3>1
    <2>2. CASE d = e
      <3>1. f # e /\ f <= seq BY <2>2 DEF VisitFrom, Events
      <3>2. loop'[f] = loop[f] /\ (Active(f)' <=> Active(f)) BY <1>1, <3>1
      <3> QED BY <1>3, <1>11, <2>2, <3>1, <3>2
    <2>3. CASE d # e /\ f # e
      <3>1. Active(d) /\ loop'[d] = loop[d] /\ loop'[f] = loop[f] /\ (Active(f)' <=> Active(f))
        BY <1>1, <2>3
      <3>2. f <= seq BY <2>3 DEF VisitFrom
      <3> QED BY <3>1, <3>2 DEF LiveInv, Ordered
    <2> QED BY <2>1, <2>2, <2>3
  <1>15. conn[r].out \in Seq(Frames) /\ conn[r].watermark \in Int /\ conn[r].accepted \in Nat
    BY <1>2 DEF LiveInv, TypeOK, ConnRecords
  <1>16. Len(conn[r].out) \in Nat /\ conn[r].accepted <= Len(conn[r].out)
    BY <1>2, <1>15 DEF LiveInv, AcceptedSent
  <1>17. GoneFirst'
    <2>1. ~Ready(e)'
      <3>1. ~Gone(c)' BY <1>2, <1>6
      <3>2. ~(loop'[e].awaits <= conn'[r].accepted)
        <4>1. loop'[e].awaits = Len(conn[r].out) + 1 BY <1>3
        <4>2. conn'[r].accepted = conn[r].accepted BY <1>2, <1>4
        <4> QED BY <1>15, <1>16, <4>1, <4>2
      <3> QED BY <1>3, <3>1, <3>2 DEF Ready
    <2>2. \A d \in Events : (Active(d) /\ Gone(loop[d].at))' =>
            Active(d) /\ Gone(loop[d].at) /\ loop'[d].at = loop[d].at
      <3> SUFFICES ASSUME NEW d \in Events, Active(d)', Gone(loop[d].at)'
                   PROVE  Active(d) /\ Gone(loop[d].at) /\ loop'[d].at = loop[d].at
        OBVIOUS
      <3>1. d # e BY <1>2, <1>3, <1>6
      <3> QED BY <1>1, <1>6, <1>7, <3>1
    <2>3. ASSUME NEW d \in Events, Ready(d)'
          PROVE  Ready(d) /\ (Gone(loop[d].at) => Gone(loop[d].at)')
      <3>1. d # e BY <2>1, <2>3
      <3>2. loop'[d] = loop[d] /\ Active(d) BY <1>1, <2>3, <3>1 DEF Ready, Active
      <3>3. loop[d].at \in Connections /\ loop[d].at[1] \in Readers
        BY <1>7, <3>2 DEF Connections
      <3> QED BY <1>4, <1>6, <2>3, <3>2, <3>3 DEF Ready
    <2> QED BY <2>2, <2>3, GoneFirstKept DEF LiveInv
  <1>18. PICK f \in Frames : f = [id |-> e, live |-> TRUE] BY FrameType
  <1>19. f.id = e /\ f.live = TRUE /\ conn'[r].out = Append(conn[r].out, f) BY <1>4, <1>18
  <1>20. AcceptedSent'
    <2>1. Len(conn'[r].out) = Len(conn[r].out) + 1 BY <1>15, <1>19
    <2> QED BY <1>4, <1>15, <1>16, <2>1 DEF LiveInv, AcceptedSent
  <1>21. \A s \in Readers : s # r => Ids(conn'[s].out, LiveAt(conn'[s]))
           = Ids(conn[s].out, LiveAt(conn[s])) /\ LiveAt(conn'[s]) = LiveAt(conn[s])
    BY <1>4 DEF Ids, LiveAt
  <1>22. PICK S \in SUBSET DOMAIN conn[r].out : S = LiveAt(conn[r]) BY DEF LiveAt
  <1>23. LET longer == conn'[r].out
             next == Len(conn[r].out) + 1
         IN /\ LiveAt(conn'[r]) = IF e > conn[r].watermark THEN S \cup {next} ELSE S
            /\ Ids(longer, S) = Ids(conn[r].out, S)
            /\ Ids(longer, S \cup {next}) = Ids(conn[r].out, S) \cup {e}
            /\ InOrderFrom(conn[r].watermark + 1, conn[r].out, S) =>
                 /\ InOrderFrom(conn[r].watermark + 1, longer, S)
                 /\ Ids(conn[r].out, S) = (conn[r].watermark + 1)..(e - 1)
                      => InOrderFrom(conn[r].watermark + 1, longer, S \cup {next})
    <2>1. PICK frames \in Seq(Frames), w \in Int, first \in Int :
            frames = conn[r].out /\ w = conn[r].watermark /\ first = w + 1
      <3>1. PICK w \in Int : w = conn[r].watermark BY <1>15
      <3>2. w + 1 \in Int OBVIOUS
      <3> QED BY <1>15, <3>1, <3>2
    <2>2. S \in SUBSET DOMAIN frames BY <2>1
    <2>3. PICK longer, next : longer = Append(frames, f) /\ next = Len(frames) + 1 OBVIOUS
    <2>4. /\ DOMAIN longer = DOMAIN frames \cup {next} /\ next \notin DOMAIN frames
          /\ longer[next] = f /\ \A n \in DOMAIN frames : longer[n] = frames[n]
          /\ Ids(longer, S) = Ids(frames, S)
          /\ Ids(longer, S \cup {next}) = Ids(frames, S) \cup {f.id}
          /\ InOrderFrom(first, frames, S) =>
                 /\ InOrderFrom(first, longer, S)
                 /\ Ids(frames, S) = first..(f.id - 1)
                      => InOrderFrom(first, longer, S \cup {next})
      <3>1. Appended(frames, f, longer, next, S, first) BY <2>2, <2>3, AppendFrame
      <3> QED BY <3>1 DEF Appended
    <2>5. conn'[r].watermark = w /\ conn'[r].out = longer BY <1>2, <1>4, <1>19, <2>1, <2>3
    <2>6. LiveAt(conn'[r]) = {n \in DOMAIN longer : longer[n].live /\ longer[n].id > w}
      BY <2>5 DEF LiveAt
    <2>7. S = {n \in DOMAIN frames : frames[n].live /\ frames[n].id > w}
      BY <1>22, <2>1 DEF LiveAt
    <2>8. LiveAt(conn'[r]) = IF e > w THEN S \cup {next} ELSE S
      BY <1>19, <2>4, <2>6, <2>7
    <2> QED BY <1>19, <2>1, <2>3, <2>4, <2>5, <2>8
  \* The loops that have visited this client are those of the events before e.
  <1>24. \A x \in Events : x # e => (Sent(r, x)' <=> Sent(r, x)) /\ (Sent(r, x) <=> x < e)
    <2> SUFFICES ASSUME NEW x \in Events, x # e
                 PROVE  (Sent(r, x)' <=> Sent(r, x)) /\ (Sent(r, x) <=> x < e)
      OBVIOUS
    <2>1. Sent(r, x)' <=> Sent(r, x)
      BY <1>1, <1>2, <1>6 DEF Sent, VisitFrom
    <2>2. ASSUME x < e PROVE Sent(r, x)
      <3>1. x <= seq
        <4>1. e <= seq' /\ x \in Int /\ e \in Int /\ seq' \in Int BY DEF VisitFrom, Events
        <4>2. x <= seq' BY <2>2, <4>1
        <4> QED BY <4>2 DEF VisitFrom
      <3> QED BY <1>2, <1>10, <2>2, <3>1 DEF Sent
    <2>3. ASSUME Sent(r, x), ~(x < e) PROVE FALSE
      <3>1. e < x /\ x <= seq BY <2>3 DEF Events, Sent
      <3> QED BY <1>2, <1>11, <2>3, <3>1 DEF Sent
    <2> QED BY <2>1, <2>2, <2>3
  <1>25. ~Sent(r, e) /\ Sent(r, e)' /\ \A s \in Readers : s # r => (Sent(s, e)' <=> Sent(s, e))
    <2>1. ~Sent(r, e) /\ \A s \in Readers : Sent(s, e) <=> Latest(s) \in visited
      BY <1>2, <1>3 DEF VisitFrom
    <2>2. e <= seq' BY DEF VisitFrom
    <2> QED BY <1>2, <1>3, <1>6, <2>1, <2>2 DEF Sent
  <1>26. Ids(conn[r].out, S) = {x \in Events : x > conn[r].watermark /\ x < e}
    <2>1. Ids(conn[r].out, S) = {x \in Events : x > conn[r].watermark /\ Sent(r, x)}
      BY <1>2, <1>22 DEF LiveInv, SentByLoops
    <2> QED BY <1>24, <1>25, <2>1 DEF Events
  <1>27. SentByLoops'
    <2> SUFFICES ASSUME NEW s \in Readers, On(s)
                 PROVE  /\ conn'[s].watermark <= seq'
                        /\ Ids(conn'[s].out, LiveAt(conn'[s]))
                             = {x \in Events : x > conn'[s].watermark /\ Sent(s, x)'}
      BY <1>6 DEF SentByLoops, Ids, LiveAt
    <2>1. conn'[s].watermark <= seq'
      <3>1. conn[s].watermark <= seq /\ seq <= seq' BY DEF LiveInv, SentByLoops, VisitFrom
      <3>2. conn[s].watermark \in Int /\ seq \in Int /\ seq' \in Int
        BY DEF LiveInv, TypeOK, ConnRecords, VisitFrom
      <3> QED BY <1>4, <3>1, <3>2
    <2>2. CASE s = r
      <3>1. {x \in Events : x > conn[r].watermark /\ Sent(r, x)'}
              = IF e > conn[r].watermark THEN Ids(conn[r].out, S) \cup {e}
                                         ELSE Ids(conn[r].out, S)
        BY <1>24, <1>25, <1>26
      <3>2. Ids(conn'[r].out, LiveAt(conn'[r]))
              = IF e > conn[r].watermark THEN Ids(conn[r].out, S) \cup {e}
                                         ELSE Ids(conn[r].out, S)
        BY <1>23
      <3>3. conn'[s].watermark = conn[r].watermark BY <1>2, <1>4, <2>2
      <3> QED BY <2>1, <2>2, <3>1, <3>2, <3>3
    <2>3. CASE s # r
      <3>1. \A x \in Events : Sent(s, x)' <=> Sent(s, x)
        BY <1>1, <1>6, <1>25, <2>3 DEF Sent, VisitFrom
      <3> QED BY <1>4, <1>21, <2>1, <2>3, <3>1 DEF LiveInv, SentByLoops
    <2> QED BY <2>2, <2>3
  <1>28. LiveInOrder'
    <2> SUFFICES ASSUME NEW s \in Readers, On(s)
                 PROVE  InOrderFrom(conn'[s].watermark + 1, conn'[s].out, LiveAt(conn'[s]))
      BY <1>6 DEF LiveInOrder, On, LiveAt
    <2>1. InOrderFrom(conn[s].watermark + 1, conn[s].out, LiveAt(conn[s]))
      BY DEF LiveInv, LiveInOrder, On, LiveAt
    <2>2. CASE s = r
      <3>1. e > conn[r].watermark
              => Ids(conn[r].out, S) = (conn[r].watermark + 1)..(e - 1)
        <4>1. conn[r].watermark \in Nat BY <1>2 DEF LiveInv, TypeOK, ConnRecords
        <4>2. LastEvent \in Nat BY ConstantsAssumption
        <4> QED BY <1>26, <4>1, <4>2 DEF Events
      <3>2. conn'[s].watermark = conn[r].watermark BY <1>2, <1>4, <2>2
      <3> QED BY <1>22, <1>23, <2>1, <2>2, <3>1, <3>2
    <2>3. CASE s # r
      BY <1>4, <1>21, <2>1, <2>3 DEF InOrderFrom
    <2> QED BY <2>2, <2>3
  <1> QED BY <1>6, <1>12, <1>13, <1>14, <1>17, <1>20, <1>27, <1>28


LEMMA VisitKeepsLive ==
  ASSUME LiveInv, NEW e \in Events, NEW visited \in SUBSET Connections, VisitFrom(e, visited),
         Visit(e, visited)
  PROVE  /\ conn' \in [Readers -> ConnRecords] /\ loop' \in [Events -> LoopRecords]
         /\ LoopsKnown' /\ ClientsOn' /\ Prefix' /\ Ordered' /\ GoneFirst'
         /\ AcceptedSent' /\ SentByLoops' /\ LiveInOrder'
  <1>1. TypeOK /\ ClientsOn BY DEF LiveInv
  <1>2. /\ loop'[e] \in LoopRecords /\ loop' = [loop EXCEPT ![e] = loop'[e]]
        /\ \/ /\ \A i \in DOMAIN clients : clients[i] \in visited
              /\ loop'[e].at = None /\ conn' = conn
           \/ \E i \in DOMAIN clients : VisitsNext(e, visited, i)
    BY <1>1, VisitShape
  <1>3. loop' \in [Events -> LoopRecords] BY <1>1, <1>2, LoopUpdate
  <1>4. CASE /\ \A i \in DOMAIN clients : clients[i] \in visited
             /\ loop'[e].at = None /\ conn' = conn
    BY <1>1, <1>2, <1>3, <1>4, VisitEnds DEF TypeOK
  <1>5. CASE \E i \in DOMAIN clients : VisitsNext(e, visited, i)
    <2>1. PICK i \in DOMAIN clients : VisitsNext(e, visited, i) BY <1>5
    <2> QED BY <1>1, <1>2, <1>3, <2>1, VisitFields, VisitGoesOn
  <1> QED BY <1>2, <1>4, <1>5

\* The ring keeps at most RingSize events, the last ones.
LEMMA KeptEvents ==
  ASSUME NEW events \in Seq(Events), NEW e \in Events, Len(events) <= RingSize,
         NEW kept, kept = Kept(Append(events, e))
  PROVE  /\ kept \in Seq(Events) /\ Len(kept) <= RingSize
         /\ Len(kept) \in {Len(events), Len(events) + 1} /\ kept # <<>>
         /\ kept[Len(kept)] = e
         /\ \A i \in DOMAIN kept : i # Len(kept) =>
              /\ i + (Len(events) + 1 - Len(kept)) \in DOMAIN events
              /\ kept[i] = events[i + (Len(events) + 1 - Len(kept))]
  <1>1. PICK longer : longer = Append(events, e) OBVIOUS
  <1>2. /\ longer \in Seq(Events) /\ Len(longer) = Len(events) + 1 /\ Len(events) \in Nat
        /\ DOMAIN longer = 1..Len(events) + 1 /\ DOMAIN events = 1..Len(events)
        /\ longer[Len(events) + 1] = e /\ \A i \in DOMAIN events : longer[i] = events[i]
    BY <1>1
  <1>3. RingSize \in Nat /\ RingSize # 0 BY ConstantsAssumption
  <1>4. CASE Len(longer) > RingSize
    <2>1. kept = Tail(longer) BY <1>1, <1>4 DEF Kept
    <2>2. longer # <<>> BY <1>2
    <2>3. /\ kept \in Seq(Events) /\ Len(kept) = Len(longer) - 1
          /\ \A i \in 1..Len(longer) - 1 : kept[i] = longer[i + 1]
      BY <1>2, <2>1, <2>2
    <2>4. Len(kept) = Len(events) /\ DOMAIN kept = 1..Len(events) /\ Len(events) = RingSize
      <3>1. Len(events) = RingSize
        <4>1. Len(events) <= RingSize OBVIOUS
        <4>2. Len(events) + 1 > RingSize BY <1>2, <1>4
        <4>3. Len(events) \in Nat /\ RingSize \in Nat BY <1>2, <1>3
        <4> QED BY <4>1, <4>2, <4>3
      <3>2. Len(kept) = Len(events) BY <1>2, <2>3
      <3>3. DOMAIN kept = 1..Len(kept) BY <2>3
      <3> QED BY <3>1, <3>2, <3>3
    <2>5. kept[Len(events)] = longer[Len(events) + 1]
      BY <1>2, <1>3, <2>3, <2>4
    <2>6. \A i \in DOMAIN kept :
            i # Len(events) => i + 1 \in DOMAIN events /\ kept[i] = events[i + 1]
      <3> SUFFICES ASSUME NEW i \in DOMAIN kept, i # Len(events)
                   PROVE  i + 1 \in DOMAIN events /\ kept[i] = events[i + 1]
        OBVIOUS
      <3>1. i + 1 \in DOMAIN events BY <1>2, <2>3, <2>4
      <3>2. kept[i] = longer[i + 1] BY <2>3
      <3> QED BY <1>2, <3>1, <3>2
    <2>7. Len(events) + 1 - Len(kept) = 1 BY <1>2, <2>4
    <2>8. kept # <<>> BY <1>3, <2>4
    <2> QED BY <1>2, <1>3, <2>3, <2>4, <2>5, <2>6, <2>7, <2>8
  <1>5. CASE ~(Len(longer) > RingSize)
    <2>1. kept = longer BY <1>1, <1>5 DEF Kept
    <2>2. Len(events) + 1 - Len(kept) = 0 BY <1>2, <2>1
    <2>3. kept # <<>> BY <1>2, <2>1
    <2>4. \A i \in DOMAIN kept : i + 0 = i BY <1>2, <2>1
    <2>5. \A i \in DOMAIN kept : i # Len(kept) => i \in DOMAIN events BY <1>2, <2>1
    <2>6. Len(kept) <= RingSize BY <1>2, <1>3, <1>5, <2>1
    <2> QED BY <1>2, <1>3, <2>1, <2>2, <2>3, <2>4, <2>5, <2>6
  <1> QED BY <1>4, <1>5

LEMMA EmitKeepsLive ==
  ASSUME LiveInv, Emit
  PROVE  LiveInv'
  <1> PICK e : e = seq + 1 OBVIOUS
  <1>1. /\ seq \in 0..LastEvent /\ LastEvent \in Nat
        /\ ring \in Seq(Events) /\ Len(ring) <= RingSize
        /\ clients \in Seq(Connections) /\ got \in [Readers -> Seq(Frames)] /\ raced \in BOOLEAN
    BY ConstantsAssumption DEF LiveInv, TypeOK
  <1>2. /\ Unwound /\ seq < LastEvent /\ seq' = e /\ Visit(e, {}) /\ clients' = clients
        /\ ring' = Kept(Append(ring, e)) /\ got' = got
        /\ raced' = (raced \/ \E r \in Readers : conn[r].pc = "replay")
    BY DEF Emit
  <1>3. /\ e \in Events /\ e \in 0..LastEvent /\ seq <= seq'
        /\ \A x \in Events : x <= e <=> x <= seq \/ x = e
    BY <1>1, <1>2 DEF Events
  <1>4. \A r \in Readers : ~Sent(r, e) BY <1>1 DEF Sent
  <1>5. \A d \in Events : ~(e < d /\ d <= seq) BY <1>1, <1>2 DEF Events
  <1>6. VisitFrom(e, {})
    BY <1>2, <1>3, <1>4, <1>5 DEF VisitFrom, Unwound, Active
  <1>7. /\ conn' \in [Readers -> ConnRecords] /\ loop' \in [Events -> LoopRecords]
        /\ LoopsKnown' /\ ClientsOn' /\ Prefix' /\ Ordered' /\ GoneFirst'
        /\ AcceptedSent' /\ SentByLoops' /\ LiveInOrder'
    <2>1. {} \in SUBSET Connections OBVIOUS
    <2> QED BY <1>2, <1>3, <1>6, <2>1, VisitKeepsLive
  <1>8. ring' \in Seq(Events) /\ Len(ring') <= RingSize BY <1>1, <1>2, <1>3, KeptEvents
  <1>9. raced' \in BOOLEAN BY <1>1, <1>2
  <1>10. TypeOK' BY <1>1, <1>2, <1>3, <1>7, <1>8, <1>9 DEF TypeOK
  <1> QED BY <1>7, <1>10 DEF LiveInv

LEMMA BroadcastKeepsLive ==
  ASSUME LiveInv, NEW e \in Events, BroadcastStep(e)
  PROVE  LiveInv'
  <1> PICK visited : visited = loop[e].visited OBVIOUS
  <1>1. /\ Ready(e) /\ Active(e) /\ \A d \in Events : loop[d].at = loop[e].at => d >= e
        /\ Visit(e, visited) /\ UNCHANGED <<seq, ring, clients, got, raced>>
    BY DEF BroadcastStep, Ready, Active
  <1>2. visited \in SUBSET Connections /\ e <= seq /\ \A c \in visited : c[2] <= conn[c[1]].number
    BY <1>1 DEF LiveInv, TypeOK, LoopRecords, LoopsKnown
  <1>3. ASSUME NEW d \in Events, d < e, Active(d)
        PROVE  visited \subseteq loop[d].visited /\ loop[d].at \notin visited /\ ~Gone(loop[d].at)
    <2>1. loop[d].at # loop[e].at BY <1>1, <1>3 DEF Events
    <2>2. visited \subseteq loop[d].visited /\ loop[d].at \notin visited
      BY <1>2, <1>3, <2>1 DEF LiveInv, Ordered
    <2>3. ~Gone(loop[d].at)
      <3> SUFFICES ASSUME Gone(loop[d].at) PROVE FALSE OBVIOUS
      <3>1. Gone(loop[e].at) BY <1>1, <1>3 DEF LiveInv, GoneFirst
      <3> QED BY <1>1, <1>3, <2>1, <3>1 DEF LiveInv, GoneFirst
    <2> QED BY <2>2, <2>3
  <1>4. \A d \in Events : e < d /\ d <= seq => Active(d) /\ loop[d].visited \subseteq visited
    BY <1>1 DEF LiveInv, Ordered
  <1>5. \A i, j \in DOMAIN clients : i < j /\ clients[j] \in visited => clients[i] \in visited
    BY <1>1 DEF LiveInv, Prefix
  <1>6. \A r \in Readers : Sent(r, e) <=> Latest(r) \in visited BY <1>1, <1>2 DEF Sent
  <1>7. seq \in 0..LastEvent /\ seq <= seq /\ \A x \in Events : x <= seq <=> x <= seq \/ x = e
    BY <1>2, ConstantsAssumption DEF LiveInv, TypeOK
  <1>8. VisitFrom(e, visited)
    BY <1>1, <1>2, <1>3, <1>4, <1>5, <1>6, <1>7 DEF VisitFrom
  <1>9. /\ conn' \in [Readers -> ConnRecords] /\ loop' \in [Events -> LoopRecords]
        /\ LoopsKnown' /\ ClientsOn' /\ Prefix' /\ Ordered' /\ GoneFirst'
        /\ AcceptedSent' /\ SentByLoops' /\ LiveInOrder'
    BY <1>1, <1>2, <1>8, VisitKeepsLive
  <1>10. TypeOK' BY <1>1, <1>9 DEF LiveInv, TypeOK
  <1> QED BY <1>9, <1>10 DEF LiveInv


\* A step of the connection of r that sends no live event.
LEMMA QuietStep ==
  ASSUME LiveInv, NEW r \in Readers, NEW n \in ConnRecords, conn' = [conn EXCEPT ![r] = n],
         On(r), n.pc # "off", n.number = conn[r].number, n.watermark = conn[r].watermark,
         n.accepted <= Len(n.out),
         n.out = conn[r].out \/ \E f \in Frames : f.live = FALSE /\ n.out = Append(conn[r].out, f),
         n.accepted = conn[r].accepted \/ Unwound,
         UNCHANGED <<seq, ring, clients, loop, got, raced>>
  PROVE  LiveInv'
  <1>1. /\ conn' \in [Readers -> ConnRecords] /\ conn'[r] = n
        /\ \A s \in Readers : s # r => conn'[s] = conn[s]
        /\ conn[r] \in ConnRecords
    BY DEF LiveInv, TypeOK
  <1>2. SameClients BY <1>1 DEF SameClients, On
  <1>3. /\ \A s \in Readers : (Latest(s)' = Latest(s)) /\ (On(s)' <=> On(s))
        /\ \A c \in Connections : Gone(c)' <=> Gone(c)
        /\ ClientsOn'
    BY <1>2, SameClientsKeep DEF LiveInv
  <1>4. TypeOK' BY <1>1 DEF LiveInv, TypeOK
  <1>5. \A d \in Events : (Active(d)' <=> Active(d)) /\ (Active(d) =>
          loop[d].at \in Connections /\ loop[d].visited \in SUBSET Connections)
    BY DEF LiveInv, TypeOK, LoopRecords, Active
  <1>6. LoopsKnown'
    <2>1. \A c \in Connections : conn'[c[1]].number = conn[c[1]].number
      BY <1>2 DEF Connections, SameClients
    <2> QED BY <1>5, <2>1 DEF LiveInv, LoopsKnown
  <1>7. Prefix' BY <1>5 DEF LiveInv, Prefix
  <1>8. Ordered' BY <1>5 DEF LiveInv, Ordered
  <1>9. GoneFirst'
    <2>1. \A d \in Events : (Active(d) /\ Gone(loop[d].at))' =>
            Active(d) /\ Gone(loop[d].at) /\ loop'[d].at = loop[d].at
      BY <1>3, <1>5
    <2>2. CASE Unwound
      <3>1. \A d \in Events : ~(Active(d) /\ Gone(loop[d].at))' BY <2>1, <2>2 DEF Unwound, Active
      <3> QED BY <3>1, Zenon DEF GoneFirst
    <2>3. CASE n.accepted = conn[r].accepted
      <3>1. \A s \in Readers : conn'[s].accepted = conn[s].accepted BY <1>1, <2>3
      <3>2. ASSUME NEW d \in Events, Ready(d)'
            PROVE  Ready(d) /\ (Gone(loop[d].at) => Gone(loop[d].at)')
        <4>1. Active(d) BY <3>2 DEF Ready, Active
        <4>2. loop[d].at \in Connections /\ loop[d].at[1] \in Readers
          BY <1>5, <4>1 DEF Connections
        <4> QED BY <1>3, <3>1, <3>2, <4>2 DEF Ready
      <3> QED BY <2>1, <3>2, GoneFirstKept DEF LiveInv
    <2> QED BY <2>2, <2>3
  <1>10. AcceptedSent'
    <2>1. conn'[r].accepted <= Len(conn'[r].out) BY <1>1
    <2> QED BY <1>1, <2>1 DEF LiveInv, AcceptedSent
  <1>11. PICK S \in SUBSET DOMAIN conn[r].out : S = LiveAt(conn[r]) BY DEF LiveAt
  <1>12. /\ LiveAt(n) = S /\ Ids(n.out, S) = Ids(conn[r].out, S)
         /\ InOrderFrom(conn[r].watermark + 1, conn[r].out, S)
              => InOrderFrom(conn[r].watermark + 1, n.out, S)
    <2>1. CASE n.out = conn[r].out BY <1>11, <2>1 DEF LiveAt
    <2>2. CASE \E f \in Frames : f.live = FALSE /\ n.out = Append(conn[r].out, f)
      <3>1. PICK f \in Frames : f.live = FALSE /\ n.out = Append(conn[r].out, f) BY <2>2
      <3>2. conn[r].out \in Seq(Frames) /\ conn[r].watermark \in Int
        BY <1>1 DEF ConnRecords
      <3>3. PICK frames \in Seq(Frames), first \in Int :
              frames = conn[r].out /\ first = conn[r].watermark + 1
        <4>1. conn[r].watermark + 1 \in Int BY <3>2
        <4> QED BY <3>2, <4>1
      <3>4. S \in SUBSET DOMAIN frames BY <3>3
      <3>5. PICK longer, next : longer = Append(frames, f) /\ next = Len(frames) + 1 OBVIOUS
      <3>6. /\ DOMAIN longer = DOMAIN frames \cup {next} /\ next \notin DOMAIN frames
            /\ longer[next] = f /\ \A i \in DOMAIN frames : longer[i] = frames[i]
            /\ Ids(longer, S) = Ids(frames, S)
            /\ InOrderFrom(first, frames, S) => InOrderFrom(first, longer, S)
        <4>1. Appended(frames, f, longer, next, S, first) BY <3>4, <3>5, AppendFrame
        <4> QED BY <4>1 DEF Appended
      <3>7. n.out = longer BY <3>1, <3>3, <3>5
      <3>8. LiveAt(n) = {i \in DOMAIN longer : longer[i].live /\ longer[i].id > conn[r].watermark}
        BY <3>7 DEF LiveAt
      <3>9. S = {i \in DOMAIN frames : frames[i].live /\ frames[i].id > conn[r].watermark}
        BY <1>11, <3>3 DEF LiveAt
      <3>10. LiveAt(n) = S BY <3>1, <3>6, <3>8, <3>9
      <3> QED BY <3>3, <3>6, <3>7, <3>10
    <2> QED BY <2>1, <2>2
  <1>13. SentByLoops'
    <2>1. \A s \in Readers, x \in Events : Sent(s, x)' <=> Sent(s, x)
      BY <1>3, <1>5 DEF Sent
    <2> SUFFICES ASSUME NEW s \in Readers, On(s)
                 PROVE  /\ conn'[s].watermark <= seq'
                        /\ Ids(conn'[s].out, LiveAt(conn'[s]))
                             = {x \in Events : x > conn'[s].watermark /\ Sent(s, x)'}
      BY <1>3 DEF SentByLoops, Ids, LiveAt
    <2>2. /\ conn[s].watermark <= seq
          /\ Ids(conn[s].out, LiveAt(conn[s]))
                 = {x \in Events : x > conn[s].watermark /\ Sent(s, x)}
      BY DEF LiveInv, SentByLoops
    <2>3. CASE s = r BY <1>1, <1>11, <1>12, <2>1, <2>2, <2>3
    <2>4. CASE s # r BY <1>1, <2>1, <2>2, <2>4
    <2> QED BY <2>3, <2>4
  <1>14. LiveInOrder'
    <2> SUFFICES ASSUME NEW s \in Readers, On(s)
                 PROVE  InOrderFrom(conn'[s].watermark + 1, conn'[s].out, LiveAt(conn'[s]))
      BY <1>3 DEF LiveInOrder, On, LiveAt
    <2>1. InOrderFrom(conn[s].watermark + 1, conn[s].out, LiveAt(conn[s]))
      BY DEF LiveInv, LiveInOrder, On, LiveAt
    <2>2. CASE s = r BY <1>1, <1>11, <1>12, <2>1, <2>2
    <2>3. CASE s # r BY <1>1, <2>1, <2>3
    <2> QED BY <2>2, <2>3
  <1> QED BY <1>3, <1>4, <1>6, <1>7, <1>8, <1>9, <1>10, <1>13, <1>14 DEF LiveInv

LEMMA ReplayKeepsLive ==
  ASSUME LiveInv, NEW r \in Readers, ReplayStep(r)
  PROVE  LiveInv'
  <1>1. /\ ReplayReady(r) /\ WriteNext(r, conn[r]) /\ conn[r] \in ConnRecords
        /\ UNCHANGED <<seq, ring, clients, loop, got, raced>> /\ On(r) /\ TypeOK
    BY DEF ReplayStep, ReplayReady, On, LiveInv, TypeOK
  <1>2. PICK n \in ConnRecords : Writes(r, conn[r], n) BY <1>1, WriteNextShape
  <1>3. \E f \in Frames : f.live = FALSE /\ n.out = Append(conn[r].out, f)
    <2>1. \E id \in 0..LastEvent : n.out = Append(conn[r].out, [id |-> id, live |-> FALSE])
      <3>1. CASE n.out = Append(conn[r].out, [id |-> 0, live |-> FALSE]) BY <3>1, FrameType
      <3>2. CASE \E i \in conn[r].index..Len(ring) :
                   n.out = Append(conn[r].out, [id |-> ring[i], live |-> FALSE])
        <4>1. PICK i \in conn[r].index..Len(ring) :
                n.out = Append(conn[r].out, [id |-> ring[i], live |-> FALSE])
          BY <3>2
        <4>2. ring[i] \in 0..LastEvent
          <5>1. conn[r].index \in Nat /\ conn[r].index # 0 /\ ring \in Seq(Events)
            BY <1>1 DEF ConnRecords, TypeOK
          <5>2. Len(ring) \in Nat /\ DOMAIN ring = 1..Len(ring) BY <5>1
          <5>3. i \in 1..Len(ring) BY <5>1, <5>2
          <5>4. ring[i] \in Events BY <5>1, <5>2, <5>3
          <5> QED BY <5>4, FrameType
        <4> QED BY <4>1, <4>2
      <3> QED BY <1>2, <3>1, <3>2 DEF Writes
    <2> QED BY <2>1, FrameType
  <1>4. n.pc # "off" /\ n.number = conn[r].number /\ n.watermark = conn[r].watermark
        /\ n.accepted = conn[r].accepted /\ conn' = [conn EXCEPT ![r] = n]
    BY <1>2 DEF Writes
  <1>5. n.accepted <= Len(n.out)
    <2>1. conn[r].out \in Seq(Frames) /\ conn[r].accepted \in Nat BY <1>1 DEF ConnRecords
    <2>2. conn[r].accepted <= Len(conn[r].out) BY DEF LiveInv, AcceptedSent
    <2>3. Len(n.out) = Len(conn[r].out) + 1 BY <1>3, <2>1
    <2> QED BY <1>4, <2>1, <2>2, <2>3
  <1> QED BY <1>1, <1>3, <1>4, <1>5, QuietStep

LEMMA AcceptKeepsLive ==
  ASSUME LiveInv, NEW r \in Readers, Accept(r)
  PROVE  LiveInv'
  <1>1. /\ Unwound /\ On(r) /\ conn[r].accepted < Len(conn[r].out)
        /\ conn' = [conn EXCEPT ![r].accepted = @ + 1]
        /\ UNCHANGED <<seq, ring, clients, loop, got, raced>>
        /\ conn[r] \in ConnRecords /\ conn \in [Readers -> ConnRecords]
    BY DEF Accept, On, LiveInv, TypeOK
  <1>6. PICK a \in Nat : a = conn[r].accepted + 1
    <2>1. conn[r].accepted + 1 \in Nat BY <1>1 DEF ConnRecords
    <2> QED BY <2>1
  <1>2. PICK n : n = [conn[r] EXCEPT !.accepted = a] OBVIOUS
  <1>3. /\ n \in ConnRecords /\ n.pc = conn[r].pc /\ n.number = conn[r].number
        /\ n.watermark = conn[r].watermark /\ n.out = conn[r].out
        /\ n.accepted = conn[r].accepted + 1
    BY <1>1, <1>2, <1>6 DEF ConnRecords
  <1>4. conn' = [conn EXCEPT ![r] = n] BY <1>1, <1>2, <1>6
  <1>5. n.accepted <= Len(n.out)
    <2>1. Len(conn[r].out) \in Nat /\ conn[r].accepted \in Nat BY <1>1 DEF ConnRecords
    <2> QED BY <1>1, <1>3, <2>1
  <1> QED BY <1>1, <1>3, <1>4, <1>5, QuietStep DEF On


LEMMA LastIs ==
  ASSUME NEW frames \in Seq(Frames)
  PROVE  IF EventsIn(frames) = {} THEN LastOf(frames) = None
         ELSE \E m \in EventsIn(frames) :
                /\ LastOf(frames) = frames[m].id /\ LastOf(frames) \in Events
                /\ \A i \in EventsIn(frames) : i <= m
  <1>1. Len(frames) \in Nat /\ DOMAIN frames = 1..Len(frames) OBVIOUS
  <1>2. EventsIn(frames) \in SUBSET (1..Len(frames)) BY <1>1 DEF EventsIn
  <1>3. ASSUME EventsIn(frames) # {}
        PROVE  \E m \in EventsIn(frames) :
                 /\ LastOf(frames) = frames[m].id /\ LastOf(frames) \in Events
                 /\ \A i \in EventsIn(frames) : i <= m
    <2>1. PICK m : m = Max(EventsIn(frames)) OBVIOUS
    <2>2. m \in EventsIn(frames) /\ \A i \in EventsIn(frames) : m >= i
      BY <1>1, <1>2, <1>3, <2>1, MaxIs
    <2>3. \A i \in EventsIn(frames) : i <= m BY <1>2, <2>2
    <2>4. LastOf(frames) = frames[m].id BY <1>3, <2>1 DEF LastOf
    <2>5. frames[m].id \in Events
      <3>1. frames[m] \in Frames /\ frames[m].id # 0 BY <1>1, <1>2, <2>2 DEF EventsIn
      <3>2. LastEvent \in Nat BY ConstantsAssumption
      <3> QED BY <3>1, <3>2 DEF Frames, Events
    <2> QED BY <2>2, <2>3, <2>4, <2>5
  <1> QED BY <1>3 DEF LastOf

LEMMA AttachShape ==
  ASSUME TypeOK, NEW r \in Readers, Attach(r)
  PROVE  \E k, n \in ConnRecords :
           /\ k.number = conn[r].number + 1 /\ k.after = LastReceived(r) /\ k.watermark = seq
           /\ k.index = 1 /\ k.out = <<>> /\ k.accepted = 0
           /\ Writes(r, k, n)
  <1>1. LastReceived(r) \in (0..LastEvent) \cup {None}
    <2>1. got[r] \in Seq(Frames) /\ LastReceived(r) = LastOf(got[r])
      BY DEF TypeOK, LastReceived, LastOf
    <2> QED BY <2>1, LastIs, FrameType
  <1>2. seq \in 0..LastEvent /\ conn[r].number \in Nat BY DEF TypeOK, ConnRecords
  <1>3. PICK number \in Nat, after \in (0..LastEvent) \cup {None}, index \in Nat \ {0} :
          number = conn[r].number + 1 /\ after = LastReceived(r) /\ index = 1
    <2>1. conn[r].number + 1 \in Nat /\ 1 \in Nat \ {0} BY <1>2
    <2> QED BY <1>1, <2>1
  <1>4. PICK k : k = [pc |-> "replay", number |-> number, after |-> after, watermark |-> seq,
                      index |-> index, awaits |-> 0, out |-> <<>>, accepted |-> 0]
    OBVIOUS
  <1>5. k \in ConnRecords
    <2>1. <<>> \in Seq(Frames) /\ 0 \in Nat OBVIOUS
    <2> QED BY <1>2, <1>4, <2>1 DEF ConnRecords
  <1>6. /\ k.number = number /\ k.after = after /\ k.watermark = seq /\ k.index = index
        /\ k.out = <<>> /\ k.accepted = 0
    BY <1>4
  <1>7. WriteNext(r, k) BY <1>3, <1>4 DEF Attach
  <1>8. PICK n \in ConnRecords : Writes(r, k, n) BY <1>5, <1>7, WriteNextShape
  <1> QED BY <1>3, <1>5, <1>6, <1>8

LEMMA AttachKeepsLive ==
  ASSUME LiveInv, NEW r \in Readers, Attach(r)
  PROVE  LiveInv'
  <1>1. /\ Drained /\ ~On(r) /\ UNCHANGED <<seq, ring, loop, got>> /\ TypeOK
        /\ clients' = Append(clients, <<r, conn[r].number + 1>>)
    BY DEF Attach, On, LiveInv
  <1>2. PICK k \in ConnRecords, n \in ConnRecords :
           /\ k.number = conn[r].number + 1 /\ k.after = LastReceived(r) /\ k.watermark = seq
           /\ k.index = 1 /\ k.out = <<>> /\ k.accepted = 0
           /\ Writes(r, k, n)
    BY <1>1, AttachShape
  <1>3. PICK c : c = <<r, conn[r].number + 1>> OBVIOUS
  <1>4. conn[r].number \in Nat /\ c \in Connections /\ c[1] = r /\ c[2] = conn[r].number + 1
    <2>1. PICK number \in Nat : number = conn[r].number BY <1>1 DEF TypeOK, ConnRecords
    <2>2. number + 1 \in Nat OBVIOUS
    <2> QED BY <1>3, <2>1, <2>2 DEF Connections
  <1>5. /\ n.number = conn[r].number + 1 /\ n.watermark = seq /\ n.accepted = 0
        /\ n.pc # "off" /\ conn' = [conn EXCEPT ![r] = n]
        /\ \E id : n.out = Append(<<>>, [id |-> id, live |-> FALSE])
    BY <1>2 DEF Writes
  <1>6. /\ conn' \in [Readers -> ConnRecords] /\ conn'[r] = n
        /\ \A s \in Readers : s # r => conn'[s] = conn[s]
    BY <1>1, <1>5 DEF TypeOK
  <1>7. /\ clients' \in Seq(Connections) /\ DOMAIN clients = 1..Len(clients) /\ Len(clients) \in Nat
        /\ DOMAIN clients' = 1..Len(clients) + 1
        /\ \A i \in DOMAIN clients : clients'[i] = clients[i]
        /\ clients'[Len(clients) + 1] = c
    BY <1>1, <1>3, <1>4 DEF TypeOK
  <1>8. TypeOK'
    <2>1. raced' \in BOOLEAN BY <1>1 DEF Attach, TypeOK
    <2> QED BY <1>1, <1>6, <1>7, <2>1 DEF TypeOK
  <1>9. /\ \A s \in Readers : s # r => (Latest(s)' = Latest(s)) /\ (On(s)' <=> On(s))
        /\ Latest(r)' = c /\ On(r)'
    BY <1>3, <1>5, <1>6 DEF Latest, On
  <1>10. \A d \in Events : (Active(d)' <=> Active(d)) /\ (Active(d) =>
          loop[d].at \in Connections /\ loop[d].visited \in SUBSET Connections)
    BY <1>1 DEF TypeOK, LoopRecords, Active
  <1>11. \A d \in Events : Active(d) => ~Gone(loop[d].at) /\ loop[d].at[1] # r /\ ~Gone(loop[d].at)'
    <2> SUFFICES ASSUME NEW d \in Events, Active(d)
                 PROVE  ~Gone(loop[d].at) /\ loop[d].at[1] # r /\ ~Gone(loop[d].at)'
      OBVIOUS
    <2>1. ~Gone(loop[d].at) BY <1>1 DEF Drained, Ready, Active
    <2>2. loop[d].at[1] \in Readers /\ loop[d].at[1] # r
      BY <1>1, <1>10, <2>1 DEF Connections, Gone, On
    <2>3. loop'[d] = loop[d] BY <1>1
    <2> QED BY <1>9, <2>1, <2>2, <2>3 DEF Gone, On
  <1>12. \A d \in Events : Active(d) => c \notin loop[d].visited
    BY <1>4 DEF LiveInv, LoopsKnown
  <1>13. LoopsKnown'
    <2>1. \A b \in Connections : b[2] <= conn[b[1]].number => b[2] <= conn'[b[1]].number
      <3> SUFFICES ASSUME NEW b \in Connections, b[2] <= conn[b[1]].number
                   PROVE  b[2] <= conn'[b[1]].number
        OBVIOUS
      <3>1. b[1] \in Readers /\ b[2] \in Nat BY DEF Connections
      <3>2. CASE b[1] = r BY <1>4, <1>5, <1>6, <3>1, <3>2
      <3>3. CASE b[1] # r BY <1>6, <3>1, <3>3
      <3> QED BY <3>2, <3>3
    <2> QED BY <1>1, <1>10, <2>1 DEF LiveInv, LoopsKnown
  <1>14. \A i \in DOMAIN clients : clients[i] # c
    <2>1. \A i \in DOMAIN clients : On(clients[i][1]) BY ClientsAreOn DEF LiveInv
    <2> QED BY <1>1, <1>4, <2>1
  <1>15. ClientsOn'
    <2>1. IsInjective(clients')
      <3> SUFFICES ASSUME NEW i \in DOMAIN clients', NEW j \in DOMAIN clients',
                          clients'[i] = clients'[j]
                   PROVE  i = j
        BY DEF IsInjective
      <3>1. \A a, b \in DOMAIN clients : clients[a] = clients[b] => a = b
        BY DEF LiveInv, ClientsOn, IsInjective
      <3> QED BY <1>7, <1>14, <3>1
    <2>2. Range(clients') = Range(clients) \cup {c}
      BY <1>7 DEF Range
    <2>3. Range(clients) = {Latest(s) : s \in {t \in Readers : On(t)}} BY DEF LiveInv, ClientsOn
    <2>4. {Latest(s)' : s \in {t \in Readers : On(t)'}}
            = {Latest(s) : s \in {t \in Readers : On(t)}} \cup {c}
      BY <1>1, <1>9
    <2> QED BY <2>1, <2>2, <2>3, <2>4 DEF ClientsOn
  <1>16. Prefix'
    <2> SUFFICES ASSUME NEW d \in Events, Active(d), NEW i \in DOMAIN clients',
                        NEW j \in DOMAIN clients', i < j
                 PROVE  /\ clients'[j] \in loop[d].visited => clients'[i] \in loop[d].visited
                        /\ clients'[i] = loop[d].at => clients'[j] \notin loop[d].visited
      BY <1>1, <1>10 DEF Prefix
    <2>1. CASE j = Len(clients) + 1 BY <1>7, <1>12, <2>1
    <2>2. CASE j # Len(clients) + 1
      <3>1. i \in DOMAIN clients /\ j \in DOMAIN clients BY <1>7, <2>2
      <3> QED BY <1>7, <3>1 DEF LiveInv, Prefix
    <2> QED BY <2>1, <2>2
  <1>17. Ordered' BY <1>1, <1>10 DEF LiveInv, Ordered
  <1>18. GoneFirst'
    <2>1. \A d \in Events : ~(Active(d) /\ Gone(loop[d].at))' BY <1>10, <1>11
    <2> QED BY <2>1, Zenon DEF GoneFirst
  <1>19. AcceptedSent'
    <2>1. n.accepted <= Len(n.out)
      <3>1. n.out \in Seq(Frames) BY DEF ConnRecords
      <3> QED BY <1>5, <3>1
    <2> QED BY <1>6, <2>1 DEF LiveInv, AcceptedSent
  <1>20. /\ LiveAt(n) = {} /\ Ids(n.out, LiveAt(n)) = {}
         /\ InOrderFrom(n.watermark + 1, n.out, LiveAt(n))
    <2>1. PICK f : f.live = FALSE /\ n.out = Append(<<>>, f) BY <1>5
    <2>2. DOMAIN n.out = {1} /\ n.out[1].live = FALSE
      <3>1. Append(<<>>, f) = <<f>> OBVIOUS
      <3> QED BY <2>1, <3>1
    <2>3. LiveAt(n) = {} BY <2>2 DEF LiveAt
    <2> QED BY <2>3 DEF Ids, InOrderFrom
  <1>21. SentByLoops'
    <2> SUFFICES ASSUME NEW s \in Readers, On(s)'
                 PROVE  /\ conn'[s].watermark <= seq
                        /\ Ids(conn'[s].out, LiveAt(conn'[s]))
                             = {x \in Events : x > conn'[s].watermark /\ Sent(s, x)'}
      BY <1>1 DEF SentByLoops, Ids, LiveAt
    <2>1. CASE s = r
      <3>1. \A x \in Events : ~(x > seq /\ Sent(r, x)') BY <1>1 DEF Sent, Events, TypeOK
      <3>2. seq <= seq BY <1>1 DEF TypeOK
      <3> QED BY <1>5, <1>6, <1>20, <2>1, <3>1, <3>2
    <2>2. CASE s # r
      <3>1. /\ conn[s].watermark <= seq
            /\ Ids(conn[s].out, LiveAt(conn[s]))
                 = {x \in Events : x > conn[s].watermark /\ Sent(s, x)}
        BY <1>9, <2>2 DEF LiveInv, SentByLoops
      <3>2. \A x \in Events : Sent(s, x)' <=> Sent(s, x) BY <1>1, <1>9, <1>10, <2>2 DEF Sent
      <3> QED BY <1>6, <2>2, <3>1, <3>2
    <2> QED BY <2>1, <2>2
  <1>22. LiveInOrder'
    <2> SUFFICES ASSUME NEW s \in Readers, On(s)'
                 PROVE  InOrderFrom(conn'[s].watermark + 1, conn'[s].out, LiveAt(conn'[s]))
      BY DEF LiveInOrder, On, LiveAt
    <2>1. CASE s = r BY <1>6, <1>20, <2>1
    <2>2. CASE s # r
      <3>1. InOrderFrom(conn[s].watermark + 1, conn[s].out, LiveAt(conn[s]))
        BY <1>9, <2>2 DEF LiveInv, LiveInOrder, On, LiveAt
      <3> QED BY <1>6, <2>2, <3>1
    <2> QED BY <2>1, <2>2
  <1> QED BY <1>8, <1>13, <1>15, <1>16, <1>17, <1>18, <1>19, <1>21, <1>22 DEF LiveInv


LEMMA DetachShape ==
  ASSUME TypeOK, ClientsOn, AcceptedSent, NEW r \in Readers, Detach(r)
  PROVE  /\ conn' \in [Readers -> ConnRecords]
         /\ \A s \in Readers : s # r => conn'[s] = conn[s]
         /\ conn'[r].pc = "off" /\ conn'[r].number = conn[r].number
         /\ conn'[r].out = <<>> /\ conn'[r].accepted = 0
         /\ \E i \in DOMAIN clients : clients[i] = Latest(r) /\ clients' = RemoveAt(clients, i)
         /\ \E n \in 0..Len(conn[r].out) :
              /\ got' = [got EXCEPT ![r] = got[r] \o SubSeq(conn[r].out, 1, n)]
              /\ SubSeq(conn[r].out, 1, n) \in Seq(Frames)
  <1>1. /\ On(r) /\ conn \in [Readers -> ConnRecords] /\ conn[r] \in ConnRecords
        /\ clients' = RemoveAt(clients, CHOOSE i \in DOMAIN clients : clients[i] = Latest(r))
        /\ conn' = [conn EXCEPT ![r].pc = "off", ![r].out = <<>>, ![r].accepted = 0]
    BY DEF Detach, On, TypeOK
  <1>2. PICK out \in Seq(Frames), a \in Nat : out = <<>> /\ a = 0
    <2>1. <<>> \in Seq(Frames) /\ 0 \in Nat OBVIOUS
    <2> QED BY <2>1
  <1>3. PICK n : n = [conn[r] EXCEPT !.pc = "off", !.out = out, !.accepted = a] OBVIOUS
  <1>4. /\ n \in ConnRecords /\ n.pc = "off" /\ n.number = conn[r].number
        /\ n.out = out /\ n.accepted = a
    BY <1>1, <1>3 DEF ConnRecords
  <1>5. conn' = [conn EXCEPT ![r] = n] BY <1>1, <1>2, <1>3
  <1>6. /\ conn' \in [Readers -> ConnRecords] /\ conn'[r] = n
        /\ \A s \in Readers : s # r => conn'[s] = conn[s]
    BY <1>1, <1>4, <1>5
  <1>7. \E i \in DOMAIN clients : clients[i] = Latest(r) /\ clients' = RemoveAt(clients, i)
    <2>1. \E i \in DOMAIN clients : clients[i] = Latest(r) BY <1>1, ClientsAreOn
    <2>2. PICK i : i = CHOOSE j \in DOMAIN clients : clients[j] = Latest(r) OBVIOUS
    <2>3. i \in DOMAIN clients /\ clients[i] = Latest(r) BY <2>1, <2>2
    <2> QED BY <1>1, <2>2, <2>3
  <1>8. \E m \in 0..Len(conn[r].out) :
              /\ got' = [got EXCEPT ![r] = got[r] \o SubSeq(conn[r].out, 1, m)]
              /\ SubSeq(conn[r].out, 1, m) \in Seq(Frames)
    <2>1. PICK m \in 0..conn[r].accepted : got' = [got EXCEPT ![r] = @ \o SubSeq(conn[r].out, 1, m)]
      BY DEF Detach
    <2>2. /\ conn[r].accepted \in Nat /\ conn[r].out \in Seq(Frames)
          /\ conn[r].accepted <= Len(conn[r].out)
      BY <1>1 DEF ConnRecords, AcceptedSent
    <2>3. m \in 0..Len(conn[r].out)
      <3>1. Len(conn[r].out) \in Nat BY <2>2
      <3> QED BY <2>2, <3>1
    <2>4. SubSeq(conn[r].out, 1, m) \in Seq(Frames)
      <3>1. PICK frames \in Seq(Frames) : frames = conn[r].out BY <2>2
      <3>2. m \in 0..Len(frames) BY <2>3, <3>1
      <3>3. SubSeq(frames, 1, m) \in Seq(Frames) BY <3>2
      <3> QED BY <3>1, <3>3
    <2>5. got' = [got EXCEPT ![r] = got[r] \o SubSeq(conn[r].out, 1, m)] BY <2>1
    <2> QED BY <2>3, <2>4, <2>5
  <1> QED BY <1>2, <1>4, <1>6, <1>7, <1>8

LEMMA DetachKeepsLive ==
  ASSUME LiveInv, NEW r \in Readers, Detach(r)
  PROVE  LiveInv'
  <1>1. /\ Drained /\ On(r) /\ UNCHANGED <<seq, ring, loop, raced>>
        /\ TypeOK /\ ClientsOn /\ AcceptedSent
    BY DEF Detach, On, LiveInv
  <1>2. /\ conn' \in [Readers -> ConnRecords]
        /\ \A s \in Readers : s # r => conn'[s] = conn[s]
        /\ conn'[r].pc = "off" /\ conn'[r].number = conn[r].number
        /\ conn'[r].out = <<>> /\ conn'[r].accepted = 0
        /\ \E i \in DOMAIN clients : clients[i] = Latest(r) /\ clients' = RemoveAt(clients, i)
        /\ \E n \in 0..Len(conn[r].out) :
              /\ got' = [got EXCEPT ![r] = got[r] \o SubSeq(conn[r].out, 1, n)]
              /\ SubSeq(conn[r].out, 1, n) \in Seq(Frames)
    BY <1>1, DetachShape
  <1>3. PICK m \in DOMAIN clients : clients[m] = Latest(r) /\ clients' = RemoveAt(clients, m)
    BY <1>2
  <1>4. /\ clients' \in Seq(Connections) /\ IsInjective(clients')
        /\ Range(clients') = Range(clients) \ {Latest(r)}
        /\ \A i, j \in DOMAIN clients' : i < j =>
             \E k, l \in DOMAIN clients :
               k < l /\ clients[k] = clients'[i] /\ clients[l] = clients'[j]
    <2>1. clients \in Seq(Connections) /\ IsInjective(clients) BY <1>1 DEF TypeOK, ClientsOn
    <2> QED BY <1>3, <2>1, RemoveOne
  <1>5. TypeOK'
    <2>1. PICK n \in 0..Len(conn[r].out), taken \in Seq(Frames) :
              /\ got' = [got EXCEPT ![r] = got[r] \o taken]
              /\ taken = SubSeq(conn[r].out, 1, n)
      BY <1>2
    <2>2. got[r] \o taken \in Seq(Frames)
      <3>1. PICK before \in Seq(Frames) : before = got[r] BY <1>1 DEF TypeOK
      <3>2. before \o taken \in Seq(Frames) OBVIOUS
      <3> QED BY <3>1, <3>2
    <2>3. got' \in [Readers -> Seq(Frames)] BY <1>1, <2>1, <2>2 DEF TypeOK
    <2> QED BY <1>1, <1>2, <1>4, <2>3 DEF TypeOK
  <1>6. /\ \A s \in Readers : (Latest(s)' = Latest(s)) /\ (s # r => (On(s)' <=> On(s)))
        /\ ~On(r)'
    BY <1>2 DEF Latest, On
  <1>7. \A d \in Events : (Active(d)' <=> Active(d)) /\ (Active(d) =>
          loop[d].at \in Connections /\ loop[d].visited \in SUBSET Connections)
    BY <1>1 DEF TypeOK, LoopRecords, Active
  <1>8. \A s \in Readers : Latest(s)[1] = s BY <1>1, ClientsAreOn
  <1>9. \A d \in Events : Active(d) => ~Gone(loop[d].at) /\ loop[d].at[1] \in Readers
          /\ loop[d].at = Latest(loop[d].at[1])
    <2>1. \A d \in Events : Active(d) => ~Gone(loop[d].at) BY <1>1 DEF Drained, Ready, Active
    <2> QED BY <1>1, <1>7, <2>1, ClientsAreOn
  <1>10. \A d \in Events : Active(d) /\ loop[d].at[1] # r => ~Gone(loop[d].at)'
    <2> SUFFICES ASSUME NEW d \in Events, Active(d), loop[d].at[1] # r PROVE ~Gone(loop[d].at)'
      OBVIOUS
    <2>1. On(loop[d].at[1]) BY <1>9 DEF Gone, On
    <2> QED BY <1>1, <1>6, <1>9, <2>1 DEF Gone, On
  <1>11. LoopsKnown'
    <2>1. \A b \in Connections : conn'[b[1]].number = conn[b[1]].number
      BY <1>2 DEF Connections
    <2> QED BY <1>1, <1>7, <2>1 DEF LiveInv, LoopsKnown
  <1>12. ClientsOn'
    <2>1. Range(clients) = {Latest(s) : s \in {t \in Readers : On(t)}} BY <1>1 DEF ClientsOn
    <2>2. {Latest(s)' : s \in {t \in Readers : On(t)'}}
            = {Latest(s) : s \in {t \in Readers : On(t)}} \ {Latest(r)}
      BY <1>6, <1>8
    <2> QED BY <1>4, <2>1, <2>2 DEF ClientsOn
  <1>13. Prefix'
    <2> SUFFICES ASSUME NEW d \in Events, Active(d), NEW i \in DOMAIN clients',
                        NEW j \in DOMAIN clients', i < j
                 PROVE  /\ clients'[j] \in loop[d].visited => clients'[i] \in loop[d].visited
                        /\ clients'[i] = loop[d].at => clients'[j] \notin loop[d].visited
      BY <1>1, <1>7 DEF Prefix
    <2>1. PICK k, l \in DOMAIN clients :
            k < l /\ clients[k] = clients'[i] /\ clients[l] = clients'[j]
      BY <1>4
    <2> QED BY <2>1 DEF LiveInv, Prefix
  <1>14. Ordered' BY <1>1, <1>7 DEF LiveInv, Ordered
  <1>15. GoneFirst'
    <2>1. \A d \in Events : (Active(d) /\ Gone(loop[d].at))' =>
            Active(d) /\ loop'[d] = loop[d] /\ loop[d].at = Latest(r)
      BY <1>1, <1>7, <1>9, <1>10
    <2>2. \A d \in Events : Ready(d)' => Gone(loop[d].at)'
      <3> SUFFICES ASSUME NEW d \in Events, Ready(d)', ~Gone(loop[d].at)' PROVE FALSE
        OBVIOUS
      <3>1. Active(d) /\ loop'[d] = loop[d] BY <1>1 DEF Ready, Active
      <3>2. loop[d].at[1] # r
        <4> SUFFICES ASSUME loop[d].at[1] = r PROVE FALSE OBVIOUS
        <4> QED BY <1>2, <3>1 DEF Gone
      <3>3. conn'[loop[d].at[1]] = conn[loop[d].at[1]] BY <1>2, <1>9, <3>1, <3>2
      <3>4. Ready(d) BY <3>1, <3>3 DEF Ready, Active
      <3> QED BY <1>1, <3>4 DEF Drained
    <2>3. \A d, e \in Events : (Active(d) /\ Gone(loop[d].at))' /\ (Active(e) /\ Gone(loop[e].at))'
            => loop'[d].at = loop'[e].at
      BY <2>1
    <2> QED BY <2>2, <2>3, Zenon DEF GoneFirst
  <1>16. AcceptedSent'
    <2>1. conn'[r].accepted <= Len(conn'[r].out)
      <3>1. Len(<<>>) = 0 /\ 0 <= 0 OBVIOUS
      <3> QED BY <1>2, <3>1
    <2> QED BY <1>1, <1>2, <2>1 DEF AcceptedSent
  <1>17. SentByLoops'
    <2> SUFFICES ASSUME NEW s \in Readers, On(s)'
                 PROVE  /\ conn'[s].watermark <= seq
                        /\ Ids(conn'[s].out, LiveAt(conn'[s]))
                             = {x \in Events : x > conn'[s].watermark /\ Sent(s, x)'}
      BY <1>1 DEF SentByLoops, Ids, LiveAt
    <2>1. s # r /\ On(s) /\ conn'[s] = conn[s] BY <1>2, <1>6
    <2>2. /\ conn[s].watermark <= seq
          /\ Ids(conn[s].out, LiveAt(conn[s]))
                 = {x \in Events : x > conn[s].watermark /\ Sent(s, x)}
      BY <2>1 DEF LiveInv, SentByLoops
    <2>3. \A x \in Events : Sent(s, x)' <=> Sent(s, x) BY <1>1, <1>6, <1>7 DEF Sent
    <2> QED BY <2>1, <2>2, <2>3
  <1>18. LiveInOrder'
    <2> SUFFICES ASSUME NEW s \in Readers, On(s)'
                 PROVE  InOrderFrom(conn'[s].watermark + 1, conn'[s].out, LiveAt(conn'[s]))
      BY DEF LiveInOrder, On, LiveAt
    <2>1. s # r /\ On(s) /\ conn'[s] = conn[s] BY <1>2, <1>6
    <2>2. InOrderFrom(conn[s].watermark + 1, conn[s].out, LiveAt(conn[s]))
      BY <2>1 DEF LiveInv, LiveInOrder, On, LiveAt
    <2> QED BY <2>1, <2>2
  <1> QED BY <1>5, <1>11, <1>12, <1>13, <1>14, <1>15, <1>16, <1>17, <1>18 DEF LiveInv

LEMMA InitLive ==
  ASSUME Init
  PROVE  LiveInv
  <1>1. /\ seq = 0 /\ ring = <<>> /\ clients = <<>> /\ raced = FALSE
        /\ \A r \in Readers : conn[r].pc = "off" /\ conn[r].out = <<>> /\ conn[r].accepted = 0
        /\ \A e \in Events : ~Active(e)
        /\ \A r \in Readers : ~On(r)
    BY DEF Init, NoLoop, Active, On
  <1>2. TypeOK
    <2>1. 0 \in 0..LastEvent /\ 0 \in Nat /\ 1 \in Nat \ {0} BY FrameType
    <2>2. /\ <<>> \in Seq(Frames) /\ ring \in Seq(Events) /\ clients \in Seq(Connections)
      BY <1>1
    <2>3. Len(ring) <= RingSize BY <1>1, ConstantsAssumption
    <2>4. PICK k : k = [pc |-> "off", number |-> 0, after |-> None, watermark |-> 0, index |-> 1,
                        awaits |-> 0, out |-> <<>>, accepted |-> 0]
      OBVIOUS
    <2>5. k \in ConnRecords BY <2>1, <2>2, <2>4 DEF ConnRecords
    <2>6. conn \in [Readers -> ConnRecords] BY <2>4, <2>5 DEF Init
    <2>7. NoLoop \in LoopRecords BY <2>1 DEF NoLoop, LoopRecords
    <2>8. loop \in [Events -> LoopRecords] BY <2>7 DEF Init
    <2>9. got \in [Readers -> Seq(Frames)] BY <2>2 DEF Init
    <2>10. seq \in 0..LastEvent /\ raced \in BOOLEAN BY <1>1, <2>1
    <2> QED BY <2>2, <2>3, <2>6, <2>8, <2>9, <2>10 DEF TypeOK
  <1>3. ClientsOn
    <2>1. Range(clients) = {} /\ IsInjective(clients) BY <1>1 DEF Range, IsInjective
    <2> QED BY <1>1, <2>1 DEF ClientsOn
  <1>4. LoopsKnown /\ Prefix /\ Ordered BY <1>1 DEF LoopsKnown, Prefix, Ordered
  <1>5. GoneFirst BY <1>1 DEF GoneFirst
  <1>6. AcceptedSent
    <2>1. Len(<<>>) = 0 /\ 0 <= 0 OBVIOUS
    <2> QED BY <1>1, <2>1 DEF AcceptedSent
  <1>7. SentByLoops /\ LiveInOrder BY <1>1 DEF SentByLoops, LiveInOrder, On
  <1> QED BY <1>2, <1>3, <1>4, <1>5, <1>6, <1>7 DEF LiveInv

LEMMA StutterKeepsLive ==
  ASSUME LiveInv, UNCHANGED vars
  PROVE  LiveInv'
  <1>1. UNCHANGED <<seq, ring, clients, conn, loop, got, raced>> BY DEF vars
  <1>2. TypeOK' BY <1>1 DEF LiveInv, TypeOK
  <1>3. LoopsKnown' BY <1>1 DEF LiveInv, LoopsKnown, Active
  <1>4. ClientsOn' BY <1>1 DEF LiveInv, ClientsOn, Latest, On
  <1>5. Prefix' BY <1>1 DEF LiveInv, Prefix, Active
  <1>6. Ordered' BY <1>1 DEF LiveInv, Ordered, Active
  <1>7. GoneFirst' BY <1>1 DEF LiveInv, GoneFirst, Active, Gone, Latest, Ready
  <1>8. AcceptedSent' BY <1>1 DEF LiveInv, AcceptedSent
  <1>9. SentByLoops'
    BY <1>1 DEF LiveInv, SentByLoops, On, Sent, Active, Latest, Ids, LiveAt
  <1>10. LiveInOrder' BY <1>1 DEF LiveInv, LiveInOrder
  <1> QED BY <1>2, <1>3, <1>4, <1>5, <1>6, <1>7, <1>8, <1>9, <1>10 DEF LiveInv

LEMMA NextKeepsLive ==
  ASSUME LiveInv, [Next]_vars
  PROVE  LiveInv'
  <1>1. CASE Emit BY <1>1, EmitKeepsLive
  <1>2. ASSUME NEW e \in Events, BroadcastStep(e) PROVE LiveInv' BY <1>2, BroadcastKeepsLive
  <1>3. ASSUME NEW r \in Readers, Attach(r) PROVE LiveInv' BY <1>3, AttachKeepsLive
  <1>4. ASSUME NEW r \in Readers, ReplayStep(r) PROVE LiveInv' BY <1>4, ReplayKeepsLive
  <1>5. ASSUME NEW r \in Readers, Accept(r) PROVE LiveInv' BY <1>5, AcceptKeepsLive
  <1>6. ASSUME NEW r \in Readers, Detach(r) PROVE LiveInv' BY <1>6, DetachKeepsLive
  <1>7. CASE Rest BY <1>7, StutterKeepsLive DEF Rest
  <1>8. CASE UNCHANGED vars BY <1>8, StutterKeepsLive
  <1> QED BY <1>1, <1>2, <1>3, <1>4, <1>5, <1>6, <1>7, <1>8 DEF Next

LEMMA SpecLive == Spec => []LiveInv
  <1>1. Init => LiveInv BY InitLive
  <1>2. LiveInv /\ [Next]_vars => LiveInv' BY NextKeepsLive
  <1> QED BY <1>1, <1>2, PTL DEF Spec

\* The variables of the event stream keep their types: the ring keeps at most
\* RingSize events (server.ts:515-517) and every frame on a stream is that of an
\* event that was numbered.
THEOREM EventsTypeCorrect == Spec => []TypeOK
  <1>1. LiveInv => TypeOK BY DEF LiveInv
  <1> QED BY <1>1, SpecLive, PTL

\* A connection gets every event after the one it attached at, once and in
\* order, for any number of clients that stall, leave or arrive while the loops
\* of any number of events are suspended in a write (server.ts:521-527).
THEOREM LiveEventsInOrder == Spec => []LiveInOrder
  <1>1. LiveInv => LiveInOrder BY DEF LiveInv
  <1> QED BY <1>1, SpecLive, PTL


-----------------------------------------------------------------------------
(***************************************************************************)
(* The replay.                                                             *)
(***************************************************************************)

\* What a connection receives goes on where the earlier ones stopped.
LEMMA JoinOrder ==
  ASSUME NEW a \in Seq(Frames), NEW b \in Seq(Frames), NEW first \in Int, NEW last \in Int,
         InOrderFrom(first, a, EventsIn(a)), Ids(a, EventsIn(a)) = first..last, first <= last + 1,
         InOrderFrom(last + 1, b, EventsIn(b)), \A i \in EventsIn(b) : b[i].id > last,
         NEW c, c = a \o b
  PROVE  /\ c \in Seq(Frames) /\ InOrderFrom(first, c, EventsIn(c))
         /\ \A x \in EventsIn(c) : c[x].id \in Ids(a, EventsIn(a)) \cup Ids(b, EventsIn(b))
         /\ \A i \in EventsIn(c) : c[i].id >= first
  <1>1. /\ c \in Seq(Frames) /\ Len(a) \in Nat /\ Len(b) \in Nat
        /\ DOMAIN a = 1..Len(a) /\ DOMAIN b = 1..Len(b) /\ DOMAIN c = 1..Len(a) + Len(b)
        /\ \A i \in 1..Len(a) : c[i] = a[i]
        /\ \A i \in 1..Len(b) : c[Len(a) + i] = b[i]
    BY JoinSeq
  <1>2. PICK A, B, C : A = EventsIn(a) /\ B = EventsIn(b) /\ C = EventsIn(c) OBVIOUS
  <1>3. A \subseteq 1..Len(a) /\ B \subseteq 1..Len(b) /\ C \subseteq 1..Len(a) + Len(b)
    BY <1>1, <1>2 DEF EventsIn
  <1>4. \A i \in 1..Len(a) : i \in C <=> i \in A
    BY <1>1, <1>2 DEF EventsIn
  <1>5. \A i \in 1..Len(b) : Len(a) + i \in C <=> i \in B
    BY <1>1, <1>2 DEF EventsIn
  <1>6. \A x \in C : x \in 1..Len(a) \/ \E i \in 1..Len(b) : x = Len(a) + i
    <2> SUFFICES ASSUME NEW x \in C, x \notin 1..Len(a)
                 PROVE  \E i \in 1..Len(b) : x = Len(a) + i
      OBVIOUS
    <2>1. x \in Int /\ x > Len(a) /\ x <= Len(a) + Len(b) BY <1>1, <1>3
    <2>2. x - Len(a) \in 1..Len(b) /\ x = Len(a) + (x - Len(a)) BY <1>1, <2>1
    <2> QED BY <2>2
  <1>7. ASSUME NEW x \in A
        PROVE  {c[j].id : j \in {k \in C : k < x}} = first..(c[x].id - 1)
    <2>1. {k \in C : k < x} = {k \in A : k < x}
      <3>1. \A k \in C : k < x => k \in 1..Len(a) BY <1>1, <1>3
      <3>2. \A k \in A : k \in C BY <1>3, <1>4
      <3> QED BY <1>4, <3>1, <3>2
    <2>2. {c[j].id : j \in {k \in A : k < x}} = {a[j].id : j \in {k \in A : k < x}}
      BY <1>1, <1>3
    <2>3. {a[j].id : j \in {k \in A : k < x}} = first..(a[x].id - 1) BY <1>2 DEF InOrderFrom
    <2>4. c[x] = a[x] BY <1>1, <1>3
    <2> QED BY <2>1, <2>2, <2>3, <2>4
  <1>8. ASSUME NEW i \in B
        PROVE  {c[j].id : j \in {k \in C : k < Len(a) + i}} = first..(c[Len(a) + i].id - 1)
    <2>1. c[Len(a) + i] = b[i] /\ b[i] \in Frames /\ i \in 1..Len(b) BY <1>1, <1>3
    <2>2. b[i].id \in Int /\ b[i].id > last BY <1>2, <2>1, FrameType DEF Frames
    <2>3. ASSUME NEW j \in C, j < Len(a) + i
          PROVE  c[j].id \in first..last \/ \E k \in B : k < i /\ c[j].id = b[k].id
      <3>1. CASE j \in 1..Len(a)
        <4>1. j \in A /\ c[j] = a[j] BY <1>1, <1>4, <3>1
        <4>2. a[j].id \in Ids(a, A) BY <4>1 DEF Ids
        <4> QED BY <1>2, <4>1, <4>2
      <3>2. CASE \E k \in 1..Len(b) : j = Len(a) + k
        <4>1. PICK k \in 1..Len(b) : j = Len(a) + k BY <3>2
        <4>2. k \in B /\ c[j] = b[k] BY <1>1, <1>5, <4>1
        <4>3. k < i BY <1>1, <2>1, <2>3, <4>1
        <4> QED BY <4>2, <4>3
      <3> QED BY <1>6, <3>1, <3>2
    <2>4. ASSUME NEW id \in first..last
          PROVE  \E j \in C : j < Len(a) + i /\ c[j].id = id
      <3>1. PICK j \in A : a[j].id = id BY <1>2 DEF Ids
      <3>2. j \in 1..Len(a) BY <1>3
      <3>3. j \in C /\ c[j] = a[j] BY <1>1, <1>4, <3>2
      <3>4. j < Len(a) + i BY <1>1, <2>1, <3>2
      <3> QED BY <3>1, <3>3, <3>4
    <2>5. ASSUME NEW k \in B, k < i
          PROVE  \E j \in C : j < Len(a) + i /\ c[j].id = b[k].id
      <3>1. k \in 1..Len(b) BY <1>3
      <3>2. Len(a) + k \in C /\ c[Len(a) + k] = b[k] BY <1>1, <1>5, <3>1
      <3>3. Len(a) + k < Len(a) + i BY <1>1, <2>1, <2>5, <3>1
      <3> QED BY <3>2, <3>3
    <2>6. {c[j].id : j \in {k \in C : k < Len(a) + i}}
            = (first..last) \cup {b[k].id : k \in {l \in B : l < i}}
      <3>1. \A id \in {c[j].id : j \in {k \in C : k < Len(a) + i}} :
              id \in first..last \/ \E k \in B : k < i /\ id = b[k].id
        BY <2>3
      <3>2. \A id \in first..last : id \in {c[j].id : j \in {k \in C : k < Len(a) + i}}
        BY <2>4
      <3>3. \A k \in B : k < i => b[k].id \in {c[j].id : j \in {l \in C : l < Len(a) + i}}
        BY <2>5
      <3> QED BY <3>1, <3>2, <3>3, Zenon
    <2>7. {b[k].id : k \in {l \in B : l < i}} = (last + 1)..(b[i].id - 1)
      BY <1>2 DEF InOrderFrom
    <2>8. (first..last) \cup ((last + 1)..(b[i].id - 1)) = first..(b[i].id - 1)
      BY <2>2
    <2> QED BY <2>1, <2>6, <2>7, <2>8
  <1>9. InOrderFrom(first, c, C)
    <2> SUFFICES ASSUME NEW x \in C
                 PROVE  {c[j].id : j \in {k \in C : k < x}} = first..(c[x].id - 1)
      BY DEF InOrderFrom
    <2>1. CASE x \in 1..Len(a) BY <1>4, <1>7, <2>1
    <2>2. CASE \E i \in 1..Len(b) : x = Len(a) + i
      <3>1. PICK i \in 1..Len(b) : x = Len(a) + i BY <2>2
      <3> QED BY <1>5, <1>8, <3>1
    <2> QED BY <1>6, <2>1, <2>2
  <1>10. ASSUME NEW x \in C PROVE c[x].id \in Ids(a, A) \cup Ids(b, B) /\ c[x].id >= first
    <2>1. CASE x \in 1..Len(a)
      <3>1. x \in A /\ c[x] = a[x] BY <1>1, <1>4, <2>1
      <3>2. c[x].id \in Ids(a, A) BY <3>1 DEF Ids
      <3>3. c[x].id \in first..last BY <1>2, <3>2
      <3>4. c[x].id >= first
        <4>1. PICK id \in first..last : id = c[x].id BY <3>3
        <4>2. id >= first OBVIOUS
        <4> QED BY <4>1, <4>2
      <3> QED BY <3>2, <3>4
    <2>2. CASE \E i \in 1..Len(b) : x = Len(a) + i
      <3>1. PICK i \in 1..Len(b) : x = Len(a) + i BY <2>2
      <3>2. i \in B /\ c[x] = b[i] /\ b[i] \in Frames BY <1>1, <1>5, <3>1
      <3>3. b[i].id \in Ids(b, B) BY <3>2 DEF Ids
      <3>4. b[i].id \in Int /\ b[i].id > last BY <1>2, <3>2, FrameType DEF Frames
      <3>5. b[i].id >= first
        <4>1. PICK id \in Int : id = b[i].id BY <3>4
        <4>2. id > last /\ first <= last + 1 BY <3>4, <4>1
        <4>3. id >= first BY <4>2
        <4> QED BY <4>1, <4>3
      <3> QED BY <3>2, <3>3, <3>5
    <2> QED BY <1>6, <2>1, <2>2
  <1> QED BY <1>1, <1>2, <1>9, <1>10

\* The frames that a lost connection had delivered.
LEMMA PrefixOrder ==
  ASSUME NEW out \in Seq(Frames), NEW n \in 0..Len(out), NEW first \in Int,
         InOrderFrom(first, out, EventsIn(out)), NEW t, t = SubSeq(out, 1, n)
  PROVE  /\ t \in Seq(Frames) /\ InOrderFrom(first, t, EventsIn(t))
         /\ \A i \in EventsIn(t) : i \in EventsIn(out) /\ t[i] = out[i]
  <1>1. /\ t \in Seq(Frames) /\ DOMAIN t = 1..n /\ \A i \in 1..n : t[i] = out[i]
        /\ Len(out) \in Nat /\ DOMAIN out = 1..Len(out)
    OBVIOUS
  <1>2. /\ \A i \in EventsIn(t) : i \in EventsIn(out) /\ t[i] = out[i] /\ i \in 1..n
        /\ \A i \in EventsIn(out) : i <= n => i \in EventsIn(t)
    BY <1>1 DEF EventsIn
  <1>3. ASSUME NEW i \in EventsIn(t)
        PROVE  {t[j].id : j \in {k \in EventsIn(t) : k < i}} = first..(t[i].id - 1)
    <2>1. \A k \in EventsIn(out) : k < i => k \in EventsIn(t)
      <3>1. i \in 1..n BY <1>2
      <3>2. \A k \in EventsIn(out) : k \in Int BY <1>1 DEF EventsIn
      <3>3. \A k \in EventsIn(out) : k < i => k <= n BY <3>1, <3>2
      <3> QED BY <1>2, <3>3
    <2>2. {k \in EventsIn(t) : k < i} = {k \in EventsIn(out) : k < i} BY <1>2, <2>1
    <2>3. {t[j].id : j \in {k \in EventsIn(t) : k < i}}
            = {out[j].id : j \in {k \in EventsIn(out) : k < i}}
      BY <1>2, <2>2
    <2>4. {out[j].id : j \in {k \in EventsIn(out) : k < i}} = first..(out[i].id - 1)
      BY <1>2 DEF InOrderFrom
    <2> QED BY <1>2, <2>3, <2>4
  <1>4. InOrderFrom(first, t, EventsIn(t)) BY <1>3 DEF InOrderFrom
  <1> QED BY <1>1, <1>2, <1>4

LEMMA LastCloses ==
  ASSUME NEW frames \in Seq(Frames), NEW first \in Int, EventsIn(frames) # {},
         InOrderFrom(first, frames, EventsIn(frames)),
         \A i \in EventsIn(frames) : frames[i].id >= first
  PROVE  /\ Ids(frames, EventsIn(frames)) = first..LastOf(frames)
         /\ LastOf(frames) \in Events /\ first <= LastOf(frames)
         /\ \E m \in EventsIn(frames) : LastOf(frames) = frames[m].id
  <1>1. PICK m \in EventsIn(frames) :
          /\ LastOf(frames) = frames[m].id /\ LastOf(frames) \in Events
          /\ \A i \in EventsIn(frames) : i <= m
    BY LastIs
  <1>2. PICK S, last : S = EventsIn(frames) /\ last = LastOf(frames) OBVIOUS
  <1>3. {frames[j].id : j \in {k \in S : k < m}} = first..(last - 1)
    BY <1>1, <1>2 DEF InOrderFrom
  <1>4. last \in Int /\ first <= last BY <1>1, <1>2 DEF Events
  <1>5. \A i \in S : i < m \/ i = m
    <2>1. \A i \in S : i \in Int BY <1>2 DEF EventsIn
    <2>2. \A i \in S : i <= m /\ m \in S BY <1>1, <1>2
    <2> QED BY <2>1, <2>2
  <1>6. Ids(frames, S) = {frames[j].id : j \in {k \in S : k < m}} \cup {last}
    BY <1>1, <1>2, <1>5 DEF Ids
  <1>7. (first..(last - 1)) \cup {last} = first..last BY <1>4
  <1> QED BY <1>1, <1>2, <1>3, <1>4, <1>6, <1>7


LEMMA ConnTypes ==
  ASSUME TypeOK, NEW r \in Readers
  PROVE  /\ conn[r] \in ConnRecords /\ conn[r].out \in Seq(Frames) /\ conn[r].watermark \in Nat
         /\ conn[r].after # None => conn[r].after \in Nat
         /\ Base(conn[r]) \in Nat /\ seq \in Nat /\ got[r] \in Seq(Frames)
         /\ conn[r].index \in Nat /\ conn[r].index # 0 /\ ring \in Seq(Events)
  <1>1. /\ conn[r] \in ConnRecords /\ seq \in 0..LastEvent /\ got[r] \in Seq(Frames)
        /\ ring \in Seq(Events)
    BY DEF TypeOK
  <1>2. LastEvent \in Nat BY ConstantsAssumption
  <1>3. /\ conn[r].watermark \in 0..LastEvent /\ conn[r].after \in (0..LastEvent) \cup {None}
        /\ conn[r].out \in Seq(Frames) /\ conn[r].index \in Nat \ {0}
    BY <1>1 DEF ConnRecords
  <1> QED BY <1>1, <1>2, <1>3 DEF Base

\* The events a connection was sent are later than the last one it has named.
LEMMA OutIds ==
  ASSUME LiveInv, RingIsTail, NEW r \in Readers, On(r), Resumes(conn[r])
  PROVE  \A i \in EventsIn(conn[r].out) :
           conn[r].out[i].id > Base(conn[r]) /\ conn[r].out[i].id <= seq
  <1>1. /\ Base(conn[r]) \in Nat /\ seq \in Nat /\ conn[r].watermark \in Nat
        /\ ring \in Seq(Events) /\ conn[r] \in ConnRecords /\ conn[r].out \in Seq(Frames)
    BY ConnTypes DEF LiveInv
  <1>6. PICK k : k = conn[r] OBVIOUS
  <1>2. PICK base \in Nat : base = Base(conn[r]) /\ k = conn[r] BY <1>1, <1>6
  <1>3. base <= k.watermark /\ k.watermark <= seq /\ k.watermark \in Nat
    BY <1>1, <1>2 DEF Resumes
  <1>4. ASSUME NEW id \in Ids(k.out, EventsIn(k.out)) PROVE id \in Nat /\ id > base /\ id <= seq
    <2>1. CASE k.pc = "live"
      <3>1. id \in ((base + 1)..k.watermark) \cup Ids(k.out, LiveAt(k))
        BY <1>2, <1>4, <2>1 DEF Resumes
      <3>2. CASE id \in (base + 1)..k.watermark BY <1>1, <1>3, <3>2
      <3>3. CASE id \in Ids(k.out, LiveAt(k))
        <4>1. id \in {e \in Events : e > k.watermark /\ Sent(r, e)}
          BY <1>2, <3>3 DEF LiveInv, SentByLoops
        <4>2. id \in Nat /\ id > k.watermark /\ id <= seq BY <4>1 DEF Sent, Events
        <4> QED BY <1>1, <1>3, <4>2
      <3> QED BY <3>1, <3>2, <3>3
    <2>2. CASE k.pc = "replay"
      <3>1. /\ k.after # None /\ k.index - 1 \in DOMAIN ring
            /\ id \in (k.after + 1)..ring[k.index - 1]
        BY <1>2, <1>4, <2>2 DEF Resumes
      <3>2. base = k.after BY <1>2, <3>1 DEF Base
      <3>3. PICK i \in DOMAIN ring : i = k.index - 1 BY <3>1
      <3>4. ring[i] = seq - Len(ring) + i /\ i <= Len(ring) /\ Len(ring) \in Nat /\ i \in Nat
        BY <1>1 DEF RingIsTail
      <3>5. PICK last \in Int : last = ring[i] /\ last <= seq
        <4>1. seq - Len(ring) + i \in Int /\ seq - Len(ring) + i <= seq BY <1>1, <3>4
        <4> QED BY <3>4, <4>1
      <3>6. id \in (base + 1)..last BY <3>1, <3>2, <3>3, <3>5
      <3> QED BY <1>1, <3>5, <3>6
    <2> QED BY <1>1, <1>2, <2>1, <2>2 DEF ConnRecords, On
  <1>5. \A i \in EventsIn(k.out) : k.out[i].id \in Ids(k.out, EventsIn(k.out)) BY DEF Ids
  <1> QED BY <1>2, <1>4, <1>5

\* What a reader received on earlier connections with the first frames of this one.
LEMMA JoinedInOrder ==
  ASSUME LiveInv, ResumeInv, ~raced, NEW r \in Readers, On(r), NEW n \in 0..Len(conn[r].out),
         NEW frames, frames = got[r] \o SubSeq(conn[r].out, 1, n)
  PROVE  frames \in Seq(Frames) /\ Continuous(frames)
  <1>1. /\ RingIsTail /\ Continuous(got[r]) /\ Resumes(conn[r]) /\ conn[r].after = LastReceived(r)
    BY DEF ResumeInv, Named
  <1>2. /\ Base(conn[r]) \in Nat /\ seq \in Nat /\ conn[r].watermark \in Nat
        /\ conn[r].out \in Seq(Frames) /\ got[r] \in Seq(Frames)
    BY ConnTypes DEF LiveInv
  <1>3. PICK a \in Seq(Frames), out \in Seq(Frames), last \in Int :
          a = got[r] /\ out = conn[r].out /\ last = Base(conn[r])
    BY <1>2
  <1>4. /\ InOrderFrom(last + 1, out, EventsIn(out))
        /\ \A i \in EventsIn(out) : out[i].id > last /\ out[i].id <= seq
    BY <1>1, <1>3, OutIds DEF Resumes
  <1>5. PICK t : t = SubSeq(out, 1, n) OBVIOUS
  <1>6. /\ t \in Seq(Frames) /\ InOrderFrom(last + 1, t, EventsIn(t))
        /\ \A i \in EventsIn(t) : t[i].id > last /\ t[i].id <= seq
    <2>1. n \in 0..Len(out) /\ last + 1 \in Int BY <1>3
    <2>2. /\ t \in Seq(Frames) /\ InOrderFrom(last + 1, t, EventsIn(t))
          /\ \A i \in EventsIn(t) : i \in EventsIn(out) /\ t[i] = out[i]
      BY <1>4, <1>5, <2>1, PrefixOrder
    <2> QED BY <1>4, <2>2
  <1>7. frames = a \o t BY <1>3, <1>5
  <1>8. \E first \in Nat \ {0} :
          /\ InOrderFrom(first, a, EventsIn(a)) /\ Ids(a, EventsIn(a)) = first..last
          /\ first <= last + 1
    <2>1. CASE EventsIn(a) = {}
      <3>1. last + 1 \in Nat \ {0} /\ (last + 1)..last = {} /\ last + 1 <= last + 1 BY <1>2, <1>3
      <3> QED BY <2>1, <3>1 DEF InOrderFrom, Ids
    <2>2. CASE EventsIn(a) # {}
      <3>1. PICK first \in Events :
               InOrderFrom(first, a, EventsIn(a)) /\ Ids(a, EventsIn(a)) = first..LastOf(a)
        BY <1>1, <1>3, <2>2 DEF Continuous
      <3>2. LastOf(a) = conn[r].after BY <1>1, <1>3 DEF LastOf, LastReceived
      <3>3. PICK m \in EventsIn(a) : LastOf(a) = a[m].id /\ LastOf(a) \in Events
        BY <2>2, LastIs
      <3>4. LastOf(a) # None BY <3>3, ConstantsAssumption DEF Events
      <3>5. last = LastOf(a) BY <1>3, <3>2, <3>4 DEF Base
      <3>6. first <= last
        <4>1. LastOf(a) \in Ids(a, EventsIn(a)) BY <3>3 DEF Ids
        <4>2. last \in first..last BY <3>1, <3>5, <4>1
        <4> QED BY <4>2
      <3>7. first \in Nat \ {0} /\ first <= last + 1 BY <3>6 DEF Events
      <3> QED BY <3>1, <3>5, <3>7
    <2> QED BY <2>1, <2>2
  <1>9. PICK first \in Nat : first # 0 /\ InOrderFrom(first, a, EventsIn(a))
          /\ Ids(a, EventsIn(a)) = first..last /\ first <= last + 1
    BY <1>8
  <1>10. /\ frames \in Seq(Frames) /\ InOrderFrom(first, frames, EventsIn(frames))
         /\ \A x \in EventsIn(frames) :
              frames[x].id \in Ids(a, EventsIn(a)) \cup Ids(t, EventsIn(t))
         /\ \A i \in EventsIn(frames) : frames[i].id >= first
    <2>1. first \in Int OBVIOUS
    <2>2. \A i \in EventsIn(t) : t[i].id > last BY <1>6
    <2> QED BY <1>6, <1>7, <1>9, <2>1, <2>2, JoinOrder
  <1>11. \A id \in Ids(a, EventsIn(a)) \cup Ids(t, EventsIn(t)) : id <= seq
    <2>1. last <= seq
      <3>1. Base(conn[r]) <= conn[r].watermark /\ conn[r].watermark <= seq BY <1>1 DEF Resumes
      <3> QED BY <1>2, <1>3, <3>1
    <2>2. \A id \in first..last : id <= seq BY <1>2, <2>1
    <2> QED BY <1>6, <1>9, <2>2 DEF Ids
  <1>12. Continuous(frames)
    <2> SUFFICES ASSUME EventsIn(frames) # {}
                 PROVE  /\ first \in Events
                        /\ Ids(frames, EventsIn(frames)) = first..LastOf(frames)
                        /\ LastOf(frames) <= seq
      BY <1>10 DEF Continuous
    <2>1. /\ Ids(frames, EventsIn(frames)) = first..LastOf(frames)
          /\ LastOf(frames) \in Events /\ first <= LastOf(frames)
          /\ \E m \in EventsIn(frames) : LastOf(frames) = frames[m].id
      <3>1. first \in Int OBVIOUS
      <3> QED BY <1>10, <3>1, LastCloses
    <2>2. first \in Events
      <3>1. LastEvent \in Nat BY ConstantsAssumption
      <3> QED BY <1>9, <2>1, <3>1 DEF Events
    <2> QED BY <1>10, <1>11, <2>1, <2>2
  <1> QED BY <1>10, <1>12

LEMMA ResumeContinues ==
  ASSUME LiveInv, ResumeInv
  PROVE  ReplayContinues
  <1> SUFFICES ASSUME ~raced, NEW r \in Readers,
                      EventsIn(got[r] \o conn[r].out) # {}
               PROVE  \E first \in Events :
                        InOrderFrom(first, got[r] \o conn[r].out, EventsIn(got[r] \o conn[r].out))
    BY DEF ReplayContinues
  <1>1. conn[r].out \in Seq(Frames) /\ got[r] \in Seq(Frames) BY ConnTypes DEF LiveInv
  <1>2. PICK out \in Seq(Frames), a \in Seq(Frames) : out = conn[r].out /\ a = got[r] BY <1>1
  <1>3. Continuous(a \o out)
    <2>1. CASE On(r)
      <3>1. out = SubSeq(out, 1, Len(out)) /\ Len(out) \in 0..Len(out) OBVIOUS
      <3>2. PICK n, frames : n = Len(out) /\ frames = a \o SubSeq(out, 1, n) OBVIOUS
      <3>3. n \in 0..Len(conn[r].out) /\ frames = got[r] \o SubSeq(conn[r].out, 1, n)
        BY <1>2, <3>1, <3>2
      <3>4. Continuous(frames) BY <2>1, <3>3, JoinedInOrder
      <3> QED BY <3>1, <3>2, <3>4
    <2>2. CASE ~On(r)
      <3>1. out = <<>> BY <1>2, <2>2 DEF ResumeInv, Named
      <3>2. a \o out = a BY <3>1
      <3> QED BY <1>2, <3>2 DEF ResumeInv
    <2> QED BY <2>1, <2>2
  <1> QED BY <1>2, <1>3 DEF Continuous


LEMMA ResumesKept ==
  ASSUME NEW k, NEW n, Resumes(k), UNCHANGED <<seq, ring, loop>>,
         n.pc = k.pc, n.out = k.out, n.after = k.after, n.watermark = k.watermark,
         n.index = k.index
  PROVE  Resumes(n)'
  <1>1. Base(n) = Base(k) /\ LiveAt(n) = LiveAt(k) BY DEF Base, LiveAt
  <1>2. \A e \in Events : Active(e)' <=> Active(e) BY DEF Active
  <1> QED BY <1>1, <1>2 DEF Resumes

LEMMA ReceivedKept ==
  ASSUME NEW frames \in Seq(Frames), Continuous(frames), seq \in Int, seq' \in Int, seq <= seq'
  PROVE  Continuous(frames)'
  <1> SUFFICES ASSUME EventsIn(frames) # {}
               PROVE  \E first \in Events :
                        /\ InOrderFrom(first, frames, EventsIn(frames))
                        /\ Ids(frames, EventsIn(frames)) = first..LastOf(frames)
                        /\ LastOf(frames) <= seq'
    BY DEF Continuous
  <1>1. PICK first \in Events :
          /\ InOrderFrom(first, frames, EventsIn(frames))
          /\ Ids(frames, EventsIn(frames)) = first..LastOf(frames)
          /\ LastOf(frames) <= seq
    BY DEF Continuous
  <1>2. LastOf(frames) \in Int BY LastIs DEF Events
  <1>3. LastOf(frames) <= seq' BY <1>1, <1>2
  <1> QED BY <1>1, <1>3

\* What an event or hello adds to a connection that was sent the events before.
FrameAdded(out, f, longer, first) ==
  /\ InOrderFrom(first, longer, EventsIn(longer))
  /\ Ids(longer, EventsIn(longer))
       = Ids(out, EventsIn(out)) \cup (IF f.id = 0 THEN {} ELSE {f.id})
  /\ \A S \in SUBSET DOMAIN out : Ids(longer, S \cup {Len(out) + 1}) = Ids(out, S) \cup {f.id}
  /\ DOMAIN longer = DOMAIN out \cup {Len(out) + 1}
  /\ longer[Len(out) + 1] = f /\ \A i \in DOMAIN out : longer[i] = out[i]

LEMMA FrameAdds ==
  ASSUME NEW out \in Seq(Frames), NEW f \in Frames, NEW longer, longer = Append(out, f),
         NEW first \in Int, InOrderFrom(first, out, EventsIn(out)),
         f.id = 0 \/ Ids(out, EventsIn(out)) = first..(f.id - 1)
  PROVE  FrameAdded(out, f, longer, first)
  <1>1. PICK next : next = Len(out) + 1 OBVIOUS
  <1>2. ASSUME NEW S \in SUBSET DOMAIN out
        PROVE  /\ DOMAIN longer = DOMAIN out \cup {next} /\ next \notin DOMAIN out
               /\ longer[next] = f /\ \A i \in DOMAIN out : longer[i] = out[i]
               /\ Ids(longer, S) = Ids(out, S)
               /\ Ids(longer, S \cup {next}) = Ids(out, S) \cup {f.id}
               /\ InOrderFrom(first, out, S) =>
                    /\ InOrderFrom(first, longer, S)
                    /\ Ids(out, S) = first..(f.id - 1)
                         => InOrderFrom(first, longer, S \cup {next})
    <2>1. Appended(out, f, longer, next, S, first) BY <1>1, AppendFrame
    <2> QED BY <2>1 DEF Appended
  <1>3. EventsIn(out) \in SUBSET DOMAIN out BY DEF EventsIn
  <1>4. EventsIn(longer) = IF f.id = 0 THEN EventsIn(out) ELSE EventsIn(out) \cup {next}
    BY <1>2, <1>3 DEF EventsIn
  <1>6. CASE f.id = 0
    <2>1. EventsIn(longer) = EventsIn(out) BY <1>4, <1>6
    <2> QED BY <1>1, <1>2, <1>3, <1>6, <2>1 DEF FrameAdded
  <1>7. CASE f.id # 0
    <2>1. EventsIn(longer) = EventsIn(out) \cup {next} BY <1>4, <1>7
    <2> QED BY <1>1, <1>2, <1>3, <1>7, <2>1 DEF FrameAdded
  <1> QED BY <1>6, <1>7

\* A live event continues what a connection was sent.
LEMMA VisitResumes ==
  ASSUME LiveInv, LiveInv', RingIsTail, NEW e \in Events, NEW visited \in SUBSET Connections,
         Visit(e, visited), clients' = clients, seq <= seq', e <= seq',
         NEW r \in Readers, On(r), Resumes(conn[r]), conn[r].pc # "replay",
         e > conn[r].watermark
  PROVE  Resumes(conn[r])'
  <1>1. TypeOK /\ ClientsOn BY DEF LiveInv
  <1>2. /\ loop'[e] \in LoopRecords /\ loop' = [loop EXCEPT ![e] = loop'[e]]
        /\ \/ /\ \A i \in DOMAIN clients : clients[i] \in visited
              /\ loop'[e].at = None /\ conn' = conn
           \/ \E i \in DOMAIN clients : VisitsNext(e, visited, i)
    BY <1>1, VisitShape
  <1>3. /\ conn[r] \in ConnRecords /\ conn[r].out \in Seq(Frames) /\ conn[r].watermark \in Nat
        /\ Base(conn[r]) \in Nat /\ seq \in Nat
    BY <1>1, ConnTypes
  <1>4. conn[r].pc = "live" BY <1>3 DEF ConnRecords, On
  <1>5. seq' \in Nat /\ conn[r].watermark <= seq'
    <2>1. seq' \in 0..LastEvent BY DEF LiveInv, TypeOK
    <2>2. LastEvent \in Nat BY ConstantsAssumption
    <2>3. conn[r].watermark <= seq BY DEF Resumes
    <2> QED BY <1>3, <2>1, <2>2, <2>3
  <1>6. \A d \in Events : Active(d)' => d > conn[r].watermark
    <2> SUFFICES ASSUME NEW d \in Events, Active(d)' PROVE d > conn[r].watermark OBVIOUS
    <2>1. CASE d = e BY <2>1
    <2>2. CASE d # e
      <3>1. Active(d) BY <1>1, <1>2, <2>2, LoopUpdate
      <3> QED BY <3>1 DEF Resumes
    <2> QED BY <2>1, <2>2
  <1>7. CASE conn'[r] = conn[r]
    BY <1>4, <1>5, <1>6, <1>7 DEF Resumes, Base, LiveAt
  <1>8. CASE \E i \in DOMAIN clients : VisitsNext(e, visited, i) /\ clients[i][1] = r
    <2>1. PICK i \in DOMAIN clients : VisitsNext(e, visited, i) /\ clients[i][1] = r BY <1>8
    <2>2. /\ conn'[r].pc = "live" /\ conn'[r].after = conn[r].after
          /\ conn'[r].watermark = conn[r].watermark
          /\ conn'[r].out = Append(conn[r].out, [id |-> e, live |-> TRUE])
      BY <1>1, <1>4, <2>1, VisitFields
    <2>3. PICK out \in Seq(Frames), w \in Nat, base \in Nat :
            out = conn[r].out /\ w = conn[r].watermark /\ base = Base(conn[r])
      BY <1>3
    <2>4. PICK f \in Frames : f = [id |-> e, live |-> TRUE] BY FrameType
    <2>5. PICK longer : longer = Append(out, f) OBVIOUS
    <2>6. PICK next : next = Len(out) + 1 OBVIOUS
    <2>7. f.id = e /\ f.live = TRUE /\ e # 0 /\ e \in Nat /\ conn'[r].out = longer
      BY <2>2, <2>3, <2>4, <2>5 DEF Events
    <2>8. PICK S, T : S = LiveAt(conn[r]) /\ T = LiveAt(conn'[r]) OBVIOUS
    <2>9. /\ DOMAIN longer = DOMAIN out \cup {next} /\ next \notin DOMAIN out
          /\ longer[next] = f /\ \A j \in DOMAIN out : longer[j] = out[j]
          /\ DOMAIN out = 1..Len(out) /\ Len(out) \in Nat
      BY <2>5, <2>6
    <2>10. /\ S = {j \in DOMAIN out : out[j].live /\ out[j].id > w}
           /\ T = {j \in DOMAIN longer : longer[j].live /\ longer[j].id > w}
      BY <2>2, <2>3, <2>7, <2>8 DEF LiveAt
    <2>11. T = S \cup {next}
      <3>1. e > w BY <2>3
      <3> QED BY <2>7, <2>9, <2>10, <3>1
    \* The live events before this one, as the connection was sent them in order.
    <2>12. Ids(out, S) = (w + 1)..(e - 1)
      <3>1. InOrderFrom(w + 1, longer, T)
        <4>1. conn'[r].pc # "off" BY <2>2
        <4>2. T = {j \in DOMAIN conn'[r].out :
                     conn'[r].out[j].live /\ conn'[r].out[j].id > conn'[r].watermark}
          BY <2>8 DEF LiveAt
        <4>3. InOrderFrom(conn'[r].watermark + 1, conn'[r].out, T)
          BY <4>1, <4>2 DEF LiveInv, LiveInOrder, InOrderFrom
        <4> QED BY <2>2, <2>3, <2>7, <4>3
      <3>2. {longer[j].id : j \in {k \in T : k < next}} = (w + 1)..(longer[next].id - 1)
        BY <2>11, <3>1 DEF InOrderFrom
      <3>3. {k \in T : k < next} = S BY <2>6, <2>9, <2>10, <2>11
      <3>4. {longer[j].id : j \in S} = Ids(out, S) BY <2>9, <2>10 DEF Ids
      <3> QED BY <2>7, <2>9, <3>2, <3>3, <3>4
    <2>13. base <= w /\ Ids(out, EventsIn(out)) = ((base + 1)..w) \cup Ids(out, S)
           /\ InOrderFrom(base + 1, out, EventsIn(out))
      BY <1>4, <2>3, <2>8 DEF Resumes
    <2>14. ((base + 1)..w) \cup ((w + 1)..(e - 1)) = (base + 1)..(e - 1)
      <3>1. e > w BY <2>3
      <3> QED BY <2>7, <2>13, <3>1
    <2>15. base + 1 \in Int OBVIOUS
    <2>16. Ids(out, EventsIn(out)) = (base + 1)..(f.id - 1) BY <2>7, <2>12, <2>13, <2>14
    <2>17. /\ InOrderFrom(base + 1, longer, EventsIn(longer))
           /\ Ids(longer, EventsIn(longer)) = Ids(out, EventsIn(out)) \cup {e}
           /\ Ids(longer, T) = Ids(out, S) \cup {e}
      <3>1. S \in SUBSET DOMAIN out BY <2>10
      <3>2. InOrderFrom(base + 1, out, EventsIn(out)) BY <2>13
      <3>3. /\ InOrderFrom(base + 1, longer, EventsIn(longer))
            /\ Ids(longer, EventsIn(longer))
                 = Ids(out, EventsIn(out)) \cup (IF f.id = 0 THEN {} ELSE {f.id})
            /\ \A U \in SUBSET DOMAIN out :
                 Ids(longer, U \cup {Len(out) + 1}) = Ids(out, U) \cup {f.id}
        <4>1. FrameAdded(out, f, longer, base + 1)
          BY <2>5, <2>15, <2>16, <3>2, FrameAdds
        <4> QED BY <4>1 DEF FrameAdded
      <3> QED BY <2>6, <2>7, <2>11, <3>1, <3>3
    <2>18. Base(conn'[r]) = base BY <2>2, <2>3 DEF Base
    <2>19. Ids(longer, EventsIn(longer)) = ((base + 1)..w) \cup Ids(longer, T)
      BY <2>13, <2>17
    <2> QED BY <1>5, <1>6, <2>2, <2>3, <2>7, <2>8, <2>13, <2>17, <2>18, <2>19 DEF Resumes
  <1>9. CASE \E i \in DOMAIN clients : VisitsNext(e, visited, i) /\ clients[i][1] # r
    <2>1. PICK i \in DOMAIN clients : VisitsNext(e, visited, i) /\ clients[i][1] # r BY <1>9
    <2>2. conn'[r] = conn[r]
      <3>1. PICK k \in ConnRecords : conn' = [conn EXCEPT ![clients[i][1]] = k]
        BY <2>1 DEF VisitsNext
      <3> QED BY <1>1, <2>1, <3>1 DEF TypeOK
    <2> QED BY <1>7, <2>2
  <1> QED BY <1>2, <1>7, <1>8, <1>9


LEMMA EmitKeepsResume ==
  ASSUME LiveInv, LiveInv', ResumeInv, Emit
  PROVE  ResumeInv'
  <1> PICK e : e = seq + 1 OBVIOUS
  <1>1. /\ seq < LastEvent /\ seq' = e /\ Visit(e, {}) /\ clients' = clients
        /\ ring' = Kept(Append(ring, e)) /\ got' = got
        /\ raced' = (raced \/ \E r \in Readers : conn[r].pc = "replay")
    BY DEF Emit
  <1>2. /\ seq \in Nat /\ ring \in Seq(Events) /\ Len(ring) <= RingSize /\ Len(ring) <= seq
        /\ \A i \in DOMAIN ring : ring[i] = seq - Len(ring) + i
        /\ TypeOK /\ ClientsOn /\ e \in Events /\ {} \in SUBSET Connections
    <2>1. seq \in 0..LastEvent /\ LastEvent \in Nat BY ConstantsAssumption DEF LiveInv, TypeOK
    <2> QED BY <1>1, <2>1 DEF LiveInv, TypeOK, ResumeInv, RingIsTail, Events
  <1>3. RingIsTail'
    <2>1. PICK kept, n : kept = ring' /\ n = Len(kept) OBVIOUS
    <2>2. /\ kept \in Seq(Events) /\ n \in {Len(ring), Len(ring) + 1} /\ kept[n] = e
          /\ \A i \in DOMAIN kept : i # n =>
               /\ i + (Len(ring) + 1 - n) \in DOMAIN ring
               /\ kept[i] = ring[i + (Len(ring) + 1 - n)]
      <3>1. kept = Kept(Append(ring, e)) BY <1>1, <2>1
      <3>2. ring \in Seq(Events) /\ Len(ring) <= RingSize /\ e \in Events BY <1>2
      <3>3. /\ kept \in Seq(Events) /\ Len(kept) \in {Len(ring), Len(ring) + 1}
            /\ kept[Len(kept)] = e
            /\ \A i \in DOMAIN kept : i # Len(kept) =>
                 /\ i + (Len(ring) + 1 - Len(kept)) \in DOMAIN ring
                 /\ kept[i] = ring[i + (Len(ring) + 1 - Len(kept))]
        BY <3>1, <3>2, KeptEvents
      <3> QED BY <2>1, <3>3
    <2>3. PICK m \in Nat : m = Len(ring) /\ m <= seq BY <1>2
    <2>4. n <= seq + 1 /\ n \in Nat BY <1>2, <2>2, <2>3
    <2>5. ASSUME NEW i \in DOMAIN kept PROVE kept[i] = seq + 1 - n + i
      <3>1. i \in Nat BY <2>2
      <3>2. CASE i = n BY <1>2, <2>2, <2>4, <3>2
      <3>3. CASE i # n
        <4>1. PICK j : j = i + (m + 1 - n) OBVIOUS
        <4>2. kept[i] = ring[j] /\ ring[j] = seq - m + j BY <1>2, <2>2, <2>3, <3>3, <4>1
        <4>3. seq - m + j = seq + 1 - n + i BY <1>2, <2>3, <2>4, <3>1, <4>1
        <4> QED BY <4>2, <4>3
      <3> QED BY <3>2, <3>3
    <2>6. seq' = seq + 1 /\ Len(ring') = n BY <1>1, <2>1
    <2>7. Len(ring') <= seq' BY <2>4, <2>6
    <2>8. \A i \in DOMAIN ring' : ring'[i] = seq' - Len(ring') + i
      <3>1. PICK s : s = seq + 1 OBVIOUS
      <3>2. \A i \in DOMAIN kept : kept[i] = s - n + i
        <4>1. seq + (1 - n) = s - n BY <1>2, <2>4, <3>1
        <4> QED BY <2>5, <4>1
      <3>3. seq' = s /\ ring' = kept BY <2>1, <2>6, <3>1
      <3> QED BY <2>1, <3>2, <3>3
    <2> QED BY <2>7, <2>8 DEF RingIsTail
  <1>4. /\ \A r \in Readers :
             /\ conn'[r].pc = conn[r].pc /\ conn'[r].after = conn[r].after
             /\ ~On(r) => conn'[r].out = conn[r].out
    <2>1. \/ conn' = conn \/ \E i \in DOMAIN clients : VisitsNext(e, {}, i)
      BY <1>1, <1>2, VisitShape
    <2>2. \A i \in DOMAIN clients : On(clients[i][1]) BY <1>2, ClientsAreOn
    <2> QED BY <1>2, <2>1, <2>2, VisitFields
  <1>5. Named' BY <1>1, <1>4 DEF ResumeInv, Named, On, LastReceived
  <1>6. ASSUME ~raced'
        PROVE  /\ \A r \in Readers : Continuous(got[r])'
               /\ \A r \in Readers : On(r)' => Resumes(conn[r])'
    <2>1. ~raced /\ \A r \in Readers : conn[r].pc # "replay" BY <1>1, <1>6
    <2>2. seq <= seq' /\ e <= seq' /\ seq' \in Int BY <1>1, <1>2
    <2>3. ASSUME NEW r \in Readers PROVE Continuous(got[r])'
      <3>1. PICK frames \in Seq(Frames) : frames = got[r] BY <1>2 DEF TypeOK
      <3>2. Continuous(frames) BY <2>1, <3>1 DEF ResumeInv
      <3>3. Continuous(frames)' BY <1>2, <2>2, <3>2, ReceivedKept
      <3> QED BY <1>1, <3>1, <3>3
    <2>4. ASSUME NEW r \in Readers, On(r)' PROVE Resumes(conn[r])'
      <3>1. On(r) BY <1>4, <2>4 DEF On
      <3>2. Resumes(conn[r]) /\ RingIsTail BY <2>1, <3>1 DEF ResumeInv
      <3>3. e > conn[r].watermark
        <4>1. conn[r].watermark <= seq /\ conn[r].watermark \in Nat
          BY <1>2, <3>2, ConnTypes DEF Resumes
        <4> QED BY <1>2, <4>1
      <3> QED BY <1>1, <1>2, <2>1, <2>2, <3>1, <3>2, <3>3, VisitResumes
    <2> QED BY <2>3, <2>4
  <1> QED BY <1>3, <1>5, <1>6 DEF ResumeInv

LEMMA BroadcastKeepsResume ==
  ASSUME LiveInv, LiveInv', ResumeInv, NEW e \in Events, BroadcastStep(e)
  PROVE  ResumeInv'
  <1> PICK visited : visited = loop[e].visited OBVIOUS
  <1>1. /\ Active(e) /\ Visit(e, visited) /\ UNCHANGED <<seq, ring, clients, got, raced>>
    BY DEF BroadcastStep, Ready, Active
  <1>2. /\ TypeOK /\ ClientsOn /\ visited \in SUBSET Connections /\ e <= seq
        /\ seq \in Nat
    <2>1. seq \in 0..LastEvent /\ LastEvent \in Nat BY ConstantsAssumption DEF LiveInv, TypeOK
    <2> QED BY <1>1, <2>1 DEF LiveInv, TypeOK, LoopRecords, LoopsKnown
  <1>3. RingIsTail' BY <1>1 DEF ResumeInv, RingIsTail
  <1>4. /\ \A r \in Readers :
             /\ conn'[r].pc = conn[r].pc /\ conn'[r].after = conn[r].after
             /\ ~On(r) => conn'[r].out = conn[r].out
    <2>1. \/ conn' = conn \/ \E i \in DOMAIN clients : VisitsNext(e, visited, i)
      BY <1>1, <1>2, VisitShape
    <2>2. \A i \in DOMAIN clients : On(clients[i][1]) BY <1>2, ClientsAreOn
    <2> QED BY <1>2, <2>1, <2>2, VisitFields
  <1>5. Named' BY <1>1, <1>4 DEF ResumeInv, Named, On, LastReceived
  <1>6. ASSUME ~raced
        PROVE  /\ \A r \in Readers : Continuous(got[r])'
               /\ \A r \in Readers : On(r)' => Resumes(conn[r])'
    <2>1. \A r \in Readers : Continuous(got[r])' BY <1>1, <1>6 DEF ResumeInv, Continuous
    <2>2. ASSUME NEW r \in Readers, On(r)' PROVE Resumes(conn[r])'
      <3>1. On(r) BY <1>4, <2>2 DEF On
      <3>2. Resumes(conn[r]) /\ RingIsTail BY <1>6, <3>1 DEF ResumeInv
      <3>3. e > conn[r].watermark /\ conn[r].pc # "replay" BY <1>1, <3>2 DEF Resumes
      <3>4. seq <= seq' /\ e <= seq' BY <1>1, <1>2
      <3> QED BY <1>1, <1>2, <3>1, <3>2, <3>3, <3>4, VisitResumes
    <2> QED BY <2>1, <2>2
  <1> QED BY <1>1, <1>3, <1>5, <1>6 DEF ResumeInv


\* The place of the next event to replay: the one after the last event the
\* client has, if the ring holds it.
LEMMA AttachResumes ==
  ASSUME LiveInv, ResumeInv, NEW r \in Readers, Attach(r), ~raced',
         NEW k \in ConnRecords, NEW n \in ConnRecords, Writes(r, k, n),
         k.after = LastReceived(r), k.watermark = seq, k.index = 1, k.out = <<>>
  PROVE  Resumes(n)'
  <1>1. /\ UNCHANGED <<seq, ring, loop, got>> /\ ~raced /\ \A e \in Events : ~Active(e)
        /\ k.after # None => ~(k.after + Len(ring) < seq)
    BY DEF Attach, Active
  <1>2. /\ seq \in Nat /\ Len(ring) \in Nat /\ DOMAIN ring = 1..Len(ring) /\ ring \in Seq(Events)
        /\ \A i \in DOMAIN ring : ring[i] = seq - Len(ring) + i
        /\ Len(ring) <= seq
    BY ConnTypes DEF LiveInv, ResumeInv, RingIsTail
  <1>3. ASSUME k.after # None PROVE k.after \in Nat /\ k.after <= seq
    <2>1. got[r] \in Seq(Frames) /\ LastReceived(r) = LastOf(got[r])
      BY ConnTypes DEF LiveInv, LastReceived, LastOf
    <2>2. EventsIn(got[r]) # {} BY <1>3, <2>1, LastIs
    <2>3. LastOf(got[r]) \in Events BY <2>1, <2>2, LastIs
    <2>4. LastOf(got[r]) <= seq BY <1>1, <2>2 DEF ResumeInv, Continuous
    <2> QED BY <2>1, <2>3, <2>4 DEF Events
  <1>4. /\ n.after = k.after /\ n.watermark = seq /\ Base(n) = Base(k) /\ n.watermark <= seq
        /\ Base(k) \in Nat /\ Base(k) <= seq /\ n.pc # "off"
        /\ k.after # None => Base(k) = k.after
    <2>1. n.after = k.after /\ n.watermark = seq /\ n.pc # "off" BY DEF Writes
    <2> QED BY <1>2, <1>3, <2>1 DEF Base
  <1>5. CASE /\ \A i \in k.index..Len(ring) : k.after = None \/ ~Replayed(k, ring[i])
             /\ n.pc = "live" /\ n.out = Append(k.out, [id |-> 0, live |-> FALSE])
    <2>1. Base(k) = seq
      <3>1. CASE k.after = None BY <3>1 DEF Base
      <3>2. CASE k.after # None
        <4> SUFFICES ASSUME k.after < seq PROVE FALSE BY <1>3, <1>4, <3>2, <1>2
        <4>1. Len(ring) \in 1..Len(ring) BY <1>1, <1>2, <1>3, <3>2
        <4>2. ring[Len(ring)] = seq
          <5>1. seq - Len(ring) + Len(ring) = seq BY <1>2
          <5> QED BY <1>2, <4>1, <5>1
        <4>3. Len(ring) \in k.index..Len(ring) BY <4>1
        <4>4. seq <= seq BY <1>2
        <4> QED BY <1>5, <3>2, <4>2, <4>3, <4>4 DEF Replayed
      <3> QED BY <3>1, <3>2
    <2>2. PICK f : f = [id |-> 0, live |-> FALSE] OBVIOUS
    <2>3. n.out = <<f>> /\ f.id = 0 BY <1>5, <2>2
    <2>4. DOMAIN n.out = {1} /\ n.out[1].id = 0 /\ n.out[1].live = FALSE BY <2>2, <2>3
    <2>5. EventsIn(n.out) = {} /\ LiveAt(n) = {} BY <2>4 DEF EventsIn, LiveAt
    <2>6. Ids(n.out, EventsIn(n.out)) = {} /\ Ids(n.out, LiveAt(n)) = {}
          /\ InOrderFrom(Base(n) + 1, n.out, EventsIn(n.out))
      BY <2>5 DEF Ids, InOrderFrom
    <2>7. (Base(n) + 1)..n.watermark = {} BY <1>2, <1>4, <2>1
    <2>8. \A e \in Events : ~Active(e)' BY <1>1 DEF Active
    <2> QED BY <1>1, <1>4, <1>5, <2>6, <2>7, <2>8 DEF Resumes
  <1>6. CASE \E i \in k.index..Len(ring) :
               /\ k.after # None /\ Replayed(k, ring[i])
               /\ \A j \in k.index..(i - 1) : ~Replayed(k, ring[j])
               /\ n.pc = "replay" /\ n.out = Append(k.out, [id |-> ring[i], live |-> FALSE])
               /\ n.index = i + 1
    <2>1. PICK i \in k.index..Len(ring) :
               /\ k.after # None /\ Replayed(k, ring[i])
               /\ \A j \in k.index..(i - 1) : ~Replayed(k, ring[j])
               /\ n.pc = "replay" /\ n.out = Append(k.out, [id |-> ring[i], live |-> FALSE])
               /\ n.index = i + 1
      BY <1>6
    <2>2. i \in Nat /\ i >= 1 /\ i \in DOMAIN ring /\ ring[i] = seq - Len(ring) + i
      BY <1>2, <2>1
    <2>3. k.after < ring[i] /\ k.after \in Nat BY <1>3, <2>1 DEF Replayed
    <2>16. PICK len \in Nat : len = Len(ring) /\ len <= seq /\ i <= len
      <3>1. i <= Len(ring) BY <1>2, <2>2
      <3> QED BY <1>2, <3>1
    <2>4. PICK id \in Nat : id = ring[i] /\ id # 0 /\ id = seq - len + i
      <3>1. ring[i] \in Events BY <1>2, <2>2
      <3> QED BY <2>2, <2>16, <3>1 DEF Events
    <2>5. id = k.after + 1
      <3>1. CASE i = 1
        <4>1. k.after < id /\ ~(k.after + len < seq) BY <1>1, <2>1, <2>3, <2>4, <2>16
        <4> QED BY <1>2, <2>3, <2>4, <3>1, <4>1
      <3>2. CASE i # 1
        <4>1. PICK j \in Nat : j = i - 1 /\ j \in k.index..(i - 1) /\ j \in DOMAIN ring
          BY <1>2, <2>2, <3>2
        <4>2. ring[j] = seq - Len(ring) + j /\ ~Replayed(k, ring[j]) BY <1>2, <2>1, <4>1
        <4>3. ring[j] = id - 1
          <5>1. ring[j] = seq - len + j BY <2>16, <4>2
          <5>2. seq - len + j = id - 1 BY <1>2, <2>2, <2>4, <4>1
          <5> QED BY <5>1, <5>2
        <4>4. id - 1 <= seq
          <5>1. PICK s \in Nat : s = seq BY <1>2
          <5>2. id = s - len + i /\ i <= len BY <2>4, <2>16, <5>1
          <5>3. id - 1 <= s BY <2>2, <5>2
          <5> QED BY <5>1, <5>3
        <4>5. ~(k.after < id - 1) BY <4>2, <4>3, <4>4 DEF Replayed
        <4> QED BY <2>3, <2>4, <4>5
      <3> QED BY <3>1, <3>2
    <2>6. PICK f : f = [id |-> id, live |-> FALSE] OBVIOUS
    <2>7. n.out = <<f>> /\ f.id = id /\ f.live = FALSE
      <3>1. Append(<<>>, f) = <<f>> OBVIOUS
      <3> QED BY <2>1, <2>4, <2>6, <3>1
    <2>8. DOMAIN n.out = {1} /\ n.out[1] = f BY <2>7
    <2>9. EventsIn(n.out) = {1} /\ LiveAt(n) = {} BY <2>4, <2>7, <2>8 DEF EventsIn, LiveAt
    <2>10. Ids(n.out, EventsIn(n.out)) = {id} BY <2>7, <2>8, <2>9 DEF Ids
    <2>11. Base(n) = k.after BY <1>4, <2>1
    <2>12. InOrderFrom(Base(n) + 1, n.out, EventsIn(n.out))
      <3>1. {n.out[j].id : j \in {l \in {1} : l < 1}} = {} OBVIOUS
      <3>2. (Base(n) + 1)..(id - 1) = {} BY <2>3, <2>5, <2>11
      <3> QED BY <2>7, <2>8, <2>9, <3>1, <3>2 DEF InOrderFrom
    <2>13. n.index - 1 = i BY <2>1, <2>2
    <2>14. (n.after + 1)..ring[n.index - 1] = {id}
      <3>1. n.after + 1 = id /\ ring[n.index - 1] = id BY <1>4, <2>4, <2>5, <2>13
      <3>2. id..id = {id} OBVIOUS
      <3> QED BY <3>1, <3>2
    <2>15. \A e \in Events : ~Active(e)' BY <1>1 DEF Active
    <2> QED BY <1>1, <1>4, <2>1, <2>2, <2>3, <2>9, <2>10, <2>11, <2>12, <2>13, <2>14, <2>15
            DEF Resumes
  <1> QED BY <1>5, <1>6 DEF Writes


LEMMA AttachKeepsResume ==
  ASSUME LiveInv, ResumeInv, NEW r \in Readers, Attach(r)
  PROVE  ResumeInv'
  <1>1. /\ ~On(r) /\ UNCHANGED <<seq, ring, loop, got>> /\ TypeOK /\ (raced => raced')
    BY DEF Attach, On, LiveInv
  <1>2. PICK k \in ConnRecords, n \in ConnRecords :
           /\ k.number = conn[r].number + 1 /\ k.after = LastReceived(r) /\ k.watermark = seq
           /\ k.index = 1 /\ k.out = <<>> /\ k.accepted = 0
           /\ Writes(r, k, n)
    BY <1>1, AttachShape
  <1>3. /\ conn'[r] = n /\ n.after = LastReceived(r) /\ n.pc # "off"
        /\ \A s \in Readers : s # r => conn'[s] = conn[s]
    BY <1>1, <1>2 DEF Writes, TypeOK
  <1>4. RingIsTail' BY <1>1 DEF ResumeInv, RingIsTail
  <1>5. Named' BY <1>1, <1>3 DEF ResumeInv, Named, On, LastReceived
  <1>6. ASSUME ~raced'
        PROVE  /\ \A s \in Readers : Continuous(got[s])'
               /\ \A s \in Readers : On(s)' => Resumes(conn[s])'
    <2>1. \A s \in Readers : Continuous(got[s])' BY <1>1, <1>6 DEF ResumeInv, Continuous
    <2>2. Resumes(n)' BY <1>2, <1>6, AttachResumes
    <2>3. ASSUME NEW s \in Readers, On(s)' PROVE Resumes(conn[s])'
      <3>1. CASE s = r BY <1>3, <2>2, <3>1 DEF Resumes, Active
      <3>2. CASE s # r
        <4>1. conn'[s] = conn[s] BY <1>3, <3>2
        <4>2. Resumes(conn[s]) BY <1>1, <1>6, <2>3, <4>1 DEF ResumeInv, On
        <4>3. UNCHANGED <<seq, ring, loop>> BY <1>1
        <4> QED BY <4>1, <4>2, <4>3 DEF Resumes, Active
      <3> QED BY <3>1, <3>2
    <2> QED BY <2>1, <2>3
  <1> QED BY <1>4, <1>5, <1>6 DEF ResumeInv

LEMMA ReplayResumes ==
  ASSUME LiveInv, ResumeInv, NEW r \in Readers, Resumes(conn[r]), conn[r].pc = "replay",
         NEW n \in ConnRecords, Writes(r, conn[r], n), UNCHANGED <<seq, ring, loop>>
  PROVE  Resumes(n)'
  <1>1. PICK k : k = conn[r] OBVIOUS
  <1>2. /\ seq \in Nat /\ Len(ring) \in Nat /\ DOMAIN ring = 1..Len(ring) /\ ring \in Seq(Events)
        /\ \A i \in DOMAIN ring : ring[i] = seq - Len(ring) + i
        /\ k.out \in Seq(Frames)
        /\ k.after # None => k.after \in Nat
    BY <1>1, ConnTypes DEF LiveInv, ResumeInv, RingIsTail
  <1>3. /\ k.after # None /\ k.watermark = seq /\ k.index - 1 \in DOMAIN ring
        /\ k.after < ring[k.index - 1] /\ LiveAt(k) = {} /\ \A e \in Events : ~Active(e)
        /\ Ids(k.out, EventsIn(k.out)) = (k.after + 1)..ring[k.index - 1]
        /\ Base(k) = k.after /\ InOrderFrom(k.after + 1, k.out, EventsIn(k.out))
        /\ k.after <= seq
    BY <1>1 DEF Resumes, Base
  <1>4. PICK after \in Nat, p \in DOMAIN ring : after = k.after /\ p = k.index - 1
    BY <1>2, <1>3
  <1>5. p \in Nat /\ p >= 1 /\ p <= Len(ring) /\ k.index = p + 1
    <2>1. k.index \in Nat BY <1>1, ConnTypes DEF LiveInv
    <2> QED BY <1>2, <1>4, <2>1
  <1>6. PICK len \in Nat, last \in Int :
          len = Len(ring) /\ last = ring[p] /\ last = seq - len + p /\ after < last
    <2>1. PICK len \in Nat : len = Len(ring) BY <1>2
    <2>2. seq - len + p \in Int BY <1>2, <1>5
    <2>3. ring[p] = seq - len + p BY <1>2, <2>1
    <2>4. after < ring[p] BY <1>3, <1>4
    <2> QED BY <2>1, <2>2, <2>3, <2>4
  <1>7. \A i \in (p + 1)..len : ring[i] = seq - len + i /\ Replayed(k, ring[i])
    <2> SUFFICES ASSUME NEW i \in (p + 1)..len
                 PROVE  ring[i] = seq - len + i /\ Replayed(k, ring[i])
      OBVIOUS
    <2>1. i \in Nat /\ i > p /\ i <= len /\ i \in DOMAIN ring BY <1>2, <1>5, <1>6
    <2>2. ring[i] = seq - len + i BY <1>2, <1>6, <2>1
    <2>3. PICK s \in Nat, id \in Int : s = seq /\ id = ring[i] /\ id = s - len + i
      <3>1. seq - len + i \in Int BY <1>2, <2>1
      <3> QED BY <1>2, <2>2, <3>1
    <2>4. after < id /\ id <= s BY <1>5, <1>6, <2>1, <2>3
    <2> QED BY <1>3, <1>4, <2>2, <2>3, <2>4 DEF Replayed
  <1>8. /\ n.after = after /\ n.watermark = seq /\ Base(n) = after /\ n.watermark <= seq
        /\ Base(n) <= n.watermark /\ \A e \in Events : ~Active(e)'
    <2>1. n.after = k.after /\ n.watermark = k.watermark BY <1>1 DEF Writes
    <2>2. \A e \in Events : ~Active(e)' BY <1>3 DEF Active
    <2>3. seq <= seq BY <1>2
    <2> QED BY <1>2, <1>3, <1>4, <2>1, <2>2, <2>3 DEF Base
  <1>9. PICK out \in Seq(Frames) : out = k.out BY <1>2
  <1>10. /\ InOrderFrom(after + 1, out, EventsIn(out)) /\ after + 1 \in Int
         /\ Ids(out, EventsIn(out)) = (after + 1)..last
    <2>1. after + 1 \in Int OBVIOUS
    <2> QED BY <1>3, <1>4, <1>6, <1>9, <2>1
  <1>11. {i \in DOMAIN out : out[i].live /\ out[i].id > seq} = {}
    BY <1>3, <1>9 DEF LiveAt
  <1>12. CASE /\ \A i \in k.index..Len(ring) : k.after = None \/ ~Replayed(k, ring[i])
              /\ n.pc = "live" /\ n.out = Append(k.out, [id |-> 0, live |-> FALSE])
    <2>1. p = len /\ last = seq
      <3>1. ~(p < len)
        <4> SUFFICES ASSUME p < len PROVE FALSE OBVIOUS
        <4>1. p + 1 \in (p + 1)..len /\ p + 1 \in k.index..Len(ring) BY <1>5, <1>6
        <4> QED BY <1>3, <1>7, <1>12, <4>1
      <3>2. p = len BY <1>5, <1>6, <3>1
      <3>3. seq - len + len = seq BY <1>2
      <3> QED BY <1>6, <3>2, <3>3
    <2>2. PICK f \in Frames : f = [id |-> 0, live |-> FALSE] BY FrameType
    <2>3. PICK longer : longer = Append(out, f) OBVIOUS
    <2>4. f.id = 0 /\ f.live = FALSE /\ n.out = longer BY <1>9, <1>12, <2>2, <2>3
    <2>5. /\ InOrderFrom(after + 1, longer, EventsIn(longer))
          /\ Ids(longer, EventsIn(longer))
               = Ids(out, EventsIn(out)) \cup (IF f.id = 0 THEN {} ELSE {f.id})
          /\ DOMAIN longer = DOMAIN out \cup {Len(out) + 1}
          /\ longer[Len(out) + 1] = f /\ \A i \in DOMAIN out : longer[i] = out[i]
      <3>1. FrameAdded(out, f, longer, after + 1) BY <1>10, <2>3, <2>4, FrameAdds
      <3> QED BY <3>1 DEF FrameAdded
    <2>6. LiveAt(n) = {}
      <3>1. LiveAt(n) = {i \in DOMAIN longer : longer[i].live /\ longer[i].id > seq}
        BY <1>8, <2>4 DEF LiveAt
      <3> QED BY <1>11, <2>4, <2>5, <3>1
    <2>7. Ids(longer, {}) = {} BY DEF Ids
    <2>8. Ids(longer, EventsIn(longer)) = (after + 1)..seq BY <1>10, <2>1, <2>4, <2>5
    <2> QED BY <1>8, <1>12, <2>4, <2>5, <2>6, <2>7, <2>8 DEF Resumes
  <1>13. CASE \E i \in k.index..Len(ring) :
               /\ k.after # None /\ Replayed(k, ring[i])
               /\ \A j \in k.index..(i - 1) : ~Replayed(k, ring[j])
               /\ n.pc = "replay" /\ n.out = Append(k.out, [id |-> ring[i], live |-> FALSE])
               /\ n.index = i + 1
    <2>1. PICK i \in k.index..Len(ring) :
               /\ Replayed(k, ring[i]) /\ \A j \in k.index..(i - 1) : ~Replayed(k, ring[j])
               /\ n.pc = "replay" /\ n.out = Append(k.out, [id |-> ring[i], live |-> FALSE])
               /\ n.index = i + 1
      BY <1>13
    <2>2. i = p + 1
      <3> SUFFICES ASSUME p + 1 < i PROVE FALSE BY <1>5, <1>6, <2>1
      <3>1. p + 1 \in k.index..(i - 1) /\ p + 1 \in (p + 1)..len BY <1>5, <1>6, <2>1
      <3> QED BY <1>7, <2>1, <3>1
    <2>3. i \in DOMAIN ring /\ i \in (p + 1)..len /\ i \in Nat BY <1>2, <1>5, <1>6, <2>1, <2>2
    <2>4. PICK id \in Events : id = ring[i] BY <1>2, <2>3
    <2>5. id = last + 1 /\ id \in Nat /\ id # 0 /\ after < id
      <3>1. id = seq - len + i BY <1>7, <2>3, <2>4
      <3>2. id \in Nat /\ id # 0 BY DEF Events
      <3>3. PICK s \in Nat : s = seq BY <1>2
      <3>4. id = s - len + i /\ last = s - len + p BY <1>6, <3>1, <3>3
      <3>5. id = last + 1 BY <1>5, <2>2, <3>2, <3>4
      <3> QED BY <1>6, <3>2, <3>5
    <2>6. PICK f \in Frames : f = [id |-> id, live |-> FALSE] BY FrameType
    <2>7. PICK longer : longer = Append(out, f) OBVIOUS
    <2>8. f.id = id /\ f.live = FALSE /\ n.out = longer BY <1>9, <2>1, <2>4, <2>6, <2>7
    <2>9. Ids(out, EventsIn(out)) = (after + 1)..(f.id - 1)
      <3>1. f.id - 1 = last BY <1>6, <2>5, <2>8
      <3> QED BY <1>10, <3>1
    <2>10. /\ InOrderFrom(after + 1, longer, EventsIn(longer))
           /\ Ids(longer, EventsIn(longer))
               = Ids(out, EventsIn(out)) \cup (IF f.id = 0 THEN {} ELSE {f.id})
           /\ DOMAIN longer = DOMAIN out \cup {Len(out) + 1}
           /\ longer[Len(out) + 1] = f /\ \A j \in DOMAIN out : longer[j] = out[j]
      <3>1. FrameAdded(out, f, longer, after + 1) BY <1>10, <2>7, <2>9, FrameAdds
      <3> QED BY <3>1 DEF FrameAdded
    <2>11. LiveAt(n) = {}
      <3>1. LiveAt(n) = {j \in DOMAIN longer : longer[j].live /\ longer[j].id > seq}
        BY <1>8, <2>8 DEF LiveAt
      <3> QED BY <1>11, <2>8, <2>10, <3>1
    <2>12. Ids(longer, EventsIn(longer)) = (after + 1)..id
      <3>1. ((after + 1)..(id - 1)) \cup {id} = (after + 1)..id BY <2>5
      <3> QED BY <2>5, <2>8, <2>9, <2>10, <3>1
    <2>13. n.index - 1 = i /\ ring[n.index - 1] = id BY <2>1, <2>3, <2>4
    <2>14. n.after # None BY <1>3, <1>4, <1>8
    <2> QED BY <1>8, <2>1, <2>3, <2>4, <2>5, <2>8, <2>10, <2>11, <2>12, <2>13, <2>14 DEF Resumes
  <1> QED BY <1>1, <1>12, <1>13 DEF Writes


LEMMA ReplayKeepsResume ==
  ASSUME LiveInv, ResumeInv, NEW r \in Readers, ReplayStep(r)
  PROVE  ResumeInv'
  <1>1. /\ conn[r].pc = "replay" /\ On(r) /\ WriteNext(r, conn[r]) /\ conn[r] \in ConnRecords
        /\ UNCHANGED <<seq, ring, clients, loop, got, raced>> /\ TypeOK
    BY DEF ReplayStep, ReplayReady, On, LiveInv, TypeOK
  <1>2. PICK n \in ConnRecords : Writes(r, conn[r], n) BY <1>1, WriteNextShape
  <1>3. /\ conn'[r] = n /\ n.after = conn[r].after /\ n.pc # "off"
        /\ \A s \in Readers : s # r => conn'[s] = conn[s]
    BY <1>1, <1>2 DEF Writes, TypeOK
  <1>4. RingIsTail' BY <1>1 DEF ResumeInv, RingIsTail
  <1>5. Named' BY <1>1, <1>3 DEF ResumeInv, Named, On, LastReceived
  <1>6. ASSUME ~raced
        PROVE  /\ \A s \in Readers : Continuous(got[s])'
               /\ \A s \in Readers : On(s)' => Resumes(conn[s])'
    <2>1. \A s \in Readers : Continuous(got[s])' BY <1>1, <1>6 DEF ResumeInv, Continuous
    <2>2. Resumes(n)'
      <3>1. Resumes(conn[r]) BY <1>1, <1>6 DEF ResumeInv
      <3> QED BY <1>1, <1>2, <3>1, ReplayResumes
    <2>3. ASSUME NEW s \in Readers, On(s)' PROVE Resumes(conn[s])'
      <3>1. CASE s = r BY <1>3, <2>2, <3>1 DEF Resumes, Active
      <3>2. CASE s # r
        <4>1. conn'[s] = conn[s] BY <1>3, <3>2
        <4>2. Resumes(conn[s]) BY <1>6, <2>3, <4>1 DEF ResumeInv, On
        <4> QED BY <1>1, <4>1, <4>2 DEF Resumes, Active
      <3> QED BY <3>1, <3>2
    <2> QED BY <2>1, <2>3
  <1> QED BY <1>1, <1>4, <1>5, <1>6 DEF ResumeInv

LEMMA AcceptKeepsResume ==
  ASSUME LiveInv, ResumeInv, NEW r \in Readers, Accept(r)
  PROVE  ResumeInv'
  <1>1. /\ UNCHANGED <<seq, ring, clients, loop, got, raced>>
        /\ conn' = [conn EXCEPT ![r].accepted = @ + 1] /\ conn \in [Readers -> ConnRecords]
    BY DEF Accept, LiveInv, TypeOK
  <1>2. \A s \in Readers :
          /\ conn'[s].pc = conn[s].pc /\ conn'[s].out = conn[s].out
          /\ conn'[s].after = conn[s].after /\ conn'[s].watermark = conn[s].watermark
          /\ conn'[s].index = conn[s].index
    BY <1>1 DEF ConnRecords
  <1>3. RingIsTail' BY <1>1 DEF ResumeInv, RingIsTail
  <1>4. Named'
    <2> SUFFICES ASSUME NEW s \in Readers
                 PROVE  IF On(s)' THEN conn'[s].after = LastReceived(s)' ELSE conn'[s].out = <<>>
      BY DEF Named
    <2>1. IF On(s) THEN conn[s].after = LastReceived(s) ELSE conn[s].out = <<>>
      BY DEF ResumeInv, Named
    <2>2. On(s)' <=> On(s) BY <1>2 DEF On
    <2>3. LastReceived(s)' = LastReceived(s) BY <1>1 DEF LastReceived
    <2> QED BY <1>2, <2>1, <2>2, <2>3
  <1>5. ASSUME ~raced
        PROVE  /\ \A s \in Readers : Continuous(got[s])'
               /\ \A s \in Readers : On(s)' => Resumes(conn[s])'
    <2>1. \A s \in Readers : Continuous(got[s])' BY <1>1, <1>5 DEF ResumeInv, Continuous
    <2>2. ASSUME NEW s \in Readers, On(s)' PROVE Resumes(conn[s])'
      <3>1. Resumes(conn[s]) BY <1>2, <1>5, <2>2 DEF ResumeInv, On
      <3>2. PICK k, n : k = conn[s] /\ n = conn'[s] OBVIOUS
      <3>3. Resumes(n)' BY <1>1, <1>2, <3>1, <3>2, ResumesKept
      <3> QED BY <3>2, <3>3 DEF Resumes, Active
    <2> QED BY <2>1, <2>2
  <1> QED BY <1>1, <1>3, <1>4, <1>5 DEF ResumeInv

LEMMA DetachKeepsResume ==
  ASSUME LiveInv, ResumeInv, NEW r \in Readers, Detach(r)
  PROVE  ResumeInv'
  <1>1. /\ On(r) /\ UNCHANGED <<seq, ring, loop, raced>>
        /\ TypeOK /\ ClientsOn /\ AcceptedSent
    BY DEF Detach, On, LiveInv
  <1>2. /\ \A s \in Readers : s # r => conn'[s] = conn[s]
        /\ conn'[r].pc = "off" /\ conn'[r].out = <<>>
        /\ \E n \in 0..Len(conn[r].out) :
              got' = [got EXCEPT ![r] = got[r] \o SubSeq(conn[r].out, 1, n)]
    BY <1>1, DetachShape
  <1>3. PICK n \in 0..Len(conn[r].out) :
          got' = [got EXCEPT ![r] = got[r] \o SubSeq(conn[r].out, 1, n)]
    BY <1>2
  <1>4. PICK frames : frames = got[r] \o SubSeq(conn[r].out, 1, n) OBVIOUS
  <1>5. got'[r] = frames /\ \A s \in Readers : s # r => got'[s] = got[s]
    BY <1>1, <1>3, <1>4 DEF TypeOK
  <1>6. RingIsTail' BY <1>1 DEF ResumeInv, RingIsTail
  <1>7. Named'
    <2> SUFFICES ASSUME NEW s \in Readers
                 PROVE  IF On(s)' THEN conn'[s].after = LastReceived(s)' ELSE conn'[s].out = <<>>
      BY DEF Named
    <2>1. CASE s = r BY <1>2, <2>1 DEF On
    <2>2. CASE s # r
      <3>1. IF On(s) THEN conn[s].after = LastReceived(s) ELSE conn[s].out = <<>>
        BY DEF ResumeInv, Named
      <3>2. conn'[s] = conn[s] BY <1>2, <2>2
      <3>3. LastReceived(s)' = LastReceived(s) BY <1>5, <2>2 DEF LastReceived
      <3>4. On(s)' <=> On(s) BY <3>2 DEF On
      <3> QED BY <3>1, <3>2, <3>3, <3>4
    <2> QED BY <2>1, <2>2
  <1>8. ASSUME ~raced
        PROVE  /\ \A s \in Readers : Continuous(got[s])'
               /\ \A s \in Readers : On(s)' => Resumes(conn[s])'
    <2>1. ASSUME NEW s \in Readers PROVE Continuous(got[s])'
      <3>1. CASE s = r
        <4>1. Continuous(frames) BY <1>1, <1>4, <1>8, JoinedInOrder
        <4> QED BY <1>1, <1>5, <3>1, <4>1 DEF Continuous
      <3>2. CASE s # r BY <1>1, <1>5, <1>8, <3>2 DEF ResumeInv, Continuous
      <3> QED BY <3>1, <3>2
    <2>2. ASSUME NEW s \in Readers, On(s)' PROVE Resumes(conn[s])'
      <3>1. s # r /\ conn'[s] = conn[s] BY <1>2, <2>2 DEF On
      <3>2. Resumes(conn[s]) BY <1>8, <2>2, <3>1 DEF ResumeInv, On
      <3> QED BY <1>1, <3>1, <3>2 DEF Resumes, Active
    <2> QED BY <2>1, <2>2
  <1> QED BY <1>1, <1>6, <1>7, <1>8 DEF ResumeInv

LEMMA InitResume ==
  ASSUME Init
  PROVE  ResumeInv
  <1>1. /\ seq = 0 /\ ring = <<>> /\ \A r \in Readers : ~On(r) /\ conn[r].out = <<>>
        /\ \A r \in Readers : got[r] = <<>>
    BY DEF Init, On
  <1>2. RingIsTail BY <1>1 DEF RingIsTail
  <1>3. Named BY <1>1 DEF Named
  <1>4. \A r \in Readers : EventsIn(got[r]) = {} BY <1>1 DEF EventsIn
  <1> QED BY <1>1, <1>2, <1>3, <1>4 DEF ResumeInv, Continuous

LEMMA StutterKeepsResume ==
  ASSUME ResumeInv, UNCHANGED vars
  PROVE  ResumeInv'
  <1>1. UNCHANGED <<seq, ring, clients, conn, loop, got, raced>> BY DEF vars
  <1>2. RingIsTail' BY <1>1 DEF ResumeInv, RingIsTail
  <1>3. Named' BY <1>1 DEF ResumeInv, Named, On, LastReceived
  <1>4. ASSUME ~raced
        PROVE  /\ \A s \in Readers : Continuous(got[s])'
               /\ \A s \in Readers : On(s)' => Resumes(conn[s])'
    BY <1>1, <1>4 DEF ResumeInv, Continuous, Resumes, Active, On
  <1> QED BY <1>1, <1>2, <1>3, <1>4 DEF ResumeInv

LEMMA NextKeepsResume ==
  ASSUME LiveInv, ResumeInv, [Next]_vars
  PROVE  ResumeInv'
  <1>. LiveInv' BY NextKeepsLive
  <1>1. CASE Emit BY <1>1, EmitKeepsResume
  <1>2. ASSUME NEW e \in Events, BroadcastStep(e) PROVE ResumeInv'
    BY <1>2, BroadcastKeepsResume
  <1>3. ASSUME NEW r \in Readers, Attach(r) PROVE ResumeInv' BY <1>3, AttachKeepsResume
  <1>4. ASSUME NEW r \in Readers, ReplayStep(r) PROVE ResumeInv' BY <1>4, ReplayKeepsResume
  <1>5. ASSUME NEW r \in Readers, Accept(r) PROVE ResumeInv' BY <1>5, AcceptKeepsResume
  <1>6. ASSUME NEW r \in Readers, Detach(r) PROVE ResumeInv' BY <1>6, DetachKeepsResume
  <1>7. CASE Rest BY <1>7, StutterKeepsResume DEF Rest
  <1>8. CASE UNCHANGED vars BY <1>8, StutterKeepsResume
  <1> QED BY <1>1, <1>2, <1>3, <1>4, <1>5, <1>6, <1>7, <1>8 DEF Next

\* A reader that attaches again and again, naming the last event it received,
\* receives a part of the events without a gap or a repetition, wherever its
\* connections were lost, unless an event has raced a replay or the ring no
\* longer held what it had missed (server.ts:849-858).
THEOREM ReplayResumesTheStream == Spec => []ReplayContinues
  <1>1. Init => ResumeInv BY InitResume
  <1>2. LiveInv /\ ResumeInv /\ [Next]_vars => ResumeInv' BY NextKeepsResume
  <1>3. LiveInv /\ ResumeInv => ReplayContinues BY ResumeContinues
  <1> QED BY <1>1, <1>2, <1>3, SpecLive, PTL DEF Spec


\* What the comment at server.ts:819-820 says ("no double-delivery") holds as
\* long as nobody attaches while an event is still being written, no event comes
\* during a replay, and the ring has what was missed.
THEOREM DisjointUnlessRaced == Spec => [](~raced => NoDoubleDelivery)
  <1>1. LiveInv /\ ResumeInv => (~raced => NoDoubleDelivery)
    <2> SUFFICES ASSUME LiveInv, ResumeInv, ~raced, NEW r \in Readers,
                        NEW i \in EventsIn(conn[r].out), NEW j \in EventsIn(conn[r].out),
                        conn[r].out[i].id = conn[r].out[j].id
                 PROVE  i = j
      BY DEF NoDoubleDelivery
    <2> PICK out, S : out = conn[r].out /\ S = EventsIn(conn[r].out) OBVIOUS
    <2>1. out \in Seq(Frames) /\ DOMAIN out = 1..Len(out) /\ Len(out) \in Nat
      <3>1. out \in Seq(Frames) BY ConnTypes DEF LiveInv
      <3> QED BY <3>1
    <2>2. i \in DOMAIN out /\ j \in DOMAIN out /\ S \subseteq DOMAIN out BY DEF EventsIn
    <2>3. On(r) BY <2>1, <2>2 DEF ResumeInv, Named
    <2>4. InOrderFrom(Base(conn[r]) + 1, out, S) BY <2>3 DEF ResumeInv, Resumes
    <2>5. ASSUME NEW a \in S, NEW b \in S, a < b PROVE out[a].id # out[b].id
      <3>1. {out[k].id : k \in {l \in S : l < b}} = (Base(conn[r]) + 1)..(out[b].id - 1)
        BY <2>4 DEF InOrderFrom
      <3>2. out[a].id \in (Base(conn[r]) + 1)..(out[b].id - 1) BY <2>5, <3>1
      <3>3. out[b].id \in Nat
        <4>1. out[b] \in Frames BY <2>1, <2>2
        <4> QED BY <4>1, ConstantsAssumption DEF Frames, Events
      <3> QED BY <3>2, <3>3
    <2>6. ~(i < j) /\ ~(j < i) BY <2>5
    <2> QED BY <2>1, <2>2, <2>6
  <1>2. Init => ResumeInv BY InitResume
  <1>3. LiveInv /\ ResumeInv /\ [Next]_vars => ResumeInv' BY NextKeepsResume
  <1> QED BY <1>1, <1>2, <1>3, SpecLive, PTL DEF Spec

=============================================================================
