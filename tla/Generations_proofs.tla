------------------------- MODULE Generations_proofs -------------------------
(***************************************************************************)
(* Proofs about Generations for any number of reloads and runs: type       *)
(* correctness, that one producer polls at a time, and that runs of a      *)
(* generation that was replaced are aborted.                               *)
(*                                                                         *)
(* The argument: a build that nobody has overlapped is the one whose       *)
(* runner is current, and the runner it has captured is the one that was   *)
(* current before; so a producer that was not told to stop is current or   *)
(* about to be stopped by the one build that has captured it.              *)
(***************************************************************************)
EXTENDS Generations, TLAPS

Swapped(b) == pc[b] \in {"workflows", "rest", "stopping"}

\* Only a build that has called start() has a producer.
Started == \A b \in Builds : producer[b] # "none" => pc[b] \in {"announce", "over"}

Captured == \A b \in Busy : previous[b] \in Builds

Overlaps ==
  /\ \A b, c \in Busy : b # c => b \in overlapped /\ c \in overlapped
  /\ exit # "up" => Busy \subseteq overlapped

\* How the current runner relates to the builds under way.
Current ==
  /\ \A b \in Builds : pc[b] = "load" =>
       previous[b] = integrationRunner \/ integrationRunner \in overlapped
  /\ \A b \in Builds : Swapped(b) =>
       integrationRunner = b \/ {b, integrationRunner} \subseteq overlapped
  /\ \A b, c \in Busy : previous[b] = previous[c] \/ {previous[b], previous[c]} \cap overlapped # {}

\* What a producer that was not told to stop waits for.
Watched ==
  \A p \in Unstopped \ (overlapped \cup forgotten) :
    /\ exit = "up"
    /\ \/ p = integrationRunner
       \/ \E b \in Builds : pc[b] \in {"workflows", "rest"} /\ previous[b] = p

BuildInv == Started /\ Captured /\ Overlaps /\ Current /\ Watched

\* The generation is current, was stopped, or was built beside another one.
Served(g) == g = workflowRunner \/ g \in stopped \cup overlapped

Replaced == workflowRunner \in stopped \cup overlapped

RunsHeard ==
  \A r \in Runs : gen[r] # None =>
    /\ r \in aborted \cup late \/ gen[r] \notin stopped
    /\ Served(gen[r])

RunnersServed ==
  /\ \A p \in Builds : producer[p] # "none" => Served(p)
  /\ \A b \in Builds : pc[b] \in {"rest", "stopping"} => Served(b)
  /\ \A b \in Builds : pc[b] = "workflows" => Replaced
  /\ exit = "gone" => Replaced

RunInv == RunsHeard /\ RunnersServed

GenerationsInv == TypeOK /\ BuildInv /\ RunInv

-----------------------------------------------------------------------------
LEMMA InvInit == Init => GenerationsInv
  <1> SUFFICES ASSUME Init PROVE GenerationsInv OBVIOUS
  <1>1. TypeOK BY ConstantsAssumption DEF Init, TypeOK, Phases
  <1>2. BuildInv
    BY ConstantsAssumption
    DEF Init, BuildInv, Started, Captured, Overlaps, Current, Watched, Busy, Swapped,
        Unstopped
  <1>3. RunInv
    BY ConstantsAssumption DEF Init, RunInv, RunsHeard, RunnersServed, Served, Replaced
  <1> QED BY <1>1, <1>2, <1>3 DEF GenerationsInv

-----------------------------------------------------------------------------
(* Actions of producers and runs, and a reload before its build.           *)

LEMMA RunStep ==
  ASSUME GenerationsInv, NEW r \in Runs,
         \/ SessionEvent(r) \/ EndRun(r) \/ NextBinding(r)
         \/ \E p \in Builds : Emit(p, r)
         \/ \E b \in Builds : Announce(b, r)
  PROVE  GenerationsInv'
  <1> USE DEF GenerationsInv
  <1>0. UNCHANGED <<pc, previous, integrationRunner, workflowRunner, producer, told,
                    stopped, exit, history>>
    BY DEF SessionEvent, EndRun, NextBinding, Emit, Announce, buildVars
  <1>1. TypeOK'
    BY ConstantsAssumption
    DEF TypeOK, SessionEvent, EndRun, NextBinding, Emit, Announce, Begin, buildVars, history
  <1>2. BuildInv'
    BY <1>0
    DEF BuildInv, Started, Captured, Overlaps, Current, Watched, Busy, Swapped, Unstopped,
        history
  <1>3. RunnersServed'
    BY <1>0 DEF RunInv, RunnersServed, Served, Replaced, history
  <1>4. RunsHeard'
    <2> SUFFICES ASSUME NEW s \in Runs, gen'[s] # None
                 PROVE  /\ s \in (aborted \cup late)' \/ gen'[s] \notin stopped
                        /\ Served(gen'[s])
      BY <1>0 DEF RunsHeard, Served, history
    <2>1. CASE \E p \in Builds : Emit(p, r)
      BY <2>1 DEF TypeOK, RunInv, RunsHeard, RunnersServed, Emit, Begin
    <2>2. CASE SessionEvent(r) \/ \E b \in Builds : Announce(b, r)
      BY <2>2 DEF TypeOK, RunInv, RunsHeard, SessionEvent, Announce, Begin, Served
    <2>3. CASE EndRun(r) \/ NextBinding(r)
      BY <2>3 DEF TypeOK, RunInv, RunsHeard, EndRun, NextBinding
    <2> QED BY <2>1, <2>2, <2>3
  <1> QED BY <1>1, <1>2, <1>3, <1>4 DEF RunInv

LEMMA ProducerStep ==
  ASSUME GenerationsInv, NEW p \in Builds, ProducerReturns(p) \/ ProducerEnds(p)
  PROVE  GenerationsInv'
  <1> USE DEF GenerationsInv
  <1>1. TypeOK' BY DEF TypeOK, ProducerReturns, ProducerEnds, buildVars, runVars, history
  <1>2. UNCHANGED <<pc, previous, integrationRunner, workflowRunner, stopped, gen, aborted,
                    late, exit, overlapped, forgotten>>
    BY DEF ProducerReturns, ProducerEnds, buildVars, runVars, history
  <1>3. /\ \A b \in Builds : producer'[b] # "none" => producer[b] # "none"
        /\ Unstopped' \subseteq Unstopped
    BY DEF TypeOK, ProducerReturns, ProducerEnds, Unstopped
  <1>4. BuildInv'
    BY <1>2, <1>3 DEF BuildInv, Started, Captured, Overlaps, Current, Watched, Busy, Swapped
  <1>5. RunInv'
    BY <1>2, <1>3 DEF RunInv, RunsHeard, RunnersServed, Served, Replaced
  <1> QED BY <1>1, <1>4, <1>5

LEMMA QuietStep ==
  ASSUME GenerationsInv, NEW b \in Builds, Reload(b) \/ Finish(b) \/ LoadFails(b) \/ BindFails(b)
  PROVE  GenerationsInv'
  <1> USE DEF GenerationsInv
  <1>1. TypeOK'
    BY DEF TypeOK, Reload, Finish, LoadFails, BindFails, Goto, Leave, Phases, runVars, history
  <1>2. UNCHANGED <<integrationRunner, workflowRunner, producer, told, stopped, gen, aborted,
                    late, exit, overlapped, forgotten>>
    BY DEF Reload, Finish, LoadFails, BindFails, runVars, history
  <1>3. /\ pc[b] \in {"idle", "announce", "load", "stopping"}
        /\ pc' \in [Builds -> Phases] /\ pc'[b] \in {"shutdown", "over"}
        /\ pc[b] = "announce" => pc'[b] = "over"
        /\ pc[b] = "idle" => pc'[b] = "shutdown"
        /\ \A c \in Builds \ {b} : pc'[c] = pc[c] /\ previous'[c] = previous[c]
    BY <1>1 DEF TypeOK, Reload, Finish, LoadFails, BindFails, Goto, Leave
  <1>4. Started' BY <1>2, <1>3 DEF BuildInv, Started
  <1>5. Captured' /\ Overlaps' BY <1>2, <1>3 DEF BuildInv, Captured, Overlaps, Busy
  <1>6. Current' BY <1>2, <1>3 DEF BuildInv, Current, Busy, Swapped
  <1>7. Watched' BY <1>2, <1>3 DEF BuildInv, Watched, Unstopped
  <1>8. RunInv'
    BY <1>2, <1>3 DEF RunInv, RunsHeard, RunnersServed, Served, Replaced
  <1> QED BY <1>1, <1>4, <1>5, <1>6, <1>7, <1>8 DEF BuildInv

-----------------------------------------------------------------------------
(* The steps of a build that matter.                                       *)

LEMMA CaptureStep ==
  ASSUME GenerationsInv, NEW b \in Builds, Capture(b)
  PROVE  GenerationsInv'
  <1> USE DEF GenerationsInv
  <1>1. TypeOK' BY DEF TypeOK, Capture, Goto, Phases, Busy, runVars
  <1>2. UNCHANGED <<integrationRunner, workflowRunner, producer, told, stopped, gen, aborted,
                    late, exit, forgotten>>
    BY DEF Capture, runVars
  <1>3. /\ pc[b] = "shutdown" /\ pc'[b] = "load" /\ previous'[b] = integrationRunner
        /\ \A c \in Builds \ {b} : pc'[c] = pc[c] /\ previous'[c] = previous[c]
        /\ Busy' = Busy \cup {b} /\ b \notin Busy
    BY DEF TypeOK, Capture, Goto, Busy
  <1>4. /\ overlapped \subseteq overlapped'
        /\ Busy # {} \/ exit # "up" => Busy \cup {b} \subseteq overlapped'
    BY DEF Capture
  <1>5. Started' BY <1>2, <1>3 DEF BuildInv, Started
  <1>6. Captured' BY <1>2, <1>3 DEF BuildInv, Captured, TypeOK, Busy
  <1>7. Overlaps' BY <1>2, <1>3, <1>4 DEF BuildInv, Overlaps
  <1>8. Current'
    <2>1. \A c \in Builds : pc'[c] = "load" =>
            previous'[c] = integrationRunner \/ integrationRunner \in overlapped'
      BY <1>3, <1>4 DEF BuildInv, Current
    <2>2. \A c \in Builds : Swapped(c)' =>
            integrationRunner = c \/ {c, integrationRunner} \subseteq overlapped'
      BY <1>3, <1>4 DEF BuildInv, Current, Swapped
    <2>3. \A c \in Busy : previous[c] = integrationRunner \/ integrationRunner \in overlapped'
      BY <1>4 DEF BuildInv, Current, Busy, Swapped
    <2>4. \A c, d \in Busy' :
            previous'[c] = previous'[d] \/ {previous'[c], previous'[d]} \cap overlapped' # {}
      <3> SUFFICES ASSUME NEW c \in Busy', NEW d \in Busy'
                   PROVE  \/ previous'[c] = previous'[d]
                          \/ {previous'[c], previous'[d]} \cap overlapped' # {}
        OBVIOUS
      <3>1. CASE c = b \/ d = b BY <1>3, <2>3, <3>1 DEF Busy
      <3>2. CASE c # b /\ d # b BY <1>3, <1>4, <3>2 DEF BuildInv, Current, Busy
      <3> QED BY <3>1, <3>2
    <2> QED BY <1>2, <2>1, <2>2, <2>4 DEF Current
  <1>9. Watched' BY <1>2, <1>3, <1>4 DEF BuildInv, Watched, Unstopped
  <1>10. RunInv'
    BY <1>2, <1>3, <1>4 DEF RunInv, RunsHeard, RunnersServed, Served, Replaced
  <1> QED BY <1>1, <1>5, <1>6, <1>7, <1>8, <1>9, <1>10 DEF BuildInv

LEMMA LoadedStep ==
  ASSUME GenerationsInv, NEW b \in Builds, Loaded(b)
  PROVE  GenerationsInv'
  <1> USE DEF GenerationsInv
  <1>1. TypeOK' BY DEF TypeOK, Loaded, StopRuns, Goto, Phases, history
  <1>2. /\ UNCHANGED <<previous, workflowRunner, producer, told, gen, late, exit, overlapped,
                       forgotten>>
        /\ integrationRunner' = b
    BY DEF Loaded, history
  <1>3. /\ pc[b] = "load" /\ pc'[b] = "workflows"
        /\ \A c \in Builds \ {b} : pc'[c] = pc[c]
        /\ Busy' = Busy /\ b \in Busy
    BY DEF TypeOK, Loaded, Goto, Busy
  <1>4. Started' /\ Captured' /\ Overlaps'
    BY <1>2, <1>3 DEF BuildInv, Started, Captured, Overlaps
  <1>5. Current'
    <2>1. \A c \in Builds \ {b} : c \in Busy => {b, c} \subseteq overlapped
      BY <1>3 DEF BuildInv, Overlaps
    <2> QED BY <1>2, <1>3, <2>1 DEF BuildInv, Current, Busy, Swapped
  <1>6. Watched'
    <2>1. integrationRunner \in overlapped \/ previous[b] = integrationRunner
      BY <1>3 DEF BuildInv, Current
    <2> QED BY <1>2, <1>3, <2>1 DEF BuildInv, Watched, Unstopped
  <1>7. workflowRunner \in stopped' /\ stopped \subseteq stopped'
    BY DEF Loaded, StopRuns
  <1>8. RunsHeard'
    BY <1>2, <1>7 DEF RunInv, RunsHeard, Served, Loaded, StopRuns
  <1>9. RunnersServed'
    BY <1>2, <1>3, <1>7 DEF RunInv, RunnersServed, Served, Replaced
  <1> QED BY <1>1, <1>4, <1>5, <1>6, <1>8, <1>9 DEF BuildInv, RunInv

LEMMA SwapStep ==
  ASSUME GenerationsInv, exit # "gone", NEW b \in Builds, SwapWorkflows(b)
  PROVE  GenerationsInv'
  <1> USE DEF GenerationsInv
  <1>1. TypeOK' BY DEF TypeOK, SwapWorkflows, Goto, Phases, runVars, history
  <1>2. /\ UNCHANGED <<previous, integrationRunner, producer, told, stopped, gen, aborted,
                       late, exit, overlapped, forgotten>>
        /\ workflowRunner' = b
    BY DEF SwapWorkflows, runVars, history
  <1>3. /\ pc[b] = "workflows" /\ pc'[b] = "rest"
        /\ \A c \in Builds \ {b} : pc'[c] = pc[c]
        /\ Busy' = Busy /\ b \in Busy
    BY DEF TypeOK, SwapWorkflows, Goto, Busy
  <1>4. Started' /\ Captured' /\ Overlaps'
    BY <1>2, <1>3 DEF BuildInv, Started, Captured, Overlaps
  <1>5. Current' BY <1>2, <1>3 DEF BuildInv, Current, Swapped
  <1>6. Watched' BY <1>2, <1>3 DEF BuildInv, Watched, Unstopped
  <1>7. \A g : Served(g) => Served(g)'
    BY <1>2, <1>3 DEF RunInv, RunnersServed, Replaced, Served
  <1>8. RunsHeard' BY <1>2, <1>7 DEF RunInv, RunsHeard
  <1>9. RunnersServed'
    <2>1. \A p \in Builds : producer'[p] # "none" => Served(p)'
      BY <1>2, <1>7 DEF RunInv, RunnersServed
    <2>2. \A c \in Builds : pc'[c] \in {"rest", "stopping"} => Served(c)'
      BY <1>2, <1>3, <1>7 DEF RunInv, RunnersServed, Served
    <2>3. \A c \in Builds : pc'[c] = "workflows" => b \in overlapped
      BY <1>3 DEF BuildInv, Overlaps, Busy
    <2> QED BY <1>2, <2>1, <2>2, <2>3 DEF RunnersServed, Replaced
  <1> QED BY <1>1, <1>4, <1>5, <1>6, <1>8, <1>9 DEF BuildInv, RunInv

LEMMA SwapFailsStep ==
  ASSUME GenerationsInv, NEW b \in Builds, SwapFails(b)
  PROVE  GenerationsInv'
  <1> USE DEF GenerationsInv
  <1>1. /\ UNCHANGED <<integrationRunner, workflowRunner, producer, told, stopped, gen,
                       aborted, late, exit, overlapped>>
        /\ forgotten' = forgotten \cup {previous[b]}
    BY DEF SwapFails, runVars
  <1>2. /\ pc[b] \in {"workflows", "rest"} /\ pc'[b] = "over"
        /\ \A c \in Builds \ {b} : pc'[c] = pc[c] /\ previous'[c] = previous[c]
        /\ Busy' = Busy \ {b} /\ b \in Busy
    BY DEF TypeOK, SwapFails, Leave, Goto, Busy
  <1>3. TypeOK'
    BY <1>2 DEF BuildInv, Captured, TypeOK, SwapFails, Leave, Goto, Phases, runVars
  <1>4. Started' /\ Captured' /\ Overlaps'
    BY <1>1, <1>2 DEF BuildInv, Started, Captured, Overlaps, Busy
  <1>5. Current' BY <1>1, <1>2 DEF BuildInv, Current, Busy, Swapped
  <1>6. Watched' BY <1>1, <1>2 DEF BuildInv, Watched, Unstopped
  <1>7. RunInv'
    BY <1>1, <1>2 DEF RunInv, RunsHeard, RunnersServed, Served, Replaced
  <1> QED BY <1>3, <1>4, <1>5, <1>6, <1>7 DEF BuildInv

LEMMA StopStep ==
  ASSUME GenerationsInv, NEW b \in Builds, StopPrevious(b)
  PROVE  GenerationsInv'
  <1> USE DEF GenerationsInv
  <1>1. /\ UNCHANGED <<previous, integrationRunner, workflowRunner, producer, stopped, gen,
                       aborted, late, exit, overlapped, forgotten>>
        /\ told' = IF producer[previous[b]] \in {"running", "live"}
                   THEN told \cup {previous[b]} ELSE told
    BY DEF StopPrevious, Tell, runVars, history
  <1>2. /\ pc[b] = "rest" /\ pc'[b] = "stopping"
        /\ \A c \in Builds \ {b} : pc'[c] = pc[c]
        /\ Busy' = Busy /\ b \in Busy
    BY DEF TypeOK, StopPrevious, Goto, Busy
  <1>3. TypeOK'
    <2>1. told' \subseteq Builds BY <1>1, <1>2 DEF BuildInv, Captured, TypeOK
    <2> QED BY <2>1 DEF TypeOK, StopPrevious, Goto, Phases, runVars, history
  <1>4. Started' /\ Captured' /\ Overlaps'
    BY <1>1, <1>2 DEF BuildInv, Started, Captured, Overlaps
  <1>5. Current' BY <1>1, <1>2 DEF BuildInv, Current, Swapped
  <1>6. Watched' BY <1>1, <1>2 DEF BuildInv, Watched, Unstopped
  <1>7. RunInv'
    BY <1>1, <1>2 DEF RunInv, RunsHeard, RunnersServed, Served, Replaced
  <1> QED BY <1>3, <1>4, <1>5, <1>6, <1>7 DEF BuildInv

LEMMA StartStep ==
  ASSUME GenerationsInv, NEW b \in Builds, Start(b)
  PROVE  GenerationsInv'
  <1> USE DEF GenerationsInv
  <1>1. TypeOK' BY DEF TypeOK, Start, Leave, Goto, Phases, runVars, history
  <1>2. UNCHANGED <<integrationRunner, workflowRunner, told, stopped, gen, aborted, late,
                    exit, overlapped, forgotten>>
    BY DEF Start, runVars, history
  <1>3. /\ pc[b] = "stopping" /\ pc'[b] = "announce"
        /\ \A c \in Builds \ {b} : /\ pc'[c] = pc[c] /\ previous'[c] = previous[c]
                                   /\ producer'[c] = producer[c]
        /\ Busy' = Busy \ {b} /\ b \in Busy
    BY DEF TypeOK, Start, Leave, Goto, Busy
  <1>4. Started' /\ Captured' /\ Overlaps'
    BY <1>2, <1>3 DEF BuildInv, Started, Captured, Overlaps, Busy
  <1>5. Current' BY <1>2, <1>3 DEF BuildInv, Current, Busy, Swapped
  <1>6. Watched'
    <2>1. Unstopped' \subseteq Unstopped \cup {b} BY <1>2, <1>3 DEF Unstopped
    <2>2. b \notin overlapped => exit = "up" /\ b = integrationRunner
      BY <1>3 DEF BuildInv, Overlaps, Current, Swapped, TypeOK
    <2> QED BY <1>2, <1>3, <2>1, <2>2 DEF BuildInv, Watched
  <1>7. RunInv'
    BY <1>2, <1>3 DEF RunInv, RunsHeard, RunnersServed, Served, Replaced
  <1> QED BY <1>1, <1>4, <1>5, <1>6, <1>7 DEF BuildInv

-----------------------------------------------------------------------------
(* The shutdown.                                                           *)

LEMMA CleanupStep ==
  ASSUME GenerationsInv, Cleanup
  PROVE  GenerationsInv'
  <1> USE DEF GenerationsInv
  <1>1. /\ UNCHANGED <<pc, waits, previous, integrationRunner, workflowRunner, producer,
                       stopped, gen, aborted, late>>
        /\ exit' = "stopping"
        /\ overlapped' = overlapped \cup Busy
        /\ \A b \in Busy : previous[b] \in forgotten'
        /\ forgotten \subseteq forgotten'
        /\ told' = IF producer[integrationRunner] \in {"running", "live"}
                   THEN told \cup {integrationRunner} ELSE told
    BY DEF Cleanup, Tell, buildVars, runVars
  <1>2. TypeOK'
    BY DEF BuildInv, Captured, TypeOK, Cleanup, Tell, Busy, buildVars, runVars
  <1>3. Busy' = Busy BY <1>1 DEF Busy
  <1>4. Started' /\ Captured' /\ Overlaps' /\ Current'
    BY <1>1, <1>3 DEF BuildInv, Started, Captured, Overlaps, Current, Busy, Swapped
  <1>5. Watched' BY <1>1 DEF BuildInv, Watched, Unstopped, Busy
  <1>6. RunInv'
    BY <1>1 DEF RunInv, RunsHeard, RunnersServed, Served, Replaced
  <1> QED BY <1>2, <1>4, <1>5, <1>6 DEF BuildInv

LEMMA ExitStep ==
  ASSUME GenerationsInv, Exit
  PROVE  GenerationsInv'
  <1> USE DEF GenerationsInv
  <1>1. TypeOK' BY DEF TypeOK, Exit, StopRuns, buildVars, history
  <1>2. /\ UNCHANGED <<pc, previous, integrationRunner, workflowRunner, producer, told, gen,
                       late, overlapped, forgotten>>
        /\ exit = "stopping" /\ exit' = "gone"
        /\ workflowRunner \in stopped' /\ stopped \subseteq stopped'
    BY DEF Exit, StopRuns, buildVars, history
  <1>3. BuildInv'
    BY <1>2
    DEF BuildInv, Started, Captured, Overlaps, Current, Watched, Busy, Swapped, Unstopped
  <1>4. RunsHeard'
    BY <1>2 DEF RunInv, RunsHeard, Served, Exit, StopRuns
  <1>5. RunnersServed'
    BY <1>2 DEF RunInv, RunnersServed, Served, Replaced
  <1> QED BY <1>1, <1>3, <1>4, <1>5 DEF RunInv

-----------------------------------------------------------------------------
LEMMA StepInv ==
  ASSUME GenerationsInv, [Next]_vars
  PROVE  GenerationsInv'
  <1>1. CASE UNCHANGED vars
    <2>1. UNCHANGED <<pc, waits, previous, integrationRunner, workflowRunner, producer, told,
                      stopped, gen, aborted, late, exit, overlapped, forgotten>>
      BY <1>1 DEF vars, buildVars, runVars, history
    <2>2. TypeOK' BY <2>1 DEF GenerationsInv, TypeOK
    <2>3. BuildInv'
      BY <2>1 DEF GenerationsInv, BuildInv, Started, Captured, Overlaps, Current, Watched,
                  Busy, Swapped, Unstopped
    <2>4. RunInv'
      BY <2>1 DEF GenerationsInv, RunInv, RunsHeard, RunnersServed, Served, Replaced
    <2> QED BY <2>2, <2>3, <2>4 DEF GenerationsInv
  <1>2. CASE Cleanup BY <1>2, CleanupStep
  <1>3. CASE Exit BY <1>3, ExitStep
  <1>4. CASE exit # "gone" /\ Running
    <2>1. ASSUME NEW b \in Builds, Reload(b) \/ Build(b) \/ \E r \in Runs : Announce(b, r)
          PROVE  GenerationsInv'
      <3>1. CASE Reload(b) BY <3>1, QuietStep
      <3>2. CASE \E r \in Runs : Announce(b, r) BY <3>2, RunStep
      <3>3. CASE Capture(b) BY <3>3, CaptureStep
      <3>4. CASE Loaded(b) BY <3>4, LoadedStep
      <3>5. CASE SwapWorkflows(b) BY <1>4, <3>5, SwapStep
      <3>6. CASE SwapFails(b) BY <3>6, SwapFailsStep
      <3>7. CASE StopPrevious(b) BY <3>7, StopStep
      <3>8. CASE Start(b) BY <3>8, StartStep
      <3>9. CASE LoadFails(b) \/ BindFails(b) \/ Finish(b) BY <3>9, QuietStep
      <3> QED BY <2>1, <3>1, <3>2, <3>3, <3>4, <3>5, <3>6, <3>7, <3>8, <3>9 DEF Build
    <2>2. ASSUME NEW p \in Builds,
                 ProducerReturns(p) \/ ProducerEnds(p) \/ \E r \in Runs : Emit(p, r)
          PROVE  GenerationsInv'
      BY <2>2, ProducerStep, RunStep
    <2>3. ASSUME NEW r \in Runs, SessionEvent(r) \/ EndRun(r) \/ NextBinding(r)
          PROVE  GenerationsInv'
      BY <2>3, RunStep
    <2> QED BY <1>4, <2>1, <2>2, <2>3 DEF Running
  <1> QED BY <1>1, <1>2, <1>3, <1>4 DEF Next

\* The inductive invariant, with type correctness: at any time every producer
\* and every run is accounted for by the current runners or a build under way.
THEOREM SpecInv == Spec => []GenerationsInv
  BY InvInit, StepInv, PTL DEF Spec

-----------------------------------------------------------------------------
LEMMA InvOneProducer ==
  ASSUME GenerationsInv
  PROVE  OneProducer
  <1> USE DEF GenerationsInv, BuildInv
  <1> DEFINE P == Unstopped \ (overlapped \cup forgotten)
  <1>1. ASSUME exit # "up" PROVE P = {} BY <1>1 DEF Watched
  <1>2. ASSUME NEW p \in P, NEW q \in P PROVE p = q
    <2>1. CASE p = integrationRunner /\ q = integrationRunner BY <2>1
    <2>2. ASSUME NEW x \in P, x = integrationRunner,
                 NEW b \in Builds, pc[b] \in {"workflows", "rest"}
          PROVE  FALSE
      <3>1. integrationRunner = b BY <2>2 DEF Current, Swapped
      <3>2. producer[b] # "none" BY <2>2, <3>1 DEF Unstopped
      <3> QED BY <2>2, <3>2 DEF Started
    <2>3. ASSUME NEW b \in Builds, pc[b] \in {"workflows", "rest"}, previous[b] = p,
                 NEW c \in Builds, pc[c] \in {"workflows", "rest"}, previous[c] = q
          PROVE  p = q
      BY <2>3 DEF Current, Busy
    <2> QED BY <2>1, <2>2, <2>3 DEF Watched
  <1> QED BY <1>1, <1>2 DEF OneProducer

\* At most one producer that was not told to stop polls, and none after the
\* shutdown, whatever fails, overlapping builds and left-out stops aside.
THEOREM SpecOneProducer == Spec => []OneProducer
  BY SpecInv, InvOneProducer, PTL

LEMMA InvOldRunsAborted ==
  ASSUME GenerationsInv
  PROVE  OldRunsAborted
  BY DEF GenerationsInv, RunInv, RunsHeard, RunnersServed, Served, Replaced, OldRunsAborted

\* A run of a generation that was replaced, or of any at the exit, was aborted
\* unless it began after stop() or its generation was built beside another.
THEOREM SpecOldRunsAborted == Spec => []OldRunsAborted
  BY SpecInv, InvOldRunsAborted, PTL

=============================================================================
