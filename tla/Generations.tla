---------------------------- MODULE Generations ----------------------------
(***************************************************************************)
(* The generations of an agent's integrations and workflows: reload() and  *)
(* cleanup() of core/agent-runtime.ts with the producers of                *)
(* core/integrations/runner.ts and the runs of core/workflows/runner.ts.   *)
(*                                                                         *)
(* Every reload builds an IntegrationRunner and a WorkflowRunner of its    *)
(* own, named here by the reload.  It swaps them in one after the other,   *)
(* with awaits between, and stops what the ones before have running.       *)
(* Nothing keeps a second reload, or the shutdown, from running meanwhile. *)
(*                                                                         *)
(* There is one integration, so a runner has at most one producer.  Runs   *)
(* end without saying how, and a member of Runs that has ended stands for  *)
(* a later run again.  Journals, callables and actions are left out.       *)
(***************************************************************************)
EXTENDS Integers, FiniteSets

CONSTANTS
  Builds,   (* start() and the calls of reload()                           *)
  First,    (* start(), which is over before the server listens            *)
  Runs,     (* executions of a workflow: a bound on those at one time      *)
  None      (* no build, or no run                                         *)

ASSUME ConstantsAssumption ==
  /\ First \in Builds
  /\ None \notin Builds \cup Runs

VARIABLES
  pc,                (* for each build where it is                         *)
  waits,             (* for each build the dispatch that it awaits         *)
  previous,          (* for each build the runner it is going to stop      *)
  integrationRunner, (* this._integrationRunner                            *)
  workflowRunner,    (* this._workflowRunner                               *)
  producer,          (* for each runner its producer                       *)
  told,              (* producers still there that got abort and disposer  *)
  stopped,           (* workflow runners that stop() was called on         *)
  gen,               (* for each active run the runner that executes it    *)
  aborted,           (* active runs whose signal was aborted               *)
  exit,              (* how far the shutdown is                            *)
  overlapped,        (* history: builds that others, or the shutdown, met  *)
  forgotten,         (* history: runners whose stop was left out           *)
  late               (* history: active runs that began after stop()       *)

buildVars == <<pc, waits, previous, integrationRunner, workflowRunner>>
runVars == <<gen, aborted, late>>
history == <<overlapped, forgotten>>
vars == <<buildVars, producer, told, stopped, runVars, exit, history>>

(***************************************************************************)
(* Phases of a build: the shutdown event is dispatched, the resources are  *)
(* loaded, the workflows are loaded, the hooks, providers and environments *)
(* are, the old producer stops, the start event is dispatched.             *)
(***************************************************************************)
Phases == {"idle", "shutdown", "load", "workflows", "rest", "stopping",
           "announce", "over"}

TypeOK ==
  /\ pc \in [Builds -> Phases]
  /\ waits \in [Builds -> Runs \cup {None}]
  /\ previous \in [Builds -> Builds \cup {None}]
  /\ integrationRunner \in Builds
  /\ workflowRunner \in Builds
  /\ producer \in [Builds -> {"none", "running", "live", "over"}]
  /\ told \subseteq Builds
  /\ stopped \subseteq Builds
  /\ gen \in [Runs -> Builds \cup {None}]
  /\ aborted \subseteq Runs
  /\ exit \in {"up", "stopping", "gone"}
  /\ overlapped \subseteq Builds
  /\ forgotten \subseteq Builds
  /\ late \subseteq Runs

\* The account of the integration may or may not be configured.
Init ==
  /\ pc = [b \in Builds |-> IF b = First THEN "over" ELSE "idle"]
  /\ waits = [b \in Builds |-> None]
  /\ previous = [b \in Builds |-> None]
  /\ integrationRunner = First
  /\ workflowRunner = First
  /\ \E p \in {"none", "running"} :
       producer = [b \in Builds |-> IF b = First THEN p ELSE "none"]
  /\ told = {} /\ stopped = {}
  /\ gen = [r \in Runs |-> None]
  /\ aborted = {} /\ late = {}
  /\ exit = "up"
  /\ overlapped = {} /\ forgotten = {}

Goto(b, phase) == pc' = [pc EXCEPT ![b] = phase]

\* The end of buildSharedResources(), thrown out of it or not.
Leave(b, phase) == Goto(b, phase) /\ previous' = [previous EXCEPT ![b] = None]

\* The builds inside buildSharedResources(), from the capture to the start.
Busy == {b \in Builds : pc[b] \in {"load", "workflows", "rest", "stopping"}}

(***************************************************************************)
(* Runs.  A dispatch executes the workflows that are bound to its event    *)
(* one after another, on the runner it has begun with; no stop() ends it.  *)
(***************************************************************************)
Begin(g, r) ==
  /\ gen[r] = None
  /\ gen' = [gen EXCEPT ![r] = g]
  /\ late' = IF g \in stopped THEN late \cup {r} ELSE late

\* A producer may emit until it is over, its runner stopped or not.
Emit(p, r) ==
  /\ producer[p] \in {"running", "live"}
  /\ Begin(p, r)
  /\ UNCHANGED <<buildVars, producer, told, stopped, aborted, exit, history>>

\* A session's event goes to the runner that is current then.
SessionEvent(r) ==
  /\ Begin(workflowRunner, r)
  /\ UNCHANGED <<buildVars, producer, told, stopped, aborted, exit, history>>

EndRun(r) ==
  /\ gen[r] # None
  /\ gen' = [gen EXCEPT ![r] = None]
  /\ aborted' = aborted \ {r} /\ late' = late \ {r}
  /\ waits' = [b \in Builds |-> IF waits[b] = r THEN None ELSE waits[b]]
  /\ UNCHANGED <<pc, previous, integrationRunner, workflowRunner, producer, told,
                 stopped, exit, history>>

\* The run has ended and the next workflow bound to its event begins.
NextBinding(r) ==
  /\ gen[r] # None
  /\ aborted' = aborted \ {r}
  /\ late' = IF gen[r] \in stopped THEN late \cup {r} ELSE late \ {r}
  /\ UNCHANGED <<buildVars, producer, told, stopped, gen, exit, history>>

\* Mutant: the controllers of the active runs are not fired.
StopNone(g) == stopped' = stopped \cup {g} /\ UNCHANGED aborted

\* WorkflowRunner.stop(): what is active now is aborted.
StopRuns(g) ==
  /\ stopped' = stopped \cup {g}
  /\ aborted' = aborted \cup {r \in Runs : gen[r] = g}

(***************************************************************************)
(* Producers.  run(ctx) may return a disposer or fail, and the producer    *)
(* may end, whenever they like; nothing is assumed of one that was told to *)
(* stop, which may have returned its disposer too late to have it called.  *)
(***************************************************************************)
ProducerReturns(p) ==
  /\ producer[p] = "running"
  /\ producer' = [producer EXCEPT ![p] = "live"]
  /\ UNCHANGED <<buildVars, told, stopped, runVars, exit, history>>

ProducerEnds(p) ==
  /\ producer[p] \in {"running", "live"}
  /\ producer' = [producer EXCEPT ![p] = "over"]
  /\ told' = told \ {p}
  /\ UNCHANGED <<buildVars, stopped, runVars, exit, history>>

\* Mutant: a producer that has not returned its disposer yet is skipped.
TellLive(p) == told' = IF producer[p] = "live" THEN told \cup {p} ELSE told

\* The first half of IntegrationRunner.stop(), which skips a runner that has
\* nothing attached, and is nothing to a producer that has ended.
Tell(p) == told' = IF producer[p] \in {"running", "live"} THEN told \cup {p} ELSE told

\* The second half: done settles, or the grace period is over before it does.
Settled(p) == producer[p] # "running"

\* Mutant of GraceExpires: done is awaited without a limit.
NeverExpires(p) == FALSE

GraceExpires(p) == producer[p] = "running"
StopEnds(p) == Settled(p) \/ GraceExpires(p)

(***************************************************************************)
(* A build.                                                                *)
(***************************************************************************)
Reload(b) ==
  /\ pc[b] = "idle"
  /\ Goto(b, "shutdown")
  /\ UNCHANGED <<waits, previous, integrationRunner, workflowRunner, producer, told,
                 stopped, runVars, exit, history>>

\* A lifecycle event of the reload: it awaits the runs of the dispatch.
Announce(b, r) ==
  /\ pc[b] \in {"shutdown", "announce"}
  /\ waits[b] = None
  /\ Begin(workflowRunner, r)
  /\ waits' = [waits EXCEPT ![b] = r]
  /\ UNCHANGED <<pc, previous, integrationRunner, workflowRunner, producer, told,
                 stopped, aborted, exit, history>>

\* buildSharedResources() begins: it takes the runner it will stop.
Capture(b) ==
  /\ pc[b] = "shutdown" /\ waits[b] = None
  /\ Goto(b, "load")
  /\ previous' = [previous EXCEPT ![b] = integrationRunner]
  /\ overlapped' = IF Busy = {} /\ exit = "up" THEN overlapped
                   ELSE overlapped \cup Busy \cup {b}
  /\ UNCHANGED <<waits, integrationRunner, workflowRunner, producer, told, stopped,
                 runVars, exit, forgotten>>

Loaded(b) ==
  /\ pc[b] = "load"
  /\ Goto(b, "workflows")
  /\ integrationRunner' = b
  /\ StopRuns(workflowRunner)
  /\ UNCHANGED <<waits, previous, workflowRunner, producer, told, gen, late, exit,
                 history>>

\* A loader that throws leaves everything as it was.
LoadFails(b) ==
  /\ pc[b] = "load"
  /\ Leave(b, "over")
  /\ UNCHANGED <<waits, integrationRunner, workflowRunner, producer, told,
                 stopped, runVars, exit, history>>

SwapWorkflows(b) ==
  /\ pc[b] = "workflows"
  /\ Goto(b, "rest")
  /\ workflowRunner' = b
  /\ UNCHANGED <<waits, previous, integrationRunner, producer, told, stopped, runVars,
                 exit, history>>

\* The runner of integrations is swapped and the old producer is not stopped: the
\* constructor throws, on a workflow whose trigger is undefined, or after the swap
\* the approvals are not read or an environment is not created.
SwapFails(b) ==
  /\ pc[b] \in {"workflows", "rest"}
  /\ Leave(b, "over")
  /\ forgotten' = forgotten \cup {previous[b]}
  /\ UNCHANGED <<waits, integrationRunner, workflowRunner, producer, told,
                 stopped, runVars, exit, overlapped>>

StopPrevious(b) ==
  /\ pc[b] = "rest"
  /\ Goto(b, "stopping")
  /\ Tell(previous[b])
  /\ UNCHANGED <<waits, previous, integrationRunner, workflowRunner, producer, stopped,
                 runVars, exit, history>>

\* start(): a producer if the account is configured and valid.
Start(b) ==
  /\ pc[b] = "stopping" /\ StopEnds(previous[b])
  /\ Leave(b, "announce")
  /\ \E p \in {"none", "running"} : producer' = [producer EXCEPT ![b] = p]
  /\ UNCHANGED <<waits, integrationRunner, workflowRunner, told, stopped,
                 runVars, exit, history>>

\* bindCore() throws, on a schema that does not compile.
BindFails(b) ==
  /\ pc[b] = "stopping" /\ StopEnds(previous[b])
  /\ Leave(b, "over")
  /\ UNCHANGED <<waits, integrationRunner, workflowRunner, producer, told,
                 stopped, runVars, exit, history>>

Finish(b) ==
  /\ pc[b] = "announce" /\ waits[b] = None
  /\ Goto(b, "over")
  /\ UNCHANGED <<waits, previous, integrationRunner, workflowRunner, producer, told,
                 stopped, runVars, exit, history>>

(***************************************************************************)
(* The shutdown: cleanup(), then the process exits.                        *)
(***************************************************************************)
Cleanup ==
  /\ exit = "up"
  /\ exit' = "stopping"
  /\ Tell(integrationRunner)
  /\ overlapped' = overlapped \cup Busy
  /\ forgotten' = forgotten \cup {previous[b] : b \in Busy}
  /\ UNCHANGED <<buildVars, producer, stopped, runVars>>

\* cleanup() has awaited the producer or the grace period, which may be over at
\* any time, and stops the runs.  The sessions and the sandbox that it cleans up
\* before the exit are left out.
Exit ==
  /\ exit = "stopping"
  /\ exit' = "gone"
  /\ StopRuns(workflowRunner)
  /\ UNCHANGED <<buildVars, producer, told, gen, late, history>>

Build(b) ==
  \/ Capture(b) \/ Loaded(b) \/ LoadFails(b) \/ SwapWorkflows(b) \/ SwapFails(b)
  \/ StopPrevious(b) \/ Start(b) \/ BindFails(b) \/ Finish(b)

Running ==
  \/ \E b \in Builds : Reload(b) \/ Build(b) \/ \E r \in Runs : Announce(b, r)
  \/ \E p \in Builds : ProducerReturns(p) \/ ProducerEnds(p) \/ \E r \in Runs : Emit(p, r)
  \/ \E r \in Runs : SessionEvent(r) \/ EndRun(r) \/ NextBinding(r)

\* After process.exit() nothing runs.
Next ==
  \/ exit # "gone" /\ Running
  \/ Cleanup \/ Exit

Spec == Init /\ [][Next]_vars

\* Awaits settle, handlers return and producers need not; there are finitely
\* many sessions to announce to and workflows bound to an event.
FairSpec ==
  /\ Spec
  /\ \A b \in Builds \ {First} : SF_vars(exit # "gone" /\ Build(b))
  /\ \A r \in Runs : WF_vars(exit # "gone" /\ EndRun(r))
  /\ WF_vars(Exit)

(***************************************************************************)
(* Properties.                                                             *)
(***************************************************************************)
Unstopped == {p \in Builds : producer[p] \in {"running", "live"}} \ told

\* A reload stops the old producer before it starts the new one, so at most
\* one that was not told to stop polls with the account, and none after the
\* shutdown.  Excepted are builds that overlapped another one or the shutdown
\* and runners whose stop a failed or overtaken build has left out.
OneProducer ==
  LET P == Unstopped \ (overlapped \cup forgotten)
  IN  /\ \A p, q \in P : p = q
      /\ exit # "up" => P = {}

\* The same without exceptions.
SinglePoller == Cardinality(Unstopped) <= 1

\* When its generation has been replaced, or the process closes down, a run
\* is told through its signal, except if it began after stop().
OldRunsAborted ==
  \A r \in Runs : gen[r] # None =>
    \/ r \in aborted \cup late
    \/ gen[r] = workflowRunner /\ exit # "gone"
    \/ gen[r] \in overlapped

\* A reload comes to its end, also if a producer never does.
ReloadsEnd ==
  \A b \in Builds \ {First} : pc[b] = "shutdown" ~> (pc[b] = "over" \/ exit = "gone")

=============================================================================
