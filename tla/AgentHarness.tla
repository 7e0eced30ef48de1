---------------------------- MODULE AgentHarness ----------------------------
(***************************************************************************)
(* The orchestration layer above the agent loop:                           *)
(* packages/agent/src/harness/agent-harness.ts, with the control of        *)
(* runLoop in packages/agent/src/agent-loop.ts that it drives.             *)
(*                                                                         *)
(* The harness is one JavaScript object.  Code between two awaits is       *)
(* atomic; at every await any other caller may run.  So each action below  *)
(* is the code from one await to the next, and run[r].pc names the await   *)
(* at which the call r of prompt()/skill() is suspended.  Callers of the   *)
(* harness (websocket clients, workflow handlers, tools) choose freely     *)
(* when to call steer, followUp, nextTurn, clearQueue, abort, compact,     *)
(* navigateTree and the configuration setters.                             *)
(*                                                                         *)
(* A transcript entry is a record [kind, id].  A user message is           *)
(* identified by the call that created it: a member of Messages for the    *)
(* queued ones, the run itself for the text of prompt().  An assistant     *)
(* entry carries how its response ended.  Token counts, tool arguments,    *)
(* models and stream options are not represented: the response of the      *)
(* provider and the compaction threshold are choices.                      *)
(***************************************************************************)
EXTENDS Integers, Sequences, FiniteSets, Functions

CONSTANTS
  Runs,        (* calls of prompt() or skill()                             *)
  Messages,    (* calls of steer(), followUp() or nextTurn()               *)
  Writes,      (* calls of a setter or of appendMessage()                  *)
  Posts,       (* the calls of appendMessage() among them                  *)
  Aborts,      (* calls of abort()                                         *)
  Structs,     (* calls of compact() or navigateTree()                     *)
  CallersWait, (* TRUE: a structural call is made only when the promise of *)
               (* the previous one has settled; FALSE: as soon as isIdle   *)
  MaxReplies,  (* bound on the responses that do not end the run           *)
  MaxFaults,   (* bound on listeners, hooks and storage calls that throw   *)
  MaxClears,   (* bound on the calls of clearQueue()                       *)
  None         (* undefined                                                *)

ASSUME ConstantsAssumption ==
  /\ CallersWait \in BOOLEAN
  /\ MaxReplies \in Nat
  /\ MaxFaults \in Nat
  /\ MaxClears \in Nat
  /\ Posts \subseteq Writes
  /\ None \notin Runs \cup Writes
  /\ Writes \cap (Messages \cup Runs) = {}
  /\ Messages \cap Runs = {}

VARIABLES
  phase,         (* this.phase                                             *)
  latch,         (* this._overflowRecoveryAttempted                        *)
  runPromise,    (* the run whose promise this.runPromise holds, or None   *)
  runAbort,      (* the run this.runAbortController belongs to, or None    *)
  steerQueue,    (* this.steerQueue                                        *)
  followUpQueue, (* this.followUpQueue                                     *)
  queueGen,      (* how often both arrays were replaced by fresh ones      *)
  nextTurnQueue, (* this.nextTurnQueue                                     *)
  pending,       (* this.pendingSessionWrites                              *)
  lastAssistant, (* this._lastAssistantMessage: [out, at], or NoMessage    *)
  branch,        (* the entries from the root of the session to its leaf   *)
  run,           (* the suspended prompt()/skill() calls                   *)
  write,         (* progress of each setter call                           *)
  abort,         (* progress of each abort() call                          *)
  struct,        (* progress of each compact()/navigateTree() call         *)
  sent,          (* history: messages accepted by a queue                  *)
  stored,        (* history: how often an id was persisted, capped at 2    *)
  returned,      (* history: messages handed back by abort or clearQueue   *)
  lost,          (* history: messages dropped on an error path             *)
  replies,       (* bound counter, see MaxReplies                          *)
  faults         (* bound counter, see MaxFaults                           *)

control == <<phase, latch, runPromise, runAbort>>
queues  == <<steerQueue, followUpQueue, queueGen, nextTurnQueue>>
session == <<branch, stored>>
calls   == <<write, abort, struct>>
history == <<sent, returned, lost>>
bounds  == <<replies, faults>>
others  == <<control, queues, pending, lastAssistant, session, calls, history,
             bounds>>
vars == <<others, run>>

(***************************************************************************)
(* Types.                                                                  *)
(***************************************************************************)

\* AgentHarnessPhase; "retry" is declared in types.ts and never assigned.
Phases == {"idle", "turn", "compaction", "branch_summary"}

\* How a provider response ends.  "overflow" is an error response that
\* isContextOverflow recognises, "silent" a stop response that it recognises.
Outcomes == {"stop", "tool", "error", "overflow", "silent", "aborted"}

ASSUME NoneAssumption == None \notin Outcomes

Failed(out) == out \in {"error", "overflow"}     \* stopReason === "error"
Overflows(out) == out \in {"overflow", "silent"} \* isContextOverflow
Fits(out) == ~Failed(out) /\ ~Overflows(out)

\* The two await points of a flush return to one of these.
FlushReturns == {"savePoint", "agentEnd", "prepare", "finally", "resnap",
                 "rejected", "threw"}

PCs == FlushReturns \cup
       {"new", "snapshot", "emitNext", "hook", "prompts", "steer", "emitDrain",
        "inject", "request", "tools", "turnEnd", "follow", "settle", "fail",
        "giveUp", "compactStart", "compacting", "flush", "done"}

User(id)       == [kind |-> "user", id |-> id]
Assistant(out) == [kind |-> "assistant", id |-> out]
ToolResult     == [kind |-> "toolResult", id |-> None]
Written(w)     == [kind |-> "write", id |-> w]
Compaction     == [kind |-> "compaction", id |-> None]
BranchSummary  == [kind |-> "summary", id |-> None]

Entries == {User(m) : m \in Messages \cup Runs}
             \cup {Assistant(out) : out \in Outcomes}
             \cup {Written(w) : w \in Writes}
             \cup {ToolResult, Compaction, BranchSummary}

\* What the last message of an LLM context is: a role, or for an assistant
\* message the way it ended.
Tails == {"none", "user", "toolResult"} \cup Outcomes

NoMessage == [out |-> None, at |-> 0]

\* Where the messages a run holds came from: which array, and for the arrays
\* that clearQueue() replaces which instance of it.
QueueNames == {"steer", "followUp", "nextTurn"}
NoQueue == [queue |-> "none", gen |-> 0]
Origins == [queue : QueueNames \cup {"none"}, gen : Nat]

NewRun == [pc     |-> "new",    \* the await at which the call is suspended
           ret    |-> "done",   \* where the flush in progress returns to
           write  |-> None,     \* the write that flush is appending
           msgs   |-> <<>>,     \* messages held by the call, not yet persisted
           origin |-> NoQueue,  \* the queue array they were taken from
           tail   |-> "none",   \* last message of the context in use
           more   |-> TRUE,     \* hasMoreToolCalls
           final  |-> FALSE,    \* the response ends the run without a snapshot
           failed |-> FALSE,    \* emitRunFailure is reporting
           signal |-> FALSE,    \* the pass's abort signal is set
           prev   |-> "idle",   \* previousPhase of an auto-compaction
           retry  |-> FALSE,    \* willRetry of it, until the retry is answered
           streak |-> 0,        \* history: recoveries since a response that fits
           silent |-> FALSE]    \* history: since then, a silent overflow or one
                                \* that was left as it was

InProgress(r) == run[r].pc \notin {"new", "done"}

Restructuring(s) == struct[s] \notin {"new", "done", "threw"}

RunRecords == [pc : PCs, ret : FlushReturns \cup {"done"}, write : Writes \cup {None},
               msgs : Seq(Messages \cup Runs), origin : Origins, tail : Tails,
               more : BOOLEAN, final : BOOLEAN, failed : BOOLEAN, signal : BOOLEAN,
               prev : Phases, retry : BOOLEAN, streak : Nat, silent : BOOLEAN]

AbortRecords == [pc : {"new", "notify", "wait", "done"},
                 target : Runs \cup {None},  \* the run whose promise it awaits
                 victims : SUBSET Runs]      \* history: the runs in progress then

TypeOK ==
  /\ phase \in Phases
  /\ latch \in BOOLEAN
  /\ runPromise \in Runs \cup {None}
  /\ runAbort \in Runs \cup {None}
  /\ steerQueue \in Seq(Messages)
  /\ followUpQueue \in Seq(Messages)
  /\ nextTurnQueue \in Seq(Messages)
  /\ queueGen \in Nat
  /\ pending \in Seq(Writes)
  /\ lastAssistant \in [out : Outcomes \cup {None}, at : Nat]
  /\ branch \in Seq(Entries)
  /\ run \in [Runs -> RunRecords]
  /\ write \in [Writes -> {"new", "saving", "queued", "saved", "rejected"}]
  /\ abort \in [Aborts -> AbortRecords]
  /\ struct \in [Structs -> {"new", "starting", "compacting", "navigating",
                             "done", "threw"}]
  /\ stored \in [Messages \cup Runs \cup Writes -> 0..2]
  /\ sent \subseteq Messages
  /\ returned \subseteq Messages
  /\ lost \subseteq Messages \cup Runs
  /\ replies \in 0..MaxReplies
  /\ faults \in 0..MaxFaults

Init ==
  /\ phase = "idle"
  /\ latch = FALSE
  /\ runPromise = None
  /\ runAbort = None
  /\ steerQueue = <<>>
  /\ followUpQueue = <<>>
  /\ nextTurnQueue = <<>>
  /\ queueGen = 0
  /\ pending = <<>>
  /\ lastAssistant = NoMessage
  /\ branch = <<>>
  /\ run = [r \in Runs |-> NewRun]
  /\ write = [w \in Writes |-> "new"]
  /\ abort = [a \in Aborts |-> [pc |-> "new", target |-> None, victims |-> {}]]
  /\ struct = [s \in Structs |-> "new"]
  /\ stored = [x \in Messages \cup Runs \cup Writes |-> 0]
  /\ sent = {}
  /\ returned = {}
  /\ lost = {}
  /\ replies = 0
  /\ faults = 0

-----------------------------------------------------------------------------
(***************************************************************************)
(* Session and context helpers.                                            *)
(***************************************************************************)

\* One more persisted copy of x.
Stored(x) == [stored EXCEPT ![x] = IF @ = 2 THEN 2 ELSE @ + 1]

\* buildSessionContext keeps the message entries of the branch.  A compaction
\* puts its summary first and keeps at least the last message, so the context
\* ends on the last message entry of the branch in either case.  A message that
\* appendMessage() adds is no overflow response.
IsMessage(e) ==
  \/ e.kind \in {"user", "assistant", "toolResult", "summary"}
  \/ e.kind = "write" /\ e.id \in Posts
LastMessageAt(b, i) ==
  /\ IsMessage(b[i])
  /\ \A j \in DOMAIN b : j > i => ~IsMessage(b[j])
TailOf(e) == CASE e.kind = "assistant" -> e.id
               [] e.kind = "toolResult" -> "toolResult"
               [] OTHER -> "user"
HasMessage(b) == \E i \in DOMAIN b : LastMessageAt(b, i)
LastMessage(b) == CHOOSE i \in DOMAIN b : LastMessageAt(b, i)
ContextTail(b) == IF HasMessage(b) THEN TailOf(b[LastMessage(b)]) ELSE "none"

\* Mutant: the overflow response stays in the context of the retry.
RetryTailKept(b) == ContextTail(b)

\* The continuation pass of executeTurn drops a trailing overflow response.
RetryTail(b) ==
  IF Overflows(ContextTail(b))
  THEN ContextTail(SubSeq(b, 1, LastMessage(b) - 1))
  ELSE ContextTail(b)

\* The call r goes on as rec says.
Moves(r, rec) == run' = [run EXCEPT ![r] = rec]

\* The record of a call that goes on to await `to`; createTurnState() reads
\* the branch b before its own awaits.
Arrive(rec, to, b) ==
  [rec EXCEPT !.pc = to,
              !.write = None,
              !.tail = CASE to = "prepare" -> ContextTail(b)
                         [] to = "resnap" -> RetryTail(b)
                         [] OTHER -> @]

\* flushPendingSessionWrites(): returns at once when nothing is pending,
\* otherwise it first awaits the append of the head.
Flushing(rec, to, queue, b) ==
  IF queue = <<>> THEN Arrive(rec, to, b)
  ELSE [rec EXCEPT !.pc = "flush", !.ret = to, !.write = Head(queue)]

StartFlush(r, to) ==
  Moves(r, Flushing(run[r], to, pending, branch))

\* Mutant: the test forgets one queue.
HasQueuedSteering == steerQueue # <<>>

HasQueuedMessages == steerQueue # <<>> \/ followUpQueue # <<>>

Fault == faults < MaxFaults /\ faults' = faults + 1

\* A structural operation requires phase "idle".
MayStart ==
  /\ phase = "idle"
  /\ CallersWait => /\ \A r \in Runs : ~InProgress(r)
                    /\ \A s \in Structs : ~Restructuring(s)

-----------------------------------------------------------------------------
(***************************************************************************)
(* prompt(), skill(), promptFromTemplate() and executeTurn().              *)
(***************************************************************************)

\* Mutant: the caller's promise is not published to abort().
NoRunPromise(r) == UNCHANGED runPromise

StartRunPromise(r) == runPromise' = r

\* Only prompt() re-arms the overflow latch.
Prompt(r, rearm) ==
  /\ run[r].pc = "new"
  /\ MayStart
  /\ phase' = "turn"
  /\ latch' = (latch /\ ~rearm)
  /\ StartRunPromise(r)
  /\ Moves(r, [run[r] EXCEPT !.pc = "snapshot", !.tail = ContextTail(branch)])
  /\ UNCHANGED <<runAbort, queues, pending, lastAssistant, session, calls,
                 history, bounds>>

\* Mutant: the queue is copied, not spliced.
TakeNextTurnCopied(r) ==
  /\ run[r].pc = "snapshot"
  /\ Moves(r, [run[r] EXCEPT !.pc = "hook",
                        !.msgs = Append(nextTurnQueue, r),
                        !.origin = [queue |-> "nextTurn", gen |-> 0]])
  /\ UNCHANGED others

\* createTurnState() returns; executeTurn() takes the next-turn messages.
TakeNextTurn(r) ==
  /\ run[r].pc = "snapshot"
  /\ Moves(r, [run[r] EXCEPT !.pc = IF nextTurnQueue = <<>> THEN "hook" ELSE "emitNext",
                        !.msgs = Append(nextTurnQueue, r),
                        !.origin = [queue |-> "nextTurn", gen |-> 0]])
  /\ nextTurnQueue' = <<>>
  /\ UNCHANGED <<control, steerQueue, followUpQueue, queueGen, pending,
                 lastAssistant, session, calls, history, bounds>>

NextTurnEmitted(r) ==
  /\ run[r].pc = "emitNext"
  /\ Moves(r, [run[r] EXCEPT !.pc = "hook"])
  /\ UNCHANGED others

\* A pass over the loop begins: fresh abort controller, phase "turn".
NewPass(rec, to) == [rec EXCEPT !.pc = to, !.signal = FALSE, !.more = TRUE,
                                !.final = FALSE, !.failed = FALSE]

\* before_agent_start returned.
StartFirstPass(r) ==
  /\ run[r].pc = "hook"
  /\ Moves(r, NewPass(run[r], "prompts"))
  /\ runAbort' = r
  /\ phase' = "turn"
  /\ UNCHANGED <<latch, runPromise, queues, pending, lastAssistant, session,
                 calls, history, bounds>>

\* The continuation pass: no new message, a fresh snapshot.
StartNextPass(r) ==
  /\ run[r].pc = "resnap"
  /\ Moves(r, NewPass(run[r], "steer"))
  /\ runAbort' = r
  /\ phase' = "turn"
  /\ UNCHANGED <<latch, runPromise, queues, pending, lastAssistant, session,
                 calls, history, bounds>>

\* The promise of prompt() settles: finishRunPromise().
Finish(r) ==
  /\ Moves(r, Arrive([run[r] EXCEPT !.msgs = <<>>, !.origin = NoQueue],
                                    "done", branch))
  /\ runPromise' = None

\* Mutant: the catch clause sets the phase that no code assigns.
RejectToRetry(r) == Finish(r) /\ phase' = "retry"

\* The catch clause of prompt(): the phase is idle again, nothing is flushed.
Reject(r) ==
  /\ Finish(r)
  /\ phase' = "idle"

\* True when something awaited outside the loop's own try block throws.
OutsideLoop(r) ==
  \/ run[r].pc \in {"snapshot", "hook", "resnap", "giveUp", "compactStart",
                    "compacting"}
  \/ run[r].pc = "finally" /\ lastAssistant.out \notin {None, "aborted"}
  \/ run[r].pc = "flush" /\ run[r].ret \in {"finally", "rejected", "resnap"}

\* A hook, a listener, createTurnState() or a storage call throws outside the
\* loop; at "finally" that is getBranch() in _checkCompaction(), by when the last
\* assistant message has been taken.  Messages taken from the next-turn queue are
\* gone with the call.
OuterFault(r) ==
  /\ OutsideLoop(r)
  /\ Fault
  /\ Reject(r)
  /\ runAbort' = IF run[r].pc = "finally" \/ (run[r].pc = "flush" /\ run[r].ret # "resnap")
                 THEN None ELSE runAbort
  /\ lastAssistant' = IF run[r].pc = "finally" THEN NoMessage ELSE lastAssistant
  /\ lost' = lost \cup Range(run[r].msgs)
  /\ UNCHANGED <<latch, queues, pending, session, calls, sent, returned, replies>>

\* The queue_update listener throws: the next-turn messages are put back.
EmitNextFault(r) ==
  /\ run[r].pc = "emitNext"
  /\ Fault
  /\ Reject(r)
  /\ nextTurnQueue' = SubSeq(run[r].msgs, 1, Len(run[r].msgs) - 1) \o nextTurnQueue
  /\ UNCHANGED <<latch, runAbort, steerQueue, followUpQueue, queueGen, pending,
                 lastAssistant, session, calls, history, replies>>

-----------------------------------------------------------------------------
(***************************************************************************)
(* The agent loop, its events as handleAgentEvent() treats them.           *)
(***************************************************************************)

\* message_end of a user message: persisted, then the next one.
InjectMessage(r) ==
  /\ run[r].pc \in {"prompts", "inject"}
  /\ LET m == Head(run[r].msgs)
         rest == Tail(run[r].msgs)
     IN /\ branch' = Append(branch, User(m))
        /\ stored' = Stored(m)
        /\ Moves(r, [run[r] EXCEPT
                     !.msgs = rest,
                     !.origin = IF rest = <<>> THEN NoQueue ELSE @,
                     !.tail = "user",
                     !.pc = IF rest # <<>> THEN @
                            ELSE IF @ = "prompts" THEN "steer" ELSE "request"])
  /\ UNCHANGED <<control, queues, pending, lastAssistant, calls, history,
                 bounds>>

\* drainQueuedMessages() on a nonempty array: one message or all of them, as
\* the live queue mode says.
Drained(r, queue, name, n) ==
  Moves(r, [run[r] EXCEPT !.pc = "emitDrain",
                     !.msgs = SubSeq(queue, 1, n),
                     !.origin = [queue |-> name, gen |-> queueGen]])

DrainSteering(r) ==
  /\ run[r].pc = "steer"
  /\ steerQueue # <<>>
  /\ \E n \in {1, Len(steerQueue)} :
       /\ Drained(r, steerQueue, "steer", n)
       /\ steerQueue' = SubSeq(steerQueue, n + 1, Len(steerQueue))
  /\ UNCHANGED <<control, followUpQueue, queueGen, nextTurnQueue, pending,
                 lastAssistant, session, calls, history, bounds>>

NoSteering(r) ==
  /\ run[r].pc = "steer"
  /\ steerQueue = <<>>
  /\ Moves(r, [run[r] EXCEPT !.pc = IF run[r].more THEN "request" ELSE "follow"])
  /\ UNCHANGED others

DrainFollowUps(r) ==
  /\ run[r].pc = "follow"
  /\ followUpQueue # <<>>
  /\ \E n \in {1, Len(followUpQueue)} :
       /\ Drained(r, followUpQueue, "followUp", n)
       /\ followUpQueue' = SubSeq(followUpQueue, n + 1, Len(followUpQueue))
  /\ UNCHANGED <<control, steerQueue, queueGen, nextTurnQueue, pending,
                 lastAssistant, session, calls, history, bounds>>

\* Mutant: the loop polls on for messages that only the next call takes.
NoFollowUpsPolling(r) ==
  /\ run[r].pc = "follow"
  /\ followUpQueue = <<>>
  /\ IF nextTurnQueue = <<>> THEN StartFlush(r, "agentEnd")
     ELSE Moves(r, [run[r] EXCEPT !.pc = "steer"])
  /\ UNCHANGED others

NoFollowUps(r) ==
  /\ run[r].pc = "follow"
  /\ followUpQueue = <<>>
  /\ StartFlush(r, "agentEnd")
  /\ UNCHANGED others

DrainEmitted(r) ==
  /\ run[r].pc = "emitDrain"
  /\ Moves(r, [run[r] EXCEPT !.pc = "inject"])
  /\ UNCHANGED others

\* Mutant: an error response clears the latch, too.
SaveAssistantUnlatched(out) ==
  /\ branch' = Append(branch, Assistant(out))
  /\ lastAssistant' = [out |-> out, at |-> Len(branch) + 1]
  /\ latch' = FALSE
  /\ UNCHANGED stored

\* The assistant message ends: persisted, remembered for the post-run check,
\* and unless it is an error the overflow latch is cleared.
SaveAssistant(out) ==
  /\ branch' = Append(branch, Assistant(out))
  /\ lastAssistant' = [out |-> out, at |-> Len(branch) + 1]
  /\ latch' = (latch /\ Failed(out))
  /\ UNCHANGED stored

\* Mutant: pending writes are flushed at every message_end.
NextAwaitFlushed(rec, out, b) ==
  Flushing(rec, IF out = "tool" THEN "tools" ELSE "turnEnd", pending, b)

\* The await after the response: the tools it calls, or turn_end.
NextAwait(rec, out, b) ==
  [rec EXCEPT !.pc = IF out = "tool" THEN "tools" ELSE "turnEnd"]

\* The provider answers.  An answer that may keep the run going is bounded.
Respond(r, out) ==
  /\ run[r].pc = "request"
  /\ out = "aborted" => run[r].signal
  /\ IF out \in {"stop", "aborted"} THEN UNCHANGED replies
     ELSE replies < MaxReplies /\ replies' = replies + 1
  /\ SaveAssistant(out)
  /\ LET rec == [run[r] EXCEPT
                   !.tail = out,
                   !.more = FALSE,
                   !.retry = FALSE,
                   !.final = out \in {"error", "overflow", "aborted"},
                   !.streak = IF Fits(out) THEN 0 ELSE @,
                   !.silent = (@ \/ out = "silent") /\ ~Fits(out)]
     IN Moves(r, NextAwait(rec, out, branch'))
  /\ UNCHANGED <<phase, runPromise, runAbort, queues, pending, calls, history,
                 faults>>

\* The tool calls of the response have run; the batch may ask to terminate.
ToolsDone(r) ==
  /\ run[r].pc = "tools"
  /\ branch' = Append(branch, ToolResult)
  /\ \E more \in BOOLEAN :
       Moves(r, [run[r] EXCEPT !.more = more, !.tail = "toolResult",
                          !.pc = "turnEnd"])
  /\ UNCHANGED <<control, queues, pending, lastAssistant, stored, calls,
                 history, bounds>>

\* turn_end: listeners, then a flush, then save_point.
TurnEnd(r) ==
  /\ run[r].pc = "turnEnd"
  /\ StartFlush(r, "savePoint")
  /\ UNCHANGED others

\* After the save point: agent_end after a failed or aborted response, else
\* prepareNextTurn.  Both flush first.
SavePoint(r) ==
  /\ run[r].pc = "savePoint"
  /\ StartFlush(r, IF run[r].final THEN "agentEnd" ELSE "prepare")
  /\ UNCHANGED others

PrepareNextTurn(r) ==
  /\ run[r].pc = "prepare"
  /\ Moves(r, [run[r] EXCEPT !.pc = "steer"])
  /\ UNCHANGED others

\* agent_end: the phase is idle before the listeners of agent_end and settled
\* have returned.
AgentEnd(r) ==
  /\ run[r].pc = "agentEnd"
  /\ phase' = "idle"
  /\ Moves(r, [run[r] EXCEPT !.pc = "settle"])
  /\ UNCHANGED <<latch, runPromise, runAbort, queues, pending, lastAssistant,
                 session, calls, history, bounds>>

\* Mutant: executeTurn has no flush of its own.
SettleUnflushed(r) ==
  /\ run[r].pc = "settle"
  /\ Moves(r, [run[r] EXCEPT !.pc = "finally"])
  /\ UNCHANGED others

\* The loop is over; the finally clause of executeTurn flushes.
Settle(r) ==
  /\ run[r].pc = "settle"
  /\ StartFlush(r, "finally")
  /\ UNCHANGED others

\* Mutant: the queue is reset instead of shifted.
ShiftedAll(queue) == <<>>

Shifted(queue) == IF queue = <<>> THEN <<>> ELSE Tail(queue)

\* flushPendingSessionWrites(): the append of one write completes, the queue is
\* shifted, and the head of what is then pending is next.
FlushWrite(r) ==
  /\ run[r].pc = "flush"
  /\ LET w == run[r].write
         rest == Shifted(pending)
     IN /\ branch' = Append(branch, Written(w))
        /\ stored' = Stored(w)
        /\ write' = [write EXCEPT ![w] = "saved"]
        /\ pending' = rest
        /\ Moves(r, Flushing(run[r], run[r].ret, rest, branch'))
  /\ UNCHANGED <<control, queues, lastAssistant, abort, struct, history,
                 bounds>>

\* Awaits inside the loop's try block, but for the listeners of turn_end: at
\* "turnEnd" those of message_end have not returned yet, though the message was
\* persisted.
InsideLoop(r) ==
  \/ run[r].pc \in {"prompts", "inject", "steer", "request", "tools",
                    "turnEnd", "savePoint", "prepare", "settle", "fail"}
  \/ run[r].pc = "flush" /\ run[r].ret \in {"savePoint", "agentEnd", "prepare",
                                           "threw"}

\* Where an error inside the loop leads: to emitRunFailure(), or, thrown while
\* that is reporting, out of executeTurn through its finally clause.
AfterLoopError(r) ==
  LET rec == [run[r] EXCEPT !.msgs = <<>>, !.write = None, !.origin = NoQueue]
  IN IF run[r].failed \/ run[r].pc = "fail"
     THEN Moves(r, Flushing(rec, "rejected", pending, branch))
     ELSE Moves(r, [rec EXCEPT !.pc = "fail"])

\* A listener, a hook or a storage call throws inside the loop; the messages
\* the loop had taken and not yet persisted are dropped.
LoopFault(r) ==
  /\ InsideLoop(r)
  /\ Fault
  /\ AfterLoopError(r)
  /\ lost' = lost \cup Range(run[r].msgs)
  /\ UNCHANGED <<control, queues, pending, lastAssistant, session, calls, sent,
                 returned, replies>>

\* Mutants: no rollback, or a push instead of an unshift.
NotPutBack(r, queue, name) == queue
PutBackLast(r, queue, name) ==
  IF run[r].origin = [queue |-> name, gen |-> queueGen]
  THEN queue \o run[r].msgs ELSE queue

\* A failing drain unshifts the messages into the array they came from, which
\* abort() or clearQueue() may have replaced.
PutBack(r, queue, name) ==
  IF run[r].origin = [queue |-> name, gen |-> queueGen]
  THEN run[r].msgs \o queue ELSE queue

\* The queue_update listener throws during a drain.
EmitDrainFault(r) ==
  /\ run[r].pc = "emitDrain"
  /\ Fault
  /\ AfterLoopError(r)
  /\ steerQueue' = PutBack(r, steerQueue, "steer")
  /\ followUpQueue' = PutBack(r, followUpQueue, "followUp")
  /\ lost' = IF run[r].origin.gen = queueGen THEN lost
             ELSE lost \cup Range(run[r].msgs)
  /\ UNCHANGED <<control, queueGen, nextTurnQueue, pending, lastAssistant,
                 session, calls, sent, returned, replies>>

\* A listener of turn_end throws: the writes are flushed before the error goes
\* on.
TurnEndFault(r) ==
  /\ run[r].pc = "turnEnd"
  /\ Fault
  /\ StartFlush(r, "threw")
  /\ UNCHANGED <<control, queues, pending, lastAssistant, session, calls,
                 history, replies>>

TurnEndThrew(r) ==
  /\ run[r].pc = "threw"
  /\ AfterLoopError(r)
  /\ UNCHANGED others

\* emitRunFailure(): a failure message ends the run like a response would.
ReportFailure(r) ==
  /\ run[r].pc = "fail"
  /\ LET out == IF run[r].signal THEN "aborted" ELSE "error"
     IN /\ SaveAssistant(out)
        /\ Moves(r, [run[r] EXCEPT !.tail = out, !.final = TRUE,
                              !.failed = TRUE, !.retry = FALSE,
                              !.streak = IF Fits(out) THEN 0 ELSE @,
                              !.pc = "turnEnd"])
  /\ UNCHANGED <<phase, runPromise, runAbort, queues, pending, calls, history,
                 bounds>>

\* executeTurn rethrows: its finally clause has flushed.
Rejected(r) ==
  /\ run[r].pc = "rejected"
  /\ runAbort' = None
  /\ Reject(r)
  /\ UNCHANGED <<latch, queues, pending, lastAssistant, session, calls,
                 history, bounds>>

-----------------------------------------------------------------------------
(***************************************************************************)
(* _handlePostAgentRun(), _checkCompaction() and _runAutoCompaction().     *)
(***************************************************************************)

\* The last assistant message predates the latest compaction entry.
Stale(msg) == \E i \in DOMAIN branch : i > msg.at /\ branch[i] = Compaction

\* The loop of executeTurn goes on, or prompt() resolves; b is the branch then.
ContinueOrFinish(r, again, b) ==
  IF again
  THEN /\ Moves(r, Flushing(run[r], "resnap", pending, b))
       /\ UNCHANGED runPromise
  ELSE Finish(r)

\* Nothing to compact: no assistant message was seen, it was aborted, it
\* predates a compaction, or it is within the window.
PostRun(r) ==
  /\ run[r].pc = "finally"
  /\ LET msg == lastAssistant
     IN /\ msg.out \in {None, "aborted"} \/ Stale(msg) \/ ~Overflows(msg.out)
        /\ ContinueOrFinish(r, msg.out # None /\ HasQueuedMessages, branch)
  /\ runAbort' = None
  /\ lastAssistant' = NoMessage
  /\ UNCHANGED <<phase, latch, queues, pending, session, calls, history,
                 bounds>>

\* The response overflowed the context and is left as it is: auto-compaction has
\* been disabled, or the model changed.
PostRunLeft(r) ==
  /\ run[r].pc = "finally"
  /\ Overflows(lastAssistant.out) /\ ~Stale(lastAssistant)
  /\ IF HasQueuedMessages
     THEN /\ Moves(r, Flushing([run[r] EXCEPT !.silent = TRUE], "resnap", pending, branch))
          /\ UNCHANGED runPromise
     ELSE Finish(r)
  /\ runAbort' = None
  /\ lastAssistant' = NoMessage
  /\ UNCHANGED <<phase, latch, queues, pending, session, calls, history,
                 bounds>>

\* The response overflowed the context: recover once, then give up.
PostRunOverflow(r) ==
  /\ run[r].pc = "finally"
  /\ Overflows(lastAssistant.out) /\ ~Stale(lastAssistant)
  /\ latch' = TRUE
  /\ Moves(r, IF latch THEN [run[r] EXCEPT !.pc = "giveUp"]
               ELSE [run[r] EXCEPT !.pc = "compactStart", !.retry = TRUE,
                                   !.streak = @ + 1])
  /\ runAbort' = None
  /\ lastAssistant' = NoMessage
  /\ UNCHANGED <<phase, runPromise, queues, pending, session, calls, history,
                 bounds>>

\* The context is over the threshold: compact, no retry.  That an overflow gets
\* here takes a change of the model.
PostRunThreshold(r) ==
  /\ run[r].pc = "finally"
  /\ lastAssistant.out \in {"stop", "tool", "error", "overflow"} /\ ~Stale(lastAssistant)
  /\ replies < MaxReplies /\ replies' = replies + 1
  /\ Moves(r, [run[r] EXCEPT !.pc = "compactStart", !.retry = FALSE,
                             !.silent = @ \/ lastAssistant.out = "overflow"])
  /\ runAbort' = None
  /\ lastAssistant' = NoMessage
  /\ UNCHANGED <<phase, latch, runPromise, queues, pending, session, calls,
                 history, faults>>

\* The second overflow was reported as final.
GiveUp(r) ==
  /\ run[r].pc = "giveUp"
  /\ ContinueOrFinish(r, HasQueuedMessages, branch)
  /\ UNCHANGED <<phase, latch, runAbort, queues, pending, lastAssistant,
                 session, calls, history, bounds>>

\* compaction_start was emitted, still in the phase agent_end left.
AutoCompactStarted(r) ==
  /\ run[r].pc = "compactStart"
  /\ phase' = "compaction"
  /\ Moves(r, [run[r] EXCEPT !.pc = "compacting", !.prev = phase])
  /\ UNCHANGED <<latch, runPromise, runAbort, queues, pending, lastAssistant,
                 session, calls, history, bounds>>

\* The summary is appended; an overflow is retried, otherwise the run goes on
\* only for queued messages.
AutoCompacted(r) ==
  /\ run[r].pc = "compacting"
  /\ branch' = Append(branch, Compaction)
  /\ phase' = run[r].prev
  /\ ContinueOrFinish(r, run[r].retry \/ HasQueuedMessages, branch')
  /\ UNCHANGED <<latch, runAbort, queues, pending, lastAssistant, stored,
                 calls, history, bounds>>

\* A listener throws after the summary was appended: no retry.
AutoCompactThrew(r) ==
  /\ run[r].pc = "compacting"
  /\ Fault
  /\ branch' = Append(branch, Compaction)
  /\ phase' = run[r].prev
  /\ ContinueOrFinish(r, HasQueuedMessages, branch')
  /\ UNCHANGED <<latch, runAbort, queues, pending, lastAssistant, stored,
                 calls, history, replies>>

\* Cancelled, aborted, failed, nothing to compact or no credentials.
AutoCompactSkipped(r) ==
  /\ run[r].pc = "compacting"
  /\ phase' = run[r].prev
  /\ ContinueOrFinish(r, HasQueuedMessages, branch)
  /\ UNCHANGED <<latch, runAbort, queues, pending, lastAssistant, session,
                 calls, history, bounds>>

-----------------------------------------------------------------------------
(***************************************************************************)
(* Queue operations.  A steering or follow-up message needs a busy harness.*)
(***************************************************************************)

Steer(m) ==
  /\ m \notin sent
  /\ phase # "idle"
  /\ steerQueue' = Append(steerQueue, m)
  /\ sent' = sent \cup {m}
  /\ UNCHANGED <<control, followUpQueue, queueGen, nextTurnQueue, pending,
                 lastAssistant, session, run, calls, returned, lost, bounds>>

FollowUp(m) ==
  /\ m \notin sent
  /\ phase # "idle"
  /\ followUpQueue' = Append(followUpQueue, m)
  /\ sent' = sent \cup {m}
  /\ UNCHANGED <<control, steerQueue, queueGen, nextTurnQueue, pending,
                 lastAssistant, session, run, calls, returned, lost, bounds>>

NextTurn(m) ==
  /\ m \notin sent
  /\ nextTurnQueue' = Append(nextTurnQueue, m)
  /\ sent' = sent \cup {m}
  /\ UNCHANGED <<control, steerQueue, followUpQueue, queueGen, pending,
                 lastAssistant, session, run, calls, returned, lost, bounds>>

\* Both arrays are replaced and their messages handed to the caller.
EmptyQueues ==
  /\ returned' = returned \cup Range(steerQueue) \cup Range(followUpQueue)
  /\ steerQueue' = <<>>
  /\ followUpQueue' = <<>>
  /\ queueGen' = queueGen + 1

ClearQueue ==
  /\ queueGen < MaxClears
  /\ EmptyQueues
  /\ UNCHANGED <<control, nextTurnQueue, pending, lastAssistant, session, run,
                 calls, sent, lost, bounds>>

-----------------------------------------------------------------------------
(***************************************************************************)
(* Setters and appendMessage(): persisted at once when idle, else queued.  *)
(***************************************************************************)

Set(w) ==
  /\ write[w] = "new"
  /\ IF phase = "idle"
     THEN write' = [write EXCEPT ![w] = "saving"] /\ UNCHANGED pending
     ELSE write' = [write EXCEPT ![w] = "queued"] /\ pending' = Append(pending, w)
  /\ UNCHANGED <<control, queues, lastAssistant, session, run, abort, struct,
                 history, bounds>>

SetSaved(w) ==
  /\ write[w] = "saving"
  /\ write' = [write EXCEPT ![w] = "saved"]
  /\ branch' = Append(branch, Written(w))
  /\ stored' = Stored(w)
  /\ UNCHANGED <<control, queues, pending, lastAssistant, run, abort, struct,
                 history, bounds>>

\* The append failed: the setter rejects and commits nothing.
SetRejected(w) ==
  /\ write[w] = "saving"
  /\ Fault
  /\ write' = [write EXCEPT ![w] = "rejected"]
  /\ UNCHANGED <<control, queues, pending, lastAssistant, session, run, abort,
                 struct, history, replies>>

-----------------------------------------------------------------------------
(***************************************************************************)
(* abort(): empty the queues and signal the run, emit, wait for the        *)
(* promise of the run, emit.  Listener errors are collected, not thrown.   *)
(***************************************************************************)

Abort(a) ==
  /\ abort[a].pc = "new"
  /\ EmptyQueues
  /\ run' = IF runAbort = None THEN run
            ELSE [run EXCEPT ![runAbort].signal = TRUE]
  /\ abort' = [abort EXCEPT ![a].pc = "notify",
                            ![a].victims = {r \in Runs : InProgress(r)}]
  /\ UNCHANGED <<control, nextTurnQueue, pending, lastAssistant, session,
                 write, struct, sent, lost, bounds>>

AbortNotified(a) ==
  /\ abort[a].pc = "notify"
  /\ abort' = [abort EXCEPT ![a].pc = "wait", ![a].target = runPromise]
  /\ UNCHANGED <<control, queues, pending, lastAssistant, session, run, write,
                 struct, history, bounds>>

AbortReturns(a) ==
  /\ abort[a].pc = "wait"
  /\ abort[a].target # None => run[abort[a].target].pc = "done"
  /\ abort' = [abort EXCEPT ![a].pc = "done"]
  /\ UNCHANGED <<control, queues, pending, lastAssistant, session, run, write,
                 struct, history, bounds>>

-----------------------------------------------------------------------------
(***************************************************************************)
(* compact() and navigateTree().                                           *)
(***************************************************************************)

Structural(s, from, to) ==
  /\ struct[s] = from
  /\ struct' = [struct EXCEPT ![s] = to]
  /\ UNCHANGED <<latch, runPromise, runAbort, queues, pending, lastAssistant,
                 run, write, abort, history, replies>>

Compact(s) ==
  /\ MayStart
  /\ Structural(s, "new", "starting")
  /\ phase' = "compaction"
  /\ UNCHANGED <<session, faults>>

\* compaction_start is emitted before the try block is entered.
CompactStarted(s) ==
  /\ Structural(s, "starting", "compacting")
  /\ UNCHANGED <<phase, session, faults>>

CompactStartFault(s) ==
  /\ Structural(s, "starting", "threw")
  /\ Fault
  /\ UNCHANGED <<phase, session>>

Compacted(s) ==
  /\ Structural(s, "compacting", "done")
  /\ branch' = Append(branch, Compaction)
  /\ phase' = "idle"
  /\ UNCHANGED <<stored, faults>>

CompactFailed(s) ==
  /\ Structural(s, "compacting", "done")
  /\ phase' = "idle"
  /\ UNCHANGED <<session, faults>>

Navigate(s) ==
  /\ MayStart
  /\ Structural(s, "new", "navigating")
  /\ phase' = "branch_summary"
  /\ UNCHANGED <<session, faults>>

\* moveTo(): the leaf moves to an entry of the session, with or without a
\* summary of the branch that is left.  Only entries of the current branch are
\* targets here.
Navigated(s, k, summarize) ==
  /\ Structural(s, "navigating", "done")
  /\ phase' = "idle"
  /\ branch' = SubSeq(branch, 1, k) \o (IF summarize THEN <<BranchSummary>> ELSE <<>>)
  /\ UNCHANGED <<stored, faults>>

\* Mutant: the early return of a cancelled navigation keeps the phase.
NavigateAbandoned(s) ==
  /\ Structural(s, "navigating", "done")
  /\ UNCHANGED <<phase, session, faults>>

NavigateCancelled(s) ==
  /\ Structural(s, "navigating", "done")
  /\ phase' = "idle"
  /\ UNCHANGED <<session, faults>>

-----------------------------------------------------------------------------
(***************************************************************************)
(* The specification.                                                      *)
(***************************************************************************)

\* What a suspended call of prompt() does when its promise resolves.
RunStep(r) ==
  \/ TakeNextTurn(r) \/ NextTurnEmitted(r) \/ StartFirstPass(r) \/ StartNextPass(r)
  \/ InjectMessage(r) \/ DrainSteering(r) \/ NoSteering(r)
  \/ DrainFollowUps(r) \/ NoFollowUps(r) \/ DrainEmitted(r)
  \/ \E out \in Outcomes : Respond(r, out)
  \/ ToolsDone(r) \/ TurnEnd(r) \/ SavePoint(r) \/ PrepareNextTurn(r)
  \/ AgentEnd(r) \/ Settle(r) \/ FlushWrite(r) \/ TurnEndThrew(r)
  \/ ReportFailure(r) \/ Rejected(r)
  \/ PostRun(r) \/ PostRunLeft(r) \/ PostRunOverflow(r) \/ PostRunThreshold(r) \/ GiveUp(r)
  \/ AutoCompactStarted(r) \/ AutoCompacted(r) \/ AutoCompactSkipped(r)

RunFault(r) ==
  \/ OuterFault(r) \/ EmitNextFault(r) \/ LoopFault(r) \/ EmitDrainFault(r)
  \/ TurnEndFault(r) \/ AutoCompactThrew(r)

AbortStep(a) == AbortNotified(a) \/ AbortReturns(a)

StructStep(s) ==
  \/ CompactStarted(s) \/ Compacted(s) \/ CompactFailed(s)
  \/ \E k \in 0..Len(branch), b \in BOOLEAN : Navigated(s, k, b)
  \/ NavigateCancelled(s)

\* Every call has returned and nobody calls again.
Quiet ==
  /\ \A r \in Runs : ~InProgress(r)
  /\ \A a \in Aborts : abort[a].pc \in {"new", "done"}
  /\ \A s \in Structs : ~Restructuring(s)
  /\ \A w \in Writes : write[w] # "saving"

Rest == Quiet /\ UNCHANGED vars

Next ==
  \/ \E r \in Runs :
       \/ \E rearm \in BOOLEAN : Prompt(r, rearm)
       \/ RunStep(r)
       \/ RunFault(r)
  \/ \E m \in Messages : Steer(m) \/ FollowUp(m) \/ NextTurn(m)
  \/ ClearQueue
  \/ \E w \in Writes : Set(w) \/ SetSaved(w) \/ SetRejected(w)
  \/ \E a \in Aborts : Abort(a) \/ AbortStep(a)
  \/ \E s \in Structs :
       Compact(s) \/ Navigate(s) \/ StructStep(s) \/ CompactStartFault(s)
  \/ Rest

Spec == Init /\ [][Next]_vars

\* Promises settle: providers, tools, hooks, listeners and storage return, so
\* every suspended call goes on.  Nobody has to call anything.
Fairness ==
  /\ \A r \in Runs : WF_vars(RunStep(r))
  /\ \A w \in Writes : WF_vars(SetSaved(w))
  /\ \A a \in Aborts : WF_vars(AbortStep(a))
  /\ \A s \in Structs : WF_vars(StructStep(s))

FairSpec == Spec /\ Fairness

-----------------------------------------------------------------------------
(***************************************************************************)
(* Properties.                                                             *)
(***************************************************************************)

Containers == {"steerQueue", "followUpQueue", "nextTurnQueue", "session", "returned",
               "lost"}

IsIn(m, container) ==
  CASE container = "steerQueue" -> m \in Range(steerQueue)
    [] container = "followUpQueue" -> m \in Range(followUpQueue)
    [] container = "nextTurnQueue" -> m \in Range(nextTurnQueue)
    [] container = "session" -> stored[m] > 0
    [] container = "returned" -> m \in returned
    [] container = "lost" -> m \in lost

IsHeld(m, r) == m \in Range(run[r].msgs)

\* The places a message is in.
Whereabouts(m) ==
  {<<"harness", c>> : c \in {d \in Containers : IsIn(m, d)}} \cup
  {<<"run", r>> : r \in {s \in Runs : IsHeld(m, s)}}

\* A message a queue accepted is never dropped silently and never delivered
\* twice: it is waiting in one queue, held by one run, persisted once, handed
\* back by clearQueue() or abort(), or lost with a run in which a listener, a
\* hook or a storage call threw.  The drains, their rollback when a listener
\* throws, and the queue resets keep this true in every interleaving (lines
\* 432-442, 594-607, 996-1003, 1350-1355).
Conservation ==
  \A m \in Messages :
    /\ Cardinality(Whereabouts(m)) = (IF m \in sent THEN 1 ELSE 0)
    /\ stored[m] <= 1
    /\ m \in lost => faults > 0

\* "Pending session writes flush one-by-one and are not dropped on failure"
\* (packages/agent/docs/agent-harness.md:305): a queued write stays in the queue
\* until it has been persisted, and is persisted once (lines 507-531).
WritesAccounted ==
  \A w \in Writes :
    /\ write[w] = "queued" <=> w \in Range(pending)
    /\ stored[w] = (IF write[w] = "saved" THEN 1 ELSE 0)

\* The flush points lie between turns: a queued write is never persisted
\* between an assistant message and the results of the tools it calls, unless
\* the run died and its failure could not even be reported.
QueuedWritesBetweenTurns ==
  [][\A w \in Writes :
       /\ write[w] = "queued" /\ write'[w] = "saved"
       /\ ~ \E r \in Runs : run[r].ret = "rejected"
       => branch = <<>> \/ branch[Len(branch)] # Assistant("tool")]_vars

\* abort() returns only after the runs it found in progress have settled, so a
\* caller may start over (waitForIdle, lines 1364-1368 and 1390-1392).
AbortWaits ==
  \A a \in Aborts : abort[a].pc = "done" =>
    \A r \in abort[a].victims : run[r].pc = "done"

\* A steering or follow-up message accepted while a run was winding down is
\* still delivered by that run (the post-run check of lines 713-719 and its
\* callers): when all calls have returned normally nothing waits.
NoMessageStranded ==
  (Quiet /\ faults = 0 /\ \A s \in Structs : struct[s] = "new")
    => steerQueue = <<>> /\ followUpQueue = <<>>

\* Whatever path a call takes out, the harness accepts the next one: the phase
\* is idle again when every call has returned (lines 572, 908-910, 923, 1084).
\* The one exception is a listener of compaction_start that throws.
PhaseRestored == (Quiet /\ \A s \in Structs : struct[s] # "threw") => phase = "idle"

\* A run that ends without compacting leaves no queued write behind, also none
\* queued between the flush of agent_end and its return to idle.
NoWriteLeftBehind ==
  [][\A r \in Runs :
       run[r].pc = "finally" /\ run'[r].pc = "done" => pending = <<>>]_vars

\* The overflow latch: one compact-and-retry, then give up, as long as every
\* overflow is reported by an error response and none is left as it is (lines
\* 541-552 and 757-780).
RecoversOnce == \A r \in Runs : run[r].streak <= 1 \/ run[r].silent

\* An overflow is retried from what preceded it, never with the overflow
\* response still ending the context, although that is persisted and the
\* context is rebuilt from the session (lines 628-641).  As in RecoversOnce the
\* overflows are reported and none was left as it is: a later one then follows
\* it, and the retry drops one response only.
RetryContext ==
  \A r \in Runs :
    (run[r].pc = "request" /\ run[r].retry /\ ~run[r].silent)
      => ~Overflows(run[r].tail)

\* Calls of prompt() and skill() settle, and so do calls of abort(), whatever
\* throws and whoever queues messages meanwhile.
RunsSettle == \A r \in Runs : InProgress(r) ~> run[r].pc = "done"
AbortsSettle == \A a \in Aborts : abort[a].pc = "notify" ~> abort[a].pc = "done"

\* The queues implement MessageDelivery: what a run took from a queue and has
\* not persisted still is the start of that queue's channel.  Behind the
\* messages of the next-turn queue comes the text of the call itself, which is
\* in no channel.
Held(q) ==
  LET holders == {r \in Runs : run[r].msgs # <<>> /\ run[r].origin.queue = q}
      msgs == run[CHOOSE r \in holders : TRUE].msgs
  IN IF holders = {} THEN <<>>
     ELSE IF q = "nextTurn" THEN SubSeq(msgs, 1, Len(msgs) - 1) ELSE msgs

Waiting(q) == CASE q = "steer" -> steerQueue
                [] q = "followUp" -> followUpQueue
                [] q = "nextTurn" -> nextTurnQueue

Channel == [q \in QueueNames |-> Held(q) \o Waiting(q)]
Delivered == {m \in Messages : stored[m] > 0}
LostMessages == lost \cap Messages

Delivery == INSTANCE MessageDelivery WITH
  channel <- Channel, delivered <- Delivered, returned <- returned, lost <- LostMessages

DeliversInOrder == Delivery!Spec

=============================================================================
