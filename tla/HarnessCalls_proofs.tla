------------------------ MODULE HarnessCalls_proofs ------------------------
(***************************************************************************)
(* Proofs about the calls of the harness when its callers wait for one     *)
(* structural call to settle before they make the next (CallersWait), for  *)
(* any number of calls.  In this order: abort() returns only after the     *)
(* runs it found have settled and the phase is idle again when every call  *)
(* has returned; an overflow is recovered from once and no queued message  *)
(* is left behind; the queues implement MessageDelivery; queued writes are *)
(* persisted once, between turns, and the retry of an overflow starts from *)
(* what preceded it.                                                       *)
(*                                                                         *)
(* The argument: at most one call is in progress, and the promise abort()  *)
(* reads is that of the run in progress; the phase is idle from agent_end  *)
(* on, which makes it idle on every path out of the run (CallsInv).  The   *)
(* other parts add what holds of the run in progress alone.                *)
(***************************************************************************)
EXTENDS AgentHarness_proofs

\* The run is past agent_end and has not begun another pass.
WindingDown(rec) ==
  \/ rec.pc \in {"settle", "finally", "giveUp", "compactStart"}
  \/ rec.pc = "flush" /\ rec.ret = "finally"

\* From agent_end on the phase is idle, but for an auto-compaction that will
\* restore it.
IdleAfterEnd(r) ==
  /\ WindingDown(run[r]) => phase = "idle"
  /\ run[r].pc = "compacting" => run[r].prev = "idle"

\* A flush appends the head of the queued writes, and the last one of a run
\* leaves none.
FlushesHead(r) ==
  /\ run[r].pc = "flush" => pending # <<>> /\ run[r].write = Head(pending)
  /\ run[r].pc = "finally" => pending = <<>>

\* The promise that abort() reads is that of the one call in progress.
OneAtATime ==
  /\ \A r \in Runs : InProgress(r) =>
       /\ runPromise = r
       /\ \A s \in Structs : ~Restructuring(s)
  /\ \A s, t \in Structs : Restructuring(s) /\ Restructuring(t) => s = t

\* With nothing in progress the phase is idle, unless a listener of
\* compaction_start threw.
IdleWhenQuiet ==
  \/ \E r \in Runs : InProgress(r)
  \/ \E s \in Structs : Restructuring(s) \/ struct[s] = "threw"
  \/ phase = "idle"

\* An abort waits for each of its victims that has not settled.
AbortAwaits(a) ==
  \A r \in abort[a].victims : run[r].pc # "done" =>
    /\ abort[a].pc \in {"notify", "wait"}
    /\ InProgress(r)
    /\ abort[a].pc = "wait" => abort[a].target = r

CallsInv ==
  /\ TypeInv
  /\ OneAtATime
  /\ IdleWhenQuiet
  /\ \A r \in Runs : IdleAfterEnd(r)
  /\ \A a \in Aborts : AbortAwaits(a)

-----------------------------------------------------------------------------
(***************************************************************************)
(* What a step of a run in progress does to the calls: it goes on, under   *)
(* the promise there is, or settles and leaves the phase idle.             *)
(***************************************************************************)

RunAdvances(r) ==
  /\ InProgress(r)
  /\ \A q \in Runs \ {r} : run'[q] = run[q]
  /\ UNCHANGED <<abort, struct>>
  /\ \/ /\ InProgress(r)' /\ IdleAfterEnd(r)' /\ FlushesHead(r)'
        /\ UNCHANGED runPromise
     \/ run'[r].pc = "done" /\ phase' = "idle"

\* The run goes on with the record rec.
LEMMA MoveAdvances ==
  ASSUME TypeInv, NEW r \in Runs, InProgress(r), NEW rec,
         Moves(r, rec), rec.pc \notin {"new", "done"},
         WindingDown(rec) => phase' = "idle",
         rec.pc = "compacting" => rec.prev = "idle",
         rec.pc = "flush" => pending' # <<>> /\ rec.write = Head(pending'),
         rec.pc = "finally" => pending' = <<>>,
         UNCHANGED <<runPromise, abort, struct>>
  PROVE  RunAdvances(r)
  <1>1. run \in [Runs -> RunRecords] BY DEF TypeInv, TypeOK
  <1>2. run'[r] = rec /\ \A q \in Runs \ {r} : run'[q] = run[q] BY <1>1 DEF Moves
  <1> QED BY <1>2 DEF RunAdvances, InProgress, IdleAfterEnd, WindingDown, FlushesHead

\* Where a flush of the record rec may be.
LEMMA FlushPlace ==
  ASSUME NEW rec \in RunRecords, NEW to \in FlushReturns, NEW queue, NEW b
  PROVE  /\ Flushing(rec, to, queue, b).pc \notin {"new", "done", "compacting"}
         /\ WindingDown(Flushing(rec, to, queue, b)) => to = "finally"
         /\ Flushing(rec, to, queue, b).pc = "flush" =>
              queue # <<>> /\ Flushing(rec, to, queue, b).write = Head(queue)
         /\ Flushing(rec, to, queue, b).pc # "flush" => queue = <<>>
  <1> DEFINE tail == CASE to = "prepare" -> ContextTail(b)
                       [] to = "resnap" -> RetryTail(b)
                       [] OTHER -> rec.tail
  <1>1. Arrive(rec, to, b) = [rec EXCEPT !.pc = to, !.write = None, !.tail = tail]
    BY DEF Arrive, RunRecords
  <1> HIDE DEF tail
  <1>2. Arrive(rec, to, b).pc = to BY <1>1 DEF RunRecords
  <1>3. CASE queue = <<>> BY <1>2, <1>3 DEF Flushing, FlushReturns, WindingDown
  <1>4. CASE queue # <<>>
    <2>1. /\ Flushing(rec, to, queue, b).pc = "flush"
          /\ Flushing(rec, to, queue, b).ret = to
          /\ Flushing(rec, to, queue, b).write = Head(queue)
      BY <1>4 DEF Flushing, RunRecords
    <2> QED BY <1>4, <2>1 DEF WindingDown
  <1> QED BY <1>3, <1>4

\* The run goes on with a flush.
LEMMA FlushAdvances ==
  ASSUME TypeInv, NEW r \in Runs, InProgress(r), NEW rec \in RunRecords,
         NEW to \in FlushReturns, NEW queue, NEW b,
         Moves(r, Flushing(rec, to, queue, b)), pending' = queue,
         to = "finally" => phase' = "idle",
         UNCHANGED <<runPromise, abort, struct>>
  PROVE  RunAdvances(r)
  <1> QED BY FlushPlace, MoveAdvances

LEMMA StartFlushAdvances ==
  ASSUME TypeInv, NEW r \in Runs, InProgress(r), NEW to \in FlushReturns,
         StartFlush(r, to), to = "finally" => phase' = "idle",
         UNCHANGED <<runPromise, pending, abort, struct>>
  PROVE  RunAdvances(r)
  <1>1. run[r] \in RunRecords BY DEF TypeInv, TypeOK
  <1> QED BY <1>1, FlushAdvances DEF StartFlush

\* The promise of the run settles.
LEMMA FinishAdvances ==
  ASSUME TypeInv, NEW r \in Runs, InProgress(r), Finish(r), phase' = "idle",
         UNCHANGED <<abort, struct>>
  PROVE  RunAdvances(r)
  <1> DEFINE rec == [run[r] EXCEPT !.msgs = <<>>, !.origin = NoQueue]
             last == Arrive(rec, "done", branch)
  <1>1. run \in [Runs -> RunRecords] /\ run[r] \in RunRecords BY DEF TypeInv, TypeOK
  <1>2. last = [rec EXCEPT !.pc = "done", !.write = None, !.tail = rec.tail]
    BY <1>1 DEF Arrive, RunRecords
  <1>3. last.pc = "done" BY <1>1, <1>2 DEF RunRecords
  <1>4. run' = [run EXCEPT ![r] = last] BY DEF Finish, Moves
  <1> HIDE DEF last
  <1>5. run'[r].pc = "done" /\ \A q \in Runs \ {r} : run'[q] = run[q]
    BY <1>1, <1>3, <1>4
  <1> QED BY <1>5 DEF RunAdvances

\* The steps that only move the run to an await before agent_end.
LEMMA GoesOn ==
  ASSUME TypeInv, NEW r \in Runs,
         \/ TakeNextTurn(r) \/ NextTurnEmitted(r) \/ StartFirstPass(r)
         \/ StartNextPass(r) \/ NoSteering(r) \/ DrainEmitted(r) \/ ToolsDone(r)
         \/ PrepareNextTurn(r)
  PROVE  RunAdvances(r)
  <1>1. run[r] \in RunRecords BY DEF TypeInv, TypeOK
  <1>2. CASE TakeNextTurn(r)
    <2> DEFINE pc == IF nextTurnQueue = <<>> THEN "hook" ELSE "emitNext"
               rec == [run[r] EXCEPT !.pc = pc, !.msgs = Append(nextTurnQueue, r),
                                     !.origin = [queue |-> "nextTurn", gen |-> 0]]
    <2>1. Moves(r, rec) /\ rec.pc = pc BY <1>1, <1>2 DEF TakeNextTurn, RunRecords
    <2>2. InProgress(r) /\ UNCHANGED <<runPromise, abort, struct>>
      BY <1>2 DEF TakeNextTurn, InProgress, control, calls
    <2>3. pc \in {"hook", "emitNext"} OBVIOUS
    <2> HIDE DEF rec, pc
    <2> QED BY <2>1, <2>2, <2>3, MoveAdvances DEF WindingDown
  <1>3. CASE NextTurnEmitted(r)
    <2> DEFINE rec == [run[r] EXCEPT !.pc = "hook"]
    <2>1. Moves(r, rec) /\ rec.pc = "hook" BY <1>1, <1>3 DEF NextTurnEmitted, RunRecords
    <2>2. InProgress(r) /\ UNCHANGED <<runPromise, abort, struct>>
      BY <1>3 DEF NextTurnEmitted, InProgress, others, control, calls
    <2> HIDE DEF rec
    <2> QED BY <2>1, <2>2, MoveAdvances DEF WindingDown
  <1>4. CASE StartFirstPass(r) \/ StartNextPass(r)
    <2>1. PICK to \in {"prompts", "steer"} : Moves(r, NewPass(run[r], to))
      BY <1>4 DEF StartFirstPass, StartNextPass
    <2>2. NewPass(run[r], to).pc = to BY <1>1 DEF NewPass, RunRecords
    <2>3. InProgress(r) /\ UNCHANGED <<runPromise, abort, struct>>
      BY <1>4 DEF StartFirstPass, StartNextPass, InProgress, calls
    <2> QED BY <2>1, <2>2, <2>3, MoveAdvances DEF WindingDown
  <1>5. CASE NoSteering(r)
    <2> DEFINE pc == IF run[r].more THEN "request" ELSE "follow"
               rec == [run[r] EXCEPT !.pc = pc]
    <2>1. Moves(r, rec) /\ rec.pc = pc BY <1>1, <1>5 DEF NoSteering, RunRecords
    <2>2. InProgress(r) /\ UNCHANGED <<runPromise, abort, struct>>
      BY <1>5 DEF NoSteering, InProgress, others, control, calls
    <2>3. pc \in {"request", "follow"} OBVIOUS
    <2> HIDE DEF rec, pc
    <2> QED BY <2>1, <2>2, <2>3, MoveAdvances DEF WindingDown
  <1>6. CASE DrainEmitted(r)
    <2> DEFINE rec == [run[r] EXCEPT !.pc = "inject"]
    <2>1. Moves(r, rec) /\ rec.pc = "inject" BY <1>1, <1>6 DEF DrainEmitted, RunRecords
    <2>2. InProgress(r) /\ UNCHANGED <<runPromise, abort, struct>>
      BY <1>6 DEF DrainEmitted, InProgress, others, control, calls
    <2> HIDE DEF rec
    <2> QED BY <2>1, <2>2, MoveAdvances DEF WindingDown
  <1>7. CASE ToolsDone(r)
    <2> DEFINE rec(more) == [run[r] EXCEPT !.more = more, !.tail = "toolResult",
                                           !.pc = "turnEnd"]
    <2>1. PICK more \in BOOLEAN : Moves(r, rec(more)) BY <1>7 DEF ToolsDone
    <2>2. rec(more).pc = "turnEnd" BY <1>1 DEF RunRecords
    <2>3. InProgress(r) /\ UNCHANGED <<runPromise, abort, struct>>
      BY <1>7 DEF ToolsDone, InProgress, control, calls
    <2> HIDE DEF rec
    <2> QED BY <2>1, <2>2, <2>3, MoveAdvances DEF WindingDown
  <1>8. CASE PrepareNextTurn(r)
    <2> DEFINE rec == [run[r] EXCEPT !.pc = "steer"]
    <2>1. Moves(r, rec) /\ rec.pc = "steer" BY <1>1, <1>8 DEF PrepareNextTurn, RunRecords
    <2>2. InProgress(r) /\ UNCHANGED <<runPromise, abort, struct>>
      BY <1>8 DEF PrepareNextTurn, InProgress, others, control, calls
    <2> HIDE DEF rec
    <2> QED BY <2>1, <2>2, MoveAdvances DEF WindingDown
  <1> QED BY <1>2, <1>3, <1>4, <1>5, <1>6, <1>7, <1>8

\* A message is persisted, a queue is drained, the provider answers.
LEMMA LoopAdvances ==
  ASSUME TypeInv, NEW r \in Runs,
         \/ InjectMessage(r) \/ DrainSteering(r) \/ DrainFollowUps(r)
         \/ \E out \in Outcomes : Respond(r, out)
         \/ ReportFailure(r) \/ AgentEnd(r)
  PROVE  RunAdvances(r)
  <1>1. run[r] \in RunRecords BY DEF TypeInv, TypeOK
  <1>2. CASE InjectMessage(r)
    <2> DEFINE rest == Tail(run[r].msgs)
               from == IF rest = <<>> THEN NoQueue ELSE run[r].origin
               pc == IF rest # <<>> THEN run[r].pc
                     ELSE IF run[r].pc = "prompts" THEN "steer" ELSE "request"
               rec == [run[r] EXCEPT !.msgs = rest, !.origin = from, !.tail = "user",
                                     !.pc = pc]
    <2>1. Moves(r, rec) /\ rec.pc = pc BY <1>1, <1>2 DEF InjectMessage, RunRecords
    <2>2. InProgress(r) /\ UNCHANGED <<runPromise, abort, struct>>
      BY <1>2 DEF InjectMessage, InProgress, control, calls
    <2>3. pc \in {"prompts", "inject", "steer", "request"} BY <1>2 DEF InjectMessage
    <2> HIDE DEF rec, pc
    <2> QED BY <2>1, <2>2, <2>3, MoveAdvances DEF WindingDown
  <1>3. CASE DrainSteering(r) \/ DrainFollowUps(r)
    <2>1. PICK queue, name, n : Drained(r, queue, name, n)
      BY <1>3 DEF DrainSteering, DrainFollowUps
    <2> DEFINE rec == [run[r] EXCEPT !.pc = "emitDrain", !.msgs = SubSeq(queue, 1, n),
                                     !.origin = [queue |-> name, gen |-> queueGen]]
    <2>2. Moves(r, rec) /\ rec.pc = "emitDrain" BY <1>1, <2>1 DEF Drained, RunRecords
    <2>3. InProgress(r) /\ UNCHANGED <<runPromise, abort, struct>>
      BY <1>3 DEF DrainSteering, DrainFollowUps, InProgress, control, calls
    <2> HIDE DEF rec
    <2> QED BY <2>2, <2>3, MoveAdvances DEF WindingDown
  <1>4. ASSUME NEW out \in Outcomes, Respond(r, out) PROVE RunAdvances(r)
    <2> DEFINE rec == [run[r] EXCEPT
                         !.tail = out, !.more = FALSE, !.retry = FALSE,
                         !.final = out \in {"error", "overflow", "aborted"},
                         !.streak = IF Fits(out) THEN 0 ELSE @,
                         !.silent = (@ \/ out = "silent") /\ ~Fits(out)]
               next == NextAwait(rec, out, branch')
    <2>1. Moves(r, next) BY <1>4 DEF Respond
    <2>2. "pc" \in DOMAIN rec BY <1>1 DEF RunRecords
    <2> HIDE DEF rec
    <2>3. next.pc \in {"tools", "turnEnd"} BY <2>2 DEF NextAwait
    <2>4. InProgress(r) /\ UNCHANGED <<runPromise, abort, struct>>
      BY <1>4 DEF Respond, InProgress, calls
    <2> HIDE DEF next
    <2> QED BY <2>1, <2>3, <2>4, MoveAdvances DEF WindingDown
  <1>5. CASE ReportFailure(r)
    <2> DEFINE out == IF run[r].signal THEN "aborted" ELSE "error"
               streak == IF Fits(out) THEN 0 ELSE run[r].streak
               rec == [run[r] EXCEPT !.tail = out, !.final = TRUE, !.failed = TRUE,
                                     !.retry = FALSE, !.streak = streak,
                                     !.pc = "turnEnd"]
    <2>1. Moves(r, rec) BY <1>1, <1>5 DEF ReportFailure, RunRecords
    <2>2. rec.pc = "turnEnd" BY <1>1 DEF RunRecords
    <2>3. InProgress(r) /\ UNCHANGED <<runPromise, abort, struct>>
      BY <1>5 DEF ReportFailure, InProgress, calls
    <2> HIDE DEF rec
    <2> QED BY <2>1, <2>2, <2>3, MoveAdvances DEF WindingDown
  <1>6. CASE AgentEnd(r)
    <2> DEFINE rec == [run[r] EXCEPT !.pc = "settle"]
    <2>1. Moves(r, rec) /\ rec.pc = "settle" /\ phase' = "idle"
      BY <1>1, <1>6 DEF AgentEnd, RunRecords
    <2>2. InProgress(r) /\ UNCHANGED <<runPromise, abort, struct>>
      BY <1>6 DEF AgentEnd, InProgress, calls
    <2> HIDE DEF rec
    <2> QED BY <2>1, <2>2, MoveAdvances
  <1> QED BY <1>2, <1>3, <1>4, <1>5, <1>6

\* The flushes begin, go on and end; the one in the finally clause of
\* executeTurn begins after agent_end.
LEMMA FlushStepAdvances ==
  ASSUME TypeInv, NEW r \in Runs, IdleAfterEnd(r),
         \/ NoFollowUps(r) \/ TurnEnd(r) \/ SavePoint(r) \/ Settle(r)
         \/ TurnEndFault(r) \/ FlushWrite(r)
  PROVE  RunAdvances(r)
  <1>1. run[r] \in RunRecords /\ Holds(r, run[r]) BY DEF TypeInv, TypeOK, RunsHold
  <1>2. {"agentEnd", "savePoint", "prepare", "threw", "finally"} \subseteq FlushReturns
    BY DEF FlushReturns
  <1>3. CASE NoFollowUps(r) \/ TurnEnd(r) \/ SavePoint(r) \/ TurnEndFault(r)
    <2>1. PICK to \in {"agentEnd", "savePoint", "prepare", "threw"} : StartFlush(r, to)
      BY <1>3 DEF NoFollowUps, TurnEnd, SavePoint, TurnEndFault
    <2>2. InProgress(r) /\ UNCHANGED <<runPromise, pending, abort, struct>>
      BY <1>3 DEF NoFollowUps, TurnEnd, SavePoint, TurnEndFault, InProgress, others,
                  control, calls
    <2> QED BY <1>2, <2>1, <2>2, StartFlushAdvances
  <1>4. CASE Settle(r)
    <2>1. StartFlush(r, "finally") /\ phase' = "idle"
      BY <1>4 DEF Settle, IdleAfterEnd, WindingDown, others, control
    <2>2. InProgress(r) /\ UNCHANGED <<runPromise, pending, abort, struct>>
      BY <1>4 DEF Settle, InProgress, others, control, calls
    <2> QED BY <1>2, <2>1, <2>2, StartFlushAdvances
  <1>5. CASE FlushWrite(r)
    <2>1. run[r].ret \in FlushReturns BY <1>1, <1>5 DEF Holds, FlushWrite
    <2>2. /\ Moves(r, Flushing(run[r], run[r].ret, Shifted(pending), branch'))
          /\ pending' = Shifted(pending)
      BY <1>5 DEF FlushWrite
    <2>3. run[r].ret = "finally" => phase' = "idle"
      BY <1>5 DEF FlushWrite, IdleAfterEnd, WindingDown, control
    <2>4. InProgress(r) /\ UNCHANGED <<runPromise, abort, struct>>
      BY <1>5 DEF FlushWrite, InProgress, control
    <2> QED BY <1>1, <2>1, <2>2, <2>3, <2>4, FlushAdvances
  <1> QED BY <1>3, <1>4, <1>5

\* An error inside the loop is reported, or leads to the catch clause.
LEMMA ErrorAdvances ==
  ASSUME TypeInv, NEW r \in Runs,
         LoopFault(r) \/ EmitDrainFault(r) \/ TurnEndThrew(r)
  PROVE  RunAdvances(r)
  <1> DEFINE rec == [run[r] EXCEPT !.msgs = <<>>, !.write = None, !.origin = NoQueue]
  <1>1. run[r] \in RunRecords BY DEF TypeInv, TypeOK
  <1>2. rec \in RunRecords
    <2>1. NoQueue \in Origins /\ <<>> \in Seq(Messages \cup Runs) BY DEF NoQueue, Origins
    <2> QED BY <1>1, <2>1 DEF RunRecords
  <1>3. AfterLoopError(r) BY DEF LoopFault, EmitDrainFault, TurnEndThrew
  <1>4. InProgress(r)
    BY DEF LoopFault, EmitDrainFault, TurnEndThrew, InsideLoop, InProgress
  <1>5. UNCHANGED <<runPromise, pending, abort, struct>>
    BY DEF LoopFault, EmitDrainFault, TurnEndThrew, others, control, calls
  <1>6. CASE Moves(r, Flushing(rec, "rejected", pending, branch))
    <2>1. "rejected" \in FlushReturns BY DEF FlushReturns
    <2> QED BY <1>2, <1>4, <1>5, <1>6, <2>1, FlushAdvances
  <1>7. CASE Moves(r, [rec EXCEPT !.pc = "fail"])
    <2> DEFINE next == [rec EXCEPT !.pc = "fail"]
    <2>1. next.pc = "fail" BY <1>2 DEF RunRecords
    <2> HIDE DEF rec
    <2>2. Moves(r, next) BY <1>7
    <2> HIDE DEF next
    <2> QED BY <1>4, <1>5, <2>1, <2>2, MoveAdvances DEF WindingDown
  <1> QED BY <1>3, <1>6, <1>7 DEF AfterLoopError

LEMMA RejectAdvances ==
  ASSUME TypeInv, NEW r \in Runs, OuterFault(r) \/ EmitNextFault(r) \/ Rejected(r)
  PROVE  RunAdvances(r)
  <1>1. Finish(r) /\ phase' = "idle" BY DEF OuterFault, EmitNextFault, Rejected, Reject
  <1>2. InProgress(r)
    BY DEF OuterFault, EmitNextFault, Rejected, OutsideLoop, InProgress
  <1>3. UNCHANGED <<abort, struct>> BY DEF OuterFault, EmitNextFault, Rejected, calls
  <1> QED BY <1>1, <1>2, <1>3, FinishAdvances

\* Another pass or the end, both with the phase idle.
LEMMA ContinueAdvances ==
  ASSUME TypeInv, NEW r \in Runs, InProgress(r), NEW again, NEW b,
         ContinueOrFinish(r, again, b), phase' = "idle",
         UNCHANGED <<pending, abort, struct>>
  PROVE  RunAdvances(r)
  <1>1. CASE Finish(r) BY <1>1, FinishAdvances
  <1>2. CASE Moves(r, Flushing(run[r], "resnap", pending, b)) /\ UNCHANGED runPromise
    <2>1. run[r] \in RunRecords /\ "resnap" \in FlushReturns
      BY DEF TypeInv, TypeOK, FlushReturns
    <2> QED BY <1>2, <2>1, FlushAdvances
  <1> QED BY <1>1, <1>2 DEF ContinueOrFinish

LEMMA PostRunAdvances ==
  ASSUME TypeInv, NEW r \in Runs, IdleAfterEnd(r),
         \/ PostRun(r) \/ PostRunLeft(r) \/ PostRunOverflow(r) \/ PostRunThreshold(r)
         \/ GiveUp(r)
         \/ AutoCompactStarted(r) \/ AutoCompacted(r) \/ AutoCompactThrew(r)
         \/ AutoCompactSkipped(r)
  PROVE  RunAdvances(r)
  <1>1. run[r] \in RunRecords BY DEF TypeInv, TypeOK
  <1>2. CASE PostRun(r) \/ GiveUp(r)
    <2>1. PICK again : ContinueOrFinish(r, again, branch) BY <1>2 DEF PostRun, GiveUp
    <2>2. phase' = "idle" BY <1>2 DEF PostRun, GiveUp, IdleAfterEnd, WindingDown
    <2>3. InProgress(r) /\ UNCHANGED <<pending, abort, struct>>
      BY <1>2 DEF PostRun, GiveUp, InProgress, calls
    <2> QED BY <2>1, <2>2, <2>3, ContinueAdvances
  <1>3. CASE AutoCompacted(r) \/ AutoCompactThrew(r) \/ AutoCompactSkipped(r)
    <2>1. PICK again, b : ContinueOrFinish(r, again, b)
      BY <1>3 DEF AutoCompacted, AutoCompactThrew, AutoCompactSkipped
    <2>2. phase' = "idle"
      BY <1>3 DEF AutoCompacted, AutoCompactThrew, AutoCompactSkipped, IdleAfterEnd
    <2>3. InProgress(r) /\ UNCHANGED <<pending, abort, struct>>
      BY <1>3 DEF AutoCompacted, AutoCompactThrew, AutoCompactSkipped, InProgress, calls
    <2> QED BY <2>1, <2>2, <2>3, ContinueAdvances
  <1>4. CASE PostRunOverflow(r)
    <2> DEFINE streak == run[r].streak + 1
               given == [run[r] EXCEPT !.pc = "giveUp"]
               tried == [run[r] EXCEPT !.pc = "compactStart", !.retry = TRUE,
                                       !.streak = streak]
    <2>1. Moves(r, given) \/ Moves(r, tried) BY <1>1, <1>4 DEF PostRunOverflow, RunRecords
    <2>2. given.pc = "giveUp" /\ tried.pc = "compactStart" BY <1>1 DEF RunRecords
    <2>3. phase' = "idle" BY <1>4 DEF PostRunOverflow, IdleAfterEnd, WindingDown
    <2>4. InProgress(r) /\ UNCHANGED <<runPromise, abort, struct>>
      BY <1>4 DEF PostRunOverflow, InProgress, calls
    <2> HIDE DEF given, tried
    <2> QED BY <2>1, <2>2, <2>3, <2>4, MoveAdvances
  <1>5. CASE PostRunThreshold(r)
    <2> DEFINE silent == run[r].silent \/ lastAssistant.out = "overflow"
               rec == [run[r] EXCEPT !.pc = "compactStart", !.retry = FALSE,
                                     !.silent = silent]
    <2>1. Moves(r, rec) /\ rec.pc = "compactStart"
      BY <1>1, <1>5 DEF PostRunThreshold, RunRecords
    <2>2. phase' = "idle" BY <1>5 DEF PostRunThreshold, IdleAfterEnd, WindingDown
    <2>3. InProgress(r) /\ UNCHANGED <<runPromise, abort, struct>>
      BY <1>5 DEF PostRunThreshold, InProgress, calls
    <2> HIDE DEF rec
    <2> QED BY <2>1, <2>2, <2>3, MoveAdvances
  <1>6. CASE AutoCompactStarted(r)
    <2> DEFINE rec == [run[r] EXCEPT !.pc = "compacting", !.prev = phase]
    <2>1. Moves(r, rec) /\ rec.pc = "compacting" /\ rec.prev = phase
      BY <1>1, <1>6 DEF AutoCompactStarted, RunRecords
    <2>2. phase = "idle" BY <1>6 DEF AutoCompactStarted, IdleAfterEnd, WindingDown
    <2>3. InProgress(r) /\ UNCHANGED <<runPromise, abort, struct>>
      BY <1>6 DEF AutoCompactStarted, InProgress, calls
    <2> HIDE DEF rec
    <2> QED BY <2>1, <2>2, <2>3, MoveAdvances DEF WindingDown
  <1>7. CASE PostRunLeft(r)
    <2> DEFINE rec == [run[r] EXCEPT !.silent = TRUE]
    <2>1. rec \in RunRecords BY <1>1 DEF RunRecords
    <2>2. /\ phase' = "idle" /\ InProgress(r)
          /\ UNCHANGED <<pending, abort, struct>>
      BY <1>7 DEF PostRunLeft, IdleAfterEnd, WindingDown, InProgress, calls
    <2>3. \/ Finish(r)
          \/ Moves(r, Flushing(rec, "resnap", pending, branch)) /\ UNCHANGED runPromise
      BY <1>7 DEF PostRunLeft
    <2> HIDE DEF rec
    <2>4. CASE Finish(r) BY <2>2, <2>4, FinishAdvances
    <2>5. CASE Moves(r, Flushing(rec, "resnap", pending, branch)) /\ UNCHANGED runPromise
      <3>1. "resnap" \in FlushReturns BY DEF FlushReturns
      <3> QED BY <2>1, <2>2, <2>5, <3>1, FlushAdvances
    <2> QED BY <2>3, <2>4, <2>5
  <1> QED BY <1>2, <1>3, <1>4, <1>5, <1>6, <1>7

LEMMA RunStepAdvances ==
  ASSUME TypeInv, NEW r \in Runs, IdleAfterEnd(r), RunStep(r) \/ RunFault(r)
  PROVE  RunAdvances(r)
  BY GoesOn, LoopAdvances, FlushStepAdvances, ErrorAdvances, RejectAdvances,
     PostRunAdvances
     DEF RunStep, RunFault

-----------------------------------------------------------------------------
(***************************************************************************)
(* The invariant is kept.                                                  *)
(***************************************************************************)

\* Its parts beyond the types.
CallsPart ==
  /\ OneAtATime
  /\ IdleWhenQuiet
  /\ \A r \in Runs : IdleAfterEnd(r)
  /\ \A a \in Aborts : AbortAwaits(a)

LEMMA RunKeeps ==
  ASSUME CallsInv, NEW r \in Runs, RunAdvances(r)
  PROVE  CallsPart'
  <1>1. InProgress(r) /\ runPromise = r /\ \A s \in Structs : ~Restructuring(s)
    BY DEF CallsInv, OneAtATime, RunAdvances
  <1>2. \A q \in Runs \ {r} : run'[q] = run[q] /\ ~InProgress(q)
    BY <1>1 DEF CallsInv, OneAtATime, RunAdvances
  <1>3. UNCHANGED <<abort, struct>> BY DEF RunAdvances
  <1>4. \/ InProgress(r)' /\ IdleAfterEnd(r)' /\ runPromise' = r
        \/ run'[r].pc = "done" /\ phase' = "idle"
    BY <1>1 DEF RunAdvances
  <1>5. \A q \in Runs \ {r} : ~InProgress(q)' BY <1>2 DEF InProgress
  <1>6. OneAtATime'
    BY <1>1, <1>3, <1>4, <1>5 DEF OneAtATime, Restructuring, InProgress
  <1>7. IdleWhenQuiet' BY <1>4 DEF IdleWhenQuiet
  <1>8. ASSUME NEW q \in Runs PROVE IdleAfterEnd(q)'
    <2>1. CASE q = r BY <1>4, <2>1 DEF IdleAfterEnd, WindingDown
    <2>2. CASE q # r BY <1>5, <2>2 DEF IdleAfterEnd, WindingDown, InProgress
    <2> QED BY <2>1, <2>2
  <1>9. ASSUME NEW a \in Aborts PROVE AbortAwaits(a)'
    <2>1. ASSUME NEW v \in abort[a].victims, run'[v].pc # "done"
          PROVE  /\ abort[a].pc \in {"notify", "wait"} /\ InProgress(v)'
                 /\ abort[a].pc = "wait" => abort[a].target = v
      <3>1. v \in Runs BY DEF CallsInv, TypeInv, TypeOK, AbortRecords
      <3>2. CASE v = r
        BY <1>1, <1>4, <2>1, <3>2 DEF CallsInv, AbortAwaits, InProgress
      <3>3. CASE v # r
        BY <1>2, <2>1, <3>1, <3>3 DEF CallsInv, AbortAwaits
      <3> QED BY <3>2, <3>3
    <2> QED BY <1>3, <2>1 DEF AbortAwaits
  <1> QED BY <1>6, <1>7, <1>8, <1>9 DEF CallsPart

LEMMA PromptKeeps ==
  ASSUME CallersWait, CallsInv, NEW r \in Runs, NEW rearm \in BOOLEAN, Prompt(r, rearm)
  PROVE  CallsPart'
  <1>1. /\ \A q \in Runs : ~InProgress(q)
        /\ \A s \in Structs : ~Restructuring(s)
    BY DEF Prompt, MayStart
  <1> DEFINE rec == [run[r] EXCEPT !.pc = "snapshot", !.tail = ContextTail(branch)]
  <1>2. run \in [Runs -> RunRecords] /\ run[r] \in RunRecords
    BY DEF CallsInv, TypeInv, TypeOK
  <1>3. rec.pc = "snapshot" /\ run' = [run EXCEPT ![r] = rec]
    BY <1>2 DEF Prompt, Moves, RunRecords
  <1> HIDE DEF rec
  <1>4. run'[r].pc = "snapshot" /\ \A q \in Runs \ {r} : run'[q] = run[q]
    BY <1>2, <1>3
  <1>5. runPromise' = r /\ UNCHANGED <<abort, struct>> BY DEF Prompt, StartRunPromise, calls
  <1>6. InProgress(r)' /\ \A q \in Runs \ {r} : ~InProgress(q)'
    BY <1>1, <1>4 DEF InProgress
  <1>7. OneAtATime' BY <1>1, <1>5, <1>6 DEF OneAtATime, Restructuring
  <1>8. IdleWhenQuiet' BY <1>6 DEF IdleWhenQuiet
  <1>9. \A q \in Runs : IdleAfterEnd(q)'
    BY <1>4, <1>6 DEF IdleAfterEnd, WindingDown, InProgress
  <1>10. ASSUME NEW a \in Aborts PROVE AbortAwaits(a)'
    <2>1. \A v \in abort[a].victims : v \in Runs /\ run[v].pc = "done"
      BY <1>1 DEF CallsInv, AbortAwaits, TypeInv, TypeOK, AbortRecords
    <2>2. run[r].pc = "new" BY DEF Prompt
    <2> QED BY <1>4, <1>5, <2>1, <2>2 DEF AbortAwaits
  <1> QED BY <1>7, <1>8, <1>9, <1>10 DEF CallsPart

\* A step that leaves the phase and the places of all calls alone.
LEMMA FrameKeeps ==
  ASSUME CallsInv, UNCHANGED <<phase, runPromise, run, abort, struct>>
  PROVE  CallsPart'
  BY DEF CallsInv, CallsPart, OneAtATime, IdleWhenQuiet, IdleAfterEnd, WindingDown,
         AbortAwaits, InProgress, Restructuring

LEMMA AbortKeeps ==
  ASSUME CallsInv, NEW a \in Aborts, Abort(a) \/ AbortStep(a)
  PROVE  CallsPart'
  <1>1. /\ run \in [Runs -> RunRecords] /\ abort \in [Aborts -> AbortRecords]
        /\ abort[a] \in AbortRecords /\ runAbort \in Runs \cup {None}
    BY DEF CallsInv, TypeInv, TypeOK
  <1>2. UNCHANGED <<phase, runPromise, struct>>
    BY DEF Abort, AbortStep, AbortNotified, AbortReturns, control
  <1>3. \A q \in Runs : /\ run'[q].pc = run[q].pc
                        /\ run'[q].ret = run[q].ret
                        /\ run'[q].prev = run[q].prev
    <2>1. CASE Abort(a)
      <3>1. CASE runAbort = None BY <2>1, <3>1 DEF Abort
      <3>2. CASE runAbort \in Runs /\ runAbort # None
        <4> DEFINE rec == [run[runAbort] EXCEPT !.signal = TRUE]
        <4>1. run' = [run EXCEPT ![runAbort] = rec] BY <2>1, <3>2 DEF Abort
        <4>2. /\ rec.pc = run[runAbort].pc
              /\ rec.ret = run[runAbort].ret
              /\ rec.prev = run[runAbort].prev
          BY <1>1, <3>2 DEF RunRecords
        <4> HIDE DEF rec
        <4> QED BY <1>1, <3>2, <4>1, <4>2
      <3> QED BY <1>1, <3>1, <3>2
    <2>2. CASE AbortStep(a) BY <2>2 DEF AbortStep, AbortNotified, AbortReturns
    <2> QED BY <2>1, <2>2
  <1>4. OneAtATime' /\ IdleWhenQuiet' /\ \A r \in Runs : IdleAfterEnd(r)'
    BY <1>2, <1>3 DEF CallsInv, OneAtATime, IdleWhenQuiet, IdleAfterEnd, WindingDown,
                      InProgress, Restructuring
  <1>5. \A b \in Aborts \ {a} : abort'[b] = abort[b]
    BY <1>1 DEF Abort, AbortStep, AbortNotified, AbortReturns
  <1>6. \A b \in Aborts \ {a} : AbortAwaits(b)'
    BY <1>1, <1>3, <1>5 DEF CallsInv, AbortAwaits, AbortRecords, InProgress
  <1>7. AbortAwaits(a)'
    <2>1. CASE Abort(a)
      <3>1. abort'[a].pc = "notify" /\ abort'[a].victims = {r \in Runs : InProgress(r)}
        BY <1>1, <2>1 DEF Abort, AbortRecords
      <3> QED BY <1>3, <3>1 DEF AbortAwaits, InProgress
    <2>2. CASE AbortNotified(a)
      <3>1. /\ abort'[a].pc = "wait" /\ abort'[a].target = runPromise
            /\ abort'[a].victims = abort[a].victims
        BY <1>1, <2>2 DEF AbortNotified, AbortRecords
      <3>2. \A v \in abort[a].victims :
              v \in Runs /\ (run[v].pc # "done" => InProgress(v) /\ runPromise = v)
        BY <1>1 DEF CallsInv, AbortAwaits, OneAtATime, AbortRecords
      <3> QED BY <1>3, <3>1, <3>2 DEF AbortAwaits, InProgress
    <2>3. CASE AbortReturns(a)
      <3>1. abort'[a].victims = abort[a].victims /\ abort[a].pc = "wait"
        BY <1>1, <2>3 DEF AbortReturns, AbortRecords
      <3>2. ASSUME NEW v \in abort[a].victims PROVE run[v].pc = "done"
        <4>1. v \in Runs /\ v # None BY <1>1, ConstantsAssumption DEF AbortRecords
        <4>2. run[v].pc # "done" => abort[a].target = v
          BY <3>1 DEF CallsInv, AbortAwaits
        <4> QED BY <2>3, <4>1, <4>2 DEF AbortReturns
      <3>3. abort[a].victims \subseteq Runs BY <1>1 DEF AbortRecords
      <3> QED BY <1>3, <3>1, <3>2, <3>3 DEF AbortAwaits
    <2> QED BY <2>1, <2>2, <2>3 DEF AbortStep
  <1> QED BY <1>4, <1>6, <1>7 DEF CallsPart

LEMMA StructKeeps ==
  ASSUME CallersWait, CallsInv, NEW s \in Structs,
         Compact(s) \/ Navigate(s) \/ StructStep(s) \/ CompactStartFault(s)
  PROVE  CallsPart'
  <1>1. UNCHANGED <<runPromise, run, abort>>
    BY DEF Compact, Navigate, StructStep, CompactStartFault, CompactStarted, Compacted,
           CompactFailed, Navigated, NavigateCancelled, Structural
  <1>2. struct \in [Structs -> {"new", "starting", "compacting", "navigating",
                                "done", "threw"}]
    BY DEF CallsInv, TypeInv, TypeOK
  <1>3. /\ \A r \in Runs : ~InProgress(r)
        /\ \A t \in Structs \ {s} : ~Restructuring(t)
    <2>1. CASE Compact(s) \/ Navigate(s) BY <2>1 DEF Compact, Navigate, MayStart
    <2>2. CASE StructStep(s) \/ CompactStartFault(s)
      <3>1. Restructuring(s)
        BY <2>2 DEF StructStep, CompactStartFault, CompactStarted, Compacted,
                    CompactFailed, Navigated, NavigateCancelled, Structural, Restructuring
      <3> QED BY <3>1 DEF CallsInv, OneAtATime
    <2> QED BY <2>1, <2>2
  <1>4. \A t \in Structs \ {s} : struct'[t] = struct[t]
    BY <1>2 DEF Compact, Navigate, StructStep, CompactStartFault, CompactStarted,
                Compacted, CompactFailed, Navigated, NavigateCancelled, Structural
  <1>5. struct'[s] \in {"starting", "compacting", "navigating", "threw"} \/ phase' = "idle"
    BY <1>2 DEF Compact, Navigate, StructStep, CompactStartFault, CompactStarted,
                Compacted, CompactFailed, Navigated, NavigateCancelled, Structural
  <1>6. OneAtATime' BY <1>1, <1>3, <1>4 DEF OneAtATime, Restructuring, InProgress
  <1>7. IdleWhenQuiet' BY <1>5 DEF IdleWhenQuiet, Restructuring
  <1>8. \A r \in Runs : IdleAfterEnd(r)'
    BY <1>1, <1>3 DEF IdleAfterEnd, WindingDown, InProgress
  <1>9. \A a \in Aborts : AbortAwaits(a)'
    BY <1>1 DEF CallsInv, AbortAwaits, InProgress
  <1> QED BY <1>6, <1>7, <1>8, <1>9 DEF CallsPart

LEMMA InitCalls == Init => CallsInv
  <1> SUFFICES ASSUME Init PROVE CallsInv OBVIOUS
  <1>1. \A r \in Runs : run[r].pc = "new" BY DEF Init, NewRun
  <1>2. \A s \in Structs : ~Restructuring(s) BY DEF Init, Restructuring
  <1>3. \A a \in Aborts : abort[a].victims = {} BY DEF Init
  <1> QED BY <1>1, <1>2, <1>3, InitTypeInv
          DEF Init, CallsInv, OneAtATime, IdleWhenQuiet, IdleAfterEnd, WindingDown,
              AbortAwaits, InProgress

LEMMA NextCalls ==
  ASSUME CallersWait
  PROVE  CallsInv /\ [Next]_vars => CallsInv'
  <1> SUFFICES ASSUME CallsInv, [Next]_vars PROVE CallsPart'
    BY NextTypeInv DEF CallsInv, CallsPart
  <1>1. ASSUME NEW r \in Runs, \E rearm \in BOOLEAN : Prompt(r, rearm) PROVE CallsPart'
    BY <1>1, PromptKeeps
  <1>2. ASSUME NEW r \in Runs, RunStep(r) \/ RunFault(r) PROVE CallsPart'
    <2>1. RunAdvances(r) BY <1>2, RunStepAdvances DEF CallsInv
    <2> QED BY <2>1, RunKeeps
  <1>3. CASE (\E m \in Messages : Steer(m) \/ FollowUp(m) \/ NextTurn(m)) \/ ClearQueue
    BY <1>3, FrameKeeps DEF Steer, FollowUp, NextTurn, ClearQueue, control, calls
  <1>4. CASE \E w \in Writes : Set(w) \/ SetSaved(w) \/ SetRejected(w)
    BY <1>4, FrameKeeps DEF Set, SetSaved, SetRejected, control
  <1>5. CASE \E a \in Aborts : Abort(a) \/ AbortStep(a) BY <1>5, AbortKeeps
  <1>6. CASE \E s \in Structs :
               Compact(s) \/ Navigate(s) \/ StructStep(s) \/ CompactStartFault(s)
    BY <1>6, StructKeeps
  <1>7. CASE UNCHANGED vars BY <1>7, FrameKeeps DEF vars, others, control, calls
  <1> QED BY <1>1, <1>2, <1>3, <1>4, <1>5, <1>6, <1>7 DEF Next, Rest

-----------------------------------------------------------------------------
(***************************************************************************)
(* The theorems.                                                           *)
(***************************************************************************)

LEMMA CallsInvariant ==
  ASSUME CallersWait
  PROVE  Spec => []CallsInv
  BY InitCalls, NextCalls, PTL DEF Spec

\* abort() returns only after the runs it found in progress have settled
\* (lines 1364-1368 and 1390-1392).
THEOREM AbortsWaitForVictims ==
  ASSUME CallersWait
  PROVE  Spec => []AbortWaits
  <1>1. CallsInv => AbortWaits BY DEF CallsInv, AbortAwaits, AbortWaits
  <1> QED BY <1>1, CallsInvariant, PTL

\* Whatever path the calls took, the phase is idle when all have returned, but
\* for the listener of compaction_start that throws (lines 572, 908-910, 923,
\* 1084).
THEOREM PhaseIsRestored ==
  ASSUME CallersWait
  PROVE  Spec => []PhaseRestored
  <1>1. CallsInv => PhaseRestored
    BY DEF CallsInv, IdleWhenQuiet, PhaseRestored, Quiet
  <1> QED BY <1>1, CallsInvariant, PTL

-----------------------------------------------------------------------------
(***************************************************************************)
(* Recovery and delivery.  A run in progress has recovered from an         *)
(* overflow since its last fitting response only while the latch is set;   *)
(* and without a fault, a run past its first response knows that response, *)
(* so it looks at the queues before it settles.                            *)
(***************************************************************************)

OverflowOnce(rec, set) == rec.silent \/ rec.streak = 0 \/ (set /\ rec.streak = 1)

\* The run dies of an error.
Failing(rec) ==
  \/ rec.pc \in {"fail", "threw", "rejected"}
  \/ rec.pc = "flush" /\ rec.ret \in {"threw", "rejected"}

\* The pass in progress, or to come, has still to be answered.
BeforeReply(rec) ==
  \/ rec.pc \in {"snapshot", "emitNext", "hook", "resnap", "giveUp", "compactStart",
                 "compacting"}
  \/ rec.pc = "flush" /\ rec.ret = "resnap"
  \/ rec.pc \in {"prompts", "steer", "emitDrain", "inject", "request"} /\ rec.more

Answering(rec, out) == ~Failing(rec) /\ (out = None => BeforeReply(rec))

\* What holds of a run in progress.
Sound(r) ==
  /\ InProgress(r)
  /\ OverflowOnce(run[r], latch)
  /\ faults = 0 => Answering(run[r], lastAssistant.out)

\* What a step of it leads to.
StaysSound(r) ==
  \E rec :
    /\ Moves(r, rec)
    /\ OverflowOnce(rec, latch')
    /\ faults' = 0 => IF rec.pc = "done" THEN ~HasQueuedMessages'
                      ELSE Answering(rec, lastAssistant'.out)

\* The parts of a record that count here.
SameCourse(rec, old) ==
  rec.streak = old.streak /\ rec.silent = old.silent /\ rec.more = old.more

LEMMA ArriveCourse ==
  ASSUME NEW rec \in RunRecords, NEW to, NEW b
  PROVE  Arrive(rec, to, b).pc = to /\ SameCourse(Arrive(rec, to, b), rec)
  <1> DEFINE tail == CASE to = "prepare" -> ContextTail(b)
                       [] to = "resnap" -> RetryTail(b)
                       [] OTHER -> rec.tail
  <1>1. Arrive(rec, to, b) = [rec EXCEPT !.pc = to, !.write = None, !.tail = tail]
    BY DEF Arrive, RunRecords
  <1> HIDE DEF tail
  <1> QED BY <1>1 DEF RunRecords, SameCourse

LEMMA FlushingCourse ==
  ASSUME NEW rec \in RunRecords, NEW to \in FlushReturns, NEW queue, NEW b
  PROVE  LET next == Flushing(rec, to, queue, b)
         IN /\ next.pc = to \/ (next.pc = "flush" /\ next.ret = to)
            /\ SameCourse(next, rec)
  <1>1. CASE queue = <<>> BY <1>1, ArriveCourse DEF Flushing
  <1>2. CASE queue # <<>> BY <1>2 DEF Flushing, RunRecords, SameCourse
  <1> QED BY <1>1, <1>2

\* A step without a fault, and one with.
LEMMA NoFaultBefore ==
  ASSUME TypeInv, faults' = faults \/ faults' = faults + 1
  PROVE  (faults' = 0 => faults = 0) /\ (faults' = faults + 1 => faults' # 0)
  BY DEF TypeInv, TypeOK

\* The run goes on with the record rec.
LEMMA MoveSound ==
  ASSUME NEW r \in Runs, Sound(r), NEW rec, Moves(r, rec), SameCourse(rec, run[r]),
         UNCHANGED <<latch, lastAssistant, faults>>,
         faults = 0 => Answering(rec, lastAssistant.out), rec.pc # "done"
  PROVE  StaysSound(r)
  BY DEF Sound, StaysSound, OverflowOnce, SameCourse

\* The run goes on with a flush after the first response.
LEMMA FlushSound ==
  ASSUME TypeInv, NEW r \in Runs, Sound(r), NEW to \in FlushReturns, StartFlush(r, to),
         faults' = 0 => /\ to \notin {"threw", "rejected"}
                        /\ lastAssistant.out # None \/ to = "resnap",
         faults' = 0 => faults = 0,
         UNCHANGED <<latch, lastAssistant>>
  PROVE  StaysSound(r)
  <1> DEFINE rec == Flushing(run[r], to, pending, branch)
  <1>1. run[r] \in RunRecords BY DEF TypeInv, TypeOK
  <1>2. /\ rec.pc = to \/ (rec.pc = "flush" /\ rec.ret = to)
        /\ SameCourse(rec, run[r])
    BY <1>1, FlushingCourse
  <1>3. Moves(r, rec) BY DEF StartFlush
  <1> HIDE DEF rec
  <1>4. OverflowOnce(rec, latch') BY <1>2 DEF Sound, OverflowOnce, SameCourse
  <1>5. faults' = 0 => rec.pc # "done" /\ Answering(rec, lastAssistant'.out)
    BY <1>2 DEF Answering, Failing, BeforeReply, FlushReturns
  <1> QED BY <1>3, <1>4, <1>5 DEF StaysSound

\* Another pass, or the end with nothing in the queues.
LEMMA ContinueSound ==
  ASSUME TypeInv, NEW r \in Runs, NEW again, NEW b, ContinueOrFinish(r, again, b),
         OverflowOnce(run[r], latch'),
         faults' = 0 /\ ~again => ~HasQueuedMessages'
  PROVE  StaysSound(r)
  <1>1. run[r] \in RunRecords BY DEF TypeInv, TypeOK
  <1>2. CASE again
    <2> DEFINE rec == Flushing(run[r], "resnap", pending, b)
    <2>1. /\ rec.pc = "resnap" \/ (rec.pc = "flush" /\ rec.ret = "resnap")
          /\ SameCourse(rec, run[r])
      BY <1>1, FlushingCourse DEF FlushReturns
    <2>2. Moves(r, rec) BY <1>2 DEF ContinueOrFinish
    <2> HIDE DEF rec
    <2>3. OverflowOnce(rec, latch') BY <2>1 DEF OverflowOnce, SameCourse
    <2>4. rec.pc # "done" /\ Answering(rec, lastAssistant'.out)
      BY <2>1 DEF Answering, Failing, BeforeReply
    <2> QED BY <2>2, <2>3, <2>4 DEF StaysSound
  <1>3. CASE ~again
    <2> DEFINE old == [run[r] EXCEPT !.msgs = <<>>, !.origin = NoQueue]
               rec == Arrive(old, "done", branch)
    <2>1. NoQueue \in Origins /\ <<>> \in Seq(Messages \cup Runs) BY DEF NoQueue, Origins
    <2>2. old \in RunRecords /\ SameCourse(old, run[r])
      BY <1>1, <2>1 DEF RunRecords, SameCourse
    <2>3. Moves(r, rec) BY <1>3 DEF ContinueOrFinish, Finish
    <2> HIDE DEF old
    <2>4. rec.pc = "done" /\ SameCourse(rec, old) BY <2>2, ArriveCourse
    <2> HIDE DEF rec
    <2>5. OverflowOnce(rec, latch') BY <2>2, <2>4 DEF OverflowOnce, SameCourse
    <2> QED BY <1>3, <2>3, <2>4, <2>5 DEF StaysSound
  <1> QED BY <1>2, <1>3

\* A run that fails.
LEMMA FailSound ==
  ASSUME TypeInv, NEW r \in Runs, Sound(r), AfterLoopError(r) \/ Finish(r),
         UNCHANGED latch, faults' # 0
  PROVE  StaysSound(r)
  <1>1. run[r] \in RunRecords BY DEF TypeInv, TypeOK
  <1>2. NoQueue \in Origins /\ <<>> \in Seq(Messages \cup Runs) BY DEF NoQueue, Origins
  <1>3. ASSUME NEW rec, Moves(r, rec), SameCourse(rec, run[r]) PROVE StaysSound(r)
    BY <1>3 DEF Sound, StaysSound, OverflowOnce, SameCourse
  <1>4. CASE AfterLoopError(r)
    <2> DEFINE old == [run[r] EXCEPT !.msgs = <<>>, !.write = None, !.origin = NoQueue]
               reported == [old EXCEPT !.pc = "fail"]
               thrown == Flushing(old, "rejected", pending, branch)
    <2>1. old \in RunRecords /\ SameCourse(old, run[r])
      BY <1>1, <1>2 DEF RunRecords, SameCourse
    <2>2. Moves(r, reported) \/ Moves(r, thrown) BY <1>4 DEF AfterLoopError
    <2> HIDE DEF old
    <2>3. SameCourse(reported, old) BY <2>1 DEF RunRecords, SameCourse
    <2>4. SameCourse(thrown, old) BY <2>1, FlushingCourse DEF FlushReturns
    <2> HIDE DEF reported, thrown
    <2> QED BY <1>3, <2>1, <2>2, <2>3, <2>4 DEF SameCourse
  <1>5. CASE Finish(r)
    <2> DEFINE old == [run[r] EXCEPT !.msgs = <<>>, !.origin = NoQueue]
               rec == Arrive(old, "done", branch)
    <2>1. old \in RunRecords /\ SameCourse(old, run[r])
      BY <1>1, <1>2 DEF RunRecords, SameCourse
    <2>2. Moves(r, rec) BY <1>5 DEF Finish
    <2> HIDE DEF old
    <2>3. SameCourse(rec, old) BY <2>1, ArriveCourse
    <2> HIDE DEF rec
    <2> QED BY <1>3, <2>1, <2>2, <2>3 DEF SameCourse
  <1> QED BY <1>4, <1>5

\* The steps that only move the run to another await.
LEMMA PlainStepSound ==
  ASSUME TypeInv, NEW r \in Runs, Sound(r),
         \/ TakeNextTurn(r) \/ NextTurnEmitted(r) \/ StartFirstPass(r)
         \/ StartNextPass(r) \/ InjectMessage(r) \/ DrainSteering(r)
         \/ NoSteering(r) \/ DrainFollowUps(r) \/ DrainEmitted(r)
         \/ PrepareNextTurn(r) \/ AgentEnd(r) \/ AutoCompactStarted(r)
  PROVE  StaysSound(r)
  <1>1. run[r] \in RunRecords BY DEF TypeInv, TypeOK
  <1>2. UNCHANGED <<latch, lastAssistant, faults>>
    BY DEF TakeNextTurn, NextTurnEmitted, StartFirstPass, StartNextPass, InjectMessage,
           DrainSteering, NoSteering, DrainFollowUps, DrainEmitted, PrepareNextTurn,
           AgentEnd, AutoCompactStarted, others, control, bounds
  <1>3. CASE TakeNextTurn(r)
    <2> DEFINE pc == IF nextTurnQueue = <<>> THEN "hook" ELSE "emitNext"
               rec == [run[r] EXCEPT !.pc = pc, !.msgs = Append(nextTurnQueue, r),
                                     !.origin = [queue |-> "nextTurn", gen |-> 0]]
    <2>1. /\ Moves(r, rec) /\ rec.pc \in {"hook", "emitNext"} /\ SameCourse(rec, run[r])
      BY <1>1, <1>3 DEF TakeNextTurn, RunRecords, SameCourse
    <2> HIDE DEF rec
    <2> QED BY <1>2, <2>1, MoveSound DEF Answering, Failing, BeforeReply
  <1>4. CASE NextTurnEmitted(r)
    <2> DEFINE rec == [run[r] EXCEPT !.pc = "hook"]
    <2>1. Moves(r, rec) /\ rec.pc = "hook" /\ SameCourse(rec, run[r])
      BY <1>1, <1>4 DEF NextTurnEmitted, RunRecords, SameCourse
    <2> HIDE DEF rec
    <2> QED BY <1>2, <2>1, MoveSound DEF Answering, Failing, BeforeReply
  <1>5. CASE StartFirstPass(r) \/ StartNextPass(r)
    <2>1. PICK to \in {"prompts", "steer"} : Moves(r, NewPass(run[r], to))
      BY <1>5 DEF StartFirstPass, StartNextPass
    <2> DEFINE rec == NewPass(run[r], to)
    <2>2. rec.pc = to /\ rec.more /\ rec.streak = run[r].streak /\ rec.silent = run[r].silent
      BY <1>1 DEF NewPass, RunRecords
    <2>3. Moves(r, rec) BY <2>1
    <2> HIDE DEF rec
    <2>4. Answering(rec, lastAssistant'.out) /\ rec.pc # "done"
      BY <2>2 DEF Answering, Failing, BeforeReply
    <2>5. OverflowOnce(rec, latch') BY <1>2, <2>2 DEF Sound, OverflowOnce
    <2> QED BY <2>3, <2>4, <2>5 DEF StaysSound
  <1>6. CASE InjectMessage(r)
    <2> DEFINE rest == Tail(run[r].msgs)
               from == IF rest = <<>> THEN NoQueue ELSE run[r].origin
               pc == IF rest # <<>> THEN run[r].pc
                     ELSE IF run[r].pc = "prompts" THEN "steer" ELSE "request"
               rec == [run[r] EXCEPT !.msgs = rest, !.origin = from, !.tail = "user",
                                     !.pc = pc]
    <2>1. Moves(r, rec) /\ rec.pc = pc /\ SameCourse(rec, run[r])
      BY <1>1, <1>6 DEF InjectMessage, RunRecords, SameCourse
    <2>2. pc \in {"prompts", "inject", "steer", "request"}
          /\ run[r].pc \in {"prompts", "inject"}
      BY <1>6 DEF InjectMessage
    <2> HIDE DEF rec, pc
    <2>3. faults = 0 => Answering(rec, lastAssistant.out)
      BY <2>1, <2>2 DEF Sound, Answering, Failing, BeforeReply, SameCourse
    <2> QED BY <1>2, <2>1, <2>2, <2>3, MoveSound
  <1>7. CASE DrainSteering(r) \/ DrainFollowUps(r)
    <2>1. PICK queue, name, n : Drained(r, queue, name, n)
      BY <1>7 DEF DrainSteering, DrainFollowUps
    <2> DEFINE rec == [run[r] EXCEPT !.pc = "emitDrain", !.msgs = SubSeq(queue, 1, n),
                                     !.origin = [queue |-> name, gen |-> queueGen]]
    <2>2. Moves(r, rec) /\ rec.pc = "emitDrain" /\ SameCourse(rec, run[r])
      BY <1>1, <2>1 DEF Drained, RunRecords, SameCourse
    <2>3. run[r].pc \in {"steer", "follow"} BY <1>7 DEF DrainSteering, DrainFollowUps
    <2> HIDE DEF rec
    <2>4. faults = 0 => Answering(rec, lastAssistant.out)
      BY <2>2, <2>3 DEF Sound, Answering, Failing, BeforeReply, SameCourse
    <2> QED BY <1>2, <2>2, <2>4, MoveSound
  <1>8. CASE NoSteering(r)
    <2> DEFINE pc == IF run[r].more THEN "request" ELSE "follow"
               rec == [run[r] EXCEPT !.pc = pc]
    <2>1. Moves(r, rec) /\ rec.pc = pc /\ SameCourse(rec, run[r]) /\ run[r].pc = "steer"
      BY <1>1, <1>8 DEF NoSteering, RunRecords, SameCourse
    <2> HIDE DEF rec
    <2>2. faults = 0 => Answering(rec, lastAssistant.out)
      BY <2>1 DEF Sound, Answering, Failing, BeforeReply, SameCourse
    <2> QED BY <1>2, <2>1, <2>2, MoveSound
  <1>9. CASE DrainEmitted(r)
    <2> DEFINE rec == [run[r] EXCEPT !.pc = "inject"]
    <2>1. /\ Moves(r, rec) /\ rec.pc = "inject" /\ SameCourse(rec, run[r])
          /\ run[r].pc = "emitDrain"
      BY <1>1, <1>9 DEF DrainEmitted, RunRecords, SameCourse
    <2> HIDE DEF rec
    <2>2. faults = 0 => Answering(rec, lastAssistant.out)
      BY <2>1 DEF Sound, Answering, Failing, BeforeReply, SameCourse
    <2> QED BY <1>2, <2>1, <2>2, MoveSound
  <1>10. CASE PrepareNextTurn(r) \/ AgentEnd(r)
    <2>1. PICK pc \in {"steer", "settle"} : Moves(r, [run[r] EXCEPT !.pc = pc])
      BY <1>10 DEF PrepareNextTurn, AgentEnd
    <2> DEFINE rec == [run[r] EXCEPT !.pc = pc]
    <2>2. Moves(r, rec) /\ rec.pc = pc /\ SameCourse(rec, run[r])
      BY <1>1, <2>1 DEF RunRecords, SameCourse
    <2>3. run[r].pc \in {"prepare", "agentEnd"} BY <1>10 DEF PrepareNextTurn, AgentEnd
    <2> HIDE DEF rec
    <2>4. faults = 0 => Answering(rec, lastAssistant.out)
      BY <2>2, <2>3 DEF Sound, Answering, Failing, BeforeReply
    <2> QED BY <1>2, <2>2, <2>4, MoveSound
  <1>11. CASE AutoCompactStarted(r)
    <2> DEFINE rec == [run[r] EXCEPT !.pc = "compacting", !.prev = phase]
    <2>1. Moves(r, rec) /\ rec.pc = "compacting" /\ SameCourse(rec, run[r])
      BY <1>1, <1>11 DEF AutoCompactStarted, RunRecords, SameCourse
    <2> HIDE DEF rec
    <2> QED BY <1>2, <2>1, MoveSound DEF Answering, Failing, BeforeReply
  <1> QED BY <1>3, <1>4, <1>5, <1>6, <1>7, <1>8, <1>9, <1>10, <1>11

\* Only a response that fits clears the streak, and it clears the latch too.
LEMMA ResponseSound ==
  ASSUME TypeInv, NEW r \in Runs, Sound(r),
         (\E out \in Outcomes : Respond(r, out)) \/ ReportFailure(r) \/ ToolsDone(r)
  PROVE  StaysSound(r)
  <1>1. run[r] \in RunRecords BY DEF TypeInv, TypeOK
  <1>2. ASSUME NEW out \in Outcomes, Respond(r, out) PROVE StaysSound(r)
    <2> DEFINE streak == IF Fits(out) THEN 0 ELSE run[r].streak
               silent == (run[r].silent \/ out = "silent") /\ ~Fits(out)
               rec == [run[r] EXCEPT
                         !.tail = out, !.more = FALSE, !.retry = FALSE,
                         !.final = out \in {"error", "overflow", "aborted"},
                         !.streak = streak, !.silent = silent]
               next == NextAwait(rec, out, branch')
    <2>1. Moves(r, next) BY <1>2 DEF Respond
    <2>2. "pc" \in DOMAIN rec /\ rec.streak = streak /\ rec.silent = silent
      BY <1>1 DEF RunRecords
    <2> HIDE DEF rec, streak, silent
    <2>3. next.pc \in {"tools", "turnEnd"} /\ next.streak = streak /\ next.silent = silent
      BY <2>2 DEF NextAwait
    <2> HIDE DEF next
    <2>4. latch' = (latch /\ Failed(out)) /\ lastAssistant'.out = out /\ out # None
      BY <1>2, NoneAssumption DEF Respond, SaveAssistant
    <2>5. OverflowOnce(next, latch')
      <3>1. Fits(out) \/ Failed(out) \/ out = "silent" BY DEF Fits, Failed, Overflows
      <3>2. CASE Fits(out) BY <2>3, <3>2 DEF OverflowOnce, streak
      <3>3. CASE ~Fits(out) /\ out = "silent" BY <2>3, <3>3 DEF OverflowOnce, silent
      <3>4. CASE ~Fits(out) /\ Failed(out)
        BY <2>3, <2>4, <3>4 DEF Sound, OverflowOnce, streak, silent
      <3> QED BY <3>1, <3>2, <3>3, <3>4
    <2>6. next.pc # "done" /\ Answering(next, lastAssistant'.out)
      BY <2>3, <2>4 DEF Answering, Failing
    <2> QED BY <2>1, <2>5, <2>6 DEF StaysSound
  <1>3. CASE ReportFailure(r)
    <2> DEFINE out == IF run[r].signal THEN "aborted" ELSE "error"
               streak == IF Fits(out) THEN 0 ELSE run[r].streak
               rec == [run[r] EXCEPT !.tail = out, !.final = TRUE, !.failed = TRUE,
                                     !.retry = FALSE, !.streak = streak,
                                     !.pc = "turnEnd"]
    <2>1. Moves(r, rec) BY <1>1, <1>3 DEF ReportFailure, RunRecords
    <2>2. rec.pc = "turnEnd" /\ rec.streak = streak /\ rec.silent = run[r].silent
      BY <1>1 DEF RunRecords
    <2>3. latch' = (latch /\ Failed(out)) /\ lastAssistant'.out = out
      BY <1>3 DEF ReportFailure, SaveAssistant
    <2>4. out \in Outcomes /\ out # None /\ (Fits(out) \/ Failed(out))
      BY NoneAssumption DEF Outcomes, Fits, Failed, Overflows
    <2> HIDE DEF rec, out
    <2>5. OverflowOnce(rec, latch') BY <2>2, <2>3, <2>4 DEF Sound, OverflowOnce
    <2>6. rec.pc # "done" /\ Answering(rec, lastAssistant'.out)
      BY <2>2, <2>3, <2>4 DEF Answering, Failing
    <2> QED BY <2>1, <2>5, <2>6 DEF StaysSound
  <1>4. CASE ToolsDone(r)
    <2> DEFINE rec(more) == [run[r] EXCEPT !.more = more, !.tail = "toolResult",
                                           !.pc = "turnEnd"]
    <2>1. PICK more \in BOOLEAN : Moves(r, rec(more)) BY <1>4 DEF ToolsDone
    <2>2. /\ rec(more).pc = "turnEnd" /\ rec(more).streak = run[r].streak
          /\ rec(more).silent = run[r].silent
      BY <1>1 DEF RunRecords
    <2>3. run[r].pc = "tools" /\ UNCHANGED <<latch, lastAssistant, faults>>
      BY <1>4 DEF ToolsDone, control, bounds
    <2> HIDE DEF rec
    <2>4. OverflowOnce(rec(more), latch') BY <2>2, <2>3 DEF Sound, OverflowOnce
    <2>5. faults' = 0 => Answering(rec(more), lastAssistant'.out)
      BY <2>2, <2>3 DEF Sound, Answering, Failing, BeforeReply
    <2> QED BY <2>1, <2>2, <2>4, <2>5 DEF StaysSound
  <1> QED BY <1>2, <1>3, <1>4

LEMMA FlushStepSound ==
  ASSUME TypeInv, NEW r \in Runs, Sound(r),
         \/ NoFollowUps(r) \/ TurnEnd(r) \/ SavePoint(r) \/ Settle(r)
         \/ TurnEndFault(r) \/ FlushWrite(r)
  PROVE  StaysSound(r)
  <1>1. run[r] \in RunRecords /\ Holds(r, run[r]) BY DEF TypeInv, TypeOK, RunsHold
  <1>2. {"agentEnd", "savePoint", "prepare", "threw", "finally"} \subseteq FlushReturns
    BY DEF FlushReturns
  <1>3. CASE NoFollowUps(r) \/ TurnEnd(r) \/ SavePoint(r) \/ Settle(r)
    <2>1. PICK to \in {"agentEnd", "savePoint", "prepare", "finally"} : StartFlush(r, to)
      BY <1>3 DEF NoFollowUps, TurnEnd, SavePoint, Settle
    <2>2. UNCHANGED <<latch, lastAssistant, faults>>
      BY <1>3 DEF NoFollowUps, TurnEnd, SavePoint, Settle, others, control, bounds
    <2>3. run[r].pc \in {"follow", "turnEnd", "savePoint", "settle"}
      BY <1>3 DEF NoFollowUps, TurnEnd, SavePoint, Settle
    <2>4. faults = 0 => lastAssistant.out # None
      BY <2>3 DEF Sound, Answering, BeforeReply
    <2> QED BY <1>2, <2>1, <2>2, <2>4, FlushSound
  <1>4. CASE TurnEndFault(r)
    <2>1. StartFlush(r, "threw") /\ UNCHANGED <<latch, lastAssistant>>
      BY <1>4 DEF TurnEndFault, control
    <2>2. faults' # 0 BY <1>4 DEF TurnEndFault, Fault, TypeInv, TypeOK
    <2> QED BY <1>2, <2>1, <2>2, FlushSound
  <1>5. CASE FlushWrite(r)
    <2>1. run[r].pc = "flush" /\ run[r].ret \in FlushReturns
      BY <1>1, <1>5 DEF Holds, FlushWrite
    <2> DEFINE rec == Flushing(run[r], run[r].ret, Shifted(pending), branch')
    <2>2. Moves(r, rec) BY <1>5 DEF FlushWrite
    <2>3. /\ rec.pc = run[r].ret \/ (rec.pc = "flush" /\ rec.ret = run[r].ret)
          /\ SameCourse(rec, run[r])
      BY <1>1, <2>1, FlushingCourse
    <2> HIDE DEF rec
    <2>4. UNCHANGED <<latch, lastAssistant, faults>>
      BY <1>5 DEF FlushWrite, control, bounds
    <2>5. faults = 0 => Answering(rec, lastAssistant.out)
      BY <2>1, <2>3 DEF Sound, Answering, Failing, BeforeReply, FlushReturns
    <2>6. rec.pc # "done" BY <2>1, <2>3 DEF FlushReturns
    <2> QED BY <2>2, <2>3, <2>4, <2>5, <2>6, MoveSound
  <1> QED BY <1>3, <1>4, <1>5

LEMMA FaultSound ==
  ASSUME TypeInv, NEW r \in Runs, Sound(r),
         \/ OuterFault(r) \/ EmitNextFault(r) \/ LoopFault(r) \/ EmitDrainFault(r)
         \/ TurnEndThrew(r) \/ Rejected(r)
  PROVE  StaysSound(r)
  <1>1. AfterLoopError(r) \/ Finish(r)
    BY DEF OuterFault, EmitNextFault, LoopFault, EmitDrainFault, TurnEndThrew, Rejected,
           Reject
  <1>2. UNCHANGED latch
    BY DEF OuterFault, EmitNextFault, LoopFault, EmitDrainFault, TurnEndThrew, Rejected,
           others, control
  <1>3. CASE OuterFault(r) \/ EmitNextFault(r) \/ LoopFault(r) \/ EmitDrainFault(r)
    <2>1. faults' = faults + 1
      BY <1>3 DEF OuterFault, EmitNextFault, LoopFault, EmitDrainFault, Fault
    <2>2. faults' # 0 BY <2>1 DEF TypeInv, TypeOK
    <2> QED BY <1>1, <1>2, <2>2, FailSound
  <1>4. CASE TurnEndThrew(r) \/ Rejected(r)
    <2>1. run[r].pc \in {"threw", "rejected"} /\ UNCHANGED faults
      BY <1>4 DEF TurnEndThrew, Rejected, others, bounds
    <2>2. faults' # 0 BY <2>1 DEF Sound, Answering, Failing
    <2> QED BY <1>1, <1>2, <2>2, FailSound
  <1> QED BY <1>3, <1>4

\* The post-run check sees the response, and on each of its paths that ends the
\* call, the queues.
LEMMA PostRunSound ==
  ASSUME TypeInv, NEW r \in Runs, Sound(r),
         \/ PostRun(r) \/ PostRunLeft(r) \/ PostRunOverflow(r) \/ PostRunThreshold(r)
         \/ GiveUp(r)
         \/ AutoCompacted(r) \/ AutoCompactThrew(r) \/ AutoCompactSkipped(r)
  PROVE  StaysSound(r)
  <1>1. run[r] \in RunRecords BY DEF TypeInv, TypeOK
  <1>2. CASE PostRun(r) \/ GiveUp(r) \/ AutoCompacted(r) \/ AutoCompactThrew(r)
               \/ AutoCompactSkipped(r)
    <2>1. UNCHANGED <<latch, queues>> /\ OverflowOnce(run[r], latch')
      BY <1>2 DEF PostRun, GiveUp, AutoCompacted, AutoCompactThrew, AutoCompactSkipped,
         Sound
    <2>2. HasQueuedMessages' <=> HasQueuedMessages BY <2>1 DEF HasQueuedMessages, queues
    <2>3. CASE PostRun(r)
      <3> DEFINE again == lastAssistant.out # None /\ HasQueuedMessages
      <3>1. ContinueOrFinish(r, again, branch) /\ run[r].pc = "finally" /\ UNCHANGED faults
        BY <2>3 DEF PostRun, bounds
      <3>2. faults = 0 => lastAssistant.out # None
        BY <3>1 DEF Sound, Answering, BeforeReply
      <3>3. faults' = 0 /\ ~again => ~HasQueuedMessages' BY <2>2, <3>1, <3>2
      <3> HIDE DEF again
      <3> QED BY <2>1, <3>1, <3>3, ContinueSound
    <2>4. CASE GiveUp(r) \/ AutoCompactThrew(r) \/ AutoCompactSkipped(r)
      <3>1. PICK b : ContinueOrFinish(r, HasQueuedMessages, b)
        BY <2>4 DEF GiveUp, AutoCompactThrew, AutoCompactSkipped
      <3> QED BY <2>1, <2>2, <3>1, ContinueSound
    <2>5. CASE AutoCompacted(r)
      <3> DEFINE again == run[r].retry \/ HasQueuedMessages
      <3>1. PICK b : ContinueOrFinish(r, again, b) BY <2>5 DEF AutoCompacted
      <3>2. ~again => ~HasQueuedMessages' BY <2>2
      <3> HIDE DEF again
      <3> QED BY <2>1, <3>1, <3>2, ContinueSound
    <2> QED BY <1>2, <2>3, <2>4, <2>5
  <1>3. CASE PostRunOverflow(r)
    <2> DEFINE streak == run[r].streak + 1
               given == [run[r] EXCEPT !.pc = "giveUp"]
               tried == [run[r] EXCEPT !.pc = "compactStart", !.retry = TRUE,
                                       !.streak = streak]
    <2>1. IF latch THEN Moves(r, given) ELSE Moves(r, tried)
      BY <1>1, <1>3 DEF PostRunOverflow, RunRecords
    <2>2. latch' = TRUE /\ run[r].streak \in Nat BY <1>1, <1>3 DEF PostRunOverflow, RunRecords
    <2>3. given.pc = "giveUp" /\ given.streak = run[r].streak /\ given.silent = run[r].silent
      BY <1>1 DEF RunRecords
    <2>4. tried.pc = "compactStart" /\ tried.streak = streak /\ tried.silent = run[r].silent
      BY <1>1 DEF RunRecords
    <2> HIDE DEF given, tried
    <2>5. CASE latch
      <3>1. OverflowOnce(given, latch') BY <2>2, <2>3 DEF Sound, OverflowOnce
      <3>2. Answering(given, lastAssistant'.out)
        BY <2>3 DEF Answering, Failing, BeforeReply
      <3> QED BY <2>1, <2>3, <2>5, <3>1, <3>2 DEF StaysSound
    <2>6. CASE ~latch
      <3>1. OverflowOnce(tried, latch') BY <2>2, <2>4, <2>6 DEF Sound, OverflowOnce
      <3>2. Answering(tried, lastAssistant'.out)
        BY <2>4 DEF Answering, Failing, BeforeReply
      <3> QED BY <2>1, <2>4, <2>6, <3>1, <3>2 DEF StaysSound
    <2> QED BY <2>5, <2>6
  <1>4. CASE PostRunThreshold(r)
    <2> DEFINE silent == run[r].silent \/ lastAssistant.out = "overflow"
               rec == [run[r] EXCEPT !.pc = "compactStart", !.retry = FALSE,
                                     !.silent = silent]
    <2>1. /\ Moves(r, rec) /\ rec.pc = "compactStart" /\ rec.streak = run[r].streak
          /\ run[r].silent => rec.silent
      BY <1>1, <1>4 DEF PostRunThreshold, RunRecords
    <2>2. UNCHANGED latch BY <1>4 DEF PostRunThreshold
    <2> HIDE DEF rec
    <2>3. OverflowOnce(rec, latch') BY <2>1, <2>2 DEF Sound, OverflowOnce
    <2>4. Answering(rec, lastAssistant'.out) BY <2>1 DEF Answering, Failing, BeforeReply
    <2> QED BY <2>1, <2>3, <2>4 DEF StaysSound
  <1>5. CASE PostRunLeft(r)
    <2>1. UNCHANGED <<latch, queues>> BY <1>5 DEF PostRunLeft
    <2>2. HasQueuedMessages' <=> HasQueuedMessages BY <2>1 DEF HasQueuedMessages, queues
    <2>3. CASE HasQueuedMessages
      <3> DEFINE old == [run[r] EXCEPT !.silent = TRUE]
                 rec == Flushing(old, "resnap", pending, branch)
      <3>1. Moves(r, rec) BY <1>5, <2>3 DEF PostRunLeft
      <3>2. old \in RunRecords /\ old.silent /\ "resnap" \in FlushReturns
        BY <1>1 DEF RunRecords, FlushReturns
      <3> HIDE DEF old
      <3>3. /\ rec.pc = "resnap" \/ (rec.pc = "flush" /\ rec.ret = "resnap")
            /\ SameCourse(rec, old)
        BY <3>2, FlushingCourse
      <3> HIDE DEF rec
      <3>4. OverflowOnce(rec, latch') BY <3>2, <3>3 DEF OverflowOnce, SameCourse
      <3>5. rec.pc # "done" /\ Answering(rec, lastAssistant'.out)
        BY <3>3 DEF Answering, Failing, BeforeReply
      <3> QED BY <3>1, <3>4, <3>5 DEF StaysSound
    <2>4. CASE ~HasQueuedMessages
      <3>1. ContinueOrFinish(r, FALSE, branch)
        BY <1>5, <2>4 DEF PostRunLeft, ContinueOrFinish
      <3>2. OverflowOnce(run[r], latch') BY <2>1 DEF Sound
      <3> QED BY <2>2, <2>4, <3>1, <3>2, ContinueSound
    <2> QED BY <2>3, <2>4
  <1> QED BY <1>2, <1>3, <1>4, <1>5

LEMMA RunStepSound ==
  ASSUME TypeInv, NEW r \in Runs, Sound(r), RunStep(r) \/ RunFault(r)
  PROVE  StaysSound(r)
  BY PlainStepSound, ResponseSound, FlushStepSound, FaultSound, PostRunSound
     DEF RunStep, RunFault

\* Of every call, in progress or not.
RunsSound ==
  \A r \in Runs :
    /\ run[r].pc = "new" => run[r].streak = 0
    /\ InProgress(r) => Sound(r)
    /\ run[r].pc = "done" => run[r].streak <= 1 \/ run[r].silent

\* Messages wait only while a run is in progress.
Undisturbed == faults = 0 /\ \A s \in Structs : struct[s] = "new"

Attended == Undisturbed /\ HasQueuedMessages => \E r \in Runs : InProgress(r)

CourseInv == CallsInv /\ RunsSound /\ Attended

LEMMA RunKeepsCourse ==
  ASSUME CourseInv, NEW r \in Runs, RunStep(r) \/ RunFault(r)
  PROVE  RunsSound' /\ Attended'
  <1>1. RunAdvances(r) BY RunStepAdvances DEF CourseInv, CallsInv
  <1>2. TypeInv /\ Sound(r) BY <1>1 DEF CourseInv, CallsInv, RunsSound, RunAdvances
  <1>3. PICK rec :
          /\ Moves(r, rec)
          /\ OverflowOnce(rec, latch')
          /\ faults' = 0 => IF rec.pc = "done" THEN ~HasQueuedMessages'
                            ELSE Answering(rec, lastAssistant'.out)
    BY <1>2, RunStepSound DEF StaysSound
  <1>4. run'[r] = rec /\ \A q \in Runs \ {r} : run'[q] = run[q]
    BY <1>2, <1>3 DEF TypeInv, TypeOK, Moves
  <1>5. \A q \in Runs \ {r} : ~InProgress(q)
    BY <1>2 DEF CourseInv, CallsInv, OneAtATime, Sound
  <1>6. InProgress(r)' \/ rec.pc = "done" BY <1>1, <1>4 DEF RunAdvances
  <1>7. ASSUME NEW q \in Runs
        PROVE  /\ run'[q].pc = "new" => run'[q].streak = 0
               /\ InProgress(q)' => Sound(q)'
               /\ run'[q].pc = "done" => run'[q].streak <= 1 \/ run'[q].silent
    <2>1. CASE q # r
      BY <1>4, <1>5, <2>1 DEF CourseInv, RunsSound, InProgress
    <2>2. CASE q = r
      <3>1. run'[r].pc # "new" BY <1>4, <1>6 DEF InProgress
      <3>2. InProgress(r)' => Sound(r)' BY <1>3, <1>4 DEF Sound, InProgress
      <3>3. run'[r].streak <= 1 \/ run'[r].silent BY <1>3, <1>4 DEF OverflowOnce
      <3> QED BY <2>2, <3>1, <3>2, <3>3
    <2> QED BY <2>1, <2>2
  <1>8. RunsSound' BY <1>7 DEF RunsSound
  <1>9. Attended' BY <1>3, <1>6 DEF Attended, Undisturbed
  <1> QED BY <1>8, <1>9

\* A call starts; a message is queued; the queues are emptied.
LEMMA PromptKeepsCourse ==
  ASSUME CallersWait, CourseInv, NEW r \in Runs, NEW rearm \in BOOLEAN, Prompt(r, rearm)
  PROVE  RunsSound' /\ Attended'
  <1> DEFINE rec == [run[r] EXCEPT !.pc = "snapshot", !.tail = ContextTail(branch)]
  <1>1. run \in [Runs -> RunRecords] /\ run[r] \in RunRecords
    BY DEF CourseInv, CallsInv, TypeInv, TypeOK
  <1>2. rec.pc = "snapshot" /\ rec.streak = run[r].streak /\ Moves(r, rec)
    BY <1>1 DEF Prompt, RunRecords
  <1> HIDE DEF rec
  <1>3. run'[r] = rec /\ \A q \in Runs \ {r} : run'[q] = run[q]
    BY <1>1, <1>2 DEF Moves
  <1>4. \A q \in Runs : ~InProgress(q) BY DEF Prompt, MayStart
  <1>5. run[r].streak = 0 BY DEF Prompt, CourseInv, RunsSound
  <1>6. InProgress(r)' /\ Sound(r)'
    BY <1>2, <1>3, <1>5 DEF InProgress, Sound, OverflowOnce, Answering, Failing,
                            BeforeReply
  <1>7. \A q \in Runs \ {r} : ~InProgress(q)' BY <1>3, <1>4 DEF InProgress
  <1>8. ASSUME NEW q \in Runs
        PROVE  /\ run'[q].pc = "new" => run'[q].streak = 0
               /\ InProgress(q)' => Sound(q)'
               /\ run'[q].pc = "done" => run'[q].streak <= 1 \/ run'[q].silent
    <2>1. CASE q # r BY <1>3, <1>7, <2>1 DEF CourseInv, RunsSound
    <2>2. CASE q = r BY <1>2, <1>3, <1>6, <2>2
    <2> QED BY <2>1, <2>2
  <1>9. RunsSound' BY <1>8 DEF RunsSound
  <1> QED BY <1>6, <1>9 DEF Attended

LEMMA QueueKeepsCourse ==
  ASSUME CourseInv,
         \/ \E m \in Messages : Steer(m) \/ FollowUp(m) \/ NextTurn(m)
         \/ ClearQueue
  PROVE  RunsSound' /\ Attended'
  <1>1. UNCHANGED <<run, latch, lastAssistant, faults, struct, phase>>
    BY DEF Steer, FollowUp, NextTurn, ClearQueue, control, calls, bounds
  <1>2. RunsSound'
    BY <1>1 DEF CourseInv, RunsSound, InProgress, Sound
  <1>3. CASE \E m \in Messages : Steer(m) \/ FollowUp(m)
    <2>1. phase # "idle" BY <1>3 DEF Steer, FollowUp
    <2>2. Undisturbed => \E r \in Runs : InProgress(r)
      BY <2>1 DEF CourseInv, CallsInv, IdleWhenQuiet, Restructuring, Undisturbed
    <2> QED BY <1>1, <1>2, <2>2 DEF Attended, Undisturbed, InProgress
  <1>4. CASE ClearQueue \/ \E m \in Messages : NextTurn(m)
    <2>1. HasQueuedMessages' => HasQueuedMessages
      BY <1>4 DEF ClearQueue, EmptyQueues, NextTurn, HasQueuedMessages
    <2> QED BY <1>1, <1>2, <2>1 DEF CourseInv, Attended, Undisturbed, InProgress
  <1> QED BY <1>3, <1>4

LEMMA OthersKeepCourse ==
  ASSUME CallersWait, CourseInv,
         \/ \E w \in Writes : Set(w) \/ SetSaved(w) \/ SetRejected(w)
         \/ \E a \in Aborts : Abort(a) \/ AbortStep(a)
         \/ \E s \in Structs :
              Compact(s) \/ Navigate(s) \/ StructStep(s) \/ CompactStartFault(s)
         \/ UNCHANGED vars
  PROVE  RunsSound' /\ Attended'
  <1>1. UNCHANGED <<latch, lastAssistant>>
    BY DEF Set, SetSaved, SetRejected, Abort, AbortStep, AbortNotified, AbortReturns,
           Compact, Navigate, StructStep, CompactStartFault, CompactStarted, Compacted,
           CompactFailed, Navigated, NavigateCancelled, Structural, vars, others, control
  <1>2. HasQueuedMessages' => HasQueuedMessages
    BY DEF Set, SetSaved, SetRejected, Abort, AbortStep, AbortNotified, AbortReturns,
           Compact, Navigate, StructStep, CompactStartFault, CompactStarted, Compacted,
           CompactFailed, Navigated, NavigateCancelled, Structural, vars, others, queues,
           EmptyQueues, HasQueuedMessages
  <1>3. (faults' = 0 => faults = 0) /\ (faults = 0 \/ faults' # 0)
    <2>1. faults' = faults \/ faults' = faults + 1
      BY DEF Set, SetSaved, SetRejected, Abort, AbortStep, AbortNotified, AbortReturns,
             Compact, Navigate, StructStep, CompactStartFault, CompactStarted, Compacted,
             CompactFailed, Navigated, NavigateCancelled, Structural, vars, others, bounds,
             Fault
    <2> QED BY <2>1 DEF CourseInv, CallsInv, TypeInv, TypeOK
  <1>4. \A r \in Runs : /\ run'[r].pc = run[r].pc /\ run'[r].ret = run[r].ret
                        /\ run'[r].streak = run[r].streak
                        /\ run'[r].silent = run[r].silent /\ run'[r].more = run[r].more
    <2>1. run' = run \/ (/\ runAbort \in Runs
                         /\ run' = [run EXCEPT ![runAbort].signal = TRUE])
      BY DEF Set, SetSaved, SetRejected, Abort, AbortStep, AbortNotified, AbortReturns,
             Compact, Navigate, StructStep, CompactStartFault, CompactStarted, Compacted,
             CompactFailed, Navigated, NavigateCancelled, Structural, vars,
             CourseInv, CallsInv, TypeInv, TypeOK
    <2>2. CASE run' = run BY <2>2
    <2>3. CASE runAbort \in Runs /\ run' = [run EXCEPT ![runAbort].signal = TRUE]
      <3> DEFINE rec == [run[runAbort] EXCEPT !.signal = TRUE]
      <3>1. run \in [Runs -> RunRecords] /\ run[runAbort] \in RunRecords
        BY <2>3 DEF CourseInv, CallsInv, TypeInv, TypeOK
      <3>2. run' = [run EXCEPT ![runAbort] = rec] BY <2>3
      <3>3. /\ rec.pc = run[runAbort].pc /\ rec.ret = run[runAbort].ret
            /\ rec.streak = run[runAbort].streak /\ rec.silent = run[runAbort].silent
            /\ rec.more = run[runAbort].more
        BY <3>1 DEF RunRecords
      <3> HIDE DEF rec
      <3> QED BY <2>3, <3>1, <3>2, <3>3
    <2> QED BY <2>1, <2>2, <2>3
  <1>5. RunsSound'
    BY <1>1, <1>3, <1>4 DEF CourseInv, RunsSound, InProgress, Sound, OverflowOnce,
       Answering, Failing, BeforeReply
  <1>6. Undisturbed' => Undisturbed
    <2>1. ASSUME NEW s \in Structs, struct'[s] = "new" PROVE struct[s] = "new"
      BY <2>1 DEF Set, SetSaved, SetRejected, Abort, AbortStep, AbortNotified, AbortReturns,
         Compact, Navigate, StructStep, CompactStartFault, CompactStarted, Compacted,
         CompactFailed, Navigated, NavigateCancelled, Structural, vars, others, calls,
         CourseInv, CallsInv, TypeInv, TypeOK
    <2> QED BY <1>3, <2>1 DEF Undisturbed
  <1>7. Attended' BY <1>2, <1>4, <1>6 DEF CourseInv, Attended, InProgress
  <1> QED BY <1>5, <1>7

LEMMA InitCourse == Init => CourseInv
  <1> SUFFICES ASSUME Init PROVE CourseInv OBVIOUS
  <1>1. \A r \in Runs : run[r].pc = "new" /\ run[r].streak = 0 BY DEF Init, NewRun
  <1> QED BY <1>1, InitCalls
          DEF Init, CourseInv, RunsSound, Attended, HasQueuedMessages, InProgress

LEMMA NextCourse ==
  ASSUME CallersWait
  PROVE  CourseInv /\ [Next]_vars => CourseInv'
  <1> SUFFICES ASSUME CourseInv, [Next]_vars PROVE RunsSound' /\ Attended'
    BY NextCalls DEF CourseInv
  <1>1. ASSUME NEW r \in Runs, \E rearm \in BOOLEAN : Prompt(r, rearm)
        PROVE  RunsSound' /\ Attended'
    BY <1>1, PromptKeepsCourse
  <1>2. ASSUME NEW r \in Runs, RunStep(r) \/ RunFault(r) PROVE RunsSound' /\ Attended'
    BY <1>2, RunKeepsCourse
  <1>3. CASE (\E m \in Messages : Steer(m) \/ FollowUp(m) \/ NextTurn(m)) \/ ClearQueue
    BY <1>3, QueueKeepsCourse
  <1>4. CASE \/ \E w \in Writes : Set(w) \/ SetSaved(w) \/ SetRejected(w)
             \/ \E a \in Aborts : Abort(a) \/ AbortStep(a)
             \/ \E s \in Structs :
                  Compact(s) \/ Navigate(s) \/ StructStep(s) \/ CompactStartFault(s)
             \/ UNCHANGED vars
    BY <1>4, OthersKeepCourse
  <1> QED BY <1>1, <1>2, <1>3, <1>4 DEF Next, Rest

LEMMA CourseInvariant ==
  ASSUME CallersWait
  PROVE  Spec => []CourseInv
  BY InitCourse, NextCourse, PTL DEF Spec

\* One compact-and-retry and then give up, for any number of responses, errors
\* and queued messages, as long as every overflow is reported by an error
\* response (lines 541-552 and 757-780).
THEOREM RunsRecoverOnce ==
  ASSUME CallersWait
  PROVE  Spec => []RecoversOnce
  <1>1. CourseInv => RecoversOnce
    <2> SUFFICES ASSUME CourseInv, NEW r \in Runs
                 PROVE  run[r].streak <= 1 \/ run[r].silent
      BY DEF RecoversOnce
    <2>1. (run[r].pc = "new" \/ run[r].pc = "done" \/ InProgress(r)) /\ run[r].streak \in Nat
      BY DEF InProgress, CourseInv, CallsInv, TypeInv, TypeOK, RunRecords
    <2> QED BY <2>1 DEF CourseInv, RunsSound, Sound, OverflowOnce
  <1> QED BY <1>1, CourseInvariant, PTL

\* When all calls have returned normally no steering and no follow-up message
\* is left behind: the call that was winding down when it came has seen it (the
\* post-run check of lines 713-719 and its callers).
THEOREM QueuedMessagesAttended ==
  ASSUME CallersWait
  PROVE  Spec => []NoMessageStranded
  <1>1. CourseInv => NoMessageStranded
    BY DEF CourseInv, Attended, Undisturbed, HasQueuedMessages, NoMessageStranded, Quiet
  <1> QED BY <1>1, CourseInvariant, PTL

-----------------------------------------------------------------------------
(***************************************************************************)
(* The queues implement MessageDelivery.  At most one run holds messages,  *)
(* and it knows their queue: what it holds is the start of that channel.   *)
(* So draining a queue and putting back what was drained change nothing,   *)
(* persisting a message delivers the head of its channel, a run that fails *)
(* loses the start of its channel, and emptying the queues gives back what *)
(* is behind it.                                                           *)
(***************************************************************************)

\* Two sequences in a row, and the two parts of one.
LEMMA SplitConcat ==
  ASSUME NEW S, NEW s \in Seq(S), NEW t \in Seq(S)
  PROVE  /\ s \o t \in Seq(S) /\ Len(s \o t) = Len(s) + Len(t)
         /\ Len(s) \in Nat /\ Len(t) \in Nat
         /\ \A i \in 1..Len(s) : (s \o t)[i] = s[i]
         /\ \A i \in 1..Len(t) : (s \o t)[Len(s) + i] = t[i]
         /\ SubSeq(s \o t, 1, Len(s)) = s
         /\ SubSeq(s \o t, Len(s) + 1, Len(s \o t)) = t
  <1> DEFINE u == s \o t
             a == SubSeq(u, 1, Len(s))
             b == SubSeq(u, Len(s) + 1, Len(u))
  <1>1. /\ u \in Seq(S) /\ Len(u) = Len(s) + Len(t) /\ Len(s) \in Nat /\ Len(t) \in Nat
        /\ \A i \in 1..Len(s) : u[i] = s[i]
        /\ \A i \in 1..Len(t) : u[Len(s) + i] = t[i]
    OBVIOUS
  <1> HIDE DEF u
  <1>2. a \in Seq(S) /\ Len(a) = Len(s) /\ \A i \in 1..Len(s) : a[i] = s[i] BY <1>1
  <1>3. b \in Seq(S) /\ Len(b) = Len(t) /\ \A i \in 1..Len(t) : b[i] = t[i]
    <2>1. b \in Seq(S) /\ Len(b) = Len(t) BY <1>1
    <2>2. \A i \in 1..Len(t) : b[i] = u[Len(s) + i] BY <1>1
    <2> QED BY <1>1, <2>1, <2>2
  <1> HIDE DEF a, b
  <1>4. a = s BY <1>2
  <1>5. b = t BY <1>3
  <1> QED BY <1>1, <1>4, <1>5 DEF a, b, u

LEMMA JoinSplit ==
  ASSUME NEW S, NEW s \in Seq(S), NEW n \in 0..Len(s)
  PROVE  SubSeq(s, 1, n) \o SubSeq(s, n + 1, Len(s)) = s
  <1> DEFINE a == SubSeq(s, 1, n)
             b == SubSeq(s, n + 1, Len(s))
  <1>1. /\ a \in Seq(S) /\ Len(a) = n /\ \A i \in 1..n : a[i] = s[i]
        /\ b \in Seq(S) /\ Len(b) = Len(s) - n /\ \A i \in 1..Len(s) - n : b[i] = s[n + i]
        /\ n \in Nat /\ Len(s) \in Nat
    OBVIOUS
  <1> HIDE DEF a, b
  <1> DEFINE c == a \o b
  <1>2. /\ c \in Seq(S) /\ Len(c) = Len(s)
        /\ \A i \in 1..n : c[i] = a[i]
        /\ \A i \in 1..Len(s) - n : c[n + i] = b[i]
    BY <1>1, SplitConcat
  <1> HIDE DEF c
  <1>3. ASSUME NEW i \in 1..Len(s) PROVE c[i] = s[i]
    <2>1. CASE i \in 1..n BY <1>1, <1>2, <2>1
    <2>2. CASE i \notin 1..n
      <3>1. PICK k \in 1..Len(s) - n : n + k = i
        <4>1. i - n \in 1..Len(s) - n /\ n + (i - n) = i BY <1>1, <2>2
        <4> QED BY <4>1
      <3> QED BY <1>1, <1>2, <3>1
    <2> QED BY <2>1, <2>2
  <1>4. c = s BY <1>2, <1>3
  <1> QED BY <1>4 DEF c, a, b

LEMMA JoinFirst ==
  ASSUME NEW S, NEW s \in Seq(S), NEW t \in Seq(S), s # <<>>
  PROVE  s \o t # <<>> /\ Head(s \o t) = Head(s) /\ Tail(s \o t) = Tail(s) \o t
  <1> DEFINE u == s \o t
             a == Tail(u)
             b == Tail(s) \o t
  <1>1. /\ u \in Seq(S) /\ Len(u) = Len(s) + Len(t) /\ Len(s) \in Nat \ {0} /\ Len(t) \in Nat
        /\ \A i \in 1..Len(s) : u[i] = s[i]
        /\ \A i \in 1..Len(t) : u[Len(s) + i] = t[i]
    OBVIOUS
  <1>2. /\ Tail(s) \in Seq(S) /\ Len(Tail(s)) = Len(s) - 1
        /\ \A i \in 1..Len(s) - 1 : Tail(s)[i] = s[i + 1]
    OBVIOUS
  <1> HIDE DEF u
  <1>3. u # <<>> /\ Head(u) = u[1] /\ Head(s) = s[1] BY <1>1
  <1>4. /\ a \in Seq(S) /\ Len(a) = Len(u) - 1
        /\ \A i \in 1..Len(u) - 1 : a[i] = u[i + 1]
    BY <1>1, <1>3
  <1>5. b \in Seq(S) /\ Len(b) = Len(u) - 1 BY <1>1, <1>2
  <1>6. ASSUME NEW i \in 1..Len(u) - 1 PROVE a[i] = b[i]
    <2>1. CASE i <= Len(s) - 1
      <3>1. b[i] = Tail(s)[i] BY <1>1, <1>2, <2>1
      <3> QED BY <1>1, <1>2, <1>4, <2>1, <3>1
    <2>2. CASE i > Len(s) - 1
      <3>1. i - (Len(s) - 1) \in 1..Len(t) /\ i + 1 = Len(s) + (i - (Len(s) - 1))
        BY <1>1, <2>2
      <3>2. b[i] = t[i - (Len(s) - 1)] BY <1>1, <1>2, <2>2, <3>1
      <3> QED BY <1>1, <1>4, <3>1, <3>2
    <2> QED BY <1>1, <2>1, <2>2
  <1> HIDE DEF a, b
  <1>7. a = b BY <1>4, <1>5, <1>6
  <1> QED BY <1>1, <1>3, <1>7 DEF a, b, u

\* What the calls of f hold of the queue q.
Part(msgs, q) == IF q = "nextTurn" THEN SubSeq(msgs, 1, Len(msgs) - 1) ELSE msgs

Holds1(rec, q) == rec.msgs # <<>> /\ rec.origin.queue = q

HeldIn(f, q) ==
  LET holders == {r \in Runs : Holds1(f[r], q)}
  IN IF holders = {} THEN <<>> ELSE Part(f[CHOOSE r \in holders : TRUE].msgs, q)

LEMMA HeldIsIn == \A q : Held(q) = HeldIn(run, q) /\ Held(q)' = HeldIn(run', q)
  BY DEF Held, HeldIn, Holds1, Part

LEMMA PartOfAppend ==
  ASSUME NEW S, NEW s \in Seq(S), NEW x
  PROVE  Part(Append(s, x), "nextTurn") = s
  <1>1. Len(Append(s, x)) - 1 = Len(s) /\ Len(s) \in Nat OBVIOUS
  <1>2. SubSeq(Append(s, x), 1, Len(s)) = s OBVIOUS
  <1> QED BY <1>1, <1>2 DEF Part

LEMMA HeldOne ==
  ASSUME NEW f, NEW r \in Runs, \A s \in Runs \ {r} : f[s].msgs = <<>>, NEW q
  PROVE  HeldIn(f, q) = IF Holds1(f[r], q) THEN Part(f[r].msgs, q) ELSE <<>>
  <1> DEFINE holders == {s \in Runs : Holds1(f[s], q)}
  <1>1. holders \subseteq {r} BY DEF Holds1
  <1>2. CASE Holds1(f[r], q)
    <2>1. holders = {r} BY <1>1, <1>2
    <2>2. (CHOOSE s \in holders : TRUE) = r BY <2>1
    <2> QED BY <1>2, <2>1, <2>2 DEF HeldIn
  <1>3. CASE ~Holds1(f[r], q)
    <2>1. holders = {} BY <1>1, <1>3
    <2> QED BY <1>3, <2>1 DEF HeldIn
  <1> QED BY <1>2, <1>3

LEMMA HeldSame ==
  ASSUME NEW f, NEW g,
         \A r \in Runs : /\ g[r].msgs = f[r].msgs
                         /\ f[r].msgs # <<>> => g[r].origin = f[r].origin
  PROVE  \A q : HeldIn(g, q) = HeldIn(f, q)
  <1> SUFFICES ASSUME NEW q PROVE HeldIn(g, q) = HeldIn(f, q) OBVIOUS
  <1> DEFINE S(h) == {s \in Runs : Holds1(h[s], q)}
  <1>1. S(f) = S(g) BY DEF Holds1
  <1>2. CASE S(f) = {} BY <1>1, <1>2 DEF HeldIn
  <1>3. CASE S(f) # {}
    <2>1. (CHOOSE s \in S(f) : TRUE) \in Runs BY <1>3
    <2>2. (CHOOSE s \in S(g) : TRUE) = (CHOOSE s \in S(f) : TRUE) BY <1>1
    <2>3. HeldIn(f, q) = Part(f[CHOOSE s \in S(f) : TRUE].msgs, q) BY <1>3 DEF HeldIn
    <2>4. HeldIn(g, q) = Part(g[CHOOSE s \in S(g) : TRUE].msgs, q) BY <1>1, <1>3 DEF HeldIn
    <2> HIDE DEF S
    <2> QED BY <2>1, <2>2, <2>3, <2>4
  <1> QED BY <1>2, <1>3

DeliveryInv == MessagesInv /\ CallsInv

\* A run in progress is the only one that holds messages.
LEMMA OneHolder ==
  ASSUME DeliveryInv, NEW r \in Runs, InProgress(r)
  PROVE  \A s \in Runs \ {r} : run[s].msgs = <<>>
  <1> SUFFICES ASSUME NEW s \in Runs \ {r} PROVE run[s].msgs = <<>> OBVIOUS
  <1>1. ~InProgress(s) BY DEF DeliveryInv, CallsInv, OneAtATime
  <1>2. run[s].pc \notin HoldingPCs BY <1>1 DEF InProgress, HoldingPCs
  <1> QED BY <1>2, HandsEmpty DEF DeliveryInv

\* What a step of it makes of the held parts.
LEMMA HeldAfter ==
  ASSUME DeliveryInv, NEW r \in Runs, InProgress(r),
         \A s \in Runs \ {r} : run'[s] = run[s]
  PROVE  \A q :
           /\ Held(q) = IF Holds1(run[r], q) THEN Part(run[r].msgs, q) ELSE <<>>
           /\ Held(q)' = IF Holds1(run'[r], q) THEN Part(run'[r].msgs, q) ELSE <<>>
  <1> TAKE q
  <1>1. \A s \in Runs \ {r} : run[s].msgs = <<>> /\ run'[s].msgs = <<>> BY OneHolder
  <1>2. HeldIn(run, q) = IF Holds1(run[r], q) THEN Part(run[r].msgs, q) ELSE <<>>
    BY <1>1, HeldOne
  <1>3. HeldIn(run', q) = IF Holds1(run'[r], q) THEN Part(run'[r].msgs, q) ELSE <<>>
    BY <1>1, HeldOne
  <1> QED BY <1>2, <1>3, HeldIsIn

\* What a run holds is a sequence of messages, but for its own text.
LEMMA HolderHolds ==
  ASSUME DeliveryInv, NEW r \in Runs, run[r].msgs # <<>>
  PROVE  \/ /\ run[r].origin.queue = "nextTurn" /\ run[r].pc \in {"emitNext", "hook", "prompts"}
            /\ \E s \in Seq(Messages) :
                 run[r].msgs = Append(s, r) /\ Part(run[r].msgs, "nextTurn") = s
         \/ /\ run[r].origin.queue \in {"steer", "followUp"}
            /\ run[r].pc \in {"emitDrain", "inject"}
            /\ run[r].msgs \in Seq(Messages)
            /\ Part(run[r].msgs, run[r].origin.queue) = run[r].msgs
  <1>1. Carries(run[r]) /\ Holds(r, run[r])
    BY DEF DeliveryInv, MessagesInv, Once, TypeInv, RunsHold
  <1>2. run[r].pc \in HoldingPCs BY <1>1 DEF Carries
  <1>3. CASE run[r].pc \in {"emitNext", "hook", "prompts"}
    <2>1. PICK s \in Seq(Messages) : run[r].msgs = Append(s, r) BY <1>1, <1>3 DEF Holds
    <2>2. Part(Append(s, r), "nextTurn") = s BY PartOfAppend
    <2> QED BY <1>1, <1>3, <2>1, <2>2 DEF Carries
  <1>4. CASE run[r].pc \in {"emitDrain", "inject"}
    BY <1>1, <1>4 DEF Carries, Holds, Part
  <1> QED BY <1>2, <1>3, <1>4 DEF HoldingPCs

LEMMA HeldType ==
  ASSUME DeliveryInv, NEW q \in QueueNames
  PROVE  /\ Held(q) \in Seq(Messages) /\ Waiting(q) \in Seq(Messages)
         /\ \A i \in DOMAIN Held(q) : \E r \in Runs : IsHeld(Held(q)[i], r)
  <1>1. Waiting(q) \in Seq(Messages)
    BY DEF DeliveryInv, MessagesInv, TypeInv, TypeOK, Waiting, QueueNames
  <1> DEFINE holders == {r \in Runs : Holds1(run[r], q)}
  <1>2. CASE holders = {}
    <2>1. Held(q) = <<>> BY <1>2, HeldIsIn DEF HeldIn
    <2> QED BY <1>1, <2>1
  <1>3. CASE holders # {}
    <2>1. PICK r \in Runs : Holds1(run[r], q) /\ Held(q) = Part(run[r].msgs, q)
      BY <1>3, HeldIsIn DEF HeldIn
    <2>2. run[r].msgs # <<>> /\ run[r].origin.queue = q BY <2>1 DEF Holds1
    <2>3. CASE q = "nextTurn"
      <3>1. PICK s \in Seq(Messages) :
              run[r].msgs = Append(s, r) /\ Part(run[r].msgs, "nextTurn") = s
        BY <2>2, <2>3, HolderHolds
      <3>2. \A i \in DOMAIN s : i \in DOMAIN run[r].msgs /\ run[r].msgs[i] = s[i] BY <3>1
      <3> QED BY <1>1, <2>1, <2>3, <3>1, <3>2 DEF IsHeld, Range
    <2>4. CASE q # "nextTurn"
      <3>1. run[r].msgs \in Seq(Messages) /\ Held(q) = run[r].msgs
        BY <2>1, <2>2, <2>4, HolderHolds DEF Part
      <3> QED BY <1>1, <3>1 DEF IsHeld, Range
    <2> QED BY <2>3, <2>4
  <1> QED BY <1>2, <1>3

-----------------------------------------------------------------------------
(***************************************************************************)
(* The steps.                                                              *)
(***************************************************************************)

Mapped == [Delivery!Next]_(Delivery!vars)

LEMMA ChannelSame ==
  ASSUME \A q \in QueueNames : Held(q)' \o Waiting(q)' = Held(q) \o Waiting(q)
  PROVE  Channel' = Channel
  BY DEF Channel

LEMMA ChannelOne ==
  ASSUME NEW q \in QueueNames, NEW x, Held(q)' \o Waiting(q)' = x,
         \A p \in QueueNames \ {q} : Held(p)' \o Waiting(p)' = Held(p) \o Waiting(p)
  PROVE  Channel' = [Channel EXCEPT ![q] = x]
  BY DEF Channel

LEMMA ChannelAt ==
  ASSUME DeliveryInv, NEW q \in QueueNames
  PROVE  /\ Channel[q] = Held(q) \o Waiting(q)
         /\ Channel[q] \in Seq(Messages)
         /\ Len(Channel[q]) = Len(Held(q)) + Len(Waiting(q))
         /\ Len(Held(q)) \in Nat /\ Len(Waiting(q)) \in Nat
         /\ SubSeq(Channel[q], 1, Len(Held(q))) = Held(q)
         /\ SubSeq(Channel[q], Len(Held(q)) + 1, Len(Channel[q])) = Waiting(q)
  <1>1. Channel[q] = Held(q) \o Waiting(q) BY DEF Channel
  <1>2. Held(q) \in Seq(Messages) /\ Waiting(q) \in Seq(Messages) BY HeldType
  <1> QED BY <1>1, <1>2, SplitConcat

LEMMA EmptyConcat ==
  ASSUME NEW S, NEW s \in Seq(S)
  PROVE  <<>> \o s = s /\ s \o <<>> = s
  OBVIOUS

LEMMA StayMaps ==
  ASSUME MessagesInv, StaysPut
  PROVE  Mapped
  <1>1. \A q : HeldIn(run', q) = HeldIn(run, q) BY HeldSame DEF StaysPut
  <1>2. \A q : Held(q)' = Held(q) BY <1>1, HeldIsIn
  <1>3. \A q \in QueueNames : Waiting(q)' = Waiting(q) BY DEF Waiting, StaysPut, QueueNames
  <1>4. Channel' = Channel BY <1>2, <1>3, ChannelSame
  <1>5. Delivered' = Delivered BY DEF Delivered, StaysPut
  <1>6. UNCHANGED <<returned, LostMessages>> BY DEF StaysPut, history, LostMessages
  <1> QED BY <1>4, <1>5, <1>6 DEF Mapped, Delivery!vars

\* A run takes the next-turn messages or drains a queue.
LEMMA TakeMaps ==
  ASSUME DeliveryInv, NEW r \in Runs,
         TakeNextTurn(r) \/ DrainSteering(r) \/ DrainFollowUps(r)
  PROVE  Mapped
  <1>1. /\ run[r] \in RunRecords /\ run[r].msgs = <<>> /\ InProgress(r)
        /\ run \in [Runs -> RunRecords]
    BY HandsEmpty DEF DeliveryInv, MessagesInv, TypeInv, TypeOK, TakeNextTurn, DrainSteering,
       DrainFollowUps, HoldingPCs, InProgress
  <1>2. \A s \in Runs \ {r} : run'[s] = run[s]
    BY <1>1 DEF TakeNextTurn, DrainSteering, DrainFollowUps, Drained, Moves
  <1>3. \A q : /\ Held(q) = <<>>
               /\ Held(q)' = IF Holds1(run'[r], q) THEN Part(run'[r].msgs, q) ELSE <<>>
    BY <1>1, <1>2, HeldAfter DEF Holds1
  <1>4. UNCHANGED <<Delivered, returned, LostMessages>>
    BY DEF TakeNextTurn, DrainSteering, DrainFollowUps, session, history, Delivered,
           LostMessages
  <1>5. Channel' = Channel
    <2>1. CASE TakeNextTurn(r)
      <3> DEFINE pc == IF nextTurnQueue = <<>> THEN "hook" ELSE "emitNext"
                 rec == [run[r] EXCEPT !.pc = pc, !.msgs = Append(nextTurnQueue, r),
                                       !.origin = [queue |-> "nextTurn", gen |-> 0]]
      <3>1. rec.msgs = Append(nextTurnQueue, r) /\ rec.origin.queue = "nextTurn"
        BY <1>1 DEF RunRecords
      <3>2. run'[r] = rec BY <1>1, <2>1 DEF TakeNextTurn, Moves
      <3> HIDE DEF rec
      <3>3. nextTurnQueue \in Seq(Messages)
        BY DEF DeliveryInv, MessagesInv, TypeInv, TypeOK
      <3>4. rec.msgs # <<>> BY <3>1, <3>3
      <3>5. \A q : Held(q)' = IF q = "nextTurn" THEN nextTurnQueue ELSE <<>>
        BY <1>3, <3>1, <3>2, <3>3, <3>4, PartOfAppend DEF Holds1
      <3>6. /\ nextTurnQueue' = <<>> /\ UNCHANGED <<steerQueue, followUpQueue>>
        BY <2>1 DEF TakeNextTurn
      <3>7. ASSUME NEW q \in QueueNames
            PROVE  Held(q)' \o Waiting(q)' = Held(q) \o Waiting(q)
        <4>1. CASE q = "nextTurn"
          <5>1. /\ Held(q)' = nextTurnQueue /\ Waiting(q)' = <<>> /\ Held(q) = <<>>
                /\ Waiting(q) = nextTurnQueue
            BY <1>3, <3>5, <3>6, <4>1 DEF Waiting
          <5> QED BY <3>3, <5>1, EmptyConcat
        <4>2. CASE q # "nextTurn"
          <5>1. Held(q)' = <<>> /\ Held(q) = <<>> /\ Waiting(q)' = Waiting(q)
            BY <1>3, <3>5, <3>6, <4>2 DEF Waiting, QueueNames
          <5> QED BY <5>1
        <4> QED BY <4>1, <4>2
      <3> QED BY <3>7, ChannelSame
    <2>2. ASSUME NEW q \in {"steer", "followUp"}, NEW n \in {1, Len(Waiting(q))},
                 Waiting(q) # <<>>, Drained(r, Waiting(q), q, n),
                 Waiting(q)' = SubSeq(Waiting(q), n + 1, Len(Waiting(q))),
                 \A p \in QueueNames \ {q} : Waiting(p)' = Waiting(p)
          PROVE  Channel' = Channel
      <3> DEFINE rec == [run[r] EXCEPT !.pc = "emitDrain", !.msgs = SubSeq(Waiting(q), 1, n),
                                       !.origin = [queue |-> q, gen |-> queueGen]]
      <3>1. rec.msgs = SubSeq(Waiting(q), 1, n) /\ rec.origin.queue = q
        BY <1>1 DEF RunRecords
      <3>2. run'[r] = rec BY <1>1, <2>2 DEF Drained, Moves
      <3> HIDE DEF rec
      <3>3. Waiting(q) \in Seq(Messages) /\ q \in QueueNames BY HeldType DEF QueueNames
      <3>4. n \in 0..Len(Waiting(q)) /\ SubSeq(Waiting(q), 1, n) # <<>>
        BY <2>2, <3>3
      <3>5. /\ Held(q)' = SubSeq(Waiting(q), 1, n)
            /\ \A p \in QueueNames \ {q} : Held(p)' = <<>>
        BY <1>3, <3>1, <3>2, <3>4 DEF Holds1, Part
      <3>6. Held(q)' \o Waiting(q)' = Held(q) \o Waiting(q)
        BY <1>3, <2>2, <3>3, <3>4, <3>5, JoinSplit, EmptyConcat
      <3>7. \A p \in QueueNames \ {q} : Held(p)' \o Waiting(p)' = Held(p) \o Waiting(p)
        BY <1>3, <2>2, <3>5
      <3> QED BY <3>6, <3>7, ChannelSame
    <2>3. CASE DrainSteering(r)
      <3>1. Waiting("steer") = steerQueue /\ Waiting("steer")' = steerQueue' BY DEF Waiting
      <3>2. PICK n \in {1, Len(Waiting("steer"))} :
              /\ Drained(r, Waiting("steer"), "steer", n)
              /\ Waiting("steer")' = SubSeq(Waiting("steer"), n + 1, Len(Waiting("steer")))
        BY <2>3, <3>1 DEF DrainSteering
      <3>3. Waiting("steer") # <<>> BY <2>3, <3>1 DEF DrainSteering
      <3>4. \A p \in QueueNames \ {"steer"} : Waiting(p)' = Waiting(p)
        BY <2>3 DEF DrainSteering, Waiting, QueueNames
      <3> QED BY <2>2, <3>2, <3>3, <3>4
    <2>4. CASE DrainFollowUps(r)
      <3>1. Waiting("followUp") = followUpQueue /\ Waiting("followUp")' = followUpQueue'
        BY DEF Waiting
      <3>2. PICK n \in {1, Len(Waiting("followUp"))} :
              /\ Drained(r, Waiting("followUp"), "followUp", n)
              /\ Waiting("followUp")' =
                   SubSeq(Waiting("followUp"), n + 1, Len(Waiting("followUp")))
        BY <2>4, <3>1 DEF DrainFollowUps
      <3>3. Waiting("followUp") # <<>> BY <2>4, <3>1 DEF DrainFollowUps
      <3>4. \A p \in QueueNames \ {"followUp"} : Waiting(p)' = Waiting(p)
        BY <2>4 DEF DrainFollowUps, Waiting, QueueNames
      <3> QED BY <2>2, <3>2, <3>3, <3>4
    <2> QED BY <2>1, <2>3, <2>4
  <1> QED BY <1>4, <1>5 DEF Mapped, Delivery!vars

\* A listener throws and the messages go back to where they came from.
LEMMA PutBackMaps ==
  ASSUME DeliveryInv, NEW r \in Runs,
         \/ EmitNextFault(r)
         \/ EmitDrainFault(r) /\ run[r].origin.gen = queueGen
  PROVE  Mapped
  <1> DEFINE q == run[r].origin.queue
             part == Part(run[r].msgs, q)
  <1>1. /\ run'[r].msgs = <<>> /\ \A s \in Runs \ {r} : run'[s] = run[s]
    BY FinishCarries, LoopErrorCarries DEF EmitNextFault, EmitDrainFault, Reject, DeliveryInv
  <1>2. InProgress(r) BY DEF EmitNextFault, EmitDrainFault, InProgress
  <1>3. run[r].msgs # <<>>
    BY DEF DeliveryInv, MessagesInv, TypeInv, RunsHold, Holds, EmitNextFault, EmitDrainFault
  <1>4. q \in QueueNames BY <1>3, HolderHolds DEF QueueNames
  <1>5. \A p : Held(p) = (IF p = q THEN part ELSE <<>>) /\ Held(p)' = <<>>
    BY <1>1, <1>2, <1>3, HeldAfter DEF Holds1
  <1>6. part \in Seq(Messages) BY <1>4, <1>5, HeldType
  <1>7. UNCHANGED <<Delivered, returned, LostMessages>>
    BY DEF EmitNextFault, EmitDrainFault, session, history, Delivered, LostMessages
  <1> HIDE DEF part
  <1>8. \A p \in QueueNames : Waiting(p)' = IF p = q THEN part \o Waiting(p) ELSE Waiting(p)
    <2>1. CASE EmitNextFault(r)
      <3>1. q = "nextTurn" BY <1>3, <2>1, HolderHolds DEF EmitNextFault
      <3>2. nextTurnQueue' = part \o nextTurnQueue /\ UNCHANGED <<steerQueue, followUpQueue>>
        BY <2>1, <3>1 DEF EmitNextFault, part, Part
      <3> QED BY <3>1, <3>2 DEF Waiting, QueueNames
    <2>2. CASE EmitDrainFault(r) /\ run[r].origin.gen = queueGen
      <3>1. q \in {"steer", "followUp"} /\ part = run[r].msgs
        BY <1>3, <2>2, HolderHolds DEF EmitDrainFault, part
      <3>2. run[r].origin \in Origins
        BY DEF DeliveryInv, MessagesInv, TypeInv, TypeOK, RunRecords
      <3>3. \A p : run[r].origin = [queue |-> p, gen |-> queueGen] <=> p = q
        BY <2>2, <3>2 DEF Origins
      <3>4. /\ steerQueue' = IF q = "steer" THEN part \o steerQueue ELSE steerQueue
            /\ followUpQueue' = IF q = "followUp" THEN part \o followUpQueue
                                ELSE followUpQueue
            /\ UNCHANGED nextTurnQueue
        BY <2>2, <3>1, <3>3 DEF EmitDrainFault, PutBack
      <3> HIDE DEF q
      <3> QED BY <3>1, <3>4 DEF Waiting, QueueNames
    <2> QED BY <2>1, <2>2
  <1>9. ASSUME NEW p \in QueueNames
        PROVE  Held(p)' \o Waiting(p)' = Held(p) \o Waiting(p)
    <2>1. Waiting(p) \in Seq(Messages) /\ part \o Waiting(p) \in Seq(Messages)
      BY <1>6, HeldType
    <2>2. <<>> \o Waiting(p) = Waiting(p)
          /\ <<>> \o (part \o Waiting(p)) = part \o Waiting(p)
      BY <2>1, EmptyConcat
    <2> QED BY <1>5, <1>8, <2>2
  <1>10. Channel' = Channel BY <1>9, ChannelSame
  <1> QED BY <1>7, <1>10 DEF Mapped, Delivery!vars

LEMMA RangeAppend ==
  ASSUME NEW S, NEW s \in Seq(S), NEW x
  PROVE  Range(Append(s, x)) = Range(s) \cup {x}
  <1> DEFINE t == Append(s, x)
  <1>1. /\ DOMAIN t = 1..Len(s) + 1 /\ DOMAIN s = 1..Len(s) /\ Len(s) \in Nat
        /\ t[Len(s) + 1] = x /\ \A i \in 1..Len(s) : t[i] = s[i]
    OBVIOUS
  <1> HIDE DEF t
  <1>2. Range(t) \subseteq Range(s) \cup {x}
    <2> SUFFICES ASSUME NEW i \in 1..Len(s) + 1 PROVE t[i] \in Range(s) \cup {x}
      BY <1>1 DEF Range
    <2>1. CASE i = Len(s) + 1 BY <1>1, <2>1
    <2>2. CASE i # Len(s) + 1
      <3>1. i \in 1..Len(s) BY <1>1, <2>2
      <3> QED BY <1>1, <3>1 DEF Range
    <2> QED BY <2>1, <2>2
  <1>3. Range(s) \subseteq Range(t) /\ x \in Range(t)
    <2>1. Len(s) + 1 \in DOMAIN t /\ \A i \in 1..Len(s) : i \in DOMAIN t BY <1>1
    <2> QED BY <1>1, <2>1 DEF Range
  <1> QED BY <1>2, <1>3 DEF t

\* The messages a run holds are those of the held part of its channel.
LEMMA HeldRange ==
  ASSUME DeliveryInv, NEW r \in Runs, run[r].msgs # <<>>
  PROVE  Range(run[r].msgs) \cap Messages = Range(Part(run[r].msgs, run[r].origin.queue))
  <1>1. CASE run[r].origin.queue = "nextTurn"
    <2>1. PICK s \in Seq(Messages) :
            run[r].msgs = Append(s, r) /\ Part(run[r].msgs, "nextTurn") = s
      BY <1>1, HolderHolds
    <2>2. Range(Append(s, r)) = Range(s) \cup {r} BY RangeAppend
    <2>3. Range(s) \subseteq Messages BY DEF Range
    <2> QED BY <1>1, <2>1, <2>2, <2>3, ConstantsAssumption
  <1>2. CASE run[r].origin.queue # "nextTurn"
    <2>1. run[r].msgs \in Seq(Messages)
          /\ Part(run[r].msgs, run[r].origin.queue) = run[r].msgs
      BY <1>2, HolderHolds
    <2>2. Range(run[r].msgs) \subseteq Messages BY <2>1 DEF Range
    <2> QED BY <2>1, <2>2
  <1> QED BY <1>1, <1>2

LEMMA EmptyIff ==
  ASSUME NEW S, NEW s \in Seq(S)
  PROVE  /\ s = <<>> <=> Len(s) = 0
         /\ s # <<>> => Len(s) \in Nat \ {0}
  OBVIOUS

\* A run that fails takes what it holds with it.
LEMMA LoseMaps ==
  ASSUME DeliveryInv, NEW r \in Runs,
         \/ OuterFault(r) \/ LoopFault(r)
         \/ EmitDrainFault(r) /\ run[r].origin.gen # queueGen
  PROVE  Mapped
  <1>1. /\ run'[r].msgs = <<>> /\ \A s \in Runs \ {r} : run'[s] = run[s]
    BY FinishCarries, LoopErrorCarries
       DEF OuterFault, LoopFault, EmitDrainFault, Reject, DeliveryInv
  <1>2. InProgress(r)
    BY DEF OuterFault, OutsideLoop, LoopFault, InsideLoop, EmitDrainFault, InProgress
  <1>3. lost' = lost \cup Range(run[r].msgs)
    BY DEF OuterFault, LoopFault, EmitDrainFault
  <1>4. \A p \in QueueNames : Waiting(p)' = Waiting(p)
    <2>1. UNCHANGED <<steerQueue, followUpQueue, nextTurnQueue>>
      <3>1. CASE OuterFault(r) BY <3>1 DEF OuterFault, queues
      <3>3. CASE LoopFault(r) BY <3>3 DEF LoopFault, queues
      <3>2. CASE EmitDrainFault(r) /\ run[r].origin.gen # queueGen
        <4>1. \A p : run[r].origin # [queue |-> p, gen |-> queueGen] BY <3>2
        <4> QED BY <3>2, <4>1 DEF EmitDrainFault, PutBack
      <3> QED BY <3>1, <3>2, <3>3
    <2> QED BY <2>1 DEF Waiting
  <1>5. UNCHANGED <<Delivered, returned>>
    BY DEF OuterFault, LoopFault, EmitDrainFault, session, Delivered
  <1>6. \A p : Held(p)' = <<>> BY <1>1, <1>2, HeldAfter DEF Holds1
  <1>7. CASE run[r].msgs = <<>>
    <2>1. \A p : Held(p) = <<>> BY <1>1, <1>2, <1>7, HeldAfter DEF Holds1
    <2>2. \A p \in QueueNames : Held(p)' \o Waiting(p)' = Held(p) \o Waiting(p)
      BY <1>4, <1>6, <2>1
    <2>3. Channel' = Channel BY <2>2, ChannelSame
    <2>4. lost' = lost BY <1>3, <1>7, EmptyOnce
    <2>5. LostMessages' = LostMessages BY <2>4 DEF LostMessages
    <2> QED BY <1>5, <2>3, <2>5 DEF Mapped, Delivery!vars
  <1>8. CASE run[r].msgs # <<>>
    <2>1. PICK q, part :
            q \in QueueNames /\ q = run[r].origin.queue /\ part = Part(run[r].msgs, q)
      BY <1>8, HolderHolds DEF QueueNames
    <2>2. \A p : Held(p) = IF p = q THEN part ELSE <<>>
      BY <1>1, <1>2, <1>8, <2>1, HeldAfter DEF Holds1
    <2>3. LostMessages' = LostMessages \cup Range(part)
      BY <1>3, <1>8, <2>1, HeldRange DEF LostMessages
    <2>4. \A p \in QueueNames \ {q} : Held(p)' \o Waiting(p)' = Held(p) \o Waiting(p)
      BY <1>4, <1>6, <2>2
    <2>5. Held(q) = part /\ part \in Seq(Messages) /\ Waiting(q) \in Seq(Messages)
      BY <2>1, <2>2, HeldType
    <2>6. Held(q)' \o Waiting(q)' = Waiting(q) BY <1>4, <1>6, <2>1, <2>5, EmptyConcat
    <2>7. CASE part = <<>>
      <3>1. Held(q)' \o Waiting(q)' = Held(q) \o Waiting(q)
        BY <2>5, <2>6, <2>7, EmptyConcat
      <3>2. Channel' = Channel BY <2>4, <3>1, ChannelSame
      <3>3. LostMessages' = LostMessages BY <2>3, <2>7, EmptyOnce
      <3> QED BY <1>5, <3>2, <3>3 DEF Mapped, Delivery!vars
    <2>8. CASE part # <<>>
      <3> DEFINE k == Len(part)
      <3>1. Len(part) \in Nat \ {0} BY <2>5, <2>8, EmptyIff
      <3>2. /\ Len(Channel[q]) = k + Len(Waiting(q)) /\ Len(Waiting(q)) \in Nat
            /\ SubSeq(Channel[q], 1, k) = part
            /\ SubSeq(Channel[q], k + 1, Len(Channel[q])) = Waiting(q)
        BY <2>1, <2>5, ChannelAt
      <3>3. k \in 1..Len(Channel[q]) BY <3>1, <3>2
      <3>4. Channel' = [Channel EXCEPT ![q] = Waiting(q)] BY <2>1, <2>4, <2>6, ChannelOne
      <3>5. Delivery!Lose(q, k)
        BY <1>5, <2>3, <3>2, <3>4 DEF Delivery!Lose, Delivery!Range, Range
      <3>6. q \in Delivery!Channels BY <2>1 DEF Delivery!Channels, QueueNames
      <3> HIDE DEF k
      <3>7. Delivery!Next BY <3>3, <3>5, <3>6 DEF Delivery!Next
      <3> QED BY <3>7 DEF Mapped
    <2> QED BY <2>7, <2>8
  <1> QED BY <1>7, <1>8


LEMMA RangeConcat ==
  ASSUME NEW S, NEW s \in Seq(S), NEW t \in Seq(S)
  PROVE  Range(s \o t) = Range(s) \cup Range(t)
  <1> DEFINE u == s \o t
  <1>1. /\ DOMAIN s = 1..Len(s) /\ DOMAIN t = 1..Len(t) /\ DOMAIN u = 1..Len(s) + Len(t)
        /\ Len(s) \in Nat /\ Len(t) \in Nat
    OBVIOUS
  <1>2. /\ \A i \in 1..Len(s) : u[i] = s[i]
        /\ \A i \in 1..Len(t) : u[Len(s) + i] = t[i]
    OBVIOUS
  <1> HIDE DEF u
  <1>3. Range(u) \subseteq Range(s) \cup Range(t)
    <2> SUFFICES ASSUME NEW i \in 1..Len(s) + Len(t) PROVE u[i] \in Range(s) \cup Range(t)
      BY <1>1 DEF Range
    <2>1. CASE i \in 1..Len(s) BY <1>1, <1>2, <2>1 DEF Range
    <2>2. CASE i \notin 1..Len(s)
      <3>1. PICK k \in 1..Len(t) : Len(s) + k = i
        <4>1. i - Len(s) \in 1..Len(t) /\ Len(s) + (i - Len(s)) = i BY <1>1, <2>2
        <4> QED BY <4>1
      <3> QED BY <1>1, <1>2, <3>1 DEF Range
    <2> QED BY <2>1, <2>2
  <1>4. Range(s) \subseteq Range(u)
    <2>1. \A i \in 1..Len(s) : i \in DOMAIN u BY <1>1
    <2> QED BY <1>1, <1>2, <2>1 DEF Range
  <1>5. Range(t) \subseteq Range(u)
    <2>1. \A i \in 1..Len(t) : Len(s) + i \in DOMAIN u BY <1>1
    <2> QED BY <1>1, <1>2, <2>1 DEF Range
  <1> QED BY <1>3, <1>4, <1>5 DEF u

LEMMA AppendToNone ==
  ASSUME NEW x
  PROVE  LET one == Append(<<>>, x) IN Head(one) = x /\ Tail(one) = <<>>
  <1>1. Append(<<>>, x) = <<x>> OBVIOUS
  <1>2. Head(<<x>>) = x /\ Tail(<<x>>) = <<>> OBVIOUS
  <1> QED BY <1>1, <1>2

LEMMA AppendToSome ==
  ASSUME NEW S, NEW s \in Seq(S), s # <<>>, NEW x
  PROVE  Tail(Append(s, x)) # <<>>
  <1>1. Len(s) \in Nat \ {0} OBVIOUS
  <1>2. Len(Append(s, x)) = Len(s) + 1 OBVIOUS
  <1> DEFINE more == Append(s, x)
  <1>3. more \in Seq(S \cup {x}) /\ more # <<>> BY <1>1, <1>2
  <1> HIDE DEF more
  <1>4. Len(Tail(more)) = Len(more) - 1 BY <1>3
  <1>5. Len(Tail(more)) # 0 BY <1>1, <1>2, <1>4 DEF more
  <1> QED BY <1>5 DEF more

\* The head of what a run holds, and what remains of it.
LEMMA PartTail ==
  ASSUME DeliveryInv, NEW r \in Runs, run[r].msgs # <<>>,
         NEW q, q = run[r].origin.queue, NEW part, part = Part(run[r].msgs, q)
  PROVE  \/ part = <<>> /\ Head(run[r].msgs) = r /\ Tail(run[r].msgs) = <<>>
         \/ /\ part # <<>> /\ Head(run[r].msgs) = Head(part)
            /\ IF Tail(run[r].msgs) = <<>> THEN Tail(part) = <<>>
               ELSE Part(Tail(run[r].msgs), q) = Tail(part)
  <1>1. CASE q = "nextTurn"
    <2>1. part \in Seq(Messages) /\ run[r].msgs = Append(part, r)
      BY <1>1, HolderHolds
    <2>2. CASE part = <<>>
      BY <2>1, <2>2, AppendToNone, Zenon
    <2>3. CASE part # <<>>
      <3>1. Tail(Append(part, r)) # <<>> BY <2>1, <2>3, AppendToSome, Zenon
      <3>2. /\ Tail(part) \in Seq(Messages)
            /\ Tail(Append(part, r)) = Append(Tail(part), r)
            /\ Head(Append(part, r)) = Head(part)
        BY <2>1, <3>1, TailOfAppend, ZenonT(30)
      <3>3. Part(Append(Tail(part), r), "nextTurn") = Tail(part)
        BY <3>2, PartOfAppend, Zenon
      <3> QED BY <1>1, <2>1, <2>3, <3>1, <3>2, <3>3
    <2> QED BY <2>2, <2>3
  <1>2. CASE q # "nextTurn"
    <2>1. part = run[r].msgs /\ Part(Tail(run[r].msgs), q) = Tail(run[r].msgs)
      BY <1>2 DEF Part
    <2> QED BY <2>1
  <1> QED BY <1>1, <1>2

\* A message is persisted: the head of a channel, or the text of the call.
LEMMA InjectMaps ==
  ASSUME DeliveryInv, NEW r \in Runs, InjectMessage(r)
  PROVE  Mapped
  <1> DEFINE msgs == run[r].msgs
             rest == Tail(msgs)
             from == IF rest = <<>> THEN NoQueue ELSE run[r].origin
             pc == IF rest # <<>> THEN run[r].pc
                   ELSE IF run[r].pc = "prompts" THEN "steer" ELSE "request"
             rec == [run[r] EXCEPT !.msgs = rest, !.origin = from, !.tail = "user",
                                   !.pc = pc]
  <1>1. /\ run[r] \in RunRecords /\ Holds(r, run[r]) /\ run \in [Runs -> RunRecords]
        /\ stored \in [Messages \cup Runs \cup Writes -> 0..2]
    BY DEF DeliveryInv, MessagesInv, TypeInv, TypeOK, RunsHold
  <1>2. /\ msgs \in Seq(Messages \cup Runs) /\ msgs # <<>> /\ InProgress(r)
    BY <1>1 DEF RunRecords, Holds, InjectMessage, InProgress
  <1>3. rec.msgs = rest /\ rec.origin = from BY <1>1 DEF RunRecords
  <1>4. run'[r] = rec /\ \A s \in Runs \ {r} : run'[s] = run[s]
    BY <1>1 DEF InjectMessage, Moves
  <1>5. /\ stored' = Stored(Head(msgs)) /\ Head(msgs) \in Messages \cup Runs
        /\ UNCHANGED <<steerQueue, followUpQueue, nextTurnQueue, returned, LostMessages>>
    BY <1>2 DEF InjectMessage, queues, history, LostMessages
  <1>6. \A p \in QueueNames : Waiting(p)' = Waiting(p) BY <1>5 DEF Waiting
  <1>7. PICK q, part :
          q \in QueueNames /\ q = run[r].origin.queue /\ part = Part(msgs, q)
    BY <1>2, HolderHolds DEF QueueNames
  <1>8. \A p : Held(p) = IF p = q THEN part ELSE <<>>
    BY <1>2, <1>4, <1>7, HeldAfter DEF Holds1
  <1>9. part \in Seq(Messages) /\ Waiting(q) \in Seq(Messages) BY <1>7, <1>8, HeldType
  <1> HIDE DEF rec
  <1>10. \A p : Held(p)' = IF p = q /\ rest # <<>> THEN Part(rest, q) ELSE <<>>
    BY <1>2, <1>3, <1>4, <1>7, HeldAfter DEF Holds1, NoQueue
  <1>11. \A p \in QueueNames \ {q} : Held(p)' \o Waiting(p)' = Held(p) \o Waiting(p)
    BY <1>6, <1>8, <1>10
  <1>12. \/ part = <<>> /\ Head(msgs) = r /\ rest = <<>>
         \/ /\ part # <<>> /\ Head(msgs) = Head(part)
            /\ IF rest = <<>> THEN Tail(part) = <<>> ELSE Part(rest, q) = Tail(part)
    BY <1>2, <1>7, PartTail
  <1> HIDE DEF rest, from, pc
  <1>13. CASE part = <<>>
    <2>1. Head(msgs) = r /\ rest = <<>> BY <1>12, <1>13
    <2>2. Held(q)' \o Waiting(q)' = Held(q) \o Waiting(q)
      BY <1>6, <1>7, <1>8, <1>10, <1>13, <2>1
    <2>3. Channel' = Channel BY <1>11, <2>2, ChannelSame
    <2>4. \A m \in Messages : stored'[m] = stored[m]
      BY <1>1, <1>5, <2>1, ConstantsAssumption DEF Stored
    <2>5. Delivered' = Delivered BY <2>4 DEF Delivered
    <2> QED BY <1>5, <2>3, <2>5 DEF Mapped, Delivery!vars
  <1>14. CASE part # <<>>
    <2>1. Held(q)' = Tail(part) BY <1>10, <1>12, <1>14
    <2>2. Head(msgs) = Head(part) /\ Head(part) \in Messages BY <1>9, <1>12, <1>14
    <2>3. /\ Channel[q] # <<>> /\ Head(Channel[q]) = Head(part)
          /\ Tail(Channel[q]) = Tail(part) \o Waiting(q)
      <3>1. Channel[q] = part \o Waiting(q) BY <1>7, <1>8 DEF Channel
      <3>2. /\ part \o Waiting(q) # <<>> /\ Head(part \o Waiting(q)) = Head(part)
            /\ Tail(part \o Waiting(q)) = Tail(part) \o Waiting(q)
        BY <1>9, <1>14, JoinFirst
      <3> QED BY <3>1, <3>2
    <2>4. Channel' = [Channel EXCEPT ![q] = Tail(Channel[q])]
      <3>1. q \in QueueNames BY <1>7
      <3>2. Held(q)' \o Waiting(q)' = Tail(Channel[q]) BY <1>6, <2>1, <2>3, <3>1
      <3> QED BY <1>11, <3>1, <3>2, ChannelOne
    <2>5. \A m \in Messages : stored'[m] > 0 <=> stored[m] > 0 \/ m = Head(part)
      BY <1>1, <1>5, <2>2 DEF Stored
    <2>6. Delivered' = Delivered \cup {Head(part)} BY <2>2, <2>5 DEF Delivered
    <2>7. Delivery!Deliver(q) BY <1>5, <2>3, <2>4, <2>6 DEF Delivery!Deliver
    <2>8. Delivery!Next BY <1>7, <2>7 DEF Delivery!Next, Delivery!Channels, QueueNames
    <2> QED BY <2>8 DEF Mapped
  <1> QED BY <1>13, <1>14

LEMMA JoinAppend ==
  ASSUME NEW S, NEW s \in Seq(S), NEW t \in Seq(S), NEW x \in S
  PROVE  s \o Append(t, x) = Append(s \o t, x)
  OBVIOUS

\* A queue accepts a message.
LEMMA AcceptMaps ==
  ASSUME DeliveryInv, NEW m \in Messages, Steer(m) \/ FollowUp(m) \/ NextTurn(m)
  PROVE  Mapped
  <1>1. PICK q \in QueueNames :
          \A p \in QueueNames : Waiting(p)' = IF p = q THEN Append(Waiting(p), m)
                                                       ELSE Waiting(p)
    <2>1. CASE Steer(m) BY <2>1 DEF Steer, Waiting, QueueNames
    <2>2. CASE FollowUp(m) BY <2>2 DEF FollowUp, Waiting, QueueNames
    <2>3. CASE NextTurn(m) BY <2>3 DEF NextTurn, Waiting, QueueNames
    <2> QED BY <2>1, <2>2, <2>3
  <1>2. m \notin sent /\ UNCHANGED <<run, Delivered, returned, LostMessages>>
    BY DEF Steer, FollowUp, NextTurn, session, Delivered, LostMessages
  <1>3. \A p : Held(p)' = Held(p) BY <1>2, HeldIsIn
  <1>4. Waiting(q) \in Seq(Messages) /\ Held(q) \in Seq(Messages) BY HeldType
  <1>5. Held(q)' \o Waiting(q)' = Append(Channel[q], m)
    <2>1. Held(q) \o Append(Waiting(q), m) = Append(Held(q) \o Waiting(q), m)
      BY <1>4, JoinAppend
    <2>2. Channel[q] = Held(q) \o Waiting(q) BY DEF Channel
    <2> QED BY <1>1, <1>3, <2>1, <2>2
  <1>6. \A p \in QueueNames \ {q} : Held(p)' \o Waiting(p)' = Held(p) \o Waiting(p)
    BY <1>1, <1>3
  <1>7. Channel' = [Channel EXCEPT ![q] = Append(Channel[q], m)] BY <1>5, <1>6, ChannelOne
  <1>8. \A c \in Containers : ~IsIn(m, c) BY <1>2, OnlyPlace DEF DeliveryInv, MessagesInv
  <1>9. \A r \in Runs : ~IsHeld(m, r) BY <1>2, OnlyPlace DEF DeliveryInv, MessagesInv
  <1>10. m \notin Delivered /\ m \notin returned /\ m \notin LostMessages
    <2>1. ~IsIn(m, "session") /\ ~IsIn(m, "returned") /\ ~IsIn(m, "lost")
      BY <1>8 DEF Containers
    <2> QED BY <2>1 DEF IsIn, Delivered, LostMessages
  <1>11. ASSUME NEW p \in QueueNames PROVE m \notin Range(Channel[p])
    <2>1. /\ Waiting(p) \in Seq(Messages) /\ Held(p) \in Seq(Messages)
          /\ \A i \in DOMAIN Held(p) : \E r \in Runs : IsHeld(Held(p)[i], r)
      BY HeldType
    <2>2. m \notin Range(Held(p)) BY <1>9, <2>1 DEF Range
    <2>3. m \notin Range(Waiting(p))
      <3>1. ~IsIn(m, "steerQueue") /\ ~IsIn(m, "followUpQueue") /\ ~IsIn(m, "nextTurnQueue")
        BY <1>8 DEF Containers
      <3> QED BY <3>1 DEF IsIn, Waiting, QueueNames
    <2>4. Range(Held(p) \o Waiting(p)) = Range(Held(p)) \cup Range(Waiting(p))
      BY <2>1, RangeConcat
    <2> QED BY <2>2, <2>3, <2>4 DEF Channel
  <1>12. m \notin Delivery!Accepted
    BY <1>10, <1>11 DEF Delivery!Accepted, Delivery!Channels, QueueNames, Delivery!Range,
       Range
  <1>13. Delivery!Accept(q, m) BY <1>2, <1>7, <1>12 DEF Delivery!Accept
  <1>14. Delivery!Next BY <1>13 DEF Delivery!Next, Delivery!Channels, QueueNames
  <1> QED BY <1>14 DEF Mapped

\* The caller of clearQueue() or abort() gets back what no run holds.
LEMMA GiveBackMaps ==
  ASSUME DeliveryInv, ClearQueue \/ \E a \in Aborts : Abort(a)
  PROVE  Mapped
  <1>1. /\ steerQueue' = <<>> /\ followUpQueue' = <<>> /\ nextTurnQueue' = nextTurnQueue
        /\ returned' = returned \cup Range(steerQueue) \cup Range(followUpQueue)
        /\ UNCHANGED <<Delivered, LostMessages>>
    BY DEF ClearQueue, Abort, EmptyQueues, session, Delivered, LostMessages
  <1>2. \A r \in Runs : run'[r].msgs = run[r].msgs /\ run'[r].origin = run[r].origin
    <2>1. CASE run' = run BY <2>1
    <2>2. CASE runAbort \in Runs /\ run' = [run EXCEPT ![runAbort].signal = TRUE]
      <3> DEFINE rec == [run[runAbort] EXCEPT !.signal = TRUE]
      <3>1. /\ run \in [Runs -> RunRecords] /\ run[runAbort] \in RunRecords
            /\ run' = [run EXCEPT ![runAbort] = rec]
        BY <2>2 DEF DeliveryInv, MessagesInv, TypeInv, TypeOK
      <3>2. rec.msgs = run[runAbort].msgs /\ rec.origin = run[runAbort].origin
        BY <3>1 DEF RunRecords
      <3> HIDE DEF rec
      <3> QED BY <2>2, <3>1, <3>2
    <2> QED BY <2>1, <2>2 DEF ClearQueue, Abort, DeliveryInv, MessagesInv, TypeInv, TypeOK
  <1>3. \A p : Held(p)' = Held(p)
    <2>1. \A p : HeldIn(run', p) = HeldIn(run, p) BY <1>2, HeldSame
    <2> QED BY <2>1, HeldIsIn
  <1> DEFINE s == Len(Held("steer"))
             f == Len(Held("followUp"))
  <1>4. PICK S, F : S = s /\ F = f OBVIOUS
  <1>5. /\ SubSeq(Channel["steer"], 1, S) = Held("steer")
        /\ SubSeq(Channel["steer"], S + 1, Len(Channel["steer"])) = steerQueue
        /\ SubSeq(Channel["followUp"], 1, F) = Held("followUp")
        /\ SubSeq(Channel["followUp"], F + 1, Len(Channel["followUp"])) = followUpQueue
        /\ S \in 0..Len(Channel["steer"]) /\ F \in 0..Len(Channel["followUp"])
        /\ S \in Nat /\ F \in Nat
    <2>1. \A q \in {"steer", "followUp"} :
            /\ SubSeq(Channel[q], 1, Len(Held(q))) = Held(q)
            /\ SubSeq(Channel[q], Len(Held(q)) + 1, Len(Channel[q])) = Waiting(q)
            /\ Len(Channel[q]) = Len(Held(q)) + Len(Waiting(q))
            /\ Len(Held(q)) \in Nat /\ Len(Waiting(q)) \in Nat
      BY ChannelAt DEF QueueNames
    <2>2. Waiting("steer") = steerQueue /\ Waiting("followUp") = followUpQueue
      BY DEF Waiting
    <2>3. S \in 0..Len(Channel["steer"]) /\ F \in 0..Len(Channel["followUp"])
      BY <1>4, <2>1
    <2> QED BY <1>4, <2>1, <2>2, <2>3
  <1> DEFINE back == [q \in Delivery!Clearable |-> IF q = "steer" THEN S ELSE F]
  <1>6. /\ back \in [Delivery!Clearable -> Nat]
        /\ back["steer"] = S /\ back["followUp"] = F
        /\ Delivery!Clearable = {"steer", "followUp"}
        /\ Delivery!Channels = QueueNames
    BY <1>5 DEF Delivery!Clearable, Delivery!Channels, QueueNames
  <1> HIDE DEF back
  <1>7. Channel' = [q \in QueueNames |-> IF q \in {"steer", "followUp"}
                                         THEN SubSeq(Channel[q], 1, back[q])
                                         ELSE Channel[q]]
    <2>1. ASSUME NEW q \in QueueNames
          PROVE  Held(q)' \o Waiting(q)' = IF q \in {"steer", "followUp"}
                                           THEN SubSeq(Channel[q], 1, back[q])
                                           ELSE Channel[q]
      <3>1. CASE q \in {"steer", "followUp"}
        <4>1. Waiting(q)' = <<>> BY <1>1, <3>1 DEF Waiting
        <4>2. Held(q)' \o Waiting(q)' = Held(q) BY <1>3, <4>1, HeldType, EmptyConcat
        <4>3. SubSeq(Channel[q], 1, back[q]) = Held(q) BY <1>5, <1>6, <3>1
        <4> QED BY <3>1, <4>2, <4>3
      <3>2. CASE q = "nextTurn"
        <4>1. Waiting(q)' = Waiting(q) BY <1>1, <3>2 DEF Waiting
        <4> QED BY <1>3, <3>2, <4>1 DEF Channel
      <3> QED BY <3>1, <3>2 DEF QueueNames
    <2> QED BY <2>1 DEF Channel
  <1>8. returned' = returned \cup
          UNION {Range(SubSeq(Channel[q], back[q] + 1, Len(Channel[q]))) :
                   q \in {"steer", "followUp"}}
    <2>1. UNION {Range(SubSeq(Channel[q], back[q] + 1, Len(Channel[q]))) :
                   q \in {"steer", "followUp"}}
            = Range(steerQueue) \cup Range(followUpQueue)
      BY <1>5, <1>6
    <2> QED BY <1>1, <2>1
  <1>9. Delivery!GiveBack(back)
    BY <1>1, <1>6, <1>7, <1>8 DEF Delivery!GiveBack, Delivery!Range, Range
  <1>10. Delivery!Next BY <1>5, <1>9 DEF Delivery!Next, back
  <1> QED BY <1>10 DEF Mapped

LEMMA InitMaps == Init => Delivery!Init
  <1> SUFFICES ASSUME Init PROVE Delivery!Init OBVIOUS
  <1>1. \A r \in Runs : run[r].msgs = <<>> BY DEF Init, NewRun
  <1>2. \A q : Held(q) = <<>> BY <1>1, HeldIsIn DEF HeldIn, Holds1
  <1>3. \A q \in QueueNames : Waiting(q) = <<>> BY DEF Init, Waiting, QueueNames
  <1>4. Channel = [q \in QueueNames |-> <<>>] BY <1>2, <1>3 DEF Channel
  <1>5. Delivered = {} /\ LostMessages = {} /\ returned = {}
    BY DEF Init, Delivered, LostMessages
  <1> QED BY <1>4, <1>5 DEF Delivery!Init, Delivery!Channels, QueueNames

LEMMA NextMaps == DeliveryInv /\ [Next]_vars => Mapped
  <1> SUFFICES ASSUME DeliveryInv, [Next]_vars PROVE Mapped OBVIOUS
  <1>1. MessagesInv /\ TypeInv' BY NextTypeInv DEF DeliveryInv, MessagesInv
  <1>2. ASSUME NEW r \in Runs, \E rearm \in BOOLEAN : Prompt(r, rearm) PROVE Mapped
    BY <1>1, <1>2, PromptStays, StayMaps
  <1>3. ASSUME NEW r \in Runs, RunStep(r) PROVE Mapped
    BY <1>1, <1>3, TakeMaps, HoldStays, LoopStays, InjectMaps, RespondStays, FlushWriteStays,
       ErrorStays, PostRunStays, StayMaps
       DEF RunStep
  <1>4. ASSUME NEW r \in Runs, RunFault(r) PROVE Mapped
    BY <1>1, <1>4, LoseMaps, PutBackMaps, ErrorStays, PostRunStays, StayMaps DEF RunFault
  <1>5. CASE \E m \in Messages : Steer(m) \/ FollowUp(m) \/ NextTurn(m) BY <1>5, AcceptMaps
  <1>6. CASE ClearQueue \/ \E a \in Aborts : Abort(a) BY <1>6, GiveBackMaps
  <1>7. CASE \/ \E w \in Writes : Set(w) \/ SetSaved(w) \/ SetRejected(w)
             \/ \E a \in Aborts : AbortStep(a)
             \/ \E s \in Structs :
                  Compact(s) \/ Navigate(s) \/ StructStep(s) \/ CompactStartFault(s)
             \/ UNCHANGED vars
    BY <1>1, <1>7, CallStays, StayMaps
  <1> QED BY <1>2, <1>3, <1>4, <1>5, <1>6, <1>7 DEF Next, Rest

\* The queues implement MessageDelivery: seen from their callers, each is a
\* channel that delivers its messages in the order it accepted them, and a
\* message leaves it once, however drains, rollbacks, failures, clearQueue()
\* and abort() interleave (lines 432-442, 594-607, 963-1003, 1350-1355).  It
\* rests on no two calls being in progress at once, so a caller has to wait
\* for a call to settle before it makes the next one.
THEOREM MessagesDeliveredInOrder ==
  ASSUME CallersWait PROVE Spec => DeliversInOrder
  <1>1. MessagesInv /\ CallsInv /\ [Next]_vars => [Delivery!Next]_(Delivery!vars)
    BY NextMaps DEF DeliveryInv, Mapped
  <1>2. Spec => []MessagesInv BY MessagesInvariant
  <1>3. Spec => []CallsInv BY CallsInvariant
  <1> QED BY <1>1, <1>2, <1>3, InitMaps, PTL DEF Spec, DeliversInOrder, Delivery!Spec

-----------------------------------------------------------------------------
(***************************************************************************)
(* Session writes.  Each queued write is persisted once, and waits in the  *)
(* queue until then: as at most one flush is under way, it appends the     *)
(* head of the queue and shifts that off.  The second half says what the   *)
(* branch ends on at each await of the run in progress (Tidy): no response *)
(* that calls tools where writes are flushed, and no overflow where a      *)
(* retry continues.                                                        *)
(***************************************************************************)

WritesPart ==
  /\ WritesAccounted
  /\ IsInjective(pending)
  /\ \A r \in Runs : FlushesHead(r)

WritesInv == CallsInv /\ WritesPart

-----------------------------------------------------------------------------
(***************************************************************************)
(* The queue.                                                              *)
(***************************************************************************)

LEMMA AppendedQueue ==
  ASSUME NEW S, NEW queue \in Seq(S), IsInjective(queue),
         NEW w \in S, w \notin Range(queue)
  PROVE  /\ IsInjective(Append(queue, w))
         /\ Range(Append(queue, w)) = Range(queue) \cup {w}
         /\ queue # <<>> => Head(Append(queue, w)) = Head(queue)
         /\ Append(queue, w) # <<>>
  <1> DEFINE s == Append(queue, w)
  <1>1. /\ DOMAIN s = 1..Len(queue) + 1 /\ DOMAIN queue = 1..Len(queue)
        /\ Len(queue) \in Nat /\ Len(s) = Len(queue) + 1
        /\ s[Len(queue) + 1] = w /\ \A i \in 1..Len(queue) : s[i] = queue[i]
    OBVIOUS
  <1>2. queue # <<>> => Head(s) = Head(queue) OBVIOUS
  <1> HIDE DEF s
  <1>3. \A i \in DOMAIN queue : queue[i] # w BY DEF Range
  <1>4. IsInjective(s) BY <1>1, <1>3 DEF IsInjective
  <1>5. Range(s) \subseteq Range(queue) \cup {w} BY <1>1 DEF Range
  <1>6. Range(queue) \subseteq Range(s) /\ w \in Range(s) BY <1>1 DEF Range
  <1>7. s # <<>> BY <1>1, Len(<<>>) = 0
  <1> QED BY <1>2, <1>4, <1>5, <1>6, <1>7 DEF s

LEMMA ShiftedQueue ==
  ASSUME NEW S, NEW queue \in Seq(S), IsInjective(queue), queue # <<>>
  PROVE  /\ IsInjective(Tail(queue))
         /\ Range(Tail(queue)) = Range(queue) \ {Head(queue)}
         /\ Head(queue) \in Range(queue)
  <1> DEFINE s == Tail(queue)
  <1>1. /\ DOMAIN s = 1..Len(queue) - 1 /\ DOMAIN queue = 1..Len(queue)
        /\ Len(queue) \in Nat /\ Len(queue) > 0
        /\ Head(queue) = queue[1] /\ \A i \in 1..Len(queue) - 1 : s[i] = queue[i + 1]
    OBVIOUS
  <1> HIDE DEF s
  <1>2. IsInjective(s)
    <2>1. ASSUME NEW i \in DOMAIN s, NEW j \in DOMAIN s, s[i] = s[j] PROVE i = j
      <3>1. i + 1 \in DOMAIN queue /\ j + 1 \in DOMAIN queue BY <1>1
      <3>2. queue[i + 1] = queue[j + 1] BY <1>1, <2>1
      <3>3. i + 1 = j + 1 BY <3>1, <3>2 DEF IsInjective
      <3> QED BY <1>1, <3>3
    <2> QED BY <2>1 DEF IsInjective
  <1>3. ASSUME NEW x \in Range(s) PROVE x \in Range(queue) /\ x # Head(queue)
    <2>1. PICK i \in DOMAIN s : s[i] = x BY DEF Range
    <2>2. i + 1 \in DOMAIN queue /\ 1 \in DOMAIN queue /\ i + 1 # 1 /\ queue[i + 1] = x
      BY <1>1, <2>1
    <2> QED BY <1>1, <2>2 DEF Range, IsInjective
  <1>4. ASSUME NEW x \in Range(queue), x # Head(queue) PROVE x \in Range(s)
    <2>1. PICK i \in DOMAIN queue : queue[i] = x BY DEF Range
    <2>2. i - 1 \in DOMAIN s /\ s[i - 1] = x BY <1>1, <1>4, <2>1
    <2> QED BY <2>2 DEF Range
  <1>5. Head(queue) \in Range(queue)
    <2>1. 1 \in DOMAIN queue BY <1>1
    <2> QED BY <1>1, <2>1 DEF Range
  <1> QED BY <1>2, <1>3, <1>4, <1>5 DEF s

-----------------------------------------------------------------------------
(***************************************************************************)
(* The actions.                                                            *)
(***************************************************************************)

\* Persisting a message leaves the counts of the writes alone; persisting a
\* write for the first time counts one.
LEMMA StoredCounts ==
  ASSUME TypeInv, NEW x \in Messages \cup Runs \cup Writes
  PROVE  /\ \A w \in Writes : w # x => Stored(x)[w] = stored[w]
         /\ stored[x] = 0 => Stored(x)[x] = 1
  BY DEF Stored, TypeInv, TypeOK

\* A step that leaves the writes and their counts alone.
LEMMA WritesFrame ==
  ASSUME WritesPart, UNCHANGED <<pending, write>>, \A w \in Writes : stored'[w] = stored[w]
  PROVE  WritesAccounted' /\ IsInjective(pending)'
  BY DEF WritesPart, WritesAccounted

\* Only the flush takes a write from the queue.
LEMMA RunLeavesWrites ==
  ASSUME TypeInv, NEW r \in Runs, RunStep(r) \/ RunFault(r), ~FlushWrite(r)
  PROVE  UNCHANGED <<pending, write>> /\ \A w \in Writes : stored'[w] = stored[w]
  <1>1. CASE InjectMessage(r)
    <2>1. run[r].msgs \in Seq(Messages \cup Runs) /\ run[r].msgs # <<>>
      BY <1>1 DEF TypeInv, TypeOK, RunsHold, Holds, RunRecords, InjectMessage
    <2>2. Head(run[r].msgs) \in Messages \cup Runs BY <2>1
    <2>3. stored' = Stored(Head(run[r].msgs)) /\ UNCHANGED <<pending, write>>
      BY <1>1 DEF InjectMessage, calls
    <2> QED BY <2>2, <2>3, StoredCounts, ConstantsAssumption
  <1>2. CASE ~InjectMessage(r)
    <2>1. UNCHANGED <<pending, write, stored>>
      <3>1. CASE \/ TakeNextTurn(r) \/ NextTurnEmitted(r) \/ StartFirstPass(r)
                 \/ StartNextPass(r) \/ DrainSteering(r) \/ NoSteering(r)
                 \/ DrainFollowUps(r) \/ NoFollowUps(r) \/ DrainEmitted(r)
        BY <3>1 DEF TakeNextTurn, NextTurnEmitted, StartFirstPass, StartNextPass,
                    DrainSteering, NoSteering, DrainFollowUps, NoFollowUps,
                    DrainEmitted, others, session, calls
      <3>2. CASE \/ \E out \in Outcomes : Respond(r, out)
                 \/ ToolsDone(r) \/ TurnEnd(r) \/ SavePoint(r) \/ PrepareNextTurn(r)
                 \/ AgentEnd(r) \/ Settle(r) \/ TurnEndThrew(r)
        BY <3>2 DEF Respond, SaveAssistant, ToolsDone, TurnEnd, SavePoint,
                    PrepareNextTurn, AgentEnd, Settle, TurnEndThrew, others, session,
                    calls
      <3>3. CASE \/ ReportFailure(r) \/ Rejected(r) \/ PostRun(r) \/ PostRunLeft(r)
                 \/ PostRunOverflow(r) \/ PostRunThreshold(r) \/ GiveUp(r)
        BY <3>3 DEF ReportFailure, SaveAssistant, Rejected, PostRun, PostRunLeft,
                    PostRunOverflow, PostRunThreshold, GiveUp, session, calls
      <3>4. CASE \/ AutoCompactStarted(r) \/ AutoCompacted(r) \/ AutoCompactSkipped(r)
                 \/ AutoCompactThrew(r)
        BY <3>4 DEF AutoCompactStarted, AutoCompacted, AutoCompactSkipped,
                    AutoCompactThrew, session, calls
      <3>5. CASE \/ OuterFault(r) \/ EmitNextFault(r) \/ LoopFault(r)
                 \/ EmitDrainFault(r) \/ TurnEndFault(r)
        BY <3>5 DEF OuterFault, EmitNextFault, LoopFault, EmitDrainFault, TurnEndFault,
                    session, calls
      <3> QED BY <1>2, <3>1, <3>2, <3>3, <3>4, <3>5 DEF RunStep, RunFault
    <2> QED BY <2>1
  <1> QED BY <1>1, <1>2

\* One write leaves the queue for the session.
LEMMA FlushWriteAccounts ==
  ASSUME WritesInv, NEW r \in Runs, FlushWrite(r)
  PROVE  WritesAccounted' /\ IsInjective(pending)'
  <1> DEFINE w == run[r].write
  <1>1. TypeInv BY DEF WritesInv, CallsInv
  <1>2. pending # <<>> /\ w = Head(pending)
    BY DEF WritesInv, WritesPart, FlushesHead, FlushWrite
  <1>3. pending \in Seq(Writes) /\ IsInjective(pending)
    BY <1>1 DEF TypeInv, TypeOK, WritesInv, WritesPart
  <1>4. pending' = Tail(pending) BY <1>2 DEF FlushWrite, Shifted
  <1>5. /\ IsInjective(pending)' /\ Range(pending') = Range(pending) \ {w}
        /\ w \in Range(pending)
    BY <1>2, <1>3, <1>4, ShiftedQueue
  <1>6. w \in Writes BY <1>1 DEF TypeInv, RunsHold, Holds, FlushWrite
  <1>7. write[w] = "queued" /\ stored[w] = 0
    BY <1>5, <1>6 DEF WritesInv, WritesPart, WritesAccounted
  <1>8. stored' = Stored(w) /\ write' = [write EXCEPT ![w] = "saved"] BY DEF FlushWrite
  <1>9. stored'[w] = 1 /\ \A v \in Writes \ {w} : stored'[v] = stored[v]
    BY <1>1, <1>6, <1>7, <1>8, StoredCounts
  <1>10. write'[w] = "saved" /\ \A v \in Writes \ {w} : write'[v] = write[v]
    BY <1>1, <1>6, <1>8 DEF TypeInv, TypeOK
  <1> HIDE DEF w
  <1> QED BY <1>5, <1>6, <1>9, <1>10 DEF WritesInv, WritesPart, WritesAccounted

LEMMA RunKeepsWrites ==
  ASSUME WritesInv, NEW r \in Runs, RunStep(r) \/ RunFault(r)
  PROVE  WritesPart'
  <1>1. TypeInv /\ IdleAfterEnd(r) BY DEF WritesInv, CallsInv
  <1>2. RunAdvances(r) BY <1>1, RunStepAdvances
  <1>3. WritesAccounted' /\ IsInjective(pending)'
    BY <1>1, FlushWriteAccounts, RunLeavesWrites, WritesFrame DEF WritesInv
  <1>4. ASSUME NEW q \in Runs PROVE FlushesHead(q)'
    <2>1. CASE q = r BY <1>2, <2>1 DEF RunAdvances, FlushesHead
    <2>2. CASE q # r
      <3>1. run'[q] = run[q] /\ ~InProgress(q)
        BY <1>2, <2>2 DEF RunAdvances, WritesInv, CallsInv, OneAtATime
      <3> QED BY <3>1 DEF InProgress, FlushesHead
    <2> QED BY <2>1, <2>2
  <1> QED BY <1>3, <1>4 DEF WritesPart

LEMMA SetKeepsWrites ==
  ASSUME WritesInv, NEW w \in Writes, Set(w) \/ SetSaved(w) \/ SetRejected(w)
  PROVE  WritesPart'
  <1>1. /\ pending \in Seq(Writes) /\ IsInjective(pending)
        /\ write \in [Writes -> {"new", "saving", "queued", "saved", "rejected"}]
        /\ TypeInv /\ WritesAccounted
    BY DEF WritesInv, CallsInv, WritesPart, TypeInv, TypeOK
  <1>2. w \notin Range(pending) /\ UNCHANGED run
    BY <1>1 DEF WritesAccounted, Set, SetSaved, SetRejected
  <1>3. CASE pending' = Append(pending, w)
    <2>1. /\ IsInjective(pending') /\ Range(pending') = Range(pending) \cup {w}
          /\ pending' # <<>>
          /\ pending # <<>> => Head(pending') = Head(pending)
      BY <1>1, <1>2, <1>3, AppendedQueue
    <2>2. pending' # pending BY <1>2, <2>1
    <2>3. /\ Set(w) /\ write[w] = "new" /\ write' = [write EXCEPT ![w] = "queued"]
          /\ UNCHANGED stored
      BY <2>2 DEF Set, SetSaved, SetRejected, session
    <2>4. write'[w] = "queued" /\ \A v \in Writes \ {w} : write'[v] = write[v]
      BY <1>1, <2>3
    <2>5. WritesAccounted' BY <1>1, <2>1, <2>3, <2>4 DEF WritesAccounted
    <2>6. \A r \in Runs : run[r].pc # "finally"
      BY <2>2, <2>3 DEF Set, WritesInv, CallsInv, IdleAfterEnd, WindingDown
    <2>7. \A r \in Runs : FlushesHead(r)'
      BY <1>2, <2>1, <2>6 DEF WritesInv, WritesPart, FlushesHead
    <2> QED BY <2>1, <2>5, <2>7 DEF WritesPart
  <1>4. CASE UNCHANGED pending
    <2>1. \A r \in Runs : FlushesHead(r)'
      BY <1>2, <1>4 DEF WritesInv, WritesPart, FlushesHead
    <2>2. WritesAccounted'
      <3>1. CASE SetSaved(w)
        <4>1. /\ write'[w] = "saved" /\ \A v \in Writes \ {w} : write'[v] = write[v]
              /\ stored' = Stored(w) /\ write[w] = "saving"
          BY <1>1, <3>1 DEF SetSaved
        <4>2. stored'[w] = 1 /\ \A v \in Writes \ {w} : stored'[v] = stored[v]
          BY <1>1, <4>1, StoredCounts DEF WritesAccounted
        <4> QED BY <1>1, <1>2, <1>4, <4>1, <4>2 DEF WritesAccounted
      <3>2. CASE Set(w) \/ SetRejected(w)
        <4>1. /\ write'[w] \in {"saving", "rejected"} \/ pending' = Append(pending, w)
              /\ \A v \in Writes \ {w} : write'[v] = write[v]
              /\ UNCHANGED stored /\ write[w] \in {"new", "saving"}
          BY <1>1, <3>2 DEF Set, SetRejected, session
        <4>2. pending' # Append(pending, w) BY <1>1, <1>2, <1>4, AppendedQueue
        <4> QED BY <1>1, <1>2, <1>4, <4>1, <4>2 DEF WritesAccounted
      <3> QED BY <3>1, <3>2
    <2> QED BY <1>1, <1>4, <2>1, <2>2 DEF WritesPart
  <1>5. pending' = Append(pending, w) \/ UNCHANGED pending
    BY DEF Set, SetSaved, SetRejected
  <1> QED BY <1>3, <1>4, <1>5

\* Steps of the others leave the writes and the flush under way alone.
LEMMA OthersKeepWrites ==
  ASSUME WritesInv,
         \/ \E r \in Runs, rearm \in BOOLEAN : Prompt(r, rearm)
         \/ \E m \in Messages : Steer(m) \/ FollowUp(m) \/ NextTurn(m)
         \/ ClearQueue
         \/ \E a \in Aborts : Abort(a) \/ AbortStep(a)
         \/ \E s \in Structs :
              Compact(s) \/ Navigate(s) \/ StructStep(s) \/ CompactStartFault(s)
         \/ UNCHANGED vars
  PROVE  WritesPart'
  <1>1. UNCHANGED <<pending, write, stored>>
    <2>1. CASE \E r \in Runs, rearm \in BOOLEAN : Prompt(r, rearm)
      BY <2>1 DEF Prompt, session, calls
    <2>2. CASE (\E m \in Messages : Steer(m) \/ FollowUp(m) \/ NextTurn(m)) \/ ClearQueue
      BY <2>2 DEF Steer, FollowUp, NextTurn, ClearQueue, session, calls
    <2>3. CASE \E a \in Aborts : Abort(a) \/ AbortStep(a)
      BY <2>3 DEF Abort, AbortStep, AbortNotified, AbortReturns, session
    <2>4. CASE \E s \in Structs :
                 Compact(s) \/ Navigate(s) \/ StructStep(s) \/ CompactStartFault(s)
      BY <2>4 DEF Compact, Navigate, StructStep, CompactStartFault, CompactStarted,
                  Compacted, CompactFailed, Navigated, NavigateCancelled, Structural,
                  session
    <2>5. CASE UNCHANGED vars BY <2>5 DEF vars, others, session, calls
    <2> QED BY <2>1, <2>2, <2>3, <2>4, <2>5
  <1>2. ASSUME NEW r \in Runs, run'[r].pc \in {"flush", "finally"}
        PROVE  run'[r].pc = run[r].pc /\ run'[r].write = run[r].write
    <2>1. run \in [Runs -> RunRecords] /\ runAbort \in Runs \cup {None}
      BY DEF WritesInv, CallsInv, TypeInv, TypeOK
    <2>2. ASSUME NEW q \in Runs, NEW rearm \in BOOLEAN, Prompt(q, rearm)
          PROVE  run'[r] = run[r]
      <3>1. run'[q].pc = "snapshot" /\ \A p \in Runs \ {q} : run'[p] = run[p]
        BY <2>1, <2>2 DEF Prompt, Moves, RunRecords
      <3> QED BY <1>2, <3>1
    <2>3. ASSUME NEW a \in Aborts, Abort(a)
          PROVE  run'[r].pc = run[r].pc /\ run'[r].write = run[r].write
      BY <2>1, <2>3 DEF Abort, RunRecords
    <2>4. CASE \/ \E m \in Messages : Steer(m) \/ FollowUp(m) \/ NextTurn(m)
               \/ ClearQueue
               \/ \E a \in Aborts : AbortStep(a)
      BY <1>2, <2>4 DEF Steer, FollowUp, NextTurn, ClearQueue, AbortStep, AbortNotified,
                        AbortReturns
    <2>5. CASE \E s \in Structs :
                 Compact(s) \/ Navigate(s) \/ StructStep(s) \/ CompactStartFault(s)
      BY <1>2, <2>5 DEF Compact, Navigate, StructStep, CompactStartFault, CompactStarted,
                        Compacted, CompactFailed, Navigated, NavigateCancelled, Structural
    <2>6. CASE UNCHANGED vars BY <1>2, <2>6 DEF vars
    <2> QED BY <1>2, <2>2, <2>3, <2>4, <2>5, <2>6
  <1>3. \A r \in Runs : FlushesHead(r)'
    BY <1>1, <1>2 DEF WritesInv, WritesPart, FlushesHead
  <1> QED BY <1>1, <1>3 DEF WritesInv, WritesPart, WritesAccounted

-----------------------------------------------------------------------------
(***************************************************************************)
(* The theorem.                                                            *)
(***************************************************************************)

LEMMA InitWrites == Init => WritesInv
  <1> SUFFICES ASSUME Init PROVE WritesInv OBVIOUS
  <1>1. Range(pending) = {} /\ IsInjective(pending) BY DEF Init, Range, IsInjective
  <1>2. \A w \in Writes : write[w] = "new" /\ stored[w] = 0 BY DEF Init
  <1>3. \A r \in Runs : run[r].pc = "new" BY DEF Init, NewRun
  <1> QED BY <1>1, <1>2, <1>3, InitCalls
          DEF WritesInv, WritesPart, WritesAccounted, FlushesHead

LEMMA NextWrites ==
  ASSUME CallersWait
  PROVE  WritesInv /\ [Next]_vars => WritesInv'
  <1> SUFFICES ASSUME WritesInv, [Next]_vars PROVE WritesPart'
    BY NextCalls DEF WritesInv
  <1>1. CASE \E r \in Runs : RunStep(r) \/ RunFault(r) BY <1>1, RunKeepsWrites
  <1>2. CASE \E w \in Writes : Set(w) \/ SetSaved(w) \/ SetRejected(w)
    BY <1>2, SetKeepsWrites
  <1> QED BY <1>1, <1>2, OthersKeepWrites DEF Next, Rest

\* Each write made while the harness is busy waits in the queue until it is
\* persisted, and is persisted once, whatever throws (agent-harness.ts lines
\* 507-531).  Callers that overlap their calls lose this.
THEOREM QueuedWritesAccounted ==
  ASSUME CallersWait
  PROVE  Spec => []WritesAccounted
  <1>1. WritesInv => WritesAccounted BY DEF WritesInv, WritesPart
  <1> QED BY <1>1, InitWrites, NextWrites, PTL DEF Spec

\* A run that ends without compacting leaves no queued write behind, also none
\* queued between the flush of agent_end and its return to idle.
THEOREM RunsLeaveNoWrite ==
  ASSUME CallersWait
  PROVE  Spec => NoWriteLeftBehind
  <1> DEFINE Step == \A r \in Runs :
                       run[r].pc = "finally" /\ run'[r].pc = "done" => pending = <<>>
  <1>1. WritesInv => Step BY DEF WritesInv, WritesPart, FlushesHead
  <1>2. Spec => []WritesInv BY InitWrites, NextWrites, PTL DEF Spec
  <1>3. Spec => [][Step]_vars BY <1>1, <1>2, PTL DEF Spec
  <1> QED BY <1>3 DEF NoWriteLeftBehind

-----------------------------------------------------------------------------
(***************************************************************************)
(* What the branch ends on.  Between the turns of a run it does not end on *)
(* a response that calls tools, so that queued writes may be flushed; and  *)
(* what a retry continues from is not an overflow, because the response    *)
(* that overflowed came after something that was not one.                  *)
(***************************************************************************)

\* The last entry, the last message, and the last message for a retry.
EndsClean(b) == b = <<>> \/ b[Len(b)] # Assistant("tool")
Fitting(b) == ~Overflows(ContextTail(b))
Retryable(b) == ~Overflows(RetryTail(b))

LEMMA OneLastMessage ==
  ASSUME NEW S, NEW b \in Seq(S), NEW i \in DOMAIN b, LastMessageAt(b, i)
  PROVE  HasMessage(b) /\ LastMessage(b) = i
  <1>1. HasMessage(b) BY DEF HasMessage
  <1>2. LastMessage(b) \in DOMAIN b /\ LastMessageAt(b, LastMessage(b))
    BY DEF LastMessage
  <1>3. \A j \in DOMAIN b : LastMessageAt(b, j) => j = i
    BY DEF LastMessageAt
  <1> QED BY <1>1, <1>2, <1>3

LEMMA AppendMessage ==
  ASSUME NEW b \in Seq(Entries), NEW e \in Entries, IsMessage(e)
  PROVE  /\ ContextTail(Append(b, e)) = TailOf(e)
         /\ RetryTail(Append(b, e)) = IF Overflows(TailOf(e)) THEN ContextTail(b)
                                      ELSE TailOf(e)
  <1> DEFINE c == Append(b, e)
             n == Len(b) + 1
  <1>1. c \in Seq(Entries) /\ n \in DOMAIN c /\ c[n] = e /\ SubSeq(c, 1, n - 1) = b
        /\ \A j \in DOMAIN c : ~(j > n)
    OBVIOUS
  <1> HIDE DEF c, n
  <1>2. LastMessageAt(c, n) BY <1>1 DEF LastMessageAt
  <1>3. HasMessage(c) /\ LastMessage(c) = n BY <1>1, <1>2, OneLastMessage
  <1>4. ContextTail(c) = TailOf(e) BY <1>1, <1>3 DEF ContextTail
  <1>5. RetryTail(c) = IF Overflows(TailOf(e)) THEN ContextTail(b) ELSE TailOf(e)
    BY <1>1, <1>3, <1>4 DEF RetryTail
  <1> QED BY <1>4, <1>5 DEF c

LEMMA AppendOther ==
  ASSUME NEW b \in Seq(Entries), NEW e \in Entries, ~IsMessage(e)
  PROVE  /\ ContextTail(Append(b, e)) = ContextTail(b)
         /\ RetryTail(Append(b, e)) = RetryTail(b)
  <1> DEFINE c == Append(b, e)
             n == Len(b)
  <1>1. /\ c \in Seq(Entries) /\ n \in Nat /\ DOMAIN b = 1..n /\ DOMAIN c = 1..n + 1
        /\ c[n + 1] = e /\ \A j \in 1..n : c[j] = b[j]
    OBVIOUS
  <1>2. ASSUME NEW i \in 1..n PROVE SubSeq(c, 1, i - 1) = SubSeq(b, 1, i - 1)
    OBVIOUS
  <1> HIDE DEF c, n
  <1>3. \A i \in 1..n : LastMessageAt(c, i) <=> LastMessageAt(b, i)
    <2> SUFFICES ASSUME NEW i \in 1..n
                 PROVE  LastMessageAt(c, i) <=> LastMessageAt(b, i)
      OBVIOUS
    <2>1. (\A j \in 1..n + 1 : j > i => ~IsMessage(c[j]))
             <=> \A j \in 1..n : j > i => ~IsMessage(b[j])
      BY <1>1
    <2> QED BY <1>1, <2>1 DEF LastMessageAt
  <1>4. ~LastMessageAt(c, n + 1) BY <1>1 DEF LastMessageAt
  <1>5. CASE HasMessage(b)
    <2>1. PICK i \in 1..n : LastMessageAt(b, i) BY <1>1, <1>5 DEF HasMessage
    <2>2. LastMessage(b) = i BY <1>1, <2>1, OneLastMessage
    <2>3. HasMessage(c) /\ LastMessage(c) = i BY <1>1, <1>3, <2>1, OneLastMessage
    <2>4. ContextTail(c) = ContextTail(b) BY <1>1, <1>5, <2>1, <2>2, <2>3 DEF ContextTail
    <2>5. RetryTail(c) = RetryTail(b) BY <1>2, <2>1, <2>2, <2>3, <2>4 DEF RetryTail
    <2> QED BY <2>4, <2>5 DEF c
  <1>6. CASE ~HasMessage(b)
    <2>1. ~HasMessage(c) BY <1>1, <1>3, <1>4, <1>6 DEF HasMessage
    <2>2. ContextTail(c) = "none" /\ ContextTail(b) = "none"
      BY <1>6, <2>1 DEF ContextTail
    <2>3. ~Overflows("none") BY DEF Overflows
    <2> QED BY <2>2, <2>3 DEF RetryTail, c
  <1> QED BY <1>5, <1>6

\* Entries that a run or a setter appends.
LEMMA AppendEnds ==
  ASSUME NEW b \in Seq(Entries), NEW e \in Entries
  PROVE  EndsClean(Append(b, e)) <=> e # Assistant("tool")
  <1>1. Append(b, e)[Len(Append(b, e))] = e /\ Append(b, e) # <<>> OBVIOUS
  <1> QED BY <1>1 DEF EndsClean

LEMMA AppendWrite ==
  ASSUME NEW b \in Seq(Entries),
         NEW e \in {Compaction} \cup {Written(w) : w \in Writes}
  PROVE  /\ EndsClean(Append(b, e))
         /\ Fitting(b) => Fitting(Append(b, e))
         /\ Retryable(b) => Retryable(Append(b, e))
  <1>1. e \in Entries /\ e # Assistant("tool")
    BY DEF Entries, Compaction, Written, Assistant
  <1>2. TailOf(e) = "user" BY DEF TailOf, Compaction, Written
  <1>3. ~Overflows("user") BY DEF Overflows
  <1>4. CASE IsMessage(e)
    BY <1>1, <1>2, <1>3, <1>4, AppendMessage, AppendEnds DEF Fitting, Retryable
  <1>5. CASE ~IsMessage(e)
    BY <1>1, <1>5, AppendOther, AppendEnds DEF Fitting, Retryable
  <1> QED BY <1>4, <1>5

LEMMA AppendInput ==
  ASSUME NEW b \in Seq(Entries),
         NEW e \in {ToolResult} \cup {User(m) : m \in Messages \cup Runs}
  PROVE  EndsClean(Append(b, e)) /\ Fitting(Append(b, e))
  <1>1. e \in Entries /\ IsMessage(e) /\ e # Assistant("tool")
    BY DEF Entries, IsMessage, ToolResult, User, Assistant
  <1>2. TailOf(e) \in {"toolResult", "user"} BY DEF TailOf, ToolResult, User
  <1> QED BY <1>1, <1>2, AppendMessage, AppendEnds DEF Fitting, Overflows

LEMMA AppendResponse ==
  ASSUME NEW b \in Seq(Entries), NEW out \in Outcomes
  PROVE  /\ EndsClean(Append(b, Assistant(out))) <=> out # "tool"
         /\ Fitting(Append(b, Assistant(out))) <=> ~Overflows(out)
         /\ Retryable(Append(b, Assistant(out))) <=> (Overflows(out) => Fitting(b))
  <1> DEFINE e == Assistant(out)
  <1>1. e \in Entries /\ IsMessage(e) /\ (e = Assistant("tool") <=> out = "tool")
    BY DEF Entries, IsMessage, Assistant
  <1>2. TailOf(e) = out BY DEF TailOf, Assistant
  <1> HIDE DEF e
  <1>3. /\ ContextTail(Append(b, e)) = out
        /\ RetryTail(Append(b, e)) = IF Overflows(out) THEN ContextTail(b) ELSE out
    BY <1>1, <1>2, AppendMessage
  <1>4. EndsClean(Append(b, e)) <=> out # "tool" BY <1>1, AppendEnds
  <1> QED BY <1>3, <1>4 DEF e, Fitting, Retryable

LEMMA FittingRetries ==
  ASSUME NEW b, Fitting(b)
  PROVE  Retryable(b)
  BY DEF Fitting, Retryable, RetryTail

-----------------------------------------------------------------------------
(***************************************************************************)
(* Where a run in progress is, and what its branch ends on there.          *)
(***************************************************************************)

At(rec, to) == rec.pc = to \/ (rec.pc = "flush" /\ rec.ret = to)

\* Between two passes, between the first message of a pass and the response,
\* after a response that may be the last, after one that is not, and after an
\* error.
Between(rec) == rec.pc \in {"giveUp", "compactStart", "compacting"} \/ At(rec, "resnap")
Polling(rec) == rec.pc \in {"steer", "emitDrain", "inject", "request"}
Replied(rec) ==
  \/ rec.pc \in {"turnEnd", "settle"}
  \/ \E to \in {"savePoint", "agentEnd", "finally", "threw"} : At(rec, to)
GoingOn(rec) == rec.pc = "follow" \/ At(rec, "prepare")
Dying(rec) == rec.pc = "fail" \/ At(rec, "rejected")

Older(msg, b) == \E i \in DOMAIN b : i > msg.at /\ b[i] = Compaction

\* The run retries an overflow: not from one.
RetryRight(rec, b) ==
  rec.retry =>
    /\ Between(rec) \/ Polling(rec) \/ Dying(rec)
    /\ Polling(rec) => rec.more
    /\ ~rec.silent =>
         /\ Between(rec) => Retryable(b)
         /\ rec.pc = "resnap" \/ Polling(rec) => ~Overflows(rec.tail)

\* While the latch is not set, only the response just given may be an overflow.
BranchRight(rec, b, msg) ==
  /\ Between(rec) \/ Polling(rec) \/ GoingOn(rec) \/ rec.pc = "tools" => Fitting(b)
  /\ Replied(rec) =>
       /\ Retryable(b)
       /\ Fitting(b) \/ (msg.out = "overflow" /\ ~Older(msg, b))
  /\ rec.pc = "turnEnd" \/ At(rec, "savePoint") => Fitting(b) \/ rec.final

Tidy(rec, b, set, msg) ==
  /\ RetryRight(rec, b)
  /\ ~set /\ ~rec.silent => BranchRight(rec, b, msg)
  /\ Between(rec) \/ Polling(rec) \/ Replied(rec) \/ GoingOn(rec) => EndsClean(b)

IsTidy(r) == InProgress(r) /\ Tidy(run[r], branch, latch, lastAssistant)

StaysTidy(r) ==
  \E rec : /\ Moves(r, rec)
           /\ rec.pc # "done" => Tidy(rec, branch', latch', lastAssistant')

SameFlags(rec, old) ==
  /\ rec.retry = old.retry /\ rec.silent = old.silent
  /\ rec.final = old.final /\ rec.more = old.more

LEMMA FlushedFlags ==
  ASSUME NEW rec \in RunRecords, NEW to \in FlushReturns, NEW queue, NEW b
  PROVE  LET next == Flushing(rec, to, queue, b)
         IN /\ At(next, to) /\ SameFlags(next, rec)
            /\ next.pc = "resnap" => next.tail = RetryTail(b)
  <1> DEFINE tail == CASE to = "prepare" -> ContextTail(b)
                       [] to = "resnap" -> RetryTail(b)
                       [] OTHER -> rec.tail
             there == [rec EXCEPT !.pc = to, !.write = None, !.tail = tail]
             waits == [rec EXCEPT !.pc = "flush", !.ret = to, !.write = Head(queue)]
  <1>1. Arrive(rec, to, b) = there BY DEF Arrive, RunRecords
  <1>2. to = "resnap" => tail = RetryTail(b) OBVIOUS
  <1> HIDE DEF tail
  <1>3. there.pc = to /\ there.tail = tail /\ SameFlags(there, rec)
    BY DEF RunRecords, SameFlags
  <1>4. waits.pc = "flush" /\ waits.ret = to /\ SameFlags(waits, rec)
    BY DEF RunRecords, SameFlags
  <1>5. Flushing(rec, to, queue, b) = IF queue = <<>> THEN there ELSE waits
    BY <1>1 DEF Flushing
  <1> HIDE DEF there, waits
  <1>6. CASE queue = <<>> BY <1>2, <1>3, <1>5, <1>6 DEF At
  <1>7. CASE queue # <<>> BY <1>4, <1>5, <1>7 DEF At
  <1> QED BY <1>6, <1>7

\* The places exclude each other.
LEMMA PlacesDiffer ==
  ASSUME NEW rec, NEW to \in FlushReturns, At(rec, to)
  PROVE  /\ Between(rec) <=> to = "resnap"
         /\ Replied(rec) <=> to \in {"savePoint", "agentEnd", "finally", "threw"}
         /\ GoingOn(rec) <=> to = "prepare"
         /\ Dying(rec) <=> to = "rejected"
         /\ At(rec, "savePoint") <=> to = "savePoint"
         /\ ~Polling(rec) /\ rec.pc \notin {"tools", "turnEnd", "done"}
  BY DEF At, Between, Replied, GoingOn, Dying, Polling, FlushReturns

LEMMA ReplyEndsRetry ==
  ASSUME NEW rec, NEW b, RetryRight(rec, b),
         rec.pc \in {"turnEnd", "settle", "tools", "follow", "snapshot", "emitNext", "hook",
                     "prompts", "finally", "prepare", "savePoint", "agentEnd"}
  PROVE  ~rec.retry
  BY DEF RetryRight, Between, Polling, Dying, At

\* The run waits for a flush, or is where it leads to.
LEMMA FlushTidy ==
  ASSUME TypeInv, NEW r \in Runs, IsTidy(r), NEW to \in FlushReturns \ {"resnap"},
         StartFlush(r, to), UNCHANGED <<branch, latch, lastAssistant>>,
         ~run[r].retry \/ to = "rejected",
         to # "rejected" => EndsClean(branch),
         ~latch /\ ~run[r].silent =>
           /\ to = "prepare" => Fitting(branch)
           /\ to \in {"savePoint", "agentEnd", "finally", "threw"} =>
                /\ Retryable(branch)
                /\ \/ Fitting(branch)
                   \/ lastAssistant.out = "overflow" /\ ~Older(lastAssistant, branch)
           /\ to = "savePoint" => Fitting(branch) \/ run[r].final
  PROVE  StaysTidy(r)
  <1> DEFINE rec == Flushing(run[r], to, pending, branch)
  <1>1. run[r] \in RunRecords BY DEF TypeInv, TypeOK
  <1>2. At(rec, to) /\ SameFlags(rec, run[r]) BY <1>1, FlushedFlags
  <1>3. Moves(r, rec) BY DEF StartFlush
  <1> HIDE DEF rec
  <1>4. /\ ~Between(rec) /\ ~Polling(rec) /\ rec.pc \notin {"tools", "turnEnd", "resnap"}
        /\ Replied(rec) <=> to \in {"savePoint", "agentEnd", "finally", "threw"}
        /\ GoingOn(rec) <=> to = "prepare"
        /\ Dying(rec) <=> to = "rejected"
        /\ At(rec, "savePoint") <=> to = "savePoint"
    BY <1>2, PlacesDiffer DEF Between, At
  <1>5. RetryRight(rec, branch) BY <1>2, <1>4 DEF RetryRight, SameFlags
  <1>6. ~latch /\ ~rec.silent => BranchRight(rec, branch, lastAssistant)
    BY <1>2, <1>4 DEF BranchRight, SameFlags
  <1>7. Replied(rec) \/ GoingOn(rec) => EndsClean(branch) BY <1>4
  <1> QED BY <1>3, <1>4, <1>5, <1>6, <1>7 DEF StaysTidy, Tidy

\* Another pass, or the end.
LEMMA ContinueTidy ==
  ASSUME TypeInv, NEW r \in Runs, NEW again, ContinueOrFinish(r, again, branch'),
         EndsClean(branch'),
         ~latch' /\ ~run[r].silent => Fitting(branch'),
         run[r].retry /\ ~run[r].silent => Retryable(branch')
  PROVE  StaysTidy(r)
  <1>1. run[r] \in RunRecords BY DEF TypeInv, TypeOK
  <1>2. CASE again
    <2> DEFINE rec == Flushing(run[r], "resnap", pending, branch')
    <2>1. "resnap" \in FlushReturns BY DEF FlushReturns
    <2>2. /\ At(rec, "resnap") /\ SameFlags(rec, run[r])
          /\ rec.pc = "resnap" => rec.tail = RetryTail(branch')
      BY <1>1, <2>1, FlushedFlags
    <2>3. Moves(r, rec) BY <1>2 DEF ContinueOrFinish
    <2> HIDE DEF rec
    <2>4. /\ Between(rec) /\ ~Polling(rec) /\ ~Replied(rec) /\ ~GoingOn(rec)
          /\ rec.pc \notin {"tools", "turnEnd"} /\ ~At(rec, "savePoint")
      BY <2>1, <2>2, PlacesDiffer
    <2>5. RetryRight(rec, branch') BY <2>2, <2>4 DEF RetryRight, SameFlags, Retryable
    <2>6. ~latch' /\ ~rec.silent => BranchRight(rec, branch', lastAssistant')
      BY <2>2, <2>4 DEF BranchRight, SameFlags
    <2> QED BY <2>3, <2>4, <2>5, <2>6 DEF StaysTidy, Tidy
  <1>3. CASE ~again
    <2> DEFINE old == [run[r] EXCEPT !.msgs = <<>>, !.origin = NoQueue]
               rec == Arrive(old, "done", branch)
    <2>1. NoQueue \in Origins /\ <<>> \in Seq(Messages \cup Runs) BY DEF NoQueue, Origins
    <2>2. old \in RunRecords BY <1>1, <2>1 DEF RunRecords
    <2>3. Moves(r, rec) BY <1>3 DEF ContinueOrFinish, Finish
    <2> HIDE DEF old
    <2>4. rec.pc = "done" BY <2>2, ArriveCourse
    <2> QED BY <2>3, <2>4 DEF StaysTidy
  <1> QED BY <1>2, <1>3

\* A run that fails.
LEMMA FailTidy ==
  ASSUME TypeInv, NEW r \in Runs, AfterLoopError(r) \/ Finish(r)
  PROVE  StaysTidy(r)
  <1>1. run[r] \in RunRecords BY DEF TypeInv, TypeOK
  <1>2. NoQueue \in Origins /\ <<>> \in Seq(Messages \cup Runs) BY DEF NoQueue, Origins
  <1>3. ASSUME NEW rec, Dying(rec) PROVE \A b, set, msg : Tidy(rec, b, set, msg)
    BY <1>3 DEF Dying, Tidy, RetryRight, BranchRight, Between, Polling, Replied, GoingOn, At
  <1>4. CASE AfterLoopError(r)
    <2> DEFINE old == [run[r] EXCEPT !.msgs = <<>>, !.write = None, !.origin = NoQueue]
               reported == [old EXCEPT !.pc = "fail"]
               thrown == Flushing(old, "rejected", pending, branch)
    <2>1. old \in RunRecords BY <1>1, <1>2 DEF RunRecords
    <2>2. Moves(r, reported) \/ Moves(r, thrown) BY <1>4 DEF AfterLoopError
    <2> HIDE DEF old
    <2>3. Dying(reported) BY <2>1 DEF RunRecords, Dying
    <2>4. Dying(thrown) BY <2>1, FlushedFlags DEF FlushReturns, Dying
    <2> HIDE DEF reported, thrown
    <2> QED BY <1>3, <2>2, <2>3, <2>4 DEF StaysTidy
  <1>5. CASE Finish(r)
    <2> DEFINE old == [run[r] EXCEPT !.msgs = <<>>, !.origin = NoQueue]
               rec == Arrive(old, "done", branch)
    <2>1. old \in RunRecords BY <1>1, <1>2 DEF RunRecords
    <2>2. Moves(r, rec) BY <1>5 DEF Finish
    <2> HIDE DEF old
    <2>3. rec.pc = "done" BY <2>1, ArriveCourse
    <2> QED BY <2>2, <2>3 DEF StaysTidy
  <1> QED BY <1>4, <1>5

-----------------------------------------------------------------------------
(***************************************************************************)
(* The steps of the run in progress.                                       *)
(***************************************************************************)

\* A call that opens; a pass before its response; a pass that may be the last.
LEMMA OpeningTidy ==
  ASSUME NEW rec, NEW b, NEW set, NEW msg,
         rec.pc \in {"snapshot", "emitNext", "hook", "prompts"}, ~rec.retry
  PROVE  Tidy(rec, b, set, msg)
  BY DEF Tidy, RetryRight, BranchRight, Between, Polling, Replied, GoingOn, At

LEMMA PollingTidy ==
  ASSUME NEW rec, NEW b, NEW set, NEW msg, Polling(rec), EndsClean(b),
         ~set /\ ~rec.silent => Fitting(b),
         rec.retry => rec.more /\ (~rec.silent => ~Overflows(rec.tail))
  PROVE  Tidy(rec, b, set, msg)
  <1>1. /\ ~Between(rec) /\ ~Replied(rec) /\ ~GoingOn(rec) /\ rec.pc # "tools"
        /\ rec.pc # "turnEnd" /\ ~At(rec, "savePoint")
    BY DEF Polling, Between, Replied, GoingOn, At
  <1> QED BY <1>1 DEF Tidy, RetryRight, BranchRight

LEMMA FollowTidy ==
  ASSUME NEW rec, NEW b, NEW set, NEW msg, rec.pc = "follow", EndsClean(b),
         ~set /\ ~rec.silent => Fitting(b), ~rec.retry
  PROVE  Tidy(rec, b, set, msg)
  <1>1. ~Replied(rec) /\ ~At(rec, "savePoint") BY DEF Replied, At
  <1> QED BY <1>1 DEF Tidy, RetryRight, BranchRight

\* What Tidy says at these places.
LEMMA PollingHas ==
  ASSUME NEW rec, NEW b, NEW set, NEW msg, Tidy(rec, b, set, msg), Polling(rec)
  PROVE  /\ EndsClean(b)
         /\ ~set /\ ~rec.silent => Fitting(b)
         /\ rec.retry => rec.more /\ (~rec.silent => ~Overflows(rec.tail))
  BY DEF Tidy, RetryRight, BranchRight

LEMMA GoingOnHas ==
  ASSUME NEW rec, NEW b, NEW set, NEW msg, Tidy(rec, b, set, msg),
         rec.pc \in {"follow", "prepare"}
  PROVE  /\ EndsClean(b)
         /\ ~set /\ ~rec.silent => Fitting(b)
         /\ ~rec.retry
  <1>1. GoingOn(rec) BY DEF GoingOn, At
  <1>2. ~rec.retry BY ReplyEndsRetry DEF Tidy
  <1> QED BY <1>1, <1>2 DEF Tidy, BranchRight

\* The steps that only move the run to another await.
LEMMA PlainStepTidy ==
  ASSUME TypeInv, NEW r \in Runs, IsTidy(r),
         \/ TakeNextTurn(r) \/ NextTurnEmitted(r) \/ StartFirstPass(r)
         \/ StartNextPass(r) \/ DrainSteering(r) \/ NoSteering(r) \/ DrainFollowUps(r)
         \/ DrainEmitted(r) \/ PrepareNextTurn(r) \/ AgentEnd(r) \/ AutoCompactStarted(r)
  PROVE  StaysTidy(r)
  <1> DEFINE old == run[r]
             IsAsOld(rec) == SameFlags(rec, old) /\ rec.tail = old.tail
  <1>1. old \in RunRecords /\ Tidy(old, branch, latch, lastAssistant)
    BY DEF TypeInv, TypeOK, IsTidy
  <1>2. UNCHANGED <<branch, latch, lastAssistant>>
    BY DEF TakeNextTurn, NextTurnEmitted, StartFirstPass, StartNextPass,
           DrainSteering, NoSteering, DrainFollowUps, DrainEmitted, PrepareNextTurn,
           AgentEnd, AutoCompactStarted, others, control, session
  <1>3. ASSUME NEW rec, Moves(r, rec), Tidy(rec, branch, latch, lastAssistant)
        PROVE  StaysTidy(r)
    BY <1>2, <1>3 DEF StaysTidy
  <1>4. CASE TakeNextTurn(r)
    <2> DEFINE pc == IF nextTurnQueue = <<>> THEN "hook" ELSE "emitNext"
               rec == [run[r] EXCEPT !.pc = pc, !.msgs = Append(nextTurnQueue, r),
                                     !.origin = [queue |-> "nextTurn", gen |-> 0]]
    <2>1. /\ Moves(r, rec) /\ rec.pc \in {"hook", "emitNext"} /\ rec.retry = old.retry
          /\ old.pc = "snapshot"
      BY <1>1, <1>4 DEF TakeNextTurn, RunRecords
    <2> HIDE DEF rec
    <2>2. ~old.retry BY <1>1, <2>1, ReplyEndsRetry DEF Tidy
    <2> QED BY <1>3, <2>1, <2>2, OpeningTidy
  <1>5. CASE NextTurnEmitted(r) \/ StartFirstPass(r)
    <2> DEFINE next == [old EXCEPT !.pc = "hook"]
               first == NewPass(old, "prompts")
    <2>1. PICK rec \in {next, first} : Moves(r, rec)
      BY <1>5 DEF NextTurnEmitted, StartFirstPass
    <2>2. old.pc \in {"emitNext", "hook"} BY <1>5 DEF NextTurnEmitted, StartFirstPass
    <2>3. rec.pc \in {"hook", "prompts"} /\ rec.retry = old.retry
      BY <1>1, <2>1 DEF NewPass, RunRecords
    <2>4. ~old.retry BY <1>1, <2>2, ReplyEndsRetry DEF Tidy
    <2> QED BY <1>3, <2>1, <2>3, <2>4, OpeningTidy
  <1>6. CASE StartNextPass(r)
    <2> DEFINE rec == NewPass(old, "steer")
    <2>1. /\ Moves(r, rec) /\ rec.pc = "steer" /\ rec.more /\ rec.retry = old.retry
          /\ rec.silent = old.silent /\ rec.tail = old.tail /\ old.pc = "resnap"
      BY <1>1, <1>6 DEF StartNextPass, NewPass, RunRecords
    <2> HIDE DEF rec
    <2>2. Between(old) BY <2>1 DEF Between, At
    <2>3. /\ EndsClean(branch)
          /\ ~latch /\ ~old.silent => Fitting(branch)
          /\ old.retry /\ ~old.silent => ~Overflows(old.tail)
      BY <1>1, <2>1, <2>2 DEF Tidy, RetryRight, BranchRight
    <2> QED BY <1>3, <2>1, <2>3, PollingTidy DEF Polling
  <1>7. CASE DrainSteering(r) \/ DrainFollowUps(r)
    <2>1. PICK queue, name, n : Drained(r, queue, name, n)
      BY <1>7 DEF DrainSteering, DrainFollowUps
    <2> DEFINE rec == [run[r] EXCEPT !.pc = "emitDrain", !.msgs = SubSeq(queue, 1, n),
                                     !.origin = [queue |-> name, gen |-> queueGen]]
    <2>2. Moves(r, rec) /\ Polling(rec) /\ IsAsOld(rec)
      BY <1>1, <2>1 DEF Drained, RunRecords, Polling, SameFlags
    <2> HIDE DEF rec
    <2>3. Polling(old) \/ old.pc = "follow"
      BY <1>7 DEF DrainSteering, DrainFollowUps, Polling
    <2> HIDE DEF old
    <2>4. /\ EndsClean(branch) /\ (~latch /\ ~old.silent => Fitting(branch))
          /\ old.retry => old.more /\ (~old.silent => ~Overflows(old.tail))
      BY <1>1, <2>3, PollingHas, GoingOnHas
    <2> QED BY <1>3, <2>2, <2>4, PollingTidy DEF SameFlags
  <1>8. CASE NoSteering(r)
    <2> DEFINE pc == IF old.more THEN "request" ELSE "follow"
               rec == [old EXCEPT !.pc = pc]
    <2>1. Moves(r, rec) /\ rec.pc = pc /\ IsAsOld(rec) /\ Polling(old)
      BY <1>1, <1>8 DEF NoSteering, RunRecords, Polling, SameFlags
    <2> HIDE DEF rec, old
    <2>2. /\ EndsClean(branch) /\ (~latch /\ ~old.silent => Fitting(branch))
          /\ old.retry => old.more /\ (~old.silent => ~Overflows(old.tail))
      BY <1>1, <2>1, PollingHas
    <2>3. CASE old.more
      <3>1. Polling(rec) BY <2>1, <2>3 DEF Polling
      <3>2. rec.retry => rec.more /\ (~rec.silent => ~Overflows(rec.tail))
        BY <2>1, <2>2 DEF SameFlags
      <3>3. Tidy(rec, branch, latch, lastAssistant)
        BY <2>1, <2>2, <3>1, <3>2, PollingTidy DEF SameFlags
      <3> QED BY <1>3, <2>1, <3>3
    <2>4. CASE ~old.more
      BY <1>3, <2>1, <2>2, <2>4, FollowTidy DEF SameFlags
    <2> QED BY <2>3, <2>4
  <1>9. CASE DrainEmitted(r)
    <2> DEFINE rec == [old EXCEPT !.pc = "inject"]
    <2>1. Moves(r, rec) /\ Polling(rec) /\ IsAsOld(rec) /\ Polling(old)
      BY <1>1, <1>9 DEF DrainEmitted, RunRecords, Polling, SameFlags
    <2> HIDE DEF rec, old
    <2> QED BY <1>1, <1>3, <2>1, PollingHas, PollingTidy DEF SameFlags
  <1>10. CASE PrepareNextTurn(r)
    <2> DEFINE rec == [old EXCEPT !.pc = "steer"]
    <2>1. Moves(r, rec) /\ Polling(rec) /\ IsAsOld(rec) /\ old.pc = "prepare"
      BY <1>1, <1>10 DEF PrepareNextTurn, RunRecords, Polling, SameFlags
    <2> HIDE DEF rec, old
    <2> QED BY <1>1, <1>3, <2>1, GoingOnHas, PollingTidy DEF SameFlags
  <1>11. CASE AgentEnd(r)
    <2> DEFINE rec == [old EXCEPT !.pc = "settle"]
    <2>1. Moves(r, rec) /\ rec.pc = "settle" /\ IsAsOld(rec) /\ old.pc = "agentEnd"
      BY <1>1, <1>11 DEF AgentEnd, RunRecords, SameFlags
    <2> HIDE DEF rec, old
    <2>2. Replied(old) /\ ~old.retry
      BY <1>1, <2>1, ReplyEndsRetry DEF Tidy, Replied, At
    <2>3. /\ Replied(rec) /\ ~Between(rec) /\ ~Polling(rec) /\ ~GoingOn(rec)
          /\ rec.pc \notin {"tools", "turnEnd"} /\ ~At(rec, "savePoint")
      BY <2>1 DEF Replied, Between, Polling, GoingOn, At
    <2>4. Tidy(rec, branch, latch, lastAssistant)
      BY <1>1, <2>1, <2>2, <2>3 DEF Tidy, RetryRight, BranchRight, SameFlags
    <2> QED BY <1>3, <2>1, <2>4
  <1>12. CASE AutoCompactStarted(r)
    <2> DEFINE rec == [old EXCEPT !.pc = "compacting", !.prev = phase]
    <2>1. Moves(r, rec) /\ rec.pc = "compacting" /\ IsAsOld(rec) /\ old.pc = "compactStart"
      BY <1>1, <1>12 DEF AutoCompactStarted, RunRecords, SameFlags
    <2> HIDE DEF rec, old
    <2>2. Between(old) /\ Between(rec) BY <2>1 DEF Between
    <2>3. /\ ~Replied(rec) /\ ~Polling(rec) /\ ~GoingOn(rec)
          /\ rec.pc \notin {"tools", "turnEnd", "resnap"} /\ ~At(rec, "savePoint")
      BY <2>1 DEF Replied, Polling, GoingOn, At
    <2>4. Tidy(rec, branch, latch, lastAssistant)
      BY <1>1, <2>1, <2>2, <2>3 DEF Tidy, RetryRight, BranchRight, SameFlags
    <2> QED BY <1>3, <2>1, <2>4
  <1> QED BY <1>4, <1>5, <1>6, <1>7, <1>8, <1>9, <1>10, <1>11, <1>12

\* After a response or the results of its tools the turn ends.
LEMMA TurnEndTidy ==
  ASSUME NEW rec, NEW b, NEW set, NEW msg, rec.pc = "turnEnd", ~rec.retry, EndsClean(b),
         ~set /\ ~rec.silent =>
           /\ Retryable(b)
           /\ Fitting(b) \/ (rec.final /\ msg.out = "overflow" /\ ~Older(msg, b))
  PROVE  Tidy(rec, b, set, msg)
  <1>1. ~Between(rec) /\ ~Polling(rec) /\ ~GoingOn(rec)
    BY DEF Between, Polling, GoingOn, At
  <1> QED BY <1>1 DEF Tidy, RetryRight, BranchRight

\* A message, a response, a failure or tool results are persisted.
LEMMA EntryTidy ==
  ASSUME TypeInv, NEW r \in Runs, IsTidy(r),
         \/ InjectMessage(r) \/ (\E out \in Outcomes : Respond(r, out))
         \/ ReportFailure(r) \/ ToolsDone(r)
  PROVE  StaysTidy(r)
  <1> DEFINE old == run[r]
  <1>1. /\ old \in RunRecords /\ Holds(r, old) /\ branch \in Seq(Entries)
        /\ Tidy(old, branch, latch, lastAssistant)
    BY DEF TypeInv, TypeOK, RunsHold, IsTidy
  <1>2. CASE InjectMessage(r)
    <2> DEFINE m == Head(run[r].msgs)
               rest == Tail(run[r].msgs)
               from == IF rest = <<>> THEN NoQueue ELSE run[r].origin
               pc == IF rest # <<>> THEN run[r].pc
                     ELSE IF run[r].pc = "prompts" THEN "steer" ELSE "request"
               rec == [run[r] EXCEPT !.msgs = rest, !.origin = from, !.tail = "user",
                                     !.pc = pc]
    <2>1. /\ Moves(r, rec) /\ rec.pc = pc /\ rec.retry = old.retry /\ rec.tail = "user"
          /\ rec.more = old.more
      BY <1>1, <1>2 DEF InjectMessage, RunRecords
    <2>2. IF old.pc = "prompts" THEN pc \in {"prompts", "steer"}
          ELSE old.pc = "inject" /\ pc \in {"inject", "request"}
      BY <1>2 DEF InjectMessage
    <2>3. m \in Messages \cup Runs
      <3>1. run[r].msgs \in Seq(Messages \cup Runs) /\ run[r].msgs # <<>>
        BY <1>1, <1>2 DEF Holds, RunRecords, InjectMessage
      <3> QED BY <3>1
    <2>4. branch' = Append(branch, User(m)) /\ UNCHANGED <<latch, lastAssistant>>
      BY <1>2 DEF InjectMessage, control
    <2> HIDE DEF rec, pc, m, old
    <2>5. EndsClean(branch') /\ Fitting(branch') BY <1>1, <2>3, <2>4, AppendInput
    <2>6. ~Overflows("user") BY DEF Overflows
    <2>7. CASE old.pc = "prompts"
      <3>1. ~old.retry BY <1>1, <2>7, ReplyEndsRetry DEF Tidy
      <3>2. rec.pc \in {"prompts", "steer"} /\ ~rec.retry BY <2>1, <2>2, <2>7, <3>1
      <3>3. Tidy(rec, branch', latch', lastAssistant')
        BY <2>5, <3>2, OpeningTidy, PollingTidy DEF Polling
      <3> QED BY <2>1, <3>3 DEF StaysTidy
    <2>8. CASE old.pc = "inject"
      <3>1. Polling(old) /\ Polling(rec) BY <2>1, <2>2, <2>8 DEF Polling
      <3>2. rec.retry => rec.more BY <1>1, <2>1, <3>1, PollingHas
      <3>3. Tidy(rec, branch', latch', lastAssistant')
        BY <2>1, <2>5, <2>6, <3>1, <3>2, PollingTidy
      <3> QED BY <2>1, <3>3 DEF StaysTidy
    <2> QED BY <2>2, <2>7, <2>8
  <1>3. ASSUME NEW out \in Outcomes, Respond(r, out) PROVE StaysTidy(r)
    <2> DEFINE streak == IF Fits(out) THEN 0 ELSE old.streak
               silent == (old.silent \/ out = "silent") /\ ~Fits(out)
               final == out \in {"error", "overflow", "aborted"}
               rec == [old EXCEPT
                         !.tail = out, !.more = FALSE, !.retry = FALSE,
                         !.final = final, !.streak = streak, !.silent = silent]
               next == NextAwait(rec, out, branch')
    <2>1. Moves(r, next) BY <1>3 DEF Respond
    <2>2. "pc" \in DOMAIN rec /\ ~rec.retry /\ rec.final = final /\ rec.silent = silent
      BY <1>1 DEF RunRecords
    <2> HIDE DEF rec, final, silent
    <2>3. /\ next.pc = IF out = "tool" THEN "tools" ELSE "turnEnd"
          /\ ~next.retry /\ next.final = final /\ next.silent = silent
      BY <2>2 DEF NextAwait
    <2> HIDE DEF next
    <2>4. /\ branch' = Append(branch, Assistant(out)) /\ latch' = (latch /\ Failed(out))
          /\ lastAssistant' = [out |-> out, at |-> Len(branch) + 1] /\ old.pc = "request"
      BY <1>3 DEF Respond, SaveAssistant
    <2> HIDE DEF old
    <2>5. ~latch /\ ~old.silent => Fitting(branch)
      BY <1>1, <2>4, PollingHas DEF Polling
    <2>6. /\ EndsClean(branch') <=> out # "tool"
          /\ Fitting(branch') <=> ~Overflows(out)
          /\ Retryable(branch') <=> (Overflows(out) => Fitting(branch))
      BY <1>1, <2>4, AppendResponse
    <2>7. CASE out = "tool"
      <3>1. Fitting(branch') BY <2>6, <2>7 DEF Overflows
      <3>2. /\ next.pc = "tools" /\ ~Between(next) /\ ~Polling(next) /\ ~Replied(next)
            /\ ~GoingOn(next) /\ ~At(next, "savePoint")
        BY <2>3, <2>7 DEF Between, Polling, Replied, GoingOn, At
      <3>3. Tidy(next, branch', latch', lastAssistant')
        BY <2>3, <3>1, <3>2 DEF Tidy, RetryRight, BranchRight
      <3> QED BY <2>1, <3>3 DEF StaysTidy
    <2>8. CASE out # "tool"
      <3>1. ASSUME ~latch', ~next.silent, ~Fitting(branch')
            PROVE  Retryable(branch') /\ next.final /\ out = "overflow"
        <4>1. Overflows(out) /\ ~Fits(out) BY <2>6, <3>1 DEF Fits
        <4>2. out = "overflow" BY <2>3, <3>1, <4>1 DEF silent, Overflows
        <4>3. ~latch BY <2>4, <3>1, <4>2 DEF Failed
        <4>4. ~old.silent BY <2>3, <3>1, <4>1 DEF silent
        <4>5. final BY <4>2 DEF final
        <4>6. Retryable(branch') BY <2>5, <2>6, <4>3, <4>4
        <4> QED BY <2>3, <4>2, <4>5, <4>6
      <3>2. ~Older(lastAssistant', branch')
        <4>1. DOMAIN branch' = 1..Len(branch) + 1 /\ Len(branch) \in Nat BY <1>1, <2>4
        <4> QED BY <2>4, <4>1 DEF Older
      <3>3. lastAssistant'.out = out BY <2>4
      <3>4. next.pc = "turnEnd" /\ EndsClean(branch') BY <2>3, <2>6, <2>8
      <3>5. Tidy(next, branch', latch', lastAssistant')
        BY <2>3, <3>1, <3>2, <3>3, <3>4, FittingRetries, TurnEndTidy
      <3> QED BY <2>1, <3>4, <3>5 DEF StaysTidy
    <2> QED BY <2>7, <2>8
  <1>4. CASE ReportFailure(r)
    <2> DEFINE out == IF run[r].signal THEN "aborted" ELSE "error"
               streak == IF Fits(out) THEN 0 ELSE run[r].streak
               rec == [run[r] EXCEPT !.tail = out, !.final = TRUE, !.failed = TRUE,
                                     !.retry = FALSE, !.streak = streak,
                                     !.pc = "turnEnd"]
    <2>1. Moves(r, rec) BY <1>1, <1>4 DEF ReportFailure, RunRecords
    <2>2. rec.pc = "turnEnd" /\ ~rec.retry BY <1>1 DEF RunRecords
    <2>3. branch' = Append(branch, Assistant(out))
      BY <1>4 DEF ReportFailure, SaveAssistant
    <2>4. out \in Outcomes /\ out # "tool" /\ ~Overflows(out) BY DEF Outcomes, Overflows
    <2> HIDE DEF rec, out
    <2>5. EndsClean(branch') /\ Fitting(branch') BY <1>1, <2>3, <2>4, AppendResponse
    <2>6. Tidy(rec, branch', latch', lastAssistant')
      BY <2>2, <2>5, FittingRetries, TurnEndTidy
    <2> QED BY <2>1, <2>6 DEF StaysTidy
  <1>5. CASE ToolsDone(r)
    <2> DEFINE rec(more) == [run[r] EXCEPT !.more = more, !.tail = "toolResult",
                                           !.pc = "turnEnd"]
    <2>1. PICK more \in BOOLEAN : Moves(r, rec(more)) BY <1>5 DEF ToolsDone
    <2>2. rec(more).pc = "turnEnd" /\ rec(more).retry = old.retry
      BY <1>1 DEF RunRecords
    <2>3. old.pc = "tools" /\ branch' = Append(branch, ToolResult)
      BY <1>5 DEF ToolsDone
    <2> HIDE DEF rec
    <2>4. EndsClean(branch') /\ Fitting(branch') BY <1>1, <2>3, AppendInput
    <2>5. ~old.retry BY <1>1, <2>3, ReplyEndsRetry DEF Tidy
    <2>6. Tidy(rec(more), branch', latch', lastAssistant')
      BY <2>2, <2>4, <2>5, FittingRetries, TurnEndTidy
    <2> QED BY <2>1, <2>6 DEF StaysTidy
  <1> QED BY <1>2, <1>3, <1>4, <1>5

\* What a run at these places knows.
LEMMA RepliedHas ==
  ASSUME NEW rec, NEW b, NEW set, NEW msg, Tidy(rec, b, set, msg),
         rec.pc \in {"turnEnd", "savePoint", "settle", "finally"}
  PROVE  /\ EndsClean(b) /\ ~rec.retry
         /\ ~set /\ ~rec.silent =>
              /\ Retryable(b)
              /\ Fitting(b) \/ (msg.out = "overflow" /\ ~Older(msg, b))
              /\ rec.pc \in {"turnEnd", "savePoint"} => Fitting(b) \/ rec.final
  <1>1. Replied(rec) /\ (rec.pc = "savePoint" => At(rec, "savePoint"))
    BY DEF Replied, At
  <1>2. ~rec.retry BY ReplyEndsRetry DEF Tidy
  <1> QED BY <1>1, <1>2 DEF Tidy, BranchRight

LEMMA BetweenHas ==
  ASSUME NEW rec, NEW b, NEW set, NEW msg, Tidy(rec, b, set, msg), Between(rec)
  PROVE  /\ EndsClean(b)
         /\ ~set /\ ~rec.silent => Fitting(b)
         /\ rec.retry /\ ~rec.silent => Retryable(b)
  BY DEF Tidy, RetryRight, BranchRight

\* Appending a write compacts nothing.
LEMMA AppendOlder ==
  ASSUME NEW b \in Seq(Entries), NEW w \in Writes, NEW msg
  PROVE  Older(msg, Append(b, Written(w))) => Older(msg, b)
  <1> DEFINE c == Append(b, Written(w))
  <1>1. /\ DOMAIN c = DOMAIN b \cup {Len(b) + 1} /\ c[Len(b) + 1] = Written(w)
        /\ \A i \in DOMAIN b : c[i] = b[i]
    OBVIOUS
  <1>2. Written(w) # Compaction BY DEF Written, Compaction
  <1> HIDE DEF c
  <1>3. Older(msg, c) => Older(msg, b) BY <1>1, <1>2 DEF Older
  <1> QED BY <1>3 DEF c

\* The flushes begin, go on and end.
LEMMA FlushStepTidy ==
  ASSUME TypeInv, NEW r \in Runs, IsTidy(r),
         \/ NoFollowUps(r) \/ TurnEnd(r) \/ SavePoint(r) \/ Settle(r)
         \/ TurnEndFault(r) \/ FlushWrite(r)
  PROVE  StaysTidy(r)
  <1> DEFINE old == run[r]
  <1>1. /\ old \in RunRecords /\ Holds(r, old) /\ branch \in Seq(Entries)
        /\ Tidy(old, branch, latch, lastAssistant)
    BY DEF TypeInv, TypeOK, RunsHold, IsTidy
  <1>2. CASE NoFollowUps(r)
    <2>1. /\ StartFlush(r, "agentEnd") /\ old.pc = "follow"
          /\ UNCHANGED <<branch, latch, lastAssistant>>
      BY <1>2 DEF NoFollowUps, others, control, session
    <2>2. /\ EndsClean(branch) /\ ~old.retry
          /\ ~latch /\ ~old.silent => Fitting(branch) /\ Retryable(branch)
      BY <1>1, <2>1, GoingOnHas, FittingRetries
    <2> QED BY <2>1, <2>2, FlushTidy DEF FlushReturns
  <1>3. CASE TurnEnd(r) \/ SavePoint(r) \/ Settle(r) \/ TurnEndFault(r)
    <2>1. PICK to \in {"savePoint", "agentEnd", "prepare", "finally", "threw"} :
            /\ StartFlush(r, to)
            /\ old.pc \in {"turnEnd", "savePoint", "settle"}
            /\ to \in {"prepare", "savePoint"} => old.pc \in {"turnEnd", "savePoint"}
            /\ to = "prepare" => ~old.final
      BY <1>3 DEF TurnEnd, SavePoint, Settle, TurnEndFault
    <2>2. UNCHANGED <<branch, latch, lastAssistant>>
      BY <1>3 DEF TurnEnd, SavePoint, Settle, TurnEndFault, others, control, session
    <2>3. /\ EndsClean(branch) /\ ~old.retry
          /\ ~latch /\ ~old.silent =>
               /\ Retryable(branch)
               /\ \/ Fitting(branch)
                  \/ lastAssistant.out = "overflow" /\ ~Older(lastAssistant, branch)
               /\ old.pc \in {"turnEnd", "savePoint"} => Fitting(branch) \/ old.final
      BY <1>1, <2>1, RepliedHas
    <2>4. to \in FlushReturns \ {"resnap"} /\ to # "rejected" BY DEF FlushReturns
    <2> QED BY <2>1, <2>2, <2>3, <2>4, FlushTidy
  <1>4. CASE FlushWrite(r)
    <2>1. old.pc = "flush" /\ old.ret \in FlushReturns /\ old.write \in Writes
      BY <1>1, <1>4 DEF Holds, FlushWrite
    <2> DEFINE to == old.ret
               rec == Flushing(old, to, Shifted(pending), branch')
    <2>2. /\ Moves(r, rec) /\ branch' = Append(branch, Written(old.write))
          /\ UNCHANGED <<latch, lastAssistant>>
      BY <1>4 DEF FlushWrite, control
    <2>3. /\ At(rec, to) /\ SameFlags(rec, old)
          /\ rec.pc = "resnap" => rec.tail = RetryTail(branch')
      BY <1>1, <2>1, FlushedFlags
    <2>4. At(old, to) BY <2>1 DEF At
    <2> HIDE DEF rec, to, old
    <2>5. /\ EndsClean(branch')
          /\ Fitting(branch) => Fitting(branch')
          /\ Retryable(branch) => Retryable(branch')
      BY <1>1, <2>1, <2>2, AppendWrite
    <2>6. Older(lastAssistant, branch') => Older(lastAssistant, branch)
      BY <1>1, <2>1, <2>2, AppendOlder
    <2>7. /\ Between(rec) <=> Between(old)
          /\ Replied(rec) <=> Replied(old)
          /\ GoingOn(rec) <=> GoingOn(old)
          /\ Dying(rec) <=> Dying(old)
          /\ At(rec, "savePoint") <=> At(old, "savePoint")
          /\ ~Polling(rec) /\ rec.pc \notin {"tools", "turnEnd", "done"}
          /\ ~Polling(old)
      <3>1. to \in FlushReturns BY <2>1 DEF to
      <3> QED BY <2>3, <2>4, <3>1, PlacesDiffer
    <2>8. rec.pc = "resnap" => Between(rec) BY DEF Between, At
    <2>9. RetryRight(rec, branch')
      BY <1>1, <2>3, <2>5, <2>7, <2>8 DEF Tidy, RetryRight, SameFlags, Retryable
    <2>10. ~latch /\ ~rec.silent => BranchRight(rec, branch', lastAssistant)
      BY <1>1, <2>3, <2>5, <2>6, <2>7 DEF Tidy, BranchRight, SameFlags
    <2>11. Tidy(rec, branch', latch', lastAssistant')
      BY <2>2, <2>5, <2>9, <2>10 DEF Tidy
    <2> QED BY <2>2, <2>11 DEF StaysTidy
  <1> QED BY <1>2, <1>3, <1>4

LEMMA FaultTidy ==
  ASSUME TypeInv, NEW r \in Runs,
         \/ OuterFault(r) \/ EmitNextFault(r) \/ LoopFault(r) \/ EmitDrainFault(r)
         \/ TurnEndThrew(r) \/ Rejected(r)
  PROVE  StaysTidy(r)
  BY FailTidy DEF OuterFault, EmitNextFault, LoopFault, EmitDrainFault, TurnEndThrew,
     Rejected, Reject

\* A response that overflowed leads to the latch and a retry of what preceded
\* it, every other one to a context that fits.
LEMMA PostRunTidy ==
  ASSUME TypeInv, NEW r \in Runs, IsTidy(r),
         \/ PostRun(r) \/ PostRunLeft(r) \/ PostRunOverflow(r) \/ PostRunThreshold(r)
         \/ GiveUp(r)
         \/ AutoCompacted(r) \/ AutoCompactThrew(r) \/ AutoCompactSkipped(r)
  PROVE  StaysTidy(r)
  <1> DEFINE old == run[r]
  <1>1. /\ old \in RunRecords /\ branch \in Seq(Entries)
        /\ Tidy(old, branch, latch, lastAssistant)
    BY DEF TypeInv, TypeOK, IsTidy
  <1>2. ASSUME old.pc = "finally"
        PROVE  /\ EndsClean(branch) /\ ~old.retry
               /\ ~latch /\ ~old.silent =>
                    /\ Retryable(branch)
                    /\ \/ Fitting(branch)
                       \/ lastAssistant.out = "overflow" /\ ~Older(lastAssistant, branch)
    BY <1>1, <1>2, RepliedHas
  <1>3. ASSUME NEW rec, rec.pc \in {"giveUp", "compactStart"}, Moves(r, rec),
               EndsClean(branch), UNCHANGED branch,
               ~latch' /\ ~rec.silent => Fitting(branch),
               rec.retry /\ ~rec.silent => Retryable(branch)
        PROVE  StaysTidy(r)
    <2>1. /\ Between(rec) /\ ~Polling(rec) /\ ~Replied(rec) /\ ~GoingOn(rec)
          /\ rec.pc \notin {"tools", "turnEnd", "resnap"} /\ ~At(rec, "savePoint")
      BY <1>3 DEF Between, Polling, Replied, GoingOn, At
    <2>2. Tidy(rec, branch', latch', lastAssistant')
      BY <1>3, <2>1 DEF Tidy, RetryRight, BranchRight
    <2> QED BY <1>3, <2>2 DEF StaysTidy
  <1>4. CASE PostRun(r)
    <2>1. PICK again : ContinueOrFinish(r, again, branch) BY <1>4 DEF PostRun
    <2>2. old.pc = "finally" /\ UNCHANGED <<branch, latch>>
      BY <1>4 DEF PostRun, session
    <2>3. ~(lastAssistant.out = "overflow" /\ ~Older(lastAssistant, branch))
      <3>1. "overflow" # None BY NoneAssumption DEF Outcomes
      <3> QED BY <1>4, <3>1 DEF PostRun, Stale, Older, Overflows
    <2> QED BY <1>2, <2>1, <2>2, <2>3, ContinueTidy
  <1>5. CASE PostRunOverflow(r)
    <2> DEFINE streak == old.streak + 1
               given == [old EXCEPT !.pc = "giveUp"]
               tried == [old EXCEPT !.pc = "compactStart", !.retry = TRUE,
                                    !.streak = streak]
    <2>1. IF latch THEN Moves(r, given) ELSE Moves(r, tried)
      BY <1>1, <1>5 DEF PostRunOverflow, RunRecords
    <2>2. old.pc = "finally" /\ UNCHANGED branch /\ latch'
      BY <1>5 DEF PostRunOverflow, session
    <2>3. given.pc = "giveUp" /\ given.retry = old.retry BY <1>1 DEF RunRecords
    <2>4. tried.pc = "compactStart" /\ tried.silent = old.silent BY <1>1 DEF RunRecords
    <2> HIDE DEF given, tried
    <2>5. CASE latch BY <1>2, <1>3, <2>1, <2>2, <2>3, <2>5
    <2>6. CASE ~latch BY <1>2, <1>3, <2>1, <2>2, <2>4, <2>6
    <2> QED BY <2>5, <2>6
  <1>6. CASE PostRunThreshold(r)
    <2> DEFINE silent == old.silent \/ lastAssistant.out = "overflow"
               rec == [old EXCEPT !.pc = "compactStart", !.retry = FALSE, !.silent = silent]
    <2>1. /\ Moves(r, rec) /\ rec.pc = "compactStart" /\ ~rec.retry
          /\ ~rec.silent => ~old.silent /\ lastAssistant.out # "overflow"
      BY <1>1, <1>6 DEF PostRunThreshold, RunRecords
    <2>2. old.pc = "finally" /\ UNCHANGED <<branch, latch>>
      BY <1>6 DEF PostRunThreshold, session
    <2> HIDE DEF rec
    <2> QED BY <1>2, <1>3, <2>1, <2>2
  <1>7. CASE \/ GiveUp(r) \/ AutoCompacted(r) \/ AutoCompactThrew(r)
             \/ AutoCompactSkipped(r)
    <2>1. PICK again : ContinueOrFinish(r, again, branch')
      BY <1>7 DEF GiveUp, AutoCompacted, AutoCompactThrew, AutoCompactSkipped, session
    <2>2. /\ branch' = branch \/ branch' = Append(branch, Compaction)
          /\ UNCHANGED latch /\ old.pc \in {"giveUp", "compacting"}
      BY <1>7 DEF GiveUp, AutoCompacted, AutoCompactThrew, AutoCompactSkipped, session
    <2>3. Between(old) BY <2>2 DEF Between
    <2>4. /\ EndsClean(branch)
          /\ ~latch /\ ~old.silent => Fitting(branch)
          /\ old.retry /\ ~old.silent => Retryable(branch)
      BY <1>1, <2>3, BetweenHas
    <2>5. /\ EndsClean(branch')
          /\ Fitting(branch) => Fitting(branch')
          /\ Retryable(branch) => Retryable(branch')
      BY <1>1, <2>2, <2>4, AppendWrite
    <2> QED BY <2>1, <2>2, <2>4, <2>5, ContinueTidy
  <1>8. CASE PostRunLeft(r)
    <2> DEFINE kept == [old EXCEPT !.silent = TRUE]
               rec == Flushing(kept, "resnap", pending, branch)
    <2>1. \/ Finish(r)
          \/ Moves(r, rec)
      BY <1>8 DEF PostRunLeft
    <2>2. old.pc = "finally" /\ UNCHANGED branch BY <1>8 DEF PostRunLeft, session
    <2>3. kept \in RunRecords /\ kept.silent /\ kept.retry = old.retry
      BY <1>1 DEF RunRecords
    <2> HIDE DEF kept
    <2>4. "resnap" \in FlushReturns BY DEF FlushReturns
    <2>5. At(rec, "resnap") /\ rec.silent /\ rec.retry = old.retry
      BY <2>3, <2>4, FlushedFlags DEF SameFlags
    <2> HIDE DEF rec
    <2>6. Between(rec) /\ ~Polling(rec) /\ ~Replied(rec) /\ ~GoingOn(rec)
      BY <2>4, <2>5, PlacesDiffer
    <2>7. EndsClean(branch) /\ ~old.retry BY <1>2, <2>2
    <2>8. Tidy(rec, branch', latch', lastAssistant')
      BY <2>2, <2>5, <2>7 DEF Tidy, RetryRight
    <2>9. CASE Finish(r) BY <2>9, FailTidy
    <2> QED BY <2>1, <2>8, <2>9 DEF StaysTidy
  <1> QED BY <1>4, <1>5, <1>6, <1>7, <1>8

LEMMA RunStepTidy ==
  ASSUME TypeInv, NEW r \in Runs, IsTidy(r), RunStep(r) \/ RunFault(r)
  PROVE  StaysTidy(r)
  BY PlainStepTidy, EntryTidy, FlushStepTidy, FaultTidy, PostRunTidy
     DEF RunStep, RunFault

-----------------------------------------------------------------------------
(***************************************************************************)
(* Every step of the harness.                                              *)
(***************************************************************************)

TailsRight ==
  \A r \in Runs :
    /\ run[r].pc = "new" => ~run[r].retry
    /\ InProgress(r) => Tidy(run[r], branch, latch, lastAssistant)

TailInv == CallsInv /\ TailsRight

LEMMA RunKeepsTails ==
  ASSUME TailInv, NEW r \in Runs, RunStep(r) \/ RunFault(r)
  PROVE  TailsRight'
  <1>1. RunAdvances(r) BY RunStepAdvances DEF TailInv, CallsInv
  <1>2. TypeInv /\ IsTidy(r)
    BY <1>1 DEF TailInv, CallsInv, TailsRight, RunAdvances, IsTidy
  <1>3. PICK rec : /\ Moves(r, rec)
                   /\ rec.pc # "done" => Tidy(rec, branch', latch', lastAssistant')
    BY <1>2, RunStepTidy DEF StaysTidy
  <1>4. run'[r] = rec /\ \A q \in Runs \ {r} : run'[q] = run[q]
    BY <1>2, <1>3 DEF TypeInv, TypeOK, Moves
  <1>5. \A q \in Runs \ {r} : ~InProgress(q)
    BY <1>2 DEF TailInv, CallsInv, OneAtATime, IsTidy
  <1>6. run'[r].pc # "new" BY <1>1 DEF RunAdvances, InProgress
  <1>7. ASSUME NEW q \in Runs
        PROVE  /\ run'[q].pc = "new" => ~run'[q].retry
               /\ InProgress(q)' => Tidy(run'[q], branch', latch', lastAssistant')
    <2>1. CASE q # r BY <1>4, <1>5, <2>1 DEF TailInv, TailsRight, InProgress
    <2>2. CASE q = r BY <1>3, <1>4, <1>6, <2>2 DEF InProgress
    <2> QED BY <2>1, <2>2
  <1> QED BY <1>7 DEF TailsRight

LEMMA PromptKeepsTails ==
  ASSUME CallersWait, TailInv, NEW r \in Runs, NEW rearm \in BOOLEAN, Prompt(r, rearm)
  PROVE  TailsRight'
  <1> DEFINE rec == [run[r] EXCEPT !.pc = "snapshot", !.tail = ContextTail(branch)]
  <1>1. run \in [Runs -> RunRecords] /\ run[r] \in RunRecords
    BY DEF TailInv, CallsInv, TypeInv, TypeOK
  <1>2. rec.pc = "snapshot" /\ rec.retry = run[r].retry /\ Moves(r, rec)
    BY <1>1 DEF Prompt, RunRecords
  <1> HIDE DEF rec
  <1>3. run'[r] = rec /\ \A q \in Runs \ {r} : run'[q] = run[q]
    BY <1>1, <1>2 DEF Moves
  <1>4. \A q \in Runs : ~InProgress(q) BY DEF Prompt, MayStart
  <1>5. ~run[r].retry BY DEF Prompt, TailInv, TailsRight
  <1>6. Tidy(rec, branch', latch', lastAssistant') BY <1>2, <1>5, OpeningTidy
  <1>7. ASSUME NEW q \in Runs
        PROVE  /\ run'[q].pc = "new" => ~run'[q].retry
               /\ InProgress(q)' => Tidy(run'[q], branch', latch', lastAssistant')
    <2>1. CASE q # r BY <1>3, <1>4, <2>1 DEF TailInv, TailsRight, InProgress
    <2>2. CASE q = r BY <1>2, <1>3, <1>6, <2>2
    <2> QED BY <2>1, <2>2
  <1> QED BY <1>7 DEF TailsRight

\* A call that is only signalled is where it was.
SamePlace(rec, old) ==
  /\ rec.pc = old.pc /\ rec.ret = old.ret /\ rec.tail = old.tail
  /\ SameFlags(rec, old)

LEMMA FrameTidy ==
  ASSUME NEW rec, NEW old, NEW b, NEW set, NEW msg, SamePlace(rec, old),
         Tidy(old, b, set, msg)
  PROVE  Tidy(rec, b, set, msg)
  <1>1. \A to : At(rec, to) <=> At(old, to) BY DEF SamePlace, At
  <1>2. /\ Between(rec) <=> Between(old)
        /\ Polling(rec) <=> Polling(old)
        /\ Replied(rec) <=> Replied(old)
        /\ GoingOn(rec) <=> GoingOn(old)
        /\ Dying(rec) <=> Dying(old)
    BY <1>1 DEF SamePlace, Between, Polling, Replied, GoingOn, Dying
  <1> QED BY <1>1, <1>2 DEF SamePlace, SameFlags, Tidy, RetryRight, BranchRight

\* A write of an idle harness that is persisted while a run goes on.
LEMMA WriteTidy ==
  ASSUME NEW rec, NEW b \in Seq(Entries), NEW w \in Writes, NEW set, NEW msg,
         Tidy(rec, b, set, msg)
  PROVE  Tidy(rec, Append(b, Written(w)), set, msg)
  <1> DEFINE c == Append(b, Written(w))
  <1>1. /\ EndsClean(c)
        /\ Fitting(b) => Fitting(c)
        /\ Retryable(b) => Retryable(c)
    BY AppendWrite
  <1>2. Older(msg, c) => Older(msg, b) BY AppendOlder
  <1> HIDE DEF c
  <1>3. RetryRight(rec, c) BY <1>1 DEF Tidy, RetryRight
  <1>4. ~set /\ ~rec.silent => BranchRight(rec, c, msg)
    BY <1>1, <1>2 DEF Tidy, BranchRight
  <1>5. Tidy(rec, c, set, msg) BY <1>1, <1>3, <1>4 DEF Tidy
  <1> QED BY <1>5 DEF c

LEMMA OthersKeepTails ==
  ASSUME TailInv,
         \/ \E m \in Messages : Steer(m) \/ FollowUp(m) \/ NextTurn(m)
         \/ ClearQueue
         \/ \E w \in Writes : Set(w) \/ SetSaved(w) \/ SetRejected(w)
         \/ \E a \in Aborts : Abort(a) \/ AbortStep(a)
         \/ \E s \in Structs :
              Compact(s) \/ Navigate(s) \/ StructStep(s) \/ CompactStartFault(s)
         \/ UNCHANGED vars
  PROVE  TailsRight'
  <1> USE DEF InProgress
  <1>1. CASE \E w \in Writes : SetSaved(w)
    <2>1. PICK w \in Writes : branch' = Append(branch, Written(w))
      BY <1>1 DEF SetSaved
    <2>2. branch \in Seq(Entries) /\ UNCHANGED <<run, latch, lastAssistant>>
      BY <1>1 DEF SetSaved, control, TailInv, CallsInv, TypeInv, TypeOK
    <2> QED BY <2>1, <2>2, WriteTidy DEF TailInv, TailsRight
  <1>2. CASE \E s \in Structs : StructStep(s)
    <2>1. PICK s \in Structs : Restructuring(s)
      BY <1>2 DEF StructStep, CompactStarted, Compacted, CompactFailed, Navigated,
         NavigateCancelled, Structural, Restructuring
    <2>2. UNCHANGED run
      BY <1>2 DEF StructStep, CompactStarted, Compacted, CompactFailed, Navigated,
         NavigateCancelled, Structural
    <2>3. \A r \in Runs : ~InProgress(r)
      BY <2>1 DEF TailInv, CallsInv, OneAtATime
    <2> QED BY <2>2, <2>3 DEF TailInv, TailsRight
  <1>3. CASE \/ \E m \in Messages : Steer(m) \/ FollowUp(m) \/ NextTurn(m)
             \/ ClearQueue
             \/ \E w \in Writes : Set(w) \/ SetRejected(w)
             \/ \E a \in Aborts : Abort(a) \/ AbortStep(a)
             \/ \E s \in Structs : Compact(s) \/ Navigate(s) \/ CompactStartFault(s)
             \/ UNCHANGED vars
    <2>1. UNCHANGED <<branch, latch, lastAssistant>>
      BY <1>3 DEF Steer, FollowUp, NextTurn, ClearQueue, Set, SetRejected, Abort,
         AbortStep, AbortNotified, AbortReturns, Compact, Navigate, CompactStartFault,
         Structural, vars, others, control, session
    <2>2. run' = run \/ (/\ runAbort \in Runs
                         /\ run' = [run EXCEPT ![runAbort].signal = TRUE])
      BY <1>3 DEF Steer, FollowUp, NextTurn, ClearQueue, Set, SetRejected, Abort,
         AbortStep, AbortNotified, AbortReturns, Compact, Navigate, CompactStartFault,
         Structural, vars, TailInv, CallsInv, TypeInv, TypeOK
    <2>3. \A r \in Runs : SamePlace(run'[r], run[r]) /\ run'[r].retry = run[r].retry
      <3>1. CASE run' = run BY <3>1 DEF SamePlace, SameFlags
      <3>2. CASE runAbort \in Runs /\ run' = [run EXCEPT ![runAbort].signal = TRUE]
        <4> DEFINE rec == [run[runAbort] EXCEPT !.signal = TRUE]
        <4>1. run \in [Runs -> RunRecords] /\ run[runAbort] \in RunRecords
          BY <3>2 DEF TailInv, CallsInv, TypeInv, TypeOK
        <4>2. run' = [run EXCEPT ![runAbort] = rec] BY <3>2
        <4>3. SamePlace(rec, run[runAbort]) BY <4>1 DEF RunRecords, SamePlace, SameFlags
        <4> HIDE DEF rec
        <4> QED BY <3>2, <4>1, <4>2, <4>3 DEF SamePlace, SameFlags
      <3> QED BY <2>2, <3>1, <3>2
    <2>4. ASSUME NEW r \in Runs
          PROVE  /\ run'[r].pc = "new" => ~run'[r].retry
                 /\ InProgress(r)' => Tidy(run'[r], branch', latch', lastAssistant')
      <3>1. run'[r].pc = run[r].pc BY <2>3 DEF SamePlace
      <3>2. InProgress(r)' => Tidy(run[r], branch', latch', lastAssistant')
        BY <2>1, <3>1 DEF TailInv, TailsRight
      <3>3. run'[r].pc = "new" => ~run'[r].retry
        BY <2>3, <3>1 DEF TailInv, TailsRight
      <3> QED BY <2>3, <3>2, <3>3, FrameTidy
    <2> QED BY <2>4 DEF TailsRight
  <1> QED BY <1>1, <1>2, <1>3

LEMMA InitTails == Init => TailInv
  <1> SUFFICES ASSUME Init PROVE TailInv OBVIOUS
  <1>1. \A r \in Runs : run[r].pc = "new" /\ ~run[r].retry BY DEF Init, NewRun
  <1> QED BY <1>1, InitCalls DEF TailInv, TailsRight, InProgress

LEMMA NextTails ==
  ASSUME CallersWait
  PROVE  TailInv /\ [Next]_vars => TailInv'
  <1> SUFFICES ASSUME TailInv, [Next]_vars PROVE TailsRight'
    BY NextCalls DEF TailInv
  <1>1. ASSUME NEW r \in Runs, \E rearm \in BOOLEAN : Prompt(r, rearm)
        PROVE  TailsRight'
    BY <1>1, PromptKeepsTails
  <1>2. ASSUME NEW r \in Runs, RunStep(r) \/ RunFault(r) PROVE TailsRight'
    BY <1>2, RunKeepsTails
  <1>3. CASE \/ \E m \in Messages : Steer(m) \/ FollowUp(m) \/ NextTurn(m)
             \/ ClearQueue
             \/ \E w \in Writes : Set(w) \/ SetSaved(w) \/ SetRejected(w)
             \/ \E a \in Aborts : Abort(a) \/ AbortStep(a)
             \/ \E s \in Structs :
                  Compact(s) \/ Navigate(s) \/ StructStep(s) \/ CompactStartFault(s)
             \/ UNCHANGED vars
    BY <1>3, OthersKeepTails
  <1> QED BY <1>1, <1>2, <1>3 DEF Next, Rest

LEMMA TailsInvariant ==
  ASSUME CallersWait
  PROVE  Spec => []TailInv
  BY InitTails, NextTails, PTL DEF Spec

\* An overflow is retried from what preceded it, never with the overflow
\* response still ending the context, for any number of responses, queued
\* writes and compactions in between (lines 628-641).
THEOREM RetriesDropOverflow ==
  ASSUME CallersWait
  PROVE  Spec => []RetryContext
  <1>1. TailInv => RetryContext
    BY DEF TailInv, TailsRight, Tidy, RetryRight, Polling, InProgress, RetryContext
  <1> QED BY <1>1, TailsInvariant, PTL

\* The flush points lie between turns: a queued write is never persisted between
\* an assistant message and the results of the tools it calls, unless the run
\* died and its failure could not even be reported (lines 507-531 and 552-572).
THEOREM WritesBetweenTurns ==
  ASSUME CallersWait
  PROVE  Spec => QueuedWritesBetweenTurns
  <1> DEFINE Step == \A w \in Writes :
                       /\ write[w] = "queued" /\ write'[w] = "saved"
                       /\ ~ \E r \in Runs : run[r].ret = "rejected"
                       => branch = <<>> \/ branch[Len(branch)] # Assistant("tool")
  <1>1. TailInv /\ [Next]_vars => Step
    <2> SUFFICES ASSUME TailInv, [Next]_vars, NEW w \in Writes,
                        write[w] = "queued", write'[w] = "saved",
                        \A r \in Runs : run[r].ret # "rejected"
                 PROVE  EndsClean(branch)
      BY DEF EndsClean
    <2>1. TypeInv BY DEF TailInv, CallsInv
    <2>2. PICK r \in Runs : FlushWrite(r)
      <3>1. ASSUME NEW r \in Runs, RunStep(r) \/ RunFault(r), ~FlushWrite(r)
            PROVE  UNCHANGED write
        BY <2>1, <3>1, RunLeavesWrites
      <3>2. ASSUME NEW x \in Writes, Set(x) \/ SetSaved(x) \/ SetRejected(x)
            PROVE  FALSE
        BY <2>1, <3>2 DEF Set, SetSaved, SetRejected, TypeInv, TypeOK
      <3>3. ASSUME \/ \E r \in Runs, rearm \in BOOLEAN : Prompt(r, rearm)
                   \/ \E m \in Messages : Steer(m) \/ FollowUp(m) \/ NextTurn(m)
                   \/ ClearQueue
                   \/ \E a \in Aborts : Abort(a) \/ AbortStep(a)
                   \/ \E s \in Structs :
                        Compact(s) \/ Navigate(s) \/ StructStep(s) \/ CompactStartFault(s)
                   \/ UNCHANGED vars
            PROVE  UNCHANGED write
        BY <3>3 DEF Prompt, Steer, FollowUp, NextTurn, ClearQueue, Abort, AbortStep,
           AbortNotified, AbortReturns, Compact, Navigate, StructStep, CompactStartFault,
           CompactStarted, Compacted, CompactFailed, Navigated, NavigateCancelled,
           Structural, vars, others, calls
      <3> QED BY <3>1, <3>2, <3>3 DEF Next, Rest
    <2>3. run[r].pc = "flush" /\ run[r].ret \in FlushReturns
      BY <2>1, <2>2 DEF FlushWrite, TypeInv, RunsHold, Holds
    <2>4. At(run[r], run[r].ret) BY <2>3 DEF At
    <2>5. Between(run[r]) \/ Replied(run[r]) \/ GoingOn(run[r])
      BY <2>3, <2>4, PlacesDiffer DEF FlushReturns
    <2> QED BY <2>3, <2>5 DEF TailInv, TailsRight, InProgress, Tidy
  <1>2. Spec => [][Step]_vars BY <1>1, TailsInvariant, PTL DEF Spec
  <1> QED BY <1>2 DEF QueuedWritesBetweenTurns

=============================================================================
