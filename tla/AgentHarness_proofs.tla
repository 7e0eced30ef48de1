------------------------ MODULE AgentHarness_proofs ------------------------
(***************************************************************************)
(* Proofs about AgentHarness for every number of runs, messages, writes,   *)
(* aborts and structural operations: type correctness, and that messages   *)
(* are conserved.  The inductive invariant of the types adds to TypeOK     *)
(* what a suspended run holds at the awaits where the code relies on it;   *)
(* that of the messages is MessagesInv.                                    *)
(***************************************************************************)
EXTENDS AgentHarness, FiniteSetTheorems, TLAPS

\* What the record of run r holds beyond its type: messages where the loop is
\* about to persist one, the next-turn messages in front of its own text, the
\* messages of one queue while a drain is reported, the write being flushed.
Holds(r, rec) ==
  /\ rec.pc \in {"hook", "prompts", "inject", "emitDrain"} => rec.msgs # <<>>
  /\ rec.pc \in {"emitNext", "hook", "prompts"} =>
       \E queue \in Seq(Messages) : rec.msgs = Append(queue, r)
  /\ rec.pc \in {"emitDrain", "inject"} => rec.msgs \in Seq(Messages)
  /\ rec.pc = "flush" => rec.write \in Writes /\ rec.ret \in FlushReturns

RunsHold == \A r \in Runs : Holds(r, run[r])

TypeInv == TypeOK /\ RunsHold

-----------------------------------------------------------------------------
(***************************************************************************)
(* The helpers.                                                            *)
(***************************************************************************)

\* A step of one run changes its record only.
LEMMA RunUpdate ==
  ASSUME run \in [Runs -> RunRecords], RunsHold,
         NEW r \in Runs, NEW rec \in RunRecords, Holds(r, rec), Moves(r, rec)
  PROVE  run' \in [Runs -> RunRecords] /\ RunsHold'
  BY DEF Moves, RunsHold

LEMMA LastMessageType ==
  ASSUME NEW b \in Seq(Entries), HasMessage(b)
  PROVE  LastMessage(b) \in 1..Len(b) /\ b[LastMessage(b)] \in Entries
  BY DEF HasMessage, LastMessage

LEMMA TailOfType ==
  ASSUME NEW e \in Entries
  PROVE  TailOf(e) \in Tails
  BY DEF TailOf, Entries, User, Assistant, ToolResult, Written, Compaction,
         BranchSummary, Tails

LEMMA ContextTailType ==
  ASSUME NEW b \in Seq(Entries)
  PROVE  ContextTail(b) \in Tails
  <1>1. CASE HasMessage(b) BY <1>1, LastMessageType, TailOfType DEF ContextTail
  <1>2. CASE ~HasMessage(b) BY <1>2 DEF ContextTail, Tails
  <1> QED BY <1>1, <1>2

LEMMA RetryTailType ==
  ASSUME NEW b \in Seq(Entries)
  PROVE  RetryTail(b) \in Tails
  <1>1. CASE HasMessage(b)
    <2>1. SubSeq(b, 1, LastMessage(b) - 1) \in Seq(Entries) BY <1>1, LastMessageType
    <2> QED BY <2>1, ContextTailType DEF RetryTail
  <1>2. CASE ~HasMessage(b) BY <1>2 DEF ContextTail, RetryTail, Overflows, Tails
  <1> QED BY <1>1, <1>2

\* Arriving at an await after a flush keeps a record well formed.
LEMMA ArriveType ==
  ASSUME NEW r, NEW rec \in RunRecords, NEW to \in FlushReturns \cup {"done"},
         NEW b \in Seq(Entries)
  PROVE  Arrive(rec, to, b) \in RunRecords /\ Holds(r, Arrive(rec, to, b))
  <1> DEFINE tail == CASE to = "prepare" -> ContextTail(b)
                       [] to = "resnap" -> RetryTail(b)
                       [] OTHER -> rec.tail
  <1>1. tail \in Tails BY ContextTailType, RetryTailType DEF RunRecords
  <1>2. Arrive(rec, to, b) = [rec EXCEPT !.pc = to, !.write = None, !.tail = tail]
    BY DEF Arrive, RunRecords
  <1>3. to \in PCs BY DEF PCs
  <1>4. Arrive(rec, to, b) \in RunRecords /\ Arrive(rec, to, b).pc = to
    BY <1>1, <1>2, <1>3, ZenonT(40) DEF RunRecords
  <1> QED BY <1>4 DEF Holds, FlushReturns

LEMMA FlushingType ==
  ASSUME NEW r, NEW rec \in RunRecords, NEW to \in FlushReturns,
         NEW queue \in Seq(Writes), NEW b \in Seq(Entries)
  PROVE  Flushing(rec, to, queue, b) \in RunRecords /\ Holds(r, Flushing(rec, to, queue, b))
  <1>1. CASE queue = <<>> BY <1>1, ArriveType DEF Flushing
  <1>2. CASE queue # <<>>
    <2>1. Head(queue) \in Writes BY <1>2
    <2>2. "flush" \in PCs BY DEF PCs
    <2> QED BY <1>2, <2>1, <2>2 DEF Flushing, RunRecords, Holds
  <1> QED BY <1>1, <1>2

LEMMA StoredType ==
  ASSUME stored \in [Messages \cup Runs \cup Writes -> 0..2],
         NEW x \in Messages \cup Runs \cup Writes
  PROVE  Stored(x) \in [Messages \cup Runs \cup Writes -> 0..2]
  BY DEF Stored

-----------------------------------------------------------------------------
(***************************************************************************)
(* The actions.  Each section of AgentHarness has its lemma.               *)
(***************************************************************************)

\* A step that changes nothing but the record of one run.
LEMMA OnlyRun ==
  ASSUME TypeInv, NEW r \in Runs, NEW rec \in RunRecords, Holds(r, rec),
         Moves(r, rec), UNCHANGED others
  PROVE  TypeInv'
  <1>1. run' \in [Runs -> RunRecords] /\ RunsHold' BY RunUpdate DEF TypeInv, TypeOK
  <1> QED BY <1>1 DEF TypeInv, TypeOK, others, control, queues, session, calls,
                      history, bounds

LEMMA PromptType ==
  ASSUME TypeInv, NEW r \in Runs, NEW rearm \in BOOLEAN, Prompt(r, rearm)
  PROVE  TypeInv'
  <1> DEFINE rec == [run[r] EXCEPT !.pc = "snapshot", !.tail = ContextTail(branch)]
  <1>1. run[r] \in RunRecords /\ ContextTail(branch) \in Tails
    BY ContextTailType DEF TypeInv, TypeOK
  <1>2. rec \in RunRecords /\ Holds(r, rec) BY <1>1 DEF RunRecords, PCs, Holds
  <1>3. run' \in [Runs -> RunRecords] /\ RunsHold'
    BY <1>2, RunUpdate DEF TypeInv, TypeOK, Prompt
  <1> QED BY <1>3 DEF Phases, TypeInv, TypeOK, Prompt, StartRunPromise, queues,
                      session, calls, history, bounds

LEMMA TakeNextTurnType ==
  ASSUME TypeInv, NEW r \in Runs, TakeNextTurn(r)
  PROVE  TypeInv'
  <1> DEFINE pc == IF nextTurnQueue = <<>> THEN "hook" ELSE "emitNext"
             from == [queue |-> "nextTurn", gen |-> 0]
             rec == [run[r] EXCEPT !.pc = pc, !.msgs = Append(nextTurnQueue, r),
                                   !.origin = from]
  <1>1. run[r] \in RunRecords /\ nextTurnQueue \in Seq(Messages) BY DEF TypeInv, TypeOK
  <1>2. Append(nextTurnQueue, r) \in Seq(Messages \cup Runs)
          /\ Append(nextTurnQueue, r) # <<>>
    BY <1>1
  <1>3. pc \in {"hook", "emitNext"} /\ pc \in PCs /\ from \in Origins
    BY DEF PCs, Origins, QueueNames
  <1>4. rec \in RunRecords BY <1>1, <1>2, <1>3 DEF RunRecords
  <1>5. rec.pc = pc /\ rec.msgs = Append(nextTurnQueue, r) BY <1>1 DEF RunRecords
  <1>6. Holds(r, rec) BY <1>1, <1>2, <1>3, <1>5 DEF Holds
  <1>7. run' \in [Runs -> RunRecords] /\ RunsHold'
    BY <1>4, <1>6, RunUpdate DEF TypeInv, TypeOK, TakeNextTurn
  <1> QED BY <1>7 DEF TypeInv, TypeOK, TakeNextTurn, control, session, calls,
                      history, bounds

LEMMA NextTurnEmittedType ==
  ASSUME TypeInv, NEW r \in Runs, NextTurnEmitted(r)
  PROVE  TypeInv'
  <1> DEFINE rec == [run[r] EXCEPT !.pc = "hook"]
  <1>1. run[r] \in RunRecords /\ Holds(r, run[r]) BY DEF TypeInv, TypeOK, RunsHold
  <1>2. PICK queue \in Seq(Messages) : run[r].msgs = Append(queue, r)
    BY <1>1 DEF Holds, NextTurnEmitted
  <1>3. rec \in RunRecords /\ rec.pc = "hook" /\ rec.msgs = run[r].msgs
    BY <1>1 DEF RunRecords, PCs
  <1> HIDE DEF rec
  <1>4. Holds(r, rec) BY <1>2, <1>3 DEF Holds
  <1> QED BY <1>3, <1>4, OnlyRun DEF NextTurnEmitted, rec

LEMMA StartPassType ==
  ASSUME TypeInv, NEW r \in Runs, StartFirstPass(r) \/ StartNextPass(r)
  PROVE  TypeInv'
  <1>1. run[r] \in RunRecords /\ Holds(r, run[r]) BY DEF TypeInv, TypeOK, RunsHold
  <1>2. CASE StartFirstPass(r)
    <2> DEFINE rec == NewPass(run[r], "prompts")
    <2>1. PICK queue \in Seq(Messages) : run[r].msgs = Append(queue, r)
      BY <1>1, <1>2 DEF Holds, StartFirstPass
    <2>4. rec \in RunRecords /\ rec.pc = "prompts" /\ rec.msgs = run[r].msgs
      BY <1>1 DEF NewPass, RunRecords, PCs
    <2> HIDE DEF rec
    <2>5. Holds(r, rec) BY <2>1, <2>4 DEF Holds
    <2>2. NewPass(run[r], "prompts") \in RunRecords /\ Holds(r, NewPass(run[r], "prompts"))
      BY <2>4, <2>5 DEF rec
    <2>3. run' \in [Runs -> RunRecords] /\ RunsHold'
      BY <1>2, <2>2, RunUpdate DEF TypeInv, TypeOK, StartFirstPass
    <2> QED BY <1>2, <2>3 DEF TypeInv, TypeOK, StartFirstPass, Phases, queues,
                              session, calls, history, bounds
  <1>3. CASE StartNextPass(r)
    <2>2. NewPass(run[r], "steer") \in RunRecords /\ Holds(r, NewPass(run[r], "steer"))
      BY <1>1, ZenonT(40) DEF NewPass, RunRecords, PCs, Holds
    <2>3. run' \in [Runs -> RunRecords] /\ RunsHold'
      BY <1>3, <2>2, RunUpdate DEF TypeInv, TypeOK, StartNextPass
    <2> QED BY <1>3, <2>3 DEF TypeInv, TypeOK, StartNextPass, Phases, queues,
                              session, calls, history, bounds
  <1> QED BY <1>2, <1>3

LEMMA FinishType ==
  ASSUME TypeInv, NEW r \in Runs, Finish(r)
  PROVE  run' \in [Runs -> RunRecords] /\ RunsHold' /\ runPromise' = None
  <1> DEFINE rec == [run[r] EXCEPT !.msgs = <<>>, !.origin = NoQueue]
  <1>1. run[r] \in RunRecords /\ branch \in Seq(Entries) BY DEF TypeInv, TypeOK
  <1>0. NoQueue \in Origins /\ <<>> \in Seq(Messages \cup Runs) BY DEF NoQueue, Origins
  <1>2. rec \in RunRecords BY <1>0, <1>1 DEF RunRecords
  <1>3. Arrive(rec, "done", branch) \in RunRecords
          /\ Holds(r, Arrive(rec, "done", branch))
    BY <1>1, <1>2, ArriveType
  <1> QED BY <1>3, RunUpdate DEF TypeInv, TypeOK, Finish

LEMMA OuterFaultType ==
  ASSUME TypeInv, NEW r \in Runs, OuterFault(r) \/ Rejected(r)
  PROVE  TypeInv'
  <1>1. run' \in [Runs -> RunRecords] /\ RunsHold' /\ runPromise' = None
    BY FinishType DEF OuterFault, Rejected, Reject
  <1>2. Range(run[r].msgs) \subseteq Messages \cup Runs
    BY DEF TypeInv, TypeOK, RunRecords, Range
  <1>3. faults < MaxFaults /\ MaxFaults \in Nat /\ faults \in 0..MaxFaults
          => faults + 1 \in 0..MaxFaults
    OBVIOUS
  <1>4. CASE OuterFault(r)
    <2>1. NoMessage \in [out : Outcomes \cup {None}, at : Nat] BY DEF NoMessage
    <2>2. /\ lastAssistant' = NoMessage \/ lastAssistant' = lastAssistant
          /\ runAbort' = None \/ runAbort' = runAbort
          /\ phase' = "idle" /\ faults < MaxFaults /\ faults' = faults + 1
          /\ lost' = lost \cup Range(run[r].msgs)
          /\ UNCHANGED <<latch, queues, pending, session, calls, sent, returned,
                         replies>>
      BY <1>4 DEF OuterFault, Reject, Fault
    <2> QED BY <1>1, <1>2, <1>3, <2>1, <2>2, ConstantsAssumption
            DEF TypeInv, TypeOK, Phases, queues, session, calls
  <1>5. CASE Rejected(r)
    BY <1>1, <1>5 DEF TypeInv, TypeOK, Rejected, Reject, Phases, queues, session,
                      calls, history, bounds
  <1> QED BY <1>4, <1>5

LEMMA EmitNextFaultType ==
  ASSUME TypeInv, NEW r \in Runs, EmitNextFault(r)
  PROVE  TypeInv'
  <1>1. run' \in [Runs -> RunRecords] /\ RunsHold' /\ runPromise' = None
    BY FinishType DEF EmitNextFault, Reject
  <1>2. PICK queue \in Seq(Messages) : run[r].msgs = Append(queue, r)
    BY DEF TypeInv, RunsHold, Holds, EmitNextFault
  <1>3. SubSeq(run[r].msgs, 1, Len(run[r].msgs) - 1) \in Seq(Messages) BY <1>2
  <1>4. nextTurnQueue' \in Seq(Messages) BY <1>3 DEF EmitNextFault, TypeInv, TypeOK
  <1> QED
    BY <1>1, <1>4, ConstantsAssumption
       DEF TypeInv, TypeOK, EmitNextFault, Reject, Fault, Phases, session, calls, history

LEMMA TailOfAppend ==
  ASSUME NEW S, NEW s \in Seq(S), NEW x, Tail(Append(s, x)) # <<>>
  PROVE  /\ s # <<>> /\ Tail(s) \in Seq(S) /\ Tail(Append(s, x)) = Append(Tail(s), x)
         /\ Head(Append(s, x)) = Head(s)
  <1>1. s # <<>> /\ Len(s) \in Nat \ {0}
    <2>1. CASE s = <<>>
      <3>1. Append(s, x) = <<x>> BY <2>1
      <3>2. Tail(<<x>>) = <<>> OBVIOUS
      <3> QED BY <3>1, <3>2
    <2> QED BY <2>1
  <1> DEFINE t == Tail(Append(s, x))
             u == Append(Tail(s), x)
  <1>2. /\ Len(t) = Len(s) /\ DOMAIN t = 1..Len(s) /\ Len(u) = Len(s) /\ DOMAIN u = 1..Len(s)
    BY <1>1
  <1>3. \A i \in 1..Len(s) : t[i] = u[i]
    <2> TAKE i \in 1..Len(s)
    <2>1. t[i] = Append(s, x)[i + 1] BY <1>1
    <2>2. CASE i = Len(s) BY <1>1, <2>1, <2>2
    <2>3. CASE i # Len(s) BY <1>1, <2>1, <2>3
    <2> QED BY <2>2, <2>3
  <1>4. t \in Seq(S \cup {x}) /\ u \in Seq(S \cup {x})
    <2>1. s \in Seq(S \cup {x}) OBVIOUS
    <2> QED BY <1>1, <2>1
  <1> HIDE DEF t, u
  <1>5. t = u BY <1>2, <1>3, <1>4
  <1> QED BY <1>1, <1>5 DEF t, u

LEMMA InjectMessageType ==
  ASSUME TypeInv, NEW r \in Runs, InjectMessage(r)
  PROVE  TypeInv'
  <1> DEFINE m == Head(run[r].msgs)
             rest == Tail(run[r].msgs)
             from == IF rest = <<>> THEN NoQueue ELSE run[r].origin
             pc == IF rest # <<>> THEN run[r].pc
                   ELSE IF run[r].pc = "prompts" THEN "steer" ELSE "request"
             rec == [run[r] EXCEPT !.msgs = rest, !.origin = from, !.tail = "user",
                                   !.pc = pc]
  <1>1. run[r] \in RunRecords /\ Holds(r, run[r]) BY DEF TypeInv, TypeOK, RunsHold
  <1>2. run[r].msgs \in Seq(Messages \cup Runs) /\ run[r].msgs # <<>>
          /\ run[r].pc \in {"prompts", "inject"}
    BY <1>1 DEF RunRecords, Holds, InjectMessage
  <1>3. m \in Messages \cup Runs /\ rest \in Seq(Messages \cup Runs) BY <1>2
  <1>4. pc \in PCs /\ (rest = <<>> => pc \in {"steer", "request"})
          /\ (rest # <<>> => pc \in {"prompts", "inject"})
    BY <1>2 DEF PCs
  <1>5. from \in Origins BY <1>1 DEF RunRecords, Origins, NoQueue
  <1>6. rec \in RunRecords BY <1>1, <1>3, <1>4, <1>5 DEF RunRecords, Tails
  <1>7. rec.pc = pc /\ rec.msgs = rest BY <1>1 DEF RunRecords
  <1>13. Moves(r, rec) BY DEF InjectMessage
  <1> HIDE DEF rec
  <1>14. rest # <<>> /\ run[r].pc = "prompts" =>
           \E queue \in Seq(Messages) : rest = Append(queue, r)
    <2> SUFFICES ASSUME rest # <<>>, run[r].pc = "prompts"
                 PROVE  \E queue \in Seq(Messages) : rest = Append(queue, r)
      OBVIOUS
    <2>1. PICK queue \in Seq(Messages) : run[r].msgs = Append(queue, r)
      BY <1>1 DEF Holds
    <2>2. Tail(Append(queue, r)) # <<>> /\ rest = Tail(Append(queue, r)) BY <2>1
    <2>3. /\ Tail(queue) \in Seq(Messages)
          /\ Tail(Append(queue, r)) = Append(Tail(queue), r)
      BY <2>2, TailOfAppend
    <2> QED BY <2>2, <2>3
  <1>15. run[r].pc = "inject" => rest \in Seq(Messages) BY <1>1, <1>2 DEF Holds
  <1>8. Holds(r, rec)
    <2>1. CASE rest = <<>> BY <1>4, <1>7, <2>1 DEF Holds
    <2>2. CASE rest # <<>>
      <3>1. pc = run[r].pc BY <2>2
      <3> HIDE DEF rest, pc
      <3> QED BY <1>2, <1>7, <1>14, <1>15, <2>2, <3>1 DEF Holds
    <2> QED BY <2>1, <2>2
  <1>9. run' \in [Runs -> RunRecords] /\ RunsHold'
    BY <1>6, <1>8, <1>13, RunUpdate DEF TypeInv, TypeOK
  <1>10. stored' \in [Messages \cup Runs \cup Writes -> 0..2]
    BY <1>3, StoredType DEF TypeInv, TypeOK, InjectMessage
  <1>11. User(m) \in Entries BY <1>3 DEF Entries
  <1>12. branch' \in Seq(Entries) BY <1>11 DEF TypeInv, TypeOK, InjectMessage
  <1> QED BY <1>9, <1>10, <1>12 DEF TypeInv, TypeOK, InjectMessage, control, queues,
                                    calls, history, bounds

\* What a drain takes is a nonempty sequence of messages, as is what it leaves.
LEMMA DrainedType ==
  ASSUME TypeInv, NEW r \in Runs, NEW queue \in Seq(Messages), queue # <<>>,
         NEW name \in {"steer", "followUp"}, NEW n \in {1, Len(queue)},
         Drained(r, queue, name, n)
  PROVE  /\ run' \in [Runs -> RunRecords] /\ RunsHold'
         /\ SubSeq(queue, n + 1, Len(queue)) \in Seq(Messages)
  <1> DEFINE msgs == SubSeq(queue, 1, n)
             from == [queue |-> name, gen |-> queueGen]
             rec == [run[r] EXCEPT !.pc = "emitDrain", !.msgs = msgs, !.origin = from]
  <1>1. run[r] \in RunRecords /\ queueGen \in Nat BY DEF TypeInv, TypeOK
  <1>2. n \in 1..Len(queue) BY Len(queue) > 0
  <1>3. msgs \in Seq(Messages) /\ msgs # <<>> BY <1>2
  <1>4. msgs \in Seq(Messages \cup Runs) BY <1>3
  <1>5. from \in Origins BY <1>1 DEF Origins, QueueNames
  <1>6. "emitDrain" \in PCs BY DEF PCs
  <1>7. rec \in RunRecords BY <1>1, <1>4, <1>5, <1>6 DEF RunRecords
  <1>8. rec.pc = "emitDrain" /\ rec.msgs = msgs BY <1>1 DEF RunRecords
  <1>9. Holds(r, rec) BY <1>3, <1>8 DEF Holds
  <1>10. run' \in [Runs -> RunRecords] /\ RunsHold'
    BY <1>7, <1>9, RunUpdate DEF TypeInv, TypeOK, Drained
  <1> QED BY <1>2, <1>10

LEMMA DrainType ==
  ASSUME TypeInv, NEW r \in Runs, DrainSteering(r) \/ DrainFollowUps(r)
  PROVE  TypeInv'
  <1>1. CASE DrainSteering(r)
    <2>1. PICK n \in {1, Len(steerQueue)} :
            /\ Drained(r, steerQueue, "steer", n)
            /\ steerQueue' = SubSeq(steerQueue, n + 1, Len(steerQueue))
      BY <1>1 DEF DrainSteering
    <2>2. steerQueue \in Seq(Messages) /\ steerQueue # <<>>
      BY <1>1 DEF TypeInv, TypeOK, DrainSteering
    <2>3. /\ run' \in [Runs -> RunRecords] /\ RunsHold'
          /\ steerQueue' \in Seq(Messages)
      BY <2>1, <2>2, DrainedType
    <2> QED BY <1>1, <2>3 DEF TypeInv, TypeOK, DrainSteering, control, session,
                              calls, history, bounds
  <1>2. CASE DrainFollowUps(r)
    <2>1. PICK n \in {1, Len(followUpQueue)} :
            /\ Drained(r, followUpQueue, "followUp", n)
            /\ followUpQueue' = SubSeq(followUpQueue, n + 1, Len(followUpQueue))
      BY <1>2 DEF DrainFollowUps
    <2>2. followUpQueue \in Seq(Messages) /\ followUpQueue # <<>>
      BY <1>2 DEF TypeInv, TypeOK, DrainFollowUps
    <2>3. /\ run' \in [Runs -> RunRecords] /\ RunsHold'
          /\ followUpQueue' \in Seq(Messages)
      BY <2>1, <2>2, DrainedType
    <2> QED BY <1>2, <2>3 DEF TypeInv, TypeOK, DrainFollowUps, control, session,
                              calls, history, bounds
  <1> QED BY <1>1, <1>2

\* A flush that starts here changes the run only.
LEMMA StartFlushType ==
  ASSUME TypeInv, NEW r \in Runs, NEW to \in FlushReturns, StartFlush(r, to)
  PROVE  run' \in [Runs -> RunRecords] /\ RunsHold'
  <1>1. run[r] \in RunRecords /\ pending \in Seq(Writes) /\ branch \in Seq(Entries)
    BY DEF TypeInv, TypeOK
  <1>2. Flushing(run[r], to, pending, branch) \in RunRecords
          /\ Holds(r, Flushing(run[r], to, pending, branch))
    BY <1>1, FlushingType
  <1> QED BY <1>2, RunUpdate DEF TypeInv, TypeOK, StartFlush

LEMMA RunOnlyType ==
  ASSUME TypeInv, run' \in [Runs -> RunRecords], RunsHold', UNCHANGED others
  PROVE  TypeInv'
  BY DEF TypeInv, TypeOK, others, control, queues, session, calls, history, bounds

\* The actions of the loop that only move its program counter.
LEMMA LoopMoveType ==
  ASSUME TypeInv, NEW r \in Runs,
         \/ NoSteering(r) \/ NoFollowUps(r) \/ DrainEmitted(r) \/ TurnEnd(r)
         \/ SavePoint(r) \/ PrepareNextTurn(r) \/ Settle(r)
  PROVE  TypeInv'
  <1>1. run[r] \in RunRecords /\ Holds(r, run[r]) BY DEF TypeInv, TypeOK, RunsHold
  <1>2. CASE NoSteering(r)
    <2>1. \A pc \in {"request", "follow"} :
            [run[r] EXCEPT !.pc = pc] \in RunRecords /\ Holds(r, [run[r] EXCEPT !.pc = pc])
      BY <1>1 DEF RunRecords, PCs, Holds
    <2> QED BY <1>2, <2>1, OnlyRun DEF NoSteering
  <1>3. CASE NoFollowUps(r) BY <1>3, StartFlushType, RunOnlyType DEF NoFollowUps, FlushReturns
  <1>4. CASE DrainEmitted(r)
    <2> DEFINE rec == [run[r] EXCEPT !.pc = "inject"]
    <2>1. run[r].msgs # <<>> /\ run[r].msgs \in Seq(Messages)
      BY <1>1, <1>4 DEF Holds, DrainEmitted
    <2>2. rec \in RunRecords /\ rec.pc = "inject" /\ rec.msgs = run[r].msgs
      BY <1>1 DEF RunRecords, PCs
    <2> HIDE DEF rec
    <2>3. Holds(r, rec) BY <2>1, <2>2 DEF Holds
    <2> QED BY <1>4, <2>2, <2>3, OnlyRun DEF DrainEmitted, rec
  <1>5. CASE TurnEnd(r) BY <1>5, StartFlushType, RunOnlyType DEF TurnEnd, FlushReturns
  <1>6. CASE SavePoint(r)
    <2>1. (IF run[r].final THEN "agentEnd" ELSE "prepare") \in FlushReturns
      BY DEF FlushReturns
    <2> QED BY <1>6, <2>1, StartFlushType, RunOnlyType DEF SavePoint
  <1>7. CASE PrepareNextTurn(r)
    <2>1. [run[r] EXCEPT !.pc = "steer"] \in RunRecords
            /\ Holds(r, [run[r] EXCEPT !.pc = "steer"])
      BY <1>1 DEF RunRecords, PCs, Holds
    <2> QED BY <1>7, <2>1, OnlyRun DEF PrepareNextTurn
  <1>8. CASE Settle(r) BY <1>8, StartFlushType, RunOnlyType DEF Settle, FlushReturns
  <1> QED BY <1>2, <1>3, <1>4, <1>5, <1>6, <1>7, <1>8

LEMMA SaveAssistantType ==
  ASSUME TypeInv, NEW out \in Outcomes, SaveAssistant(out)
  PROVE  /\ branch' \in Seq(Entries)
         /\ lastAssistant' \in [out : Outcomes \cup {None}, at : Nat]
         /\ latch' \in BOOLEAN
         /\ stored' = stored
  <1>1. Assistant(out) \in Entries BY DEF Entries
  <1> QED BY <1>1 DEF TypeInv, TypeOK, SaveAssistant

LEMMA RespondType ==
  ASSUME TypeInv, NEW r \in Runs, NEW out \in Outcomes, Respond(r, out)
  PROVE  TypeInv'
  <1> DEFINE rec == [run[r] EXCEPT
                       !.tail = out, !.more = FALSE, !.retry = FALSE,
                       !.final = out \in {"error", "overflow", "aborted"},
                       !.streak = IF Fits(out) THEN 0 ELSE @,
                       !.silent = (@ \/ out = "silent") /\ ~Fits(out)]
             final == out \in {"error", "overflow", "aborted"}
             streak == IF Fits(out) THEN 0 ELSE run[r].streak
             silent == (run[r].silent \/ out = "silent") /\ ~Fits(out)
             next == NextAwait(rec, out, branch')
  <1>1. run[r] \in RunRecords BY DEF TypeInv, TypeOK
  <1>2. /\ out \in Tails /\ final \in BOOLEAN /\ streak \in Nat
        /\ silent \in BOOLEAN
    BY <1>1 DEF Tails, RunRecords
  <1>3. rec = [run[r] EXCEPT !.tail = out, !.more = FALSE, !.retry = FALSE,
                             !.final = final, !.streak = streak, !.silent = silent]
    BY <1>1 DEF RunRecords
  <1>4. rec \in RunRecords
    <2> HIDE DEF final, streak, silent, rec
    <2> QED BY <1>1, <1>2, <1>3 DEF RunRecords
  <1> DEFINE pc == IF out = "tool" THEN "tools" ELSE "turnEnd"
  <1>41. pc \in PCs /\ pc \in {"tools", "turnEnd"} BY DEF PCs
  <1> HIDE DEF rec
  <1>42. next \in RunRecords /\ next.pc = pc BY <1>4, <1>41 DEF NextAwait, RunRecords
  <1>5. Holds(r, next) BY <1>41, <1>42 DEF Holds
  <1>6. run' \in [Runs -> RunRecords] /\ RunsHold'
    <2>1. Moves(r, next) BY DEF Respond, rec
    <2> HIDE DEF next
    <2> QED BY <1>41, <1>42, <1>5, <2>1, RunUpdate DEF TypeInv, TypeOK
  <1>7. replies' \in 0..MaxReplies
    BY ConstantsAssumption DEF TypeInv, TypeOK, Respond
  <1>8. SaveAssistant(out) BY DEF Respond
  <1> QED BY <1>6, <1>7, <1>8, SaveAssistantType
          DEF TypeInv, TypeOK, Respond, queues, calls, history

LEMMA ToolsDoneType ==
  ASSUME TypeInv, NEW r \in Runs, ToolsDone(r)
  PROVE  TypeInv'
  <1>1. PICK more \in BOOLEAN :
          Moves(r, [run[r] EXCEPT !.more = more, !.tail = "toolResult", !.pc = "turnEnd"])
    BY DEF ToolsDone
  <1> DEFINE rec == [run[r] EXCEPT !.more = more, !.tail = "toolResult", !.pc = "turnEnd"]
  <1>2. run[r] \in RunRecords BY DEF TypeInv, TypeOK
  <1>3. rec \in RunRecords /\ Holds(r, rec) BY <1>2, ZenonT(40) DEF RunRecords, Tails, PCs, Holds
  <1>4. run' \in [Runs -> RunRecords] /\ RunsHold'
    BY <1>1, <1>3, RunUpdate DEF TypeInv, TypeOK
  <1>5. ToolResult \in Entries BY DEF Entries
  <1>6. branch' \in Seq(Entries) BY <1>5 DEF TypeInv, TypeOK, ToolsDone
  <1> QED BY <1>4, <1>6 DEF TypeInv, TypeOK, ToolsDone, control, queues, calls,
                            history, bounds

LEMMA AgentEndType ==
  ASSUME TypeInv, NEW r \in Runs, AgentEnd(r)
  PROVE  TypeInv'
  <1>1. run[r] \in RunRecords BY DEF TypeInv, TypeOK
  <1>2. [run[r] EXCEPT !.pc = "settle"] \in RunRecords
          /\ Holds(r, [run[r] EXCEPT !.pc = "settle"])
    BY <1>1 DEF RunRecords, PCs, Holds
  <1>3. run' \in [Runs -> RunRecords] /\ RunsHold'
    BY <1>2, RunUpdate DEF TypeInv, TypeOK, AgentEnd
  <1> QED BY <1>3 DEF TypeInv, TypeOK, AgentEnd, Phases, queues, session, calls,
                      history, bounds

LEMMA FlushWriteType ==
  ASSUME TypeInv, NEW r \in Runs, FlushWrite(r)
  PROVE  TypeInv'
  <1> DEFINE w == run[r].write
             rest == Shifted(pending)
             rec == Flushing(run[r], run[r].ret, rest, branch')
  <1>1. run[r] \in RunRecords /\ Holds(r, run[r]) BY DEF TypeInv, TypeOK, RunsHold
  <1>2. w \in Writes /\ run[r].ret \in FlushReturns BY <1>1 DEF Holds, FlushWrite
  <1>3. rest \in Seq(Writes) BY DEF Shifted, TypeInv, TypeOK
  <1>4. Written(w) \in Entries BY <1>2 DEF Entries
  <1>5. branch' \in Seq(Entries) BY <1>4 DEF TypeInv, TypeOK, FlushWrite
  <1>6. rec \in RunRecords /\ Holds(r, rec) BY <1>1, <1>2, <1>3, <1>5, FlushingType
  <1>7. Moves(r, rec) BY DEF FlushWrite
  <1>8. run' \in [Runs -> RunRecords] /\ RunsHold'
    BY <1>6, <1>7, RunUpdate DEF TypeInv, TypeOK
  <1>9. stored' \in [Messages \cup Runs \cup Writes -> 0..2]
    BY <1>2, StoredType DEF TypeInv, TypeOK, FlushWrite
  <1>10. pending' \in Seq(Writes) BY <1>3 DEF FlushWrite
  <1>11. write' \in [Writes -> {"new", "saving", "queued", "saved", "rejected"}]
    BY <1>2 DEF TypeInv, TypeOK, FlushWrite
  <1> QED BY <1>5, <1>8, <1>9, <1>10, <1>11
          DEF TypeInv, TypeOK, FlushWrite, control, queues, history, bounds

LEMMA AfterLoopErrorType ==
  ASSUME TypeInv, NEW r \in Runs, AfterLoopError(r)
  PROVE  run' \in [Runs -> RunRecords] /\ RunsHold'
  <1> DEFINE rec == [run[r] EXCEPT !.msgs = <<>>, !.write = None, !.origin = NoQueue]
  <1>1. run[r] \in RunRecords /\ pending \in Seq(Writes) /\ branch \in Seq(Entries)
    BY DEF TypeInv, TypeOK
  <1>2. NoQueue \in Origins /\ <<>> \in Seq(Messages \cup Runs) BY DEF NoQueue, Origins
  <1>3. rec \in RunRecords BY <1>1, <1>2 DEF RunRecords
  <1> HIDE DEF rec
  <1>4. CASE Moves(r, Flushing(rec, "rejected", pending, branch))
    <2>1. "rejected" \in FlushReturns BY DEF FlushReturns
    <2> QED BY <1>1, <1>3, <1>4, <2>1, FlushingType, RunUpdate DEF TypeInv, TypeOK
  <1>5. CASE Moves(r, [rec EXCEPT !.pc = "fail"])
    <2>1. [rec EXCEPT !.pc = "fail"] \in RunRecords
            /\ Holds(r, [rec EXCEPT !.pc = "fail"])
      BY <1>3 DEF RunRecords, PCs, Holds
    <2> QED BY <1>5, <2>1, RunUpdate DEF TypeInv, TypeOK
  <1> QED BY <1>4, <1>5 DEF AfterLoopError, rec

LEMMA LoopFaultType ==
  ASSUME TypeInv, NEW r \in Runs,
         LoopFault(r) \/ TurnEndFault(r) \/ TurnEndThrew(r)
  PROVE  TypeInv'
  <1>1. CASE LoopFault(r)
    <2>1. run' \in [Runs -> RunRecords] /\ RunsHold'
      BY <1>1, AfterLoopErrorType DEF LoopFault
    <2>2. Range(run[r].msgs) \subseteq Messages \cup Runs
      BY DEF TypeInv, TypeOK, RunRecords, Range
    <2> QED BY <1>1, <2>1, <2>2, ConstantsAssumption
            DEF TypeInv, TypeOK, LoopFault, Fault, control, queues, session, calls
  <1>2. CASE TurnEndFault(r)
    <2>1. run' \in [Runs -> RunRecords] /\ RunsHold'
      BY <1>2, StartFlushType DEF TurnEndFault, FlushReturns
    <2> QED BY <1>2, <2>1, ConstantsAssumption
            DEF TypeInv, TypeOK, TurnEndFault, Fault, control, queues, session, calls,
                history
  <1>3. CASE TurnEndThrew(r)
    BY <1>3, AfterLoopErrorType, RunOnlyType DEF TurnEndThrew
  <1> QED BY <1>1, <1>2, <1>3

LEMMA EmitDrainFaultType ==
  ASSUME TypeInv, NEW r \in Runs, EmitDrainFault(r)
  PROVE  TypeInv'
  <1>1. run' \in [Runs -> RunRecords] /\ RunsHold'
    BY AfterLoopErrorType DEF EmitDrainFault
  <1>2. run[r].msgs \in Seq(Messages)
    BY DEF EmitDrainFault, TypeInv, RunsHold, Holds
  <1>3. \A queue \in Seq(Messages) : \A name :
         PutBack(r, queue, name) \in Seq(Messages)
    BY <1>2 DEF PutBack
  <1>4. steerQueue' \in Seq(Messages) /\ followUpQueue' \in Seq(Messages)
    BY <1>3 DEF TypeInv, TypeOK, EmitDrainFault
  <1>5. Range(run[r].msgs) \subseteq Messages BY <1>2 DEF Range
  <1> QED BY <1>1, <1>4, <1>5, ConstantsAssumption
          DEF TypeInv, TypeOK, EmitDrainFault, Fault, control, session, calls

LEMMA ReportFailureType ==
  ASSUME TypeInv, NEW r \in Runs, ReportFailure(r)
  PROVE  TypeInv'
  <1> DEFINE out == IF run[r].signal THEN "aborted" ELSE "error"
             streak == IF Fits(out) THEN 0 ELSE run[r].streak
             rec == [run[r] EXCEPT !.tail = out, !.final = TRUE, !.failed = TRUE,
                                   !.retry = FALSE, !.streak = streak,
                                   !.pc = "turnEnd"]
  <1>1. run[r] \in RunRecords BY DEF TypeInv, TypeOK
  <1>2. out \in Outcomes /\ out \in Tails BY DEF Outcomes, Tails
  <1>3. streak \in Nat BY <1>1 DEF RunRecords
  <1>4. SaveAssistant(out) BY DEF ReportFailure
  <1>5. Moves(r, rec) BY <1>1 DEF ReportFailure, RunRecords
  <1> HIDE DEF out, streak
  <1>6. rec \in RunRecords /\ Holds(r, rec) BY <1>1, <1>2, <1>3 DEF RunRecords, PCs, Holds
  <1>7. run' \in [Runs -> RunRecords] /\ RunsHold'
    BY <1>5, <1>6, RunUpdate DEF TypeInv, TypeOK
  <1> QED BY <1>2, <1>4, <1>7, SaveAssistantType
          DEF TypeInv, TypeOK, ReportFailure, queues, calls, history, bounds

LEMMA ContinueOrFinishType ==
  ASSUME TypeInv, NEW r \in Runs, NEW again, NEW b \in Seq(Entries),
         ContinueOrFinish(r, again, b)
  PROVE  /\ run' \in [Runs -> RunRecords] /\ RunsHold'
         /\ runPromise' \in Runs \cup {None}
  <1>1. run[r] \in RunRecords /\ pending \in Seq(Writes) BY DEF TypeInv, TypeOK
  <1>2. CASE Finish(r) BY <1>2, FinishType
  <1>3. CASE Moves(r, Flushing(run[r], "resnap", pending, b)) /\ UNCHANGED runPromise
    <2>1. "resnap" \in FlushReturns BY DEF FlushReturns
    <2> QED BY <1>1, <1>3, <2>1, FlushingType, RunUpdate DEF TypeInv, TypeOK
  <1> QED BY <1>2, <1>3 DEF ContinueOrFinish

LEMMA PostRunType ==
  ASSUME TypeInv, NEW r \in Runs,
         \/ PostRun(r) \/ PostRunLeft(r) \/ PostRunOverflow(r) \/ PostRunThreshold(r)
         \/ GiveUp(r)
  PROVE  TypeInv'
  <1>1. run[r] \in RunRecords /\ branch \in Seq(Entries) BY DEF TypeInv, TypeOK
  <1>2. NoMessage \in [out : Outcomes \cup {None}, at : Nat] BY DEF NoMessage
  <1>3. CASE PostRun(r)
    <2>1. run' \in [Runs -> RunRecords] /\ RunsHold'
            /\ runPromise' \in Runs \cup {None}
      BY <1>1, <1>3, ContinueOrFinishType DEF PostRun
    <2> QED BY <1>2, <1>3, <2>1
            DEF TypeInv, TypeOK, PostRun, queues, session, calls, history, bounds
  <1>4. CASE PostRunOverflow(r)
    <2>1. [run[r] EXCEPT !.pc = "giveUp"] \in RunRecords
            /\ Holds(r, [run[r] EXCEPT !.pc = "giveUp"])
      BY <1>1 DEF RunRecords, PCs, Holds
    <2> DEFINE streak == run[r].streak + 1
               rec == [run[r] EXCEPT !.pc = "compactStart", !.retry = TRUE,
                                     !.streak = streak]
    <2>2. streak \in Nat BY <1>1 DEF RunRecords
    <2>3. Moves(r, [run[r] EXCEPT !.pc = "giveUp"]) \/ Moves(r, rec)
      BY <1>1, <1>4 DEF PostRunOverflow, RunRecords
    <2> HIDE DEF streak
    <2>4. rec \in RunRecords /\ Holds(r, rec) BY <1>1, <2>2 DEF RunRecords, PCs, Holds
    <2> HIDE DEF rec
    <2>5. run' \in [Runs -> RunRecords] /\ RunsHold'
      BY <2>1, <2>3, <2>4, RunUpdate DEF TypeInv, TypeOK
    <2>6. /\ latch' = TRUE
          /\ runAbort' = None
          /\ lastAssistant' = NoMessage
          /\ UNCHANGED <<phase, runPromise, queues, pending, session, calls,
                         history, bounds>>
      BY <1>4 DEF PostRunOverflow
    <2> QED BY <1>2, <2>5, <2>6
            DEF TypeInv, TypeOK, queues, session, calls, history, bounds
  <1>5. CASE PostRunThreshold(r)
    <2> DEFINE silent == run[r].silent \/ lastAssistant.out = "overflow"
               rec == [run[r] EXCEPT !.pc = "compactStart", !.retry = FALSE,
                                     !.silent = silent]
    <2>3. Moves(r, rec) BY <1>1, <1>5 DEF PostRunThreshold, RunRecords
    <2>4. silent \in BOOLEAN BY <1>1 DEF RunRecords
    <2> HIDE DEF silent
    <2>1. rec \in RunRecords /\ Holds(r, rec)
      BY <1>1, <2>4, ZenonT(40) DEF RunRecords, PCs, Holds
    <2> HIDE DEF rec
    <2>2. run' \in [Runs -> RunRecords] /\ RunsHold'
      BY <2>1, <2>3, RunUpdate DEF TypeInv, TypeOK
    <2> QED BY <1>2, <1>5, <2>2, ConstantsAssumption
            DEF TypeInv, TypeOK, PostRunThreshold, queues, session, calls, history
  <1>6. CASE GiveUp(r)
    <2>1. run' \in [Runs -> RunRecords] /\ RunsHold'
            /\ runPromise' \in Runs \cup {None}
      BY <1>1, <1>6, ContinueOrFinishType DEF GiveUp
    <2> QED BY <1>6, <2>1
            DEF TypeInv, TypeOK, GiveUp, queues, session, calls, history, bounds
  <1>7. CASE PostRunLeft(r)
    <2> DEFINE rec == [run[r] EXCEPT !.silent = TRUE]
    <2>1. rec \in RunRecords /\ Holds(r, rec)
      BY <1>1 DEF TypeInv, TypeOK, RunsHold, RunRecords, Holds
    <2> DEFINE gone == Flushing(rec, "resnap", pending, branch)
    <2>2. gone \in RunRecords /\ Holds(r, gone)
      <3>1. "resnap" \in FlushReturns BY DEF FlushReturns
      <3>2. pending \in Seq(Writes) BY DEF TypeInv, TypeOK
      <3> HIDE DEF rec
      <3> QED BY <1>1, <2>1, <3>1, <3>2, FlushingType
    <2>3. \/ Moves(r, gone) /\ UNCHANGED runPromise
          \/ Finish(r)
      BY <1>7 DEF PostRunLeft
    <2> HIDE DEF gone
    <2>4. run' \in [Runs -> RunRecords] /\ RunsHold' /\ runPromise' \in Runs \cup {None}
      <3>1. CASE Moves(r, gone) /\ UNCHANGED runPromise
        BY <2>2, <3>1, RunUpdate DEF TypeInv, TypeOK
      <3>2. CASE Finish(r) BY <3>2, FinishType
      <3> QED BY <2>3, <3>1, <3>2
    <2> QED BY <1>2, <1>7, <2>4
            DEF TypeInv, TypeOK, PostRunLeft, queues, session, calls, history, bounds
  <1> QED BY <1>3, <1>4, <1>5, <1>6, <1>7

LEMMA AutoCompactType ==
  ASSUME TypeInv, NEW r \in Runs,
         \/ AutoCompactStarted(r) \/ AutoCompacted(r)
         \/ AutoCompactThrew(r) \/ AutoCompactSkipped(r)
  PROVE  TypeInv'
  <1>1. run[r] \in RunRecords /\ branch \in Seq(Entries) /\ phase \in Phases
    BY DEF TypeInv, TypeOK
  <1>2. Compaction \in Entries BY DEF Entries
  <1>3. Append(branch, Compaction) \in Seq(Entries) BY <1>1, <1>2
  <1>4. run[r].prev \in Phases BY <1>1 DEF RunRecords
  <1>5. CASE AutoCompactStarted(r)
    <2> DEFINE rec == [run[r] EXCEPT !.pc = "compacting", !.prev = phase]
    <2>1. rec \in RunRecords /\ Holds(r, rec) BY <1>1 DEF RunRecords, PCs, Holds
    <2>2. run' \in [Runs -> RunRecords] /\ RunsHold'
      BY <1>5, <2>1, RunUpdate DEF TypeInv, TypeOK, AutoCompactStarted
    <2> QED BY <1>5, <2>2
            DEF TypeInv, TypeOK, AutoCompactStarted, Phases, queues, session, calls,
                history, bounds
  <1>6. CASE AutoCompacted(r)
    <2>1. run' \in [Runs -> RunRecords] /\ RunsHold'
            /\ runPromise' \in Runs \cup {None}
      BY <1>3, <1>6, ContinueOrFinishType DEF AutoCompacted
    <2> QED BY <1>3, <1>4, <1>6, <2>1
            DEF TypeInv, TypeOK, AutoCompacted, queues, session, calls, history, bounds
  <1>7. CASE AutoCompactThrew(r)
    <2>1. run' \in [Runs -> RunRecords] /\ RunsHold'
            /\ runPromise' \in Runs \cup {None}
      BY <1>3, <1>7, ContinueOrFinishType DEF AutoCompactThrew
    <2> QED BY <1>3, <1>4, <1>7, <2>1, ConstantsAssumption
            DEF TypeInv, TypeOK, AutoCompactThrew, Fault, queues, calls, history
  <1>8. CASE AutoCompactSkipped(r)
    <2>1. run' \in [Runs -> RunRecords] /\ RunsHold'
            /\ runPromise' \in Runs \cup {None}
      BY <1>1, <1>8, ContinueOrFinishType DEF AutoCompactSkipped
    <2> QED BY <1>4, <1>8, <2>1
            DEF TypeInv, TypeOK, AutoCompactSkipped, queues, session, calls, history,
                bounds
  <1> QED BY <1>5, <1>6, <1>7, <1>8

LEMMA QueueType ==
  ASSUME TypeInv,
         \/ \E m \in Messages : Steer(m) \/ FollowUp(m) \/ NextTurn(m)
         \/ ClearQueue
  PROVE  TypeInv'
  <1>1. RunsHold' BY DEF TypeInv, RunsHold, Steer, FollowUp, NextTurn, ClearQueue
  <1>2. CASE \E m \in Messages : Steer(m)
    BY <1>1, <1>2 DEF TypeInv, TypeOK, Steer, control, session, calls, bounds
  <1>3. CASE \E m \in Messages : FollowUp(m)
    BY <1>1, <1>3 DEF TypeInv, TypeOK, FollowUp, control, session, calls, bounds
  <1>4. CASE \E m \in Messages : NextTurn(m)
    BY <1>1, <1>4 DEF TypeInv, TypeOK, NextTurn, control, session, calls, bounds
  <1>5. CASE ClearQueue
    <2>1. Range(steerQueue) \cup Range(followUpQueue) \subseteq Messages
      BY DEF TypeInv, TypeOK, Range
    <2> QED BY <1>1, <1>5, <2>1
            DEF TypeInv, TypeOK, ClearQueue, EmptyQueues, control, session, calls, bounds
  <1> QED BY <1>2, <1>3, <1>4, <1>5

LEMMA SetType ==
  ASSUME TypeInv, NEW w \in Writes, Set(w) \/ SetSaved(w) \/ SetRejected(w)
  PROVE  TypeInv'
  <1>1. RunsHold' BY DEF TypeInv, RunsHold, Set, SetSaved, SetRejected
  <1>2. CASE Set(w)
    <2>1. pending' \in Seq(Writes)
      <3>1. pending \in Seq(Writes) BY DEF TypeInv, TypeOK
      <3>2. Append(pending, w) \in Seq(Writes) BY <3>1
      <3>3. pending' = pending \/ pending' = Append(pending, w) BY <1>2 DEF Set
      <3> QED BY <3>1, <3>2, <3>3
    <2>2. write' \in [Writes -> {"new", "saving", "queued", "saved", "rejected"}]
      BY <1>2 DEF TypeInv, TypeOK, Set
    <2> QED BY <1>1, <1>2, <2>1, <2>2
            DEF TypeInv, TypeOK, Set, control, queues, session, history, bounds
  <1>3. CASE SetSaved(w)
    <2>1. Written(w) \in Entries BY DEF Entries
    <2>2. branch' \in Seq(Entries) BY <1>3, <2>1 DEF TypeInv, TypeOK, SetSaved
    <2>3. stored' \in [Messages \cup Runs \cup Writes -> 0..2]
      BY <1>3, StoredType DEF TypeInv, TypeOK, SetSaved
    <2> QED BY <1>1, <1>3, <2>2, <2>3
            DEF TypeInv, TypeOK, SetSaved, control, queues, history, bounds
  <1>4. CASE SetRejected(w)
    BY <1>1, <1>4, ConstantsAssumption
       DEF TypeInv, TypeOK, SetRejected, Fault, control, queues, session, history
  <1> QED BY <1>2, <1>3, <1>4

LEMMA AbortType ==
  ASSUME TypeInv, NEW a \in Aborts, Abort(a) \/ AbortStep(a)
  PROVE  TypeInv'
  <1>1. CASE Abort(a)
    <2>1. Range(steerQueue) \cup Range(followUpQueue) \subseteq Messages
      BY DEF TypeInv, TypeOK, Range
    <2>2. run' \in [Runs -> RunRecords] /\ RunsHold'
      <3>1. CASE runAbort = None BY <1>1, <3>1 DEF TypeInv, TypeOK, RunsHold, Abort
      <3>2. CASE runAbort # None
        <4> DEFINE r == runAbort
                   rec == [run[r] EXCEPT !.signal = TRUE]
        <4>1. r \in Runs BY <3>2 DEF TypeInv, TypeOK
        <4>2. run[r] \in RunRecords /\ Holds(r, run[r])
          BY <4>1 DEF TypeInv, TypeOK, RunsHold
        <4>3. rec \in RunRecords /\ Holds(r, rec) BY <4>2 DEF RunRecords, Holds
        <4>4. Moves(r, rec) BY <1>1, <3>2 DEF Abort, Moves
        <4> QED BY <4>1, <4>3, <4>4, RunUpdate DEF TypeInv, TypeOK
      <3> QED BY <3>1, <3>2
    <2> DEFINE rec == [abort[a] EXCEPT !.pc = "notify",
                                       !.victims = {r \in Runs : InProgress(r)}]
    <2>3. rec \in AbortRecords BY ZenonT(40) DEF TypeInv, TypeOK, AbortRecords
    <2>4. abort' = [abort EXCEPT ![a] = rec] BY <1>1 DEF Abort
    <2> HIDE DEF rec
    <2>5. abort' \in [Aborts -> AbortRecords] BY <2>3, <2>4 DEF TypeInv, TypeOK
    <2> QED BY <1>1, <2>1, <2>2, <2>5
            DEF TypeInv, TypeOK, Abort, EmptyQueues, control, session, bounds
  <1>2. CASE AbortStep(a)
    <2>1. RunsHold' BY <1>2 DEF TypeInv, RunsHold, AbortStep, AbortNotified, AbortReturns
    <2>2. abort[a] \in AbortRecords /\ runPromise \in Runs \cup {None}
      BY DEF TypeInv, TypeOK
    <2> DEFINE notified == [abort[a] EXCEPT !.pc = "wait", !.target = runPromise]
               settled == [abort[a] EXCEPT !.pc = "done"]
    <2>3. notified \in AbortRecords /\ settled \in AbortRecords
      BY <2>2 DEF AbortRecords
    <2>4. abort' = [abort EXCEPT ![a] = notified] \/ abort' = [abort EXCEPT ![a] = settled]
      BY <1>2 DEF AbortStep, AbortNotified, AbortReturns
    <2> HIDE DEF notified, settled
    <2>5. abort' \in [Aborts -> AbortRecords] BY <2>3, <2>4 DEF TypeInv, TypeOK
    <2> QED BY <1>2, <2>1, <2>5
            DEF TypeInv, TypeOK, AbortStep, AbortNotified, AbortReturns, control,
                queues, session, history, bounds
  <1> QED BY <1>1, <1>2

LEMMA StructType ==
  ASSUME TypeInv, NEW s \in Structs,
         Compact(s) \/ Navigate(s) \/ StructStep(s) \/ CompactStartFault(s)
  PROVE  TypeInv'
  <1> USE DEF Structural
  <1>1. RunsHold'
    BY DEF TypeInv, RunsHold, Compact, Navigate, StructStep, CompactStartFault,
           CompactStarted, Compacted, CompactFailed, Navigated, NavigateCancelled
  <1>2. CASE Compact(s) \/ Navigate(s)
    BY <1>1, <1>2 DEF TypeInv, TypeOK, Compact, Navigate, Phases, queues, session, history
  <1>3. CASE CompactStarted(s) \/ CompactFailed(s) \/ NavigateCancelled(s)
    BY <1>1, <1>3 DEF TypeInv, TypeOK, CompactStarted, CompactFailed, NavigateCancelled,
                      Phases, queues, session, history
  <1>4. CASE CompactStartFault(s)
    BY <1>1, <1>4, ConstantsAssumption
       DEF TypeInv, TypeOK, CompactStartFault, Fault, queues, session, history
  <1>5. CASE Compacted(s)
    <2>1. Compaction \in Entries BY DEF Entries
    <2>2. branch' \in Seq(Entries) BY <1>5, <2>1 DEF TypeInv, TypeOK, Compacted
    <2> QED BY <1>1, <1>5, <2>2
            DEF TypeInv, TypeOK, Compacted, Phases, queues, history
  <1>6. ASSUME NEW k \in 0..Len(branch), NEW summarize \in BOOLEAN,
               Navigated(s, k, summarize)
        PROVE  TypeInv'
    <2>1. branch \in Seq(Entries) /\ BranchSummary \in Entries
      BY DEF TypeInv, TypeOK, Entries
    <2>2. SubSeq(branch, 1, k) \in Seq(Entries) BY <2>1
    <2>3. (IF summarize THEN <<BranchSummary>> ELSE <<>>) \in Seq(Entries) BY <2>1
    <2>4. branch' \in Seq(Entries) BY <1>6, <2>2, <2>3 DEF Navigated
    <2> QED BY <1>1, <1>6, <2>4
            DEF TypeInv, TypeOK, Navigated, Phases, queues, history
  <1> QED BY <1>2, <1>3, <1>4, <1>5, <1>6 DEF StructStep

-----------------------------------------------------------------------------
(***************************************************************************)
(* Type correctness.                                                       *)
(***************************************************************************)

LEMMA InitTypeInv == Init => TypeInv
  <1> SUFFICES ASSUME Init PROVE TypeInv OBVIOUS
  <1>1. NewRun \in RunRecords
    BY DEF NewRun, RunRecords, PCs, NoQueue, Origins, Tails, Phases
  <1>2. \A r : Holds(r, NewRun) BY DEF Holds, NewRun
  <1>3. run \in [Runs -> RunRecords] /\ RunsHold BY <1>1, <1>2 DEF Init, RunsHold
  <1>4. NoMessage \in [out : Outcomes \cup {None}, at : Nat] BY DEF NoMessage
  <1>5. abort \in [Aborts -> AbortRecords] BY DEF Init, AbortRecords
  <1>6. \A S : <<>> \in Seq(S) OBVIOUS
  <1>7. stored \in [Messages \cup Runs \cup Writes -> 0..2] BY DEF Init
  <1>8. 0 \in 0..MaxReplies /\ 0 \in 0..MaxFaults BY ConstantsAssumption
  <1>9. TypeOK BY <1>3, <1>4, <1>5, <1>6, <1>7, <1>8 DEF Init, TypeOK, Phases
  <1> QED BY <1>3, <1>9 DEF TypeInv

LEMMA NextTypeInv == TypeInv /\ [Next]_vars => TypeInv'
  <1> SUFFICES ASSUME TypeInv, [Next]_vars PROVE TypeInv' OBVIOUS
  <1>1. ASSUME NEW r \in Runs, \E rearm \in BOOLEAN : Prompt(r, rearm)
        PROVE  TypeInv'
    BY <1>1, PromptType
  <1>2. ASSUME NEW r \in Runs, RunStep(r) PROVE TypeInv'
    BY <1>2, TakeNextTurnType, NextTurnEmittedType, StartPassType, InjectMessageType,
       DrainType, LoopMoveType, RespondType, ToolsDoneType, AgentEndType,
       FlushWriteType, LoopFaultType, ReportFailureType, OuterFaultType, PostRunType,
       AutoCompactType
       DEF RunStep
  <1>3. ASSUME NEW r \in Runs, RunFault(r) PROVE TypeInv'
    BY <1>3, OuterFaultType, EmitNextFaultType, LoopFaultType, EmitDrainFaultType,
       AutoCompactType
       DEF RunFault
  <1>4. CASE (\E m \in Messages : Steer(m) \/ FollowUp(m) \/ NextTurn(m)) \/ ClearQueue
    BY <1>4, QueueType
  <1>5. CASE \E w \in Writes : Set(w) \/ SetSaved(w) \/ SetRejected(w) BY <1>5, SetType
  <1>6. CASE \E a \in Aborts : Abort(a) \/ AbortStep(a) BY <1>6, AbortType
  <1>7. CASE \E s \in Structs :
               Compact(s) \/ Navigate(s) \/ StructStep(s) \/ CompactStartFault(s)
    BY <1>7, StructType
  <1>8. CASE UNCHANGED vars
    BY <1>8 DEF TypeInv, TypeOK, RunsHold, vars, others, control, queues, session,
                calls, history, bounds
  <1> QED BY <1>1, <1>2, <1>3, <1>4, <1>5, <1>6, <1>7, <1>8 DEF Next, Rest

\* Every variable of the harness keeps its type, whatever its callers do, in
\* sequential and in overlapping use.
THEOREM TypeCorrect == Spec => []TypeOK
  <1>1. TypeInv => TypeOK BY DEF TypeInv
  <1> QED BY <1>1, InitTypeInv, NextTypeInv, PTL DEF Spec

-----------------------------------------------------------------------------
(***************************************************************************)
(* Conservation: a message is in exactly one place from the call that      *)
(* queues it on.  Every action leaves all messages where they are, or      *)
(* moves some of them to one place.  That a message is taken out of the    *)
(* place it leaves needs each queue to hold it once; that a run overwrites *)
(* no messages when it takes some needs its hands to be empty then.        *)
(***************************************************************************)

\* A run holds messages at these awaits only, each once, and it knows which
\* queue they came from.
HoldingPCs == {"emitNext", "hook", "prompts", "emitDrain", "inject"}

Carries(rec) ==
  /\ IsInjective(rec.msgs)
  /\ rec.pc \notin HoldingPCs => rec.msgs = <<>>
  /\ rec.pc \in {"emitNext", "hook", "prompts"} => rec.origin.queue = "nextTurn"
  /\ rec.pc \in {"emitDrain", "inject"} => rec.origin.queue \in {"steer", "followUp"}

Once ==
  /\ IsInjective(steerQueue) /\ IsInjective(followUpQueue) /\ IsInjective(nextTurnQueue)
  /\ \A r \in Runs : Carries(run[r])

Placed ==
  \A m \in Messages :
    IF m \in sent THEN \E p : Whereabouts(m) = {p} ELSE Whereabouts(m) = {}

StoredOnce == \A m \in Messages : stored[m] <= 1

LostByFault == \A m \in Messages : m \in lost => faults > 0

MessagesInv == TypeInv /\ Once /\ Placed /\ StoredOnce /\ LostByFault

\* Sequences that hold each element once.
LEMMA EmptyOnce == IsInjective(<<>>) /\ Range(<<>>) = {}
  BY DEF IsInjective, Range

LEMMA AppendOnce ==
  ASSUME NEW S, NEW s \in Seq(S), NEW x \in S, IsInjective(s), x \notin Range(s)
  PROVE  IsInjective(Append(s, x)) /\ Range(Append(s, x)) = Range(s) \cup {x}
  <1> DEFINE t == Append(s, x)
  <1>1. /\ DOMAIN t = 1..Len(s) + 1 /\ DOMAIN s = 1..Len(s) /\ Len(s) \in Nat
        /\ t[Len(s) + 1] = x /\ \A i \in 1..Len(s) : t[i] = s[i]
    OBVIOUS
  <1> HIDE DEF t
  <1>2. Range(t) = Range(s) \cup {x}
    <2>1. Range(t) \subseteq Range(s) \cup {x} BY <1>1 DEF Range
    <2>2. Range(s) \subseteq Range(t) /\ x \in Range(t) BY <1>1 DEF Range
    <2> QED BY <2>1, <2>2
  <1>3. ASSUME NEW i \in DOMAIN t, NEW j \in DOMAIN t, t[i] = t[j] PROVE i = j
    <2>1. \A k \in 1..Len(s) : t[k] # x BY <1>1 DEF Range
    <2>2. (i \in 1..Len(s) \/ i = Len(s) + 1) /\ (j \in 1..Len(s) \/ j = Len(s) + 1)
      BY <1>1
    <2>3. CASE i \in 1..Len(s) /\ j \in 1..Len(s) BY <1>1, <1>3, <2>3 DEF IsInjective
    <2>4. CASE i = Len(s) + 1 \/ j = Len(s) + 1 BY <1>1, <1>3, <2>1, <2>2, <2>4
    <2> QED BY <2>2, <2>3, <2>4
  <1> QED BY <1>2, <1>3 DEF IsInjective, t

LEMMA SplitOnce ==
  ASSUME NEW S, NEW s \in Seq(S), IsInjective(s), NEW n \in 0..Len(s)
  PROVE  LET t == SubSeq(s, 1, n)
             u == SubSeq(s, n + 1, Len(s))
         IN /\ t \in Seq(S) /\ u \in Seq(S)
            /\ IsInjective(t) /\ IsInjective(u)
            /\ Range(s) = Range(t) \cup Range(u) /\ Range(t) \cap Range(u) = {}
  <1> DEFINE t == SubSeq(s, 1, n)
             u == SubSeq(s, n + 1, Len(s))
  <1>1. /\ t \in Seq(S) /\ DOMAIN t = 1..n /\ \A i \in 1..n : t[i] = s[i]
        /\ DOMAIN s = 1..Len(s) /\ Len(s) \in Nat /\ n \in Nat
    OBVIOUS
  <1>2. /\ u \in Seq(S) /\ DOMAIN u = 1..Len(s) - n
        /\ \A i \in 1..Len(s) - n : u[i] = s[n + i]
    OBVIOUS
  <1> HIDE DEF t, u
  <1>3. IsInjective(t) BY <1>1 DEF IsInjective
  <1>4. IsInjective(u)
    <2>1. ASSUME NEW i \in DOMAIN u, NEW j \in DOMAIN u, u[i] = u[j] PROVE i = j
      <3>1. n + i \in DOMAIN s /\ n + j \in DOMAIN s /\ s[n + i] = s[n + j]
        BY <1>1, <1>2, <2>1
      <3>2. n + i = n + j BY <3>1 DEF IsInjective
      <3> QED BY <1>1, <1>2, <3>2
    <2> QED BY <2>1 DEF IsInjective
  <1>5. Range(t) \subseteq Range(s) /\ Range(u) \subseteq Range(s)
    <2>1. \A i \in DOMAIN t : i \in DOMAIN s /\ t[i] = s[i] BY <1>1
    <2>2. \A i \in DOMAIN u : n + i \in DOMAIN s /\ u[i] = s[n + i] BY <1>1, <1>2
    <2> QED BY <2>1, <2>2 DEF Range
  <1>6. Range(s) \subseteq Range(t) \cup Range(u)
    <2>1. ASSUME NEW i \in 1..Len(s) PROVE s[i] \in Range(t) \cup Range(u)
      <3>1. CASE i <= n BY <1>1, <3>1 DEF Range
      <3>2. CASE i > n
        <4>1. i - n \in 1..Len(s) - n /\ n + (i - n) = i BY <1>1, <3>2
        <4> QED BY <1>2, <4>1 DEF Range
      <3> QED BY <1>1, <3>1, <3>2
    <2> QED BY <1>1, <2>1 DEF Range
  <1>7. Range(t) \cap Range(u) = {}
    <2> SUFFICES ASSUME NEW i \in 1..n, NEW j \in 1..Len(s) - n, t[i] = u[j] PROVE FALSE
      BY <1>1, <1>2 DEF Range
    <2>1. i \in DOMAIN s /\ n + j \in DOMAIN s /\ s[i] = s[n + j] /\ i # n + j
      BY <1>1, <1>2
    <2> QED BY <2>1 DEF IsInjective
  <1> QED BY <1>1, <1>2, <1>3, <1>4, <1>5, <1>6, <1>7 DEF t, u

LEMMA HeadOnce ==
  ASSUME NEW S, NEW s \in Seq(S), s # <<>>, IsInjective(s)
  PROVE  /\ IsInjective(Tail(s)) /\ Head(s) \notin Range(Tail(s))
         /\ Range(s) = Range(Tail(s)) \cup {Head(s)}
  <1> DEFINE t == Tail(s)
  <1>1. /\ DOMAIN s = 1..Len(s) /\ Len(s) \in Nat \ {0} /\ Head(s) = s[1]
        /\ DOMAIN t = 1..Len(s) - 1 /\ \A i \in 1..Len(s) - 1 : t[i] = s[i + 1]
    OBVIOUS
  <1> HIDE DEF t
  <1>2. IsInjective(t) BY <1>1 DEF IsInjective
  <1>3. Head(s) \notin Range(t)
    <2> SUFFICES ASSUME NEW i \in 1..Len(s) - 1, t[i] = s[1] PROVE FALSE
      BY <1>1 DEF Range
    <2>1. i + 1 \in DOMAIN s /\ 1 \in DOMAIN s /\ s[i + 1] = s[1] /\ i + 1 # 1 BY <1>1
    <2> QED BY <2>1 DEF IsInjective
  <1>4. Range(t) \cup {Head(s)} \subseteq Range(s) BY <1>1 DEF Range
  <1>5. Range(s) \subseteq Range(t) \cup {Head(s)}
    <2>1. ASSUME NEW i \in 1..Len(s) PROVE s[i] \in Range(t) \cup {Head(s)}
      <3>1. CASE i = 1 BY <1>1, <3>1
      <3>2. CASE i # 1
        <4>1. i - 1 \in 1..Len(s) - 1 /\ (i - 1) + 1 = i BY <1>1, <3>2
        <4> QED BY <1>1, <4>1 DEF Range
      <3> QED BY <3>1, <3>2
    <2> QED BY <1>1, <2>1 DEF Range
  <1> QED BY <1>2, <1>3, <1>4, <1>5 DEF t

LEMMA ConcatOnce ==
  ASSUME NEW S, NEW s \in Seq(S), NEW t \in Seq(S), IsInjective(s), IsInjective(t),
         Range(s) \cap Range(t) = {}
  PROVE  IsInjective(s \o t) /\ Range(s \o t) = Range(s) \cup Range(t)
  <1> DEFINE u == s \o t
  <1>1. /\ DOMAIN s = 1..Len(s) /\ DOMAIN t = 1..Len(t) /\ Len(s) \in Nat /\ Len(t) \in Nat
        /\ DOMAIN u = 1..Len(s) + Len(t)
        /\ \A i \in 1..Len(s) : u[i] = s[i]
        /\ \A i \in 1..Len(t) : u[Len(s) + i] = t[i]
    OBVIOUS
  <1> HIDE DEF u
  <1>2. \A i \in DOMAIN u : i \in 1..Len(s) \/ \E k \in 1..Len(t) : i = Len(s) + k
    <2>1. ASSUME NEW i \in DOMAIN u, i \notin 1..Len(s)
          PROVE  i - Len(s) \in 1..Len(t) /\ i = Len(s) + (i - Len(s))
      BY <1>1, <2>1
    <2> QED BY <2>1
  <1>3. Range(u) \subseteq Range(s) \cup Range(t)
    <2>1. ASSUME NEW i \in DOMAIN u PROVE u[i] \in Range(s) \cup Range(t)
      <3>1. CASE i \in 1..Len(s) BY <1>1, <3>1 DEF Range
      <3>2. ASSUME NEW k \in 1..Len(t), i = Len(s) + k PROVE u[i] \in Range(t)
        BY <1>1, <3>2 DEF Range
      <3> QED BY <1>2, <3>1, <3>2
    <2> QED BY <2>1 DEF Range
  <1>4. Range(s) \cup Range(t) \subseteq Range(u)
    <2>1. \A i \in 1..Len(s) : i \in DOMAIN u BY <1>1
    <2>2. \A i \in 1..Len(t) : Len(s) + i \in DOMAIN u BY <1>1
    <2> QED BY <1>1, <2>1, <2>2 DEF Range
  <1>5. ASSUME NEW i \in DOMAIN u, NEW j \in DOMAIN u, u[i] = u[j] PROVE i = j
    <2>1. CASE i \in 1..Len(s) /\ j \in 1..Len(s) BY <1>1, <1>5, <2>1 DEF IsInjective
    <2>2. ASSUME NEW k \in 1..Len(t), NEW l \in 1..Len(t), i = Len(s) + k, j = Len(s) + l
          PROVE  i = j
      BY <1>1, <1>5, <2>2 DEF IsInjective
    <2>3. ASSUME NEW k \in 1..Len(s), NEW l \in 1..Len(t), u[k] = u[Len(s) + l]
          PROVE  FALSE
      BY <1>1, <2>3 DEF Range
    <2> QED BY <1>2, <1>5, <2>1, <2>2, <2>3
  <1> QED BY <1>3, <1>4, <1>5 DEF IsInjective, u

\* A message is in one place at most, and in one as soon as it was sent.
LEMMA OnlyPlace ==
  ASSUME Placed, NEW m \in Messages
  PROVE  /\ \A c, d \in Containers : IsIn(m, c) /\ IsIn(m, d) => c = d
         /\ \A c \in Containers, r \in Runs : ~(IsIn(m, c) /\ IsHeld(m, r))
         /\ \A r, s \in Runs : IsHeld(m, r) /\ IsHeld(m, s) => r = s
         /\ \A c \in Containers : IsIn(m, c) => m \in sent
         /\ \A r \in Runs : IsHeld(m, r) => m \in sent
  <1>1. \A c \in Containers : IsIn(m, c) => <<"harness", c>> \in Whereabouts(m)
    BY DEF Whereabouts
  <1>2. \A r \in Runs : IsHeld(m, r) => <<"run", r>> \in Whereabouts(m)
    BY DEF Whereabouts
  <1>3. m \notin sent => Whereabouts(m) = {} BY DEF Placed
  <1>4. \A p, q \in Whereabouts(m) : p = q BY DEF Placed
  <1>5. \A c, d : <<"harness", c>> = <<"harness", d>> => c = d OBVIOUS
  <1>6. \A r, s : <<"run", r>> = <<"run", s>> => r = s OBVIOUS
  <1>7. \A c, r : <<"harness", c>> # <<"run", r>> OBVIOUS
  <1> QED BY <1>1, <1>2, <1>3, <1>4, <1>5, <1>6, <1>7

\* The messages of M go into the container c, wherever they were.
LEMMA ToContainer ==
  ASSUME Placed, NEW M \in SUBSET Messages, NEW c \in Containers, sent' = sent \cup M,
         \A m \in Messages :
           /\ \A d \in Containers : IsIn(m, d)' <=> IF m \in M THEN d = c ELSE IsIn(m, d)
           /\ \A r \in Runs : IsHeld(m, r)' <=> m \notin M /\ IsHeld(m, r)
  PROVE  Placed'
  <1>1. ASSUME NEW m \in M PROVE Whereabouts(m)' = {<<"harness", c>>}
    <2>1. \A d \in Containers : IsIn(m, d)' <=> d = c BY <1>1
    <2>2. \A r \in Runs : ~IsHeld(m, r)' BY <1>1
    <2> QED BY <2>1, <2>2 DEF Whereabouts
  <1>2. ASSUME NEW m \in Messages \ M PROVE Whereabouts(m)' = Whereabouts(m)
    <2>1. \A d \in Containers : IsIn(m, d)' <=> IsIn(m, d) BY <1>2
    <2>2. \A r \in Runs : IsHeld(m, r)' <=> IsHeld(m, r) BY <1>2
    <2> QED BY <2>1, <2>2 DEF Whereabouts
  <1>3. ASSUME NEW m \in Messages
        PROVE  IF m \in sent' THEN \E p : Whereabouts(m)' = {p} ELSE Whereabouts(m)' = {}
    BY <1>1, <1>2 DEF Placed
  <1> QED BY <1>3 DEF Placed

\* The messages of M go to the run r.
LEMMA ToRun ==
  ASSUME Placed, NEW M \in SUBSET Messages, NEW r \in Runs, sent' = sent, M \subseteq sent,
         \A m \in Messages :
           /\ \A d \in Containers : IsIn(m, d)' <=> m \notin M /\ IsIn(m, d)
           /\ \A s \in Runs : IsHeld(m, s)' <=> IF m \in M THEN s = r ELSE IsHeld(m, s)
  PROVE  Placed'
  <1>1. ASSUME NEW m \in M PROVE Whereabouts(m)' = {<<"run", r>>}
    <2>1. \A d \in Containers : ~IsIn(m, d)' BY <1>1
    <2>2. \A s \in Runs : IsHeld(m, s)' <=> s = r BY <1>1
    <2> QED BY <2>1, <2>2 DEF Whereabouts
  <1>2. ASSUME NEW m \in Messages \ M PROVE Whereabouts(m)' = Whereabouts(m)
    <2>1. \A d \in Containers : IsIn(m, d)' <=> IsIn(m, d) BY <1>2
    <2>2. \A s \in Runs : IsHeld(m, s)' <=> IsHeld(m, s) BY <1>2
    <2> QED BY <2>1, <2>2 DEF Whereabouts
  <1>3. ASSUME NEW m \in Messages
        PROVE  IF m \in sent' THEN \E p : Whereabouts(m)' = {p} ELSE Whereabouts(m)' = {}
    BY <1>1, <1>2 DEF Placed
  <1> QED BY <1>3 DEF Placed

\* Nothing that holds messages changes.
StaysPut ==
  /\ UNCHANGED <<steerQueue, followUpQueue, nextTurnQueue, history>>
  /\ \A m \in Messages : stored'[m] = stored[m]
  /\ \A r \in Runs :
       /\ run'[r].msgs = run[r].msgs /\ Carries(run'[r])
       /\ run[r].msgs # <<>> => run'[r].origin = run[r].origin
  /\ faults' >= faults

LEMMA Stay ==
  ASSUME MessagesInv, TypeInv', StaysPut
  PROVE  MessagesInv'
  <1>1. ASSUME NEW m \in Messages PROVE Whereabouts(m)' = Whereabouts(m)
    <2>1. \A d \in Containers : IsIn(m, d)' <=> IsIn(m, d) BY DEF IsIn, history, StaysPut
    <2>2. \A s \in Runs : IsHeld(m, s)' <=> IsHeld(m, s) BY DEF IsHeld, StaysPut
    <2> QED BY <2>1, <2>2 DEF Whereabouts
  <1>2. ASSUME NEW m \in Messages
        PROVE  IF m \in sent' THEN \E p : Whereabouts(m)' = {p} ELSE Whereabouts(m)' = {}
    BY <1>1 DEF MessagesInv, Placed, history, StaysPut
  <1>3. Placed' BY <1>2 DEF Placed
  <1>4. Once' BY DEF MessagesInv, Once, Carries, StaysPut
  <1>5. StoredOnce' BY DEF MessagesInv, StoredOnce, StaysPut
  <1>6. LostByFault'
    BY DEF MessagesInv, LostByFault, history, TypeInv, TypeOK, StaysPut
  <1> QED BY <1>3, <1>4, <1>5, <1>6 DEF MessagesInv

\* A run goes on with the messages it holds.
LEMMA RunStays ==
  ASSUME MessagesInv, TypeInv', NEW r \in Runs, NEW rec, Moves(r, rec),
         rec.msgs = run[r].msgs, rec.msgs # <<>> => rec.origin = run[r].origin, Carries(rec),
         UNCHANGED <<steerQueue, followUpQueue, nextTurnQueue, history>>,
         \A m \in Messages : stored'[m] = stored[m],
         faults' >= faults
  PROVE  StaysPut
  <1>1. run'[r] = rec /\ \A s \in Runs \ {r} : run'[s] = run[s]
    BY DEF MessagesInv, TypeInv, TypeOK, Moves
  <1>2. \A s \in Runs : /\ run'[s].msgs = run[s].msgs /\ Carries(run'[s])
                        /\ run[s].msgs # <<>> => run'[s].origin = run[s].origin
    BY <1>1 DEF MessagesInv, Once
  <1> QED BY <1>2 DEF StaysPut

LEMMA ArriveCarries ==
  ASSUME NEW rec \in RunRecords, NEW to, NEW b
  PROVE  Arrive(rec, to, b).msgs = rec.msgs /\ Arrive(rec, to, b).pc = to
  <1> DEFINE tail == CASE to = "prepare" -> ContextTail(b)
                       [] to = "resnap" -> RetryTail(b)
                       [] OTHER -> rec.tail
  <1>1. Arrive(rec, to, b) = [rec EXCEPT !.pc = to, !.write = None, !.tail = tail]
    BY DEF Arrive, RunRecords
  <1> HIDE DEF tail
  <1> QED BY <1>1 DEF RunRecords

LEMMA FlushingCarries ==
  ASSUME NEW rec \in RunRecords, NEW to \in FlushReturns, NEW queue, NEW b
  PROVE  /\ Flushing(rec, to, queue, b).msgs = rec.msgs
         /\ Flushing(rec, to, queue, b).pc \in {to, "flush"}
  <1>1. CASE queue = <<>> BY <1>1, ArriveCarries DEF Flushing
  <1>2. CASE queue # <<>> BY <1>2 DEF Flushing, RunRecords
  <1> QED BY <1>1, <1>2

\* A run without messages stays without.
GoesEmptyHanded(r) ==
  \E rec : Moves(r, rec) /\ rec.msgs = <<>> /\ rec.pc \notin HoldingPCs

LEMMA EmptyHanded ==
  ASSUME NEW rec, rec.msgs = <<>>, rec.pc \notin HoldingPCs
  PROVE  Carries(rec)
  BY EmptyOnce DEF Carries, HoldingPCs

LEMMA StaysEmptyHanded ==
  ASSUME MessagesInv, TypeInv', NEW r \in Runs, GoesEmptyHanded(r), run[r].msgs = <<>>,
         UNCHANGED <<steerQueue, followUpQueue, nextTurnQueue, history>>,
         \A m \in Messages : stored'[m] = stored[m],
         faults' >= faults
  PROVE  StaysPut
  BY RunStays, EmptyHanded DEF GoesEmptyHanded

\* At the other awaits a run holds no messages.
LEMMA HandsEmpty ==
  ASSUME MessagesInv, NEW r \in Runs, run[r].pc \notin HoldingPCs
  PROVE  run[r].msgs = <<>>
  BY DEF MessagesInv, Once, Carries

-----------------------------------------------------------------------------
(***************************************************************************)
(* The steps of a run that move no message.                                *)
(***************************************************************************)

LEMMA StartFlushCarries ==
  ASSUME MessagesInv, NEW r \in Runs, run[r].msgs = <<>>, NEW to \in FlushReturns,
         StartFlush(r, to)
  PROVE  GoesEmptyHanded(r)
  <1> DEFINE rec == Flushing(run[r], to, pending, branch)
  <1>1. run[r] \in RunRecords BY DEF MessagesInv, TypeInv, TypeOK
  <1>2. rec.msgs = <<>> /\ rec.pc \in {to, "flush"} BY <1>1, FlushingCarries
  <1>3. Moves(r, rec) BY DEF StartFlush
  <1> QED BY <1>2, <1>3 DEF GoesEmptyHanded, FlushReturns, HoldingPCs

LEMMA FinishCarries ==
  ASSUME MessagesInv, NEW r \in Runs, Finish(r)
  PROVE  /\ GoesEmptyHanded(r) /\ Carries(run'[r]) /\ run'[r].msgs = <<>>
         /\ \A s \in Runs \ {r} : run'[s] = run[s]
  <1> DEFINE dropped == [run[r] EXCEPT !.msgs = <<>>, !.origin = NoQueue]
             rec == Arrive(dropped, "done", branch)
  <1>1. run[r] \in RunRecords /\ run \in [Runs -> RunRecords]
    BY DEF MessagesInv, TypeInv, TypeOK
  <1>2. NoQueue \in Origins /\ <<>> \in Seq(Messages \cup Runs) BY DEF NoQueue, Origins
  <1>3. dropped \in RunRecords /\ dropped.msgs = <<>> BY <1>1, <1>2 DEF RunRecords
  <1>4. Moves(r, rec) BY DEF Finish
  <1> HIDE DEF dropped
  <1>5. rec.msgs = <<>> /\ rec.pc = "done" BY <1>3, ArriveCarries
  <1> HIDE DEF rec
  <1>6. run'[r] = rec /\ \A s \in Runs \ {r} : run'[s] = run[s] BY <1>1, <1>4 DEF Moves
  <1> QED BY <1>4, <1>5, <1>6, EmptyHanded DEF GoesEmptyHanded, HoldingPCs

LEMMA ContinueCarries ==
  ASSUME MessagesInv, NEW r \in Runs, run[r].msgs = <<>>, NEW again \in BOOLEAN, NEW b,
         ContinueOrFinish(r, again, b)
  PROVE  GoesEmptyHanded(r)
  <1>1. run[r] \in RunRecords BY DEF MessagesInv, TypeInv, TypeOK
  <1>2. CASE again
    <2> DEFINE rec == Flushing(run[r], "resnap", pending, b)
    <2>1. rec.msgs = <<>> /\ rec.pc \in {"resnap", "flush"}
      BY <1>1, FlushingCarries DEF FlushReturns
    <2>2. Moves(r, rec) BY <1>2 DEF ContinueOrFinish
    <2> QED BY <2>1, <2>2 DEF GoesEmptyHanded, HoldingPCs
  <1>3. CASE ~again BY <1>3, FinishCarries DEF ContinueOrFinish
  <1> QED BY <1>2, <1>3

\* An error that is thrown on; the run has given up its messages.
LEMMA LoopErrorCarries ==
  ASSUME MessagesInv, NEW r \in Runs, AfterLoopError(r)
  PROVE  /\ GoesEmptyHanded(r) /\ Carries(run'[r]) /\ run'[r].msgs = <<>>
         /\ \A s \in Runs \ {r} : run'[s] = run[s]
  <1> DEFINE rec == [run[r] EXCEPT !.msgs = <<>>, !.write = None, !.origin = NoQueue]
  <1>1. run[r] \in RunRecords /\ run \in [Runs -> RunRecords]
    BY DEF MessagesInv, TypeInv, TypeOK
  <1>2. NoQueue \in Origins /\ <<>> \in Seq(Messages \cup Runs) BY DEF NoQueue, Origins
  <1>3. rec \in RunRecords /\ rec.msgs = <<>> BY <1>1, <1>2 DEF RunRecords
  <1>4. Moves(r, Flushing(rec, "rejected", pending, branch)) \/ Moves(r, [rec EXCEPT !.pc = "fail"])
    BY DEF AfterLoopError
  <1> HIDE DEF rec
  <1>5. PICK new : new \in {Flushing(rec, "rejected", pending, branch), [rec EXCEPT !.pc = "fail"]}
                   /\ Moves(r, new)
    BY <1>4
  <1>6. new.msgs = <<>> /\ new.pc \in {"rejected", "flush", "fail"}
    <2>1. "rejected" \in FlushReturns BY DEF FlushReturns
    <2>2. CASE new = Flushing(rec, "rejected", pending, branch)
      BY <1>3, <2>1, <2>2, FlushingCarries
    <2>3. CASE new = [rec EXCEPT !.pc = "fail"] BY <1>3, <2>3 DEF RunRecords
    <2> QED BY <1>5, <2>2, <2>3
  <1>7. run'[r] = new /\ \A s \in Runs \ {r} : run'[s] = run[s] BY <1>1, <1>5 DEF Moves
  <1> QED BY <1>5, <1>6, <1>7, EmptyHanded DEF GoesEmptyHanded, HoldingPCs

LEMMA PromptStays ==
  ASSUME MessagesInv, TypeInv', NEW r \in Runs, NEW rearm \in BOOLEAN, Prompt(r, rearm)
  PROVE  StaysPut
  <1>1. run[r].msgs = <<>> /\ run[r] \in RunRecords
    BY HandsEmpty DEF MessagesInv, TypeInv, TypeOK, Prompt, HoldingPCs
  <1>2. GoesEmptyHanded(r)
    <2> DEFINE rec == [run[r] EXCEPT !.pc = "snapshot", !.tail = ContextTail(branch)]
    <2>1. rec.msgs = <<>> /\ rec.pc = "snapshot" BY <1>1 DEF RunRecords
    <2>2. Moves(r, rec) BY DEF Prompt
    <2> QED BY <2>1, <2>2 DEF GoesEmptyHanded, HoldingPCs
  <1>3. faults' >= faults BY DEF Prompt, bounds, MessagesInv, TypeInv, TypeOK
  <1> QED BY <1>1, <1>2, <1>3, StaysEmptyHanded DEF Prompt, queues, session

\* The awaits before and after the messages are injected.
LEMMA HoldStays ==
  ASSUME MessagesInv, TypeInv', NEW r \in Runs,
         NextTurnEmitted(r) \/ StartFirstPass(r) \/ DrainEmitted(r)
  PROVE  StaysPut
  <1>1. run[r] \in RunRecords /\ Carries(run[r])
    BY DEF MessagesInv, TypeInv, TypeOK, Once
  <1>2. PICK rec \in {[run[r] EXCEPT !.pc = "hook"], NewPass(run[r], "prompts"),
                      [run[r] EXCEPT !.pc = "inject"]} : Moves(r, rec)
    BY DEF NextTurnEmitted, StartFirstPass, DrainEmitted
  <1>3. /\ rec.msgs = run[r].msgs /\ rec.origin = run[r].origin
        /\ rec.pc \in {"hook", "prompts", "inject"}
    BY <1>1, <1>2 DEF NewPass, RunRecords
  <1>6. rec.pc = "inject" <=> run[r].pc = "emitDrain"
    <2>1. run'[r] = rec BY <1>2 DEF Moves, MessagesInv, TypeInv, TypeOK
    <2>2. CASE NextTurnEmitted(r)
      BY <1>1, <2>1, <2>2 DEF NextTurnEmitted, Moves, MessagesInv, TypeInv, TypeOK, RunRecords
    <2>3. CASE StartFirstPass(r)
      BY <1>1, <2>1, <2>3, ZenonT(40)
         DEF StartFirstPass, NewPass, Moves, MessagesInv, TypeInv, TypeOK, RunRecords
    <2>4. CASE DrainEmitted(r)
      BY <1>1, <2>1, <2>4 DEF DrainEmitted, Moves, MessagesInv, TypeInv, TypeOK, RunRecords
    <2> QED BY <2>2, <2>3, <2>4
  <1>7. run[r].pc \in {"emitNext", "hook", "emitDrain"}
    BY DEF NextTurnEmitted, StartFirstPass, DrainEmitted
  <1>4. Carries(rec) BY <1>1, <1>3, <1>6, <1>7 DEF Carries, HoldingPCs
  <1>5. /\ UNCHANGED <<steerQueue, followUpQueue, nextTurnQueue, history, stored, faults>>
        /\ faults \in Nat
    BY SMTT(30) DEF NextTurnEmitted, StartFirstPass, DrainEmitted, others, queues, session,
           bounds, MessagesInv, TypeInv, TypeOK
  <1> QED BY <1>2, <1>3, <1>4, <1>5, RunStays

LEMMA LoopStays ==
  ASSUME MessagesInv, TypeInv', NEW r \in Runs,
         \/ StartNextPass(r) \/ NoSteering(r) \/ NoFollowUps(r) \/ TurnEnd(r)
         \/ SavePoint(r) \/ PrepareNextTurn(r) \/ AgentEnd(r) \/ Settle(r)
  PROVE  StaysPut
  <1>1. run[r].msgs = <<>> /\ run[r] \in RunRecords
    BY HandsEmpty DEF MessagesInv, TypeInv, TypeOK, HoldingPCs, StartNextPass,
       NoSteering, NoFollowUps, TurnEnd, SavePoint, PrepareNextTurn, AgentEnd, Settle
  <1>2. GoesEmptyHanded(r)
    <2>1. CASE StartNextPass(r)
      <3>1. NewPass(run[r], "steer").msgs = <<>> /\ NewPass(run[r], "steer").pc = "steer"
        BY <1>1 DEF NewPass, RunRecords
      <3> QED BY <2>1, <3>1 DEF StartNextPass, GoesEmptyHanded, HoldingPCs
    <2>2. CASE NoSteering(r)
      <3>1. PICK pc \in {"request", "follow"} : Moves(r, [run[r] EXCEPT !.pc = pc])
        BY <2>2 DEF NoSteering
      <3>2. [run[r] EXCEPT !.pc = pc].msgs = <<>> /\ [run[r] EXCEPT !.pc = pc].pc = pc
        BY <1>1 DEF RunRecords
      <3> QED BY <3>1, <3>2 DEF GoesEmptyHanded, HoldingPCs
    <2>3. CASE PrepareNextTurn(r)
      BY <1>1, <2>3 DEF PrepareNextTurn, GoesEmptyHanded, RunRecords, HoldingPCs
    <2>4. CASE AgentEnd(r) BY <1>1, <2>4 DEF AgentEnd, GoesEmptyHanded, RunRecords, HoldingPCs
    <2>5. CASE NoFollowUps(r) \/ TurnEnd(r) \/ SavePoint(r) \/ Settle(r)
      <3>1. PICK to \in FlushReturns : StartFlush(r, to)
        BY <2>5 DEF NoFollowUps, TurnEnd, SavePoint, Settle, FlushReturns
      <3> QED BY <1>1, <3>1, StartFlushCarries
    <2> QED BY <2>1, <2>2, <2>3, <2>4, <2>5
  <1>3. /\ UNCHANGED <<steerQueue, followUpQueue, nextTurnQueue, history, stored, faults>>
        /\ faults \in Nat
    BY SMTT(30) DEF StartNextPass, NoSteering, NoFollowUps, TurnEnd, SavePoint, PrepareNextTurn,
           AgentEnd, Settle, others, queues, session, bounds, MessagesInv, TypeInv, TypeOK
  <1> QED BY <1>1, <1>2, <1>3, StaysEmptyHanded

LEMMA RespondStays ==
  ASSUME MessagesInv, TypeInv', NEW r \in Runs,
         (\E out \in Outcomes : Respond(r, out)) \/ ToolsDone(r) \/ ReportFailure(r)
  PROVE  StaysPut
  <1>1. run[r].msgs = <<>> /\ run[r] \in RunRecords
    BY HandsEmpty DEF MessagesInv, TypeInv, TypeOK, HoldingPCs, Respond, ToolsDone,
       ReportFailure
  <1>2. GoesEmptyHanded(r)
    <2>1. ASSUME NEW out \in Outcomes, Respond(r, out) PROVE GoesEmptyHanded(r)
      <3> DEFINE rec == [run[r] EXCEPT
                   !.tail = out,
                   !.more = FALSE,
                   !.retry = FALSE,
                   !.final = out \in {"error", "overflow", "aborted"},
                   !.streak = IF Fits(out) THEN 0 ELSE @,
                   !.silent = (@ \/ out = "silent") /\ ~Fits(out)]
      <3>1. Moves(r, NextAwait(rec, out, branch')) BY <2>1 DEF Respond
      <3>2. NextAwait(rec, out, branch').msgs = <<>>
              /\ NextAwait(rec, out, branch').pc \in {"tools", "turnEnd"}
        BY <1>1 DEF NextAwait, RunRecords
      <3> QED BY <3>1, <3>2 DEF GoesEmptyHanded, HoldingPCs
    <2>2. CASE ToolsDone(r)
      <3>1. PICK more \in BOOLEAN :
              Moves(r, [run[r] EXCEPT !.more = more, !.tail = "toolResult", !.pc = "turnEnd"])
        BY <2>2 DEF ToolsDone
      <3> DEFINE rec == [run[r] EXCEPT !.more = more, !.tail = "toolResult", !.pc = "turnEnd"]
      <3>2. rec.msgs = <<>> /\ rec.pc = "turnEnd" BY <1>1 DEF RunRecords
      <3>3. Moves(r, rec) BY <3>1
      <3> QED BY <3>2, <3>3 DEF GoesEmptyHanded, HoldingPCs
    <2>3. CASE ReportFailure(r)
      <3> DEFINE out == IF run[r].signal THEN "aborted" ELSE "error"
                 rec == [run[r] EXCEPT !.tail = out, !.final = TRUE, !.failed = TRUE,
                                       !.retry = FALSE, !.streak = IF Fits(out) THEN 0 ELSE @,
                                       !.pc = "turnEnd"]
      <3>1. Moves(r, rec) BY <2>3 DEF ReportFailure
      <3>2. rec.msgs = <<>> /\ rec.pc = "turnEnd" BY <1>1 DEF RunRecords
      <3> QED BY <3>1, <3>2 DEF GoesEmptyHanded, HoldingPCs
    <2> QED BY <2>1, <2>2, <2>3
  <1>3. UNCHANGED <<steerQueue, followUpQueue, nextTurnQueue, history, stored, faults>>
    <2>1. CASE \E out \in Outcomes : Respond(r, out)
      BY <2>1 DEF Respond, SaveAssistant, queues
    <2>2. CASE ToolsDone(r) BY <2>2 DEF ToolsDone, queues, bounds
    <2>3. CASE ReportFailure(r) BY <2>3 DEF ReportFailure, SaveAssistant, queues, bounds
    <2> QED BY <2>1, <2>2, <2>3
  <1>4. faults \in Nat BY DEF MessagesInv, TypeInv, TypeOK
  <1> QED BY <1>1, <1>2, <1>3, <1>4, StaysEmptyHanded

\* Writes are no messages.
LEMMA StoringWrites ==
  ASSUME MessagesInv, NEW w \in Writes, stored' = Stored(w)
  PROVE  \A m \in Messages : stored'[m] = stored[m]
  BY ConstantsAssumption DEF Stored, MessagesInv, TypeInv, TypeOK

LEMMA FlushWriteStays ==
  ASSUME MessagesInv, TypeInv', NEW r \in Runs, FlushWrite(r)
  PROVE  StaysPut
  <1>1. run[r].msgs = <<>> /\ run[r] \in RunRecords /\ Holds(r, run[r])
    BY HandsEmpty DEF MessagesInv, TypeInv, TypeOK, RunsHold, FlushWrite, HoldingPCs
  <1>2. run[r].write \in Writes /\ run[r].ret \in FlushReturns
    BY <1>1 DEF Holds, FlushWrite
  <1>3. GoesEmptyHanded(r)
    <2> DEFINE rec == Flushing(run[r], run[r].ret, Shifted(pending), branch')
    <2>1. rec.msgs = <<>> /\ rec.pc \in {run[r].ret, "flush"} BY <1>1, <1>2, FlushingCarries
    <2>2. Moves(r, rec) BY DEF FlushWrite
    <2> QED BY <1>2, <2>1, <2>2 DEF GoesEmptyHanded, FlushReturns, HoldingPCs
  <1>4. \A m \in Messages : stored'[m] = stored[m] BY <1>2, StoringWrites DEF FlushWrite
  <1>5. /\ UNCHANGED <<steerQueue, followUpQueue, nextTurnQueue, history, faults>>
        /\ faults \in Nat
    BY DEF FlushWrite, queues, bounds, MessagesInv, TypeInv, TypeOK
  <1> QED BY <1>1, <1>3, <1>4, <1>5, StaysEmptyHanded

LEMMA ErrorStays ==
  ASSUME MessagesInv, TypeInv', NEW r \in Runs,
         TurnEndFault(r) \/ TurnEndThrew(r) \/ Rejected(r)
  PROVE  StaysPut
  <1>1. run[r].msgs = <<>>
    BY HandsEmpty DEF TurnEndFault, TurnEndThrew, Rejected, HoldingPCs
  <1>2. GoesEmptyHanded(r)
    BY <1>1, StartFlushCarries, LoopErrorCarries, FinishCarries
       DEF TurnEndFault, TurnEndThrew, Rejected, Reject, FlushReturns
  <1>3. /\ UNCHANGED <<steerQueue, followUpQueue, nextTurnQueue, history, stored>>
        /\ faults' >= faults
    BY SMTT(30) DEF TurnEndFault, TurnEndThrew, Rejected, Fault, others, queues, session, bounds,
           MessagesInv, TypeInv, TypeOK
  <1> QED BY <1>1, <1>2, <1>3, StaysEmptyHanded

LEMMA PostRunStays ==
  ASSUME MessagesInv, TypeInv', NEW r \in Runs,
         \/ PostRun(r) \/ PostRunLeft(r) \/ PostRunOverflow(r) \/ PostRunThreshold(r)
         \/ GiveUp(r)
         \/ AutoCompactStarted(r) \/ AutoCompacted(r) \/ AutoCompactThrew(r)
         \/ AutoCompactSkipped(r)
  PROVE  StaysPut
  <1>1. run[r].msgs = <<>> /\ run[r] \in RunRecords
    BY HandsEmpty DEF MessagesInv, TypeInv, TypeOK, HoldingPCs, PostRun, PostRunLeft,
       PostRunOverflow, PostRunThreshold, GiveUp, AutoCompactStarted, AutoCompacted,
       AutoCompactThrew, AutoCompactSkipped
  <1>2. GoesEmptyHanded(r)
    <2>1. CASE PostRunOverflow(r) \/ PostRunThreshold(r) \/ AutoCompactStarted(r)
      <3> DEFINE recs == {[run[r] EXCEPT !.pc = "giveUp"],
                          [run[r] EXCEPT !.pc = "compactStart", !.retry = TRUE,
                                         !.streak = @ + 1],
                          [run[r] EXCEPT !.pc = "compactStart", !.retry = FALSE,
                                         !.silent = @ \/ lastAssistant.out = "overflow"],
                          [run[r] EXCEPT !.pc = "compacting", !.prev = phase]}
      <3>1. PICK rec \in recs : Moves(r, rec)
        BY <2>1 DEF PostRunOverflow, PostRunThreshold, AutoCompactStarted
      <3>2. rec.msgs = <<>> /\ rec.pc \in {"giveUp", "compactStart", "compacting"}
        BY <1>1, <3>1 DEF RunRecords
      <3> QED BY <3>1, <3>2 DEF GoesEmptyHanded, HoldingPCs
    <2>2. CASE PostRun(r) \/ GiveUp(r) \/ AutoCompacted(r) \/ AutoCompactThrew(r)
                 \/ AutoCompactSkipped(r)
      <3>1. run[r].retry \in BOOLEAN BY <1>1 DEF RunRecords
      <3>2. \E again \in BOOLEAN, b \in {branch, branch'} : ContinueOrFinish(r, again, b)
        BY <2>2, <3>1 DEF PostRun, GiveUp, AutoCompacted, AutoCompactThrew,
                          AutoCompactSkipped, HasQueuedMessages
      <3> QED BY <1>1, <3>2, ContinueCarries
    <2>3. CASE PostRunLeft(r)
      <3> DEFINE rec == [run[r] EXCEPT !.silent = TRUE]
      <3>1. CASE Finish(r)
        BY <1>1, <3>1, FinishCarries
      <3>2. CASE Moves(r, Flushing(rec, "resnap", pending, branch))
        <4>1. rec.msgs = <<>> /\ rec \in RunRecords BY <1>1 DEF RunRecords
        <4> HIDE DEF rec
        <4> DEFINE gone == Flushing(rec, "resnap", pending, branch)
        <4>2. gone.msgs = <<>> /\ gone.pc \in {"resnap", "flush"}
          BY <4>1, FlushingCarries DEF FlushReturns
        <4> QED BY <3>2, <4>2 DEF GoesEmptyHanded, HoldingPCs
      <3> QED BY <2>3, <3>1, <3>2 DEF PostRunLeft
    <2> QED BY <2>1, <2>2, <2>3
  <1>3. UNCHANGED <<steerQueue, followUpQueue, nextTurnQueue, history, stored>>
    BY DEF PostRun, PostRunLeft, PostRunOverflow, PostRunThreshold, GiveUp,
           AutoCompactStarted, AutoCompacted, AutoCompactThrew, AutoCompactSkipped, queues, session
  <1>4. faults' = faults \/ faults' = faults + 1
    BY DEF PostRun, PostRunLeft, PostRunOverflow, PostRunThreshold, GiveUp,
           AutoCompactStarted, AutoCompacted, AutoCompactThrew, AutoCompactSkipped, Fault, bounds
  <1>5. faults' >= faults BY <1>4 DEF MessagesInv, TypeInv, TypeOK
  <1> QED BY <1>1, <1>2, <1>3, <1>5, StaysEmptyHanded

-----------------------------------------------------------------------------
(***************************************************************************)
(* The steps that move messages.                                           *)
(***************************************************************************)

\* The run r takes the messages of M out of the queue c.
LEMMA RunTakes ==
  ASSUME Placed, NEW M \in SUBSET Messages, NEW c \in Containers,
         \A m \in M : IsIn(m, c), NEW r \in Runs, run[r].msgs = <<>>, sent' = sent,
         \A m \in Messages :
           /\ \A d \in Containers \ {c} : IsIn(m, d)' <=> IsIn(m, d)
           /\ IsIn(m, c)' <=> IsIn(m, c) /\ m \notin M
           /\ \A s \in Runs \ {r} : IsHeld(m, s)' <=> IsHeld(m, s)
           /\ IsHeld(m, r)' <=> m \in M
  PROVE  Placed'
  <1>1. \A m \in Messages : ~IsHeld(m, r) BY EmptyOnce DEF IsHeld
  <1>2. M \subseteq sent BY OnlyPlace
  <1>3. ASSUME NEW m \in Messages
        PROVE  /\ \A d \in Containers : IsIn(m, d)' <=> m \notin M /\ IsIn(m, d)
               /\ \A s \in Runs : IsHeld(m, s)' <=> IF m \in M THEN s = r ELSE IsHeld(m, s)
    BY <1>1, OnlyPlace
  <1> QED BY <1>2, <1>3, ToRun

\* The messages of M go from the run r into the container c.
LEMMA RunGives ==
  ASSUME Placed, NEW M \in SUBSET Messages, NEW c \in Containers, NEW r \in Runs,
         \A m \in M : IsHeld(m, r), sent' = sent,
         \A m \in Messages :
           /\ \A d \in Containers \ {c} : IsIn(m, d)' <=> IsIn(m, d)
           /\ IsIn(m, c)' <=> IsIn(m, c) \/ m \in M
           /\ \A s \in Runs \ {r} : IsHeld(m, s)' <=> IsHeld(m, s)
           /\ IsHeld(m, r)' <=> IsHeld(m, r) /\ m \notin M
  PROVE  Placed'
  <1>1. sent' = sent \cup M BY OnlyPlace
  <1>2. ASSUME NEW m \in Messages
        PROVE  /\ \A d \in Containers : IsIn(m, d)' <=> IF m \in M THEN d = c ELSE IsIn(m, d)
               /\ \A s \in Runs : IsHeld(m, s)' <=> m \notin M /\ IsHeld(m, s)
    BY OnlyPlace
  <1> QED BY <1>1, <1>2, ToContainer

\* The record with which a run takes messages.
LEMMA TakesOnce ==
  ASSUME MessagesInv, NEW r \in Runs, NEW rec, Moves(r, rec), Carries(rec),
         IsInjective(steerQueue'), IsInjective(followUpQueue'), IsInjective(nextTurnQueue')
  PROVE  Once' /\ run'[r] = rec /\ \A s \in Runs \ {r} : run'[s] = run[s]
  <1>1. run'[r] = rec /\ \A s \in Runs \ {r} : run'[s] = run[s]
    BY DEF MessagesInv, TypeInv, TypeOK, Moves
  <1>2. \A s \in Runs : Carries(run'[s]) BY <1>1 DEF MessagesInv, Once
  <1>3. (\A s \in Runs : Carries(run[s]))' BY <1>2 DEF Carries
  <1> QED BY <1>1, <1>3 DEF Once

LEMMA TakeNextTurnMoves ==
  ASSUME MessagesInv, TypeInv', NEW r \in Runs, TakeNextTurn(r)
  PROVE  MessagesInv'
  <1> DEFINE M == Range(nextTurnQueue)
             pc == IF nextTurnQueue = <<>> THEN "hook" ELSE "emitNext"
             rec == [run[r] EXCEPT !.pc = pc, !.msgs = Append(nextTurnQueue, r),
                                   !.origin = [queue |-> "nextTurn", gen |-> 0]]
  <1>1. /\ run[r] \in RunRecords /\ nextTurnQueue \in Seq(Messages) /\ run[r].msgs = <<>>
        /\ IsInjective(nextTurnQueue)
    BY HandsEmpty DEF MessagesInv, TypeInv, TypeOK, Once, TakeNextTurn, HoldingPCs
  <1>2. M \in SUBSET Messages BY <1>1 DEF Range
  <1>3. nextTurnQueue \in Seq(Messages \cup Runs) /\ r \notin M
    BY <1>1, <1>2, ConstantsAssumption
  <1>4. /\ IsInjective(Append(nextTurnQueue, r))
        /\ Range(Append(nextTurnQueue, r)) = M \cup {r}
    BY <1>1, <1>3, AppendOnce
  <1>5. /\ rec.msgs = Append(nextTurnQueue, r) /\ rec.pc = pc
        /\ rec.origin.queue = "nextTurn"
    BY <1>1 DEF RunRecords
  <1>6. Moves(r, rec) BY DEF TakeNextTurn
  <1> HIDE DEF rec, M
  <1>7. Carries(rec) BY <1>4, <1>5 DEF Carries, HoldingPCs
  <1>8. /\ nextTurnQueue' = <<>> /\ UNCHANGED <<steerQueue, followUpQueue, stored, history, faults>>
    BY DEF TakeNextTurn, session, bounds
  <1>9. Once' /\ run'[r] = rec /\ \A s \in Runs \ {r} : run'[s] = run[s]
    BY <1>6, <1>7, <1>8, TakesOnce, EmptyOnce DEF MessagesInv, Once
  <1>10. ASSUME NEW m \in Messages
         PROVE  /\ \A d \in Containers \ {"nextTurnQueue"} : IsIn(m, d)' <=> IsIn(m, d)
                /\ IsIn(m, "nextTurnQueue")' <=> IsIn(m, "nextTurnQueue") /\ m \notin M
                /\ \A s \in Runs \ {r} : IsHeld(m, s)' <=> IsHeld(m, s)
                /\ IsHeld(m, r)' <=> m \in M
    <2>1. m # r BY ConstantsAssumption
    <2>2. \A d \in Containers \ {"nextTurnQueue"} : IsIn(m, d)' <=> IsIn(m, d)
      BY <1>8 DEF IsIn, Containers, history
    <2>3. IsIn(m, "nextTurnQueue")' <=> IsIn(m, "nextTurnQueue") /\ m \notin M
      BY <1>8, EmptyOnce DEF IsIn, M
    <2>4. \A s \in Runs \ {r} : IsHeld(m, s)' <=> IsHeld(m, s) BY <1>9 DEF IsHeld
    <2>5. IsHeld(m, r)' <=> m \in M BY <1>4, <1>5, <1>9, <2>1 DEF IsHeld
    <2> QED BY <2>2, <2>3, <2>4, <2>5
  <1>11. \A m \in M : IsIn(m, "nextTurnQueue") BY DEF IsIn, M
  <1>12. "nextTurnQueue" \in Containers BY DEF Containers
  <1>13. Placed'
    BY <1>1, <1>2, <1>8, <1>10, <1>11, <1>12, RunTakes DEF MessagesInv, history
  <1>14. StoredOnce' /\ LostByFault'
    BY <1>8 DEF MessagesInv, StoredOnce, LostByFault, history
  <1> QED BY <1>9, <1>13, <1>14 DEF MessagesInv

\* A drain takes the first messages of a queue.
LEMMA DrainMoves ==
  ASSUME MessagesInv, TypeInv', NEW r \in Runs, DrainSteering(r) \/ DrainFollowUps(r)
  PROVE  MessagesInv'
  <1>1. run[r] \in RunRecords /\ run[r].msgs = <<>>
    BY HandsEmpty DEF MessagesInv, TypeInv, TypeOK, DrainSteering, DrainFollowUps, HoldingPCs
  <1>2. ASSUME NEW queue \in Seq(Messages), queue # <<>>, IsInjective(queue),
               NEW n \in {1, Len(queue)}, NEW name \in {"steer", "followUp"},
               Drained(r, queue, name, n),
               IsInjective(SubSeq(queue, n + 1, Len(queue))) =>
                 /\ IsInjective(steerQueue') /\ IsInjective(followUpQueue')
                 /\ IsInjective(nextTurnQueue'),
               NEW c \in Containers,
               \A m \in Messages : IsIn(m, c) <=> m \in Range(queue),
               \A m \in Messages : IsIn(m, c)' <=> m \in Range(SubSeq(queue, n + 1, Len(queue))),
               \A m \in Messages, d \in Containers \ {c} : IsIn(m, d)' <=> IsIn(m, d),
               UNCHANGED <<stored, history, faults>>
        PROVE  MessagesInv'
    <2> DEFINE msgs == SubSeq(queue, 1, n)
               left == SubSeq(queue, n + 1, Len(queue))
               M == Range(msgs)
               rec == [run[r] EXCEPT !.pc = "emitDrain", !.msgs = msgs,
                                     !.origin = [queue |-> name, gen |-> queueGen]]
    <2>1. n \in 0..Len(queue) BY <1>2, Len(queue) > 0
    <2>2. /\ msgs \in Seq(Messages) /\ IsInjective(msgs) /\ IsInjective(left)
          /\ Range(queue) = Range(msgs) \cup Range(left) /\ Range(msgs) \cap Range(left) = {}
      BY <1>2, <2>1, SplitOnce
    <2>3. M \in SUBSET Messages BY <2>2 DEF Range
    <2>4. rec.msgs = msgs /\ rec.pc = "emitDrain" /\ rec.origin.queue = name
      BY <1>1 DEF RunRecords
    <2>5. Moves(r, rec) BY <1>2 DEF Drained
    <2> HIDE DEF rec, msgs, left
    <2>6. Carries(rec) BY <1>2, <2>2, <2>4 DEF Carries, HoldingPCs
    <2>7. IsInjective(left) => /\ IsInjective(steerQueue') /\ IsInjective(followUpQueue')
                               /\ IsInjective(nextTurnQueue')
      BY <1>2 DEF left
    <2>8. Once' /\ run'[r] = rec /\ \A s \in Runs \ {r} : run'[s] = run[s]
      BY <2>2, <2>5, <2>6, <2>7, TakesOnce
    <2>9. \A m \in Messages : IsIn(m, c)' <=> m \in Range(left) BY <1>2 DEF left
    <2>10. ASSUME NEW m \in Messages
           PROVE  /\ \A d \in Containers \ {c} : IsIn(m, d)' <=> IsIn(m, d)
                  /\ IsIn(m, c)' <=> IsIn(m, c) /\ m \notin M
                  /\ \A s \in Runs \ {r} : IsHeld(m, s)' <=> IsHeld(m, s)
                  /\ IsHeld(m, r)' <=> m \in M
      <3>1. IsIn(m, c)' <=> IsIn(m, c) /\ m \notin M BY <1>2, <2>2, <2>9
      <3>2. \A s \in Runs \ {r} : IsHeld(m, s)' <=> IsHeld(m, s) BY <2>8 DEF IsHeld
      <3>3. IsHeld(m, r)' <=> m \in M BY <2>4, <2>8 DEF IsHeld
      <3> QED BY <1>2, <3>1, <3>2, <3>3
    <2>11. \A m \in M : IsIn(m, c) BY <1>2, <2>2, <2>3
    <2>12. Placed'
      BY <1>1, <1>2, <2>3, <2>10, <2>11, RunTakes DEF MessagesInv, history
    <2>13. StoredOnce' /\ LostByFault'
      BY <1>2 DEF MessagesInv, StoredOnce, LostByFault, history
    <2> QED BY <2>8, <2>12, <2>13 DEF MessagesInv
  <1>3. CASE DrainSteering(r)
    <2>1. PICK n \in {1, Len(steerQueue)} :
            /\ Drained(r, steerQueue, "steer", n)
            /\ steerQueue' = SubSeq(steerQueue, n + 1, Len(steerQueue))
      BY <1>3 DEF DrainSteering
    <2>2. steerQueue \in Seq(Messages) /\ steerQueue # <<>> /\ IsInjective(steerQueue)
      BY <1>3 DEF MessagesInv, Once, TypeInv, TypeOK, DrainSteering
    <2>3. UNCHANGED <<followUpQueue, nextTurnQueue, stored, history, faults>>
      BY <1>3 DEF DrainSteering, session, bounds
    <2>4. /\ "steerQueue" \in Containers
          /\ \A m \in Messages : IsIn(m, "steerQueue") <=> m \in Range(steerQueue)
          /\ \A m \in Messages : IsIn(m, "steerQueue")' <=> m \in Range(steerQueue')
          /\ \A m \in Messages, d \in Containers \ {"steerQueue"} : IsIn(m, d)' <=> IsIn(m, d)
      BY <2>3 DEF IsIn, Containers, history
    <2>5. IsInjective(steerQueue') => /\ IsInjective(steerQueue') /\ IsInjective(followUpQueue')
                                      /\ IsInjective(nextTurnQueue')
      BY <2>3 DEF MessagesInv, Once
    <2> QED BY <1>2, <2>1, <2>2, <2>3, <2>4, <2>5
  <1>4. CASE DrainFollowUps(r)
    <2>1. PICK n \in {1, Len(followUpQueue)} :
            /\ Drained(r, followUpQueue, "followUp", n)
            /\ followUpQueue' = SubSeq(followUpQueue, n + 1, Len(followUpQueue))
      BY <1>4 DEF DrainFollowUps
    <2>2. followUpQueue \in Seq(Messages) /\ followUpQueue # <<>> /\ IsInjective(followUpQueue)
      BY <1>4 DEF MessagesInv, Once, TypeInv, TypeOK, DrainFollowUps
    <2>3. UNCHANGED <<steerQueue, nextTurnQueue, stored, history, faults>>
      BY <1>4 DEF DrainFollowUps, session, bounds
    <2>4. /\ "followUpQueue" \in Containers
          /\ \A m \in Messages : IsIn(m, "followUpQueue") <=> m \in Range(followUpQueue)
          /\ \A m \in Messages : IsIn(m, "followUpQueue")' <=> m \in Range(followUpQueue')
          /\ \A m \in Messages, d \in Containers \ {"followUpQueue"} : IsIn(m, d)' <=> IsIn(m, d)
      BY <2>3 DEF IsIn, Containers, history
    <2>5. IsInjective(followUpQueue') => /\ IsInjective(steerQueue') /\ IsInjective(followUpQueue')
                                         /\ IsInjective(nextTurnQueue')
      BY <2>3 DEF MessagesInv, Once
    <2> QED BY <1>2, <2>1, <2>2, <2>3, <2>4, <2>5
  <1> QED BY <1>3, <1>4

\* The first message a run holds is persisted.
LEMMA InjectMessageMoves ==
  ASSUME MessagesInv, TypeInv', NEW r \in Runs, InjectMessage(r)
  PROVE  MessagesInv'
  <1> DEFINE h == Head(run[r].msgs)
             rest == Tail(run[r].msgs)
             from == IF rest = <<>> THEN NoQueue ELSE run[r].origin
             pc == IF rest # <<>> THEN run[r].pc
                   ELSE IF run[r].pc = "prompts" THEN "steer" ELSE "request"
             rec == [run[r] EXCEPT !.msgs = rest, !.origin = from, !.tail = "user",
                                   !.pc = pc]
             M == {h} \cap Messages
  <1>1. run[r] \in RunRecords /\ Holds(r, run[r]) /\ Carries(run[r])
    BY DEF MessagesInv, Once, TypeInv, TypeOK, RunsHold
  <1>2. /\ run[r].msgs \in Seq(Messages \cup Runs) /\ run[r].msgs # <<>>
        /\ run[r].pc \in {"prompts", "inject"}
    BY <1>1 DEF RunRecords, Holds, InjectMessage
  <1>3. /\ IsInjective(rest) /\ h \notin Range(rest)
        /\ Range(run[r].msgs) = Range(rest) \cup {h}
    BY <1>1, <1>2, HeadOnce DEF Carries
  <1>4. h \in Messages \cup Runs BY <1>2
  <1>5. rec.msgs = rest /\ rec.pc = pc /\ rec.origin = from BY <1>1 DEF RunRecords
  <1>6. Moves(r, rec) BY DEF InjectMessage
  <1>7. /\ rest = <<>> => pc \in {"steer", "request"}
        /\ rest # <<>> => pc = run[r].pc /\ from = run[r].origin
    BY <1>2
  <1>8. Carries(rec) BY <1>1, <1>2, <1>3, <1>5, <1>7, EmptyOnce DEF Carries, HoldingPCs
  <1>9. /\ stored' = Stored(h)
        /\ UNCHANGED <<steerQueue, followUpQueue, nextTurnQueue, history, faults>>
    BY DEF InjectMessage, queues, bounds
  <1> HIDE DEF rec, rest, h, pc
  <1>10. Once' /\ run'[r] = rec /\ \A s \in Runs \ {r} : run'[s] = run[s]
    BY <1>6, <1>8, <1>9, TakesOnce DEF MessagesInv, Once
  <1>11. \A m \in M : IsHeld(m, r) BY <1>3 DEF IsHeld
  <1>12. "session" \in Containers BY DEF Containers
  <1>13. \A m \in M : stored[m] = 0
    <2> SUFFICES ASSUME NEW m \in M PROVE stored[m] = 0 OBVIOUS
    <2>1. ~IsIn(m, "session") BY <1>11, <1>12, OnlyPlace DEF MessagesInv
    <2>2. stored[m] \in 0..2 BY DEF MessagesInv, TypeInv, TypeOK
    <2>3. ~(stored[m] > 0) BY <2>1 DEF IsIn
    <2> QED BY <2>2, <2>3
  <1>14. \A m \in Messages : stored'[m] = IF m \in M THEN 1 ELSE stored[m]
    BY <1>4, <1>9, <1>13 DEF Stored, MessagesInv, TypeInv, TypeOK
  <1>15. ASSUME NEW m \in Messages
         PROVE  /\ \A d \in Containers \ {"session"} : IsIn(m, d)' <=> IsIn(m, d)
                /\ IsIn(m, "session")' <=> IsIn(m, "session") \/ m \in M
                /\ \A s \in Runs \ {r} : IsHeld(m, s)' <=> IsHeld(m, s)
                /\ IsHeld(m, r)' <=> IsHeld(m, r) /\ m \notin M
    <2>1. \A d \in Containers \ {"session"} : IsIn(m, d)' <=> IsIn(m, d)
      BY <1>9 DEF IsIn, Containers, history
    <2>2. IsIn(m, "session")' <=> IsIn(m, "session") \/ m \in M BY <1>14 DEF IsIn
    <2>3. \A s \in Runs \ {r} : IsHeld(m, s)' <=> IsHeld(m, s) BY <1>10 DEF IsHeld
    <2>4. IsHeld(m, r)' <=> IsHeld(m, r) /\ m \notin M BY <1>3, <1>5, <1>10 DEF IsHeld
    <2> QED BY <2>1, <2>2, <2>3, <2>4
  <1>16. Placed' BY <1>9, <1>11, <1>12, <1>15, RunGives, ZenonT(40) DEF MessagesInv, history
  <1>17. StoredOnce' /\ LostByFault'
    BY <1>9, <1>14 DEF MessagesInv, StoredOnce, LostByFault, history
  <1> QED BY <1>10, <1>16, <1>17 DEF MessagesInv

\* A run that fails drops its messages.
LEMMA FaultLoses ==
  ASSUME MessagesInv, TypeInv', NEW r \in Runs, OuterFault(r) \/ LoopFault(r)
  PROVE  MessagesInv'
  <1> DEFINE M == Range(run[r].msgs) \cap Messages
  <1>1. /\ Carries(run'[r]) /\ run'[r].msgs = <<>>
        /\ \A s \in Runs \ {r} : run'[s] = run[s]
    BY FinishCarries, LoopErrorCarries DEF OuterFault, LoopFault, Reject
  <1>2. /\ UNCHANGED <<steerQueue, followUpQueue, nextTurnQueue, stored, sent, returned>>
        /\ lost' = lost \cup Range(run[r].msgs) /\ faults' = faults + 1 /\ faults \in Nat
    BY DEF OuterFault, LoopFault, Fault, queues, session, MessagesInv, TypeInv, TypeOK
  <1>3. \A s \in Runs : Carries(run'[s]) BY <1>1 DEF MessagesInv, Once
  <1>4. Once' BY <1>2, <1>3 DEF MessagesInv, Once, Carries
  <1>5. ASSUME NEW m \in Messages
        PROVE  /\ \A d \in Containers \ {"lost"} : IsIn(m, d)' <=> IsIn(m, d)
               /\ IsIn(m, "lost")' <=> IsIn(m, "lost") \/ m \in M
               /\ \A s \in Runs \ {r} : IsHeld(m, s)' <=> IsHeld(m, s)
               /\ IsHeld(m, r)' <=> IsHeld(m, r) /\ m \notin M
    <2>1. \A d \in Containers \ {"lost"} : IsIn(m, d)' <=> IsIn(m, d)
      BY <1>2 DEF IsIn, Containers
    <2>2. IsIn(m, "lost")' <=> IsIn(m, "lost") \/ m \in M BY <1>2 DEF IsIn
    <2>3. \A s \in Runs \ {r} : IsHeld(m, s)' <=> IsHeld(m, s) BY <1>1 DEF IsHeld
    <2>4. IsHeld(m, r)' <=> IsHeld(m, r) /\ m \notin M BY <1>1, EmptyOnce DEF IsHeld
    <2> QED BY <2>1, <2>2, <2>3, <2>4
  <1>6. \A m \in M : IsHeld(m, r) BY DEF IsHeld
  <1>7. "lost" \in Containers /\ M \in SUBSET Messages BY DEF Containers
  <1>8. Placed' BY <1>2, <1>5, <1>6, <1>7, RunGives DEF MessagesInv
  <1>9. StoredOnce' /\ LostByFault'
    BY <1>2 DEF MessagesInv, StoredOnce, LostByFault
  <1> QED BY <1>4, <1>8, <1>9 DEF MessagesInv

\* The next-turn messages go back in front of the queue.
LEMMA EmitNextFaultMoves ==
  ASSUME MessagesInv, TypeInv', NEW r \in Runs, EmitNextFault(r)
  PROVE  MessagesInv'
  <1>1. /\ Carries(run'[r]) /\ run'[r].msgs = <<>>
        /\ \A s \in Runs \ {r} : run'[s] = run[s]
    BY FinishCarries DEF EmitNextFault, Reject
  <1>2. /\ UNCHANGED <<steerQueue, followUpQueue, stored, history>>
        /\ faults' = faults + 1 /\ faults \in Nat
    BY DEF EmitNextFault, Fault, session, MessagesInv, TypeInv, TypeOK
  <1>3. PICK queue \in Seq(Messages) : run[r].msgs = Append(queue, r)
    BY DEF MessagesInv, TypeInv, RunsHold, Holds, EmitNextFault
  <1>4. queue = SubSeq(run[r].msgs, 1, Len(run[r].msgs) - 1) BY <1>3
  <1>5. nextTurnQueue' = queue \o nextTurnQueue BY <1>4 DEF EmitNextFault
  <1> DEFINE M == Range(queue)
  <1>6. M \in SUBSET Messages /\ r \notin Messages /\ r \notin M
    BY <1>3, ConstantsAssumption DEF Range
  <1>7. IsInjective(queue) /\ Range(run[r].msgs) = M \cup {r}
    <2>1. IsInjective(run[r].msgs) BY DEF MessagesInv, Once, Carries
    <2>2. \A i \in 1..Len(queue) : queue[i] = run[r].msgs[i] /\ i \in DOMAIN run[r].msgs
      BY <1>3
    <2>3. DOMAIN queue = 1..Len(queue) BY <1>3
    <2>4. IsInjective(queue) BY <2>1, <2>2, <2>3 DEF IsInjective
    <2>5. queue \in Seq(Messages \cup Runs) BY <1>3
    <2> QED BY <1>3, <1>6, <2>4, <2>5, AppendOnce
  <1>8. \A m \in M : IsHeld(m, r) BY <1>7 DEF IsHeld
  <1>9. "nextTurnQueue" \in Containers BY DEF Containers
  <1>10. M \cap Range(nextTurnQueue) = {}
    <2>1. \A m \in M : ~IsIn(m, "nextTurnQueue")
      BY <1>6, <1>8, <1>9, OnlyPlace DEF MessagesInv
    <2> QED BY <2>1 DEF IsIn
  <1>11. nextTurnQueue \in Seq(Messages) /\ IsInjective(nextTurnQueue)
    BY DEF MessagesInv, Once, TypeInv, TypeOK
  <1>12. /\ IsInjective(nextTurnQueue')
         /\ Range(nextTurnQueue') = M \cup Range(nextTurnQueue)
    BY <1>3, <1>5, <1>7, <1>10, <1>11, ConcatOnce
  <1>13. \A s \in Runs : Carries(run'[s]) BY <1>1 DEF MessagesInv, Once
  <1>14. Once' BY <1>2, <1>12, <1>13 DEF MessagesInv, Once, Carries
  <1> HIDE DEF M
  <1>15. ASSUME NEW m \in Messages
         PROVE  /\ \A d \in Containers \ {"nextTurnQueue"} : IsIn(m, d)' <=> IsIn(m, d)
                /\ IsIn(m, "nextTurnQueue")' <=> IsIn(m, "nextTurnQueue") \/ m \in M
                /\ \A s \in Runs \ {r} : IsHeld(m, s)' <=> IsHeld(m, s)
                /\ IsHeld(m, r)' <=> IsHeld(m, r) /\ m \notin M
    <2>1. \A d \in Containers \ {"nextTurnQueue"} : IsIn(m, d)' <=> IsIn(m, d)
      BY <1>2 DEF IsIn, Containers, history
    <2>2. IsIn(m, "nextTurnQueue")' <=> IsIn(m, "nextTurnQueue") \/ m \in M
      BY <1>12 DEF IsIn
    <2>3. \A s \in Runs \ {r} : IsHeld(m, s)' <=> IsHeld(m, s) BY <1>1 DEF IsHeld
    <2>4. IsHeld(m, r)' <=> IsHeld(m, r) /\ m \notin M
      BY <1>1, <1>6, <1>7, EmptyOnce DEF IsHeld
    <2> QED BY <2>1, <2>2, <2>3, <2>4
  <1>16. Placed' BY <1>2, <1>6, <1>8, <1>9, <1>15, RunGives DEF MessagesInv, history
  <1>17. StoredOnce' /\ LostByFault'
    BY <1>2 DEF MessagesInv, StoredOnce, LostByFault, history
  <1> QED BY <1>14, <1>16, <1>17 DEF MessagesInv

\* A failing drain puts the messages back, or drops them when the array they
\* came from was replaced.
LEMMA EmitDrainFaultMoves ==
  ASSUME MessagesInv, TypeInv', NEW r \in Runs, EmitDrainFault(r)
  PROVE  MessagesInv'
  <1> DEFINE M == Range(run[r].msgs)
             back == run[r].origin.gen = queueGen
             name == run[r].origin.queue
  <1>1. /\ Carries(run'[r]) /\ run'[r].msgs = <<>>
        /\ \A s \in Runs \ {r} : run'[s] = run[s]
    BY LoopErrorCarries DEF EmitDrainFault
  <1>2. /\ UNCHANGED <<nextTurnQueue, stored, sent, returned>>
        /\ faults' = faults + 1 /\ faults \in Nat
        /\ steerQueue' = PutBack(r, steerQueue, "steer")
        /\ followUpQueue' = PutBack(r, followUpQueue, "followUp")
        /\ lost' = IF back THEN lost ELSE lost \cup M
    BY DEF EmitDrainFault, Fault, session, MessagesInv, TypeInv, TypeOK
  <1>3. /\ run[r].msgs \in Seq(Messages) /\ IsInjective(run[r].msgs)
        /\ name \in {"steer", "followUp"} /\ run[r].origin \in Origins
    BY DEF EmitDrainFault, MessagesInv, Once, Carries, TypeInv, TypeOK, RunsHold, Holds,
           RunRecords
  <1>4. M \in SUBSET Messages BY <1>3 DEF Range
  <1>5. \A n : run[r].origin = [queue |-> n, gen |-> queueGen] <=> name = n /\ back
    BY <1>3 DEF Origins
  <1> HIDE DEF M, back, name
  <1>6. \A m \in M : IsHeld(m, r) BY DEF IsHeld, M
  <1>7. \A s \in Runs : Carries(run'[s]) BY <1>1 DEF MessagesInv, Once
  <1>8. /\ steerQueue' = IF name = "steer" /\ back THEN run[r].msgs \o steerQueue
                         ELSE steerQueue
        /\ followUpQueue' = IF name = "followUp" /\ back THEN run[r].msgs \o followUpQueue
                            ELSE followUpQueue
    BY <1>2, <1>5 DEF PutBack
  <1>0. PICK c \in {"steerQueue", "followUpQueue", "lost"} :
          c = IF back THEN (IF name = "steer" THEN "steerQueue" ELSE "followUpQueue")
              ELSE "lost"
    OBVIOUS
  <1>9. c \in Containers /\ "steerQueue" \in Containers /\ "followUpQueue" \in Containers
    BY DEF Containers
  <1>10. /\ steerQueue \in Seq(Messages) /\ IsInjective(steerQueue)
         /\ followUpQueue \in Seq(Messages) /\ IsInjective(followUpQueue)
         /\ IsInjective(nextTurnQueue)
    BY DEF MessagesInv, Once, TypeInv, TypeOK
  <1>11. M \cap Range(steerQueue) = {} /\ M \cap Range(followUpQueue) = {}
    <2>1. \A m \in M : ~IsIn(m, "steerQueue") /\ ~IsIn(m, "followUpQueue")
      BY <1>4, <1>6, <1>9, OnlyPlace DEF MessagesInv
    <2> QED BY <2>1 DEF IsIn
  <1>12. /\ IsInjective(run[r].msgs \o steerQueue)
         /\ Range(run[r].msgs \o steerQueue) = M \cup Range(steerQueue)
    BY <1>3, <1>10, <1>11, ConcatOnce DEF M
  <1>13. /\ IsInjective(run[r].msgs \o followUpQueue)
         /\ Range(run[r].msgs \o followUpQueue) = M \cup Range(followUpQueue)
    BY <1>3, <1>10, <1>11, ConcatOnce DEF M
  <1>14. /\ IsInjective(steerQueue') /\ IsInjective(followUpQueue')
         /\ IsInjective(nextTurnQueue')
    BY <1>2, <1>8, <1>10, <1>12, <1>13
  <1>15. Once' BY <1>7, <1>14 DEF Once, Carries
  <1>16. /\ Range(steerQueue') = IF name = "steer" /\ back THEN M \cup Range(steerQueue)
                                 ELSE Range(steerQueue)
         /\ Range(followUpQueue') = IF name = "followUp" /\ back
                                    THEN M \cup Range(followUpQueue)
                                    ELSE Range(followUpQueue)
    BY <1>8, <1>12, <1>13
  <1>17. ASSUME NEW m \in Messages
         PROVE  /\ \A d \in Containers \ {c} : IsIn(m, d)' <=> IsIn(m, d)
                /\ IsIn(m, c)' <=> IsIn(m, c) \/ m \in M
                /\ \A s \in Runs \ {r} : IsHeld(m, s)' <=> IsHeld(m, s)
                /\ IsHeld(m, r)' <=> IsHeld(m, r) /\ m \notin M
    <2>1. \A s \in Runs \ {r} : IsHeld(m, s)' <=> IsHeld(m, s) BY <1>1 DEF IsHeld
    <2>2. IsHeld(m, r)' <=> IsHeld(m, r) /\ m \notin M BY <1>1, EmptyOnce DEF IsHeld, M
    <2>3. IsIn(m, "steerQueue")' <=> IsIn(m, "steerQueue") \/ (m \in M /\ c = "steerQueue")
      BY <1>0, <1>3, <1>16 DEF IsIn
    <2>4. IsIn(m, "followUpQueue")'
            <=> IsIn(m, "followUpQueue") \/ (m \in M /\ c = "followUpQueue")
      BY <1>0, <1>3, <1>16 DEF IsIn
    <2>5. IsIn(m, "lost")' <=> IsIn(m, "lost") \/ (m \in M /\ c = "lost")
      BY <1>0, <1>2 DEF IsIn
    <2>6. \A d \in {"nextTurnQueue", "session", "returned"} : IsIn(m, d)' <=> IsIn(m, d)
      BY <1>2 DEF IsIn
    <2>7. \A d \in Containers \ {c} : IsIn(m, d)' <=> IsIn(m, d)
      BY <2>3, <2>4, <2>5, <2>6 DEF Containers
    <2>8. IsIn(m, c)' <=> IsIn(m, c) \/ m \in M BY <2>3, <2>4, <2>5
    <2> QED BY <2>1, <2>2, <2>7, <2>8
  <1>18. Placed' BY <1>2, <1>4, <1>6, <1>9, <1>17, RunGives DEF MessagesInv
  <1>19. StoredOnce' /\ LostByFault'
    BY <1>2 DEF MessagesInv, StoredOnce, LostByFault
  <1> QED BY <1>15, <1>18, <1>19 DEF MessagesInv

\* A call queues a message.
LEMMA QueueMoves ==
  ASSUME MessagesInv, TypeInv', NEW m \in Messages, Steer(m) \/ FollowUp(m) \/ NextTurn(m)
  PROVE  MessagesInv'
  <1>1. PICK c \in {"steerQueue", "followUpQueue", "nextTurnQueue"} :
          /\ steerQueue' = IF c = "steerQueue" THEN Append(steerQueue, m) ELSE steerQueue
          /\ followUpQueue' = IF c = "followUpQueue" THEN Append(followUpQueue, m)
                              ELSE followUpQueue
          /\ nextTurnQueue' = IF c = "nextTurnQueue" THEN Append(nextTurnQueue, m)
                              ELSE nextTurnQueue
    BY DEF Steer, FollowUp, NextTurn
  <1>2. /\ m \notin sent /\ sent' = sent \cup {m}
        /\ UNCHANGED <<run, stored, returned, lost, faults>>
    BY DEF Steer, FollowUp, NextTurn, session, bounds
  <1>3. c \in Containers BY DEF Containers
  <1>4. \A d \in Containers : ~IsIn(m, d) BY <1>2, OnlyPlace DEF MessagesInv
  <1>5. \A r \in Runs : ~IsHeld(m, r) BY <1>2, OnlyPlace DEF MessagesInv
  <1>6. /\ m \notin Range(steerQueue) /\ m \notin Range(followUpQueue)
        /\ m \notin Range(nextTurnQueue)
    <2>1. ~IsIn(m, "steerQueue") /\ ~IsIn(m, "followUpQueue") /\ ~IsIn(m, "nextTurnQueue")
      BY <1>4 DEF Containers
    <2> QED BY <2>1 DEF IsIn
  <1>7. /\ steerQueue \in Seq(Messages) /\ IsInjective(steerQueue)
        /\ followUpQueue \in Seq(Messages) /\ IsInjective(followUpQueue)
        /\ nextTurnQueue \in Seq(Messages) /\ IsInjective(nextTurnQueue)
    BY DEF MessagesInv, Once, TypeInv, TypeOK
  <1>8. \A queue \in Seq(Messages) : IsInjective(queue) /\ m \notin Range(queue) =>
          /\ IsInjective(Append(queue, m))
          /\ Range(Append(queue, m)) = Range(queue) \cup {m}
    BY AppendOnce
  <1>9. /\ IsInjective(steerQueue') /\ IsInjective(followUpQueue')
        /\ IsInjective(nextTurnQueue')
        /\ Range(steerQueue') = Range(steerQueue) \cup (IF c = "steerQueue" THEN {m} ELSE {})
        /\ Range(followUpQueue') =
             Range(followUpQueue) \cup (IF c = "followUpQueue" THEN {m} ELSE {})
        /\ Range(nextTurnQueue') =
             Range(nextTurnQueue) \cup (IF c = "nextTurnQueue" THEN {m} ELSE {})
    BY <1>1, <1>6, <1>7, <1>8
  <1>10. Once' BY <1>2, <1>9 DEF MessagesInv, Once, Carries
  <1>11. ASSUME NEW n \in Messages
         PROVE  /\ \A d \in Containers : IsIn(n, d)' <=> IF n \in {m} THEN d = c ELSE IsIn(n, d)
                /\ \A r \in Runs : IsHeld(n, r)' <=> n \notin {m} /\ IsHeld(n, r)
    <2>1. \A r \in Runs : IsHeld(n, r)' <=> IsHeld(n, r) BY <1>2 DEF IsHeld
    <2>2. \A d \in {"session", "returned", "lost"} : IsIn(n, d)' <=> IsIn(n, d)
      BY <1>2 DEF IsIn
    <2>3. IsIn(n, "steerQueue")' <=> IsIn(n, "steerQueue") \/ (n = m /\ c = "steerQueue")
      BY <1>9 DEF IsIn
    <2>4. IsIn(n, "followUpQueue")'
            <=> IsIn(n, "followUpQueue") \/ (n = m /\ c = "followUpQueue")
      BY <1>9 DEF IsIn
    <2>5. IsIn(n, "nextTurnQueue")'
            <=> IsIn(n, "nextTurnQueue") \/ (n = m /\ c = "nextTurnQueue")
      BY <1>9 DEF IsIn
    <2>6. \A d \in Containers : IsIn(n, d)' <=> IsIn(n, d) \/ (n = m /\ c = d)
      BY <1>1, <2>2, <2>3, <2>4, <2>5 DEF Containers
    <2>7. CASE n = m BY <1>4, <1>5, <2>1, <2>6, <2>7
    <2>8. CASE n # m BY <2>1, <2>6, <2>8
    <2> QED BY <2>7, <2>8
  <1>12. Placed' BY <1>2, <1>3, <1>11, ToContainer DEF MessagesInv
  <1>13. StoredOnce' /\ LostByFault' BY <1>2 DEF MessagesInv, StoredOnce, LostByFault
  <1> QED BY <1>10, <1>12, <1>13 DEF MessagesInv

\* Both queues are handed back; abort() also sets the signal of a run.
LEMMA ReturnMoves ==
  ASSUME MessagesInv, TypeInv', ClearQueue \/ \E a \in Aborts : Abort(a)
  PROVE  MessagesInv'
  <1> DEFINE M == Range(steerQueue) \cup Range(followUpQueue)
  <1>1. /\ steerQueue' = <<>> /\ followUpQueue' = <<>> /\ returned' = returned \cup M
        /\ UNCHANGED <<nextTurnQueue, stored, sent, lost, faults>>
    BY DEF ClearQueue, Abort, EmptyQueues, session, bounds
  <1>2. \A r \in Runs : run'[r].msgs = run[r].msgs /\ Carries(run'[r])
    <2>1. \A r \in Runs : Carries(run[r]) BY DEF MessagesInv, Once
    <2>2. CASE run' = run BY <2>1, <2>2
    <2>3. CASE runAbort \in Runs /\ run' = [run EXCEPT ![runAbort].signal = TRUE]
      <3>1. \A r \in Runs : /\ run'[r].msgs = run[r].msgs /\ run'[r].pc = run[r].pc
                            /\ run'[r].origin = run[r].origin
        <4>1. /\ run \in [Runs -> RunRecords] /\ run[runAbort] \in RunRecords
              /\ run' = [run EXCEPT ![runAbort] = [run[runAbort] EXCEPT !.signal = TRUE]]
          BY <2>3 DEF MessagesInv, TypeInv, TypeOK
        <4> DEFINE rec == [run[runAbort] EXCEPT !.signal = TRUE]
        <4>2. /\ rec.msgs = run[runAbort].msgs /\ rec.pc = run[runAbort].pc
              /\ rec.origin = run[runAbort].origin
          BY <4>1 DEF RunRecords
        <4>3. run' = [run EXCEPT ![runAbort] = rec] BY <4>1
        <4> HIDE DEF rec
        <4> QED BY <2>3, <4>1, <4>2, <4>3
      <3> QED BY <2>1, <3>1 DEF Carries
    <2> QED BY <2>2, <2>3 DEF ClearQueue, Abort, MessagesInv, TypeInv, TypeOK
  <1>3. Once' BY <1>1, <1>2, EmptyOnce DEF MessagesInv, Once, Carries
  <1>4. M \in SUBSET Messages BY SMTT(30) DEF MessagesInv, TypeInv, TypeOK, Range
  <1>5. "steerQueue" \in Containers /\ "followUpQueue" \in Containers
        /\ "returned" \in Containers
    BY DEF Containers
  <1>6. \A m \in Messages : m \in M <=> IsIn(m, "steerQueue") \/ IsIn(m, "followUpQueue")
    BY DEF IsIn
  <1> HIDE DEF M
  <1>7. sent' = sent \cup M
    BY <1>1, <1>4, <1>5, <1>6, OnlyPlace DEF MessagesInv
  <1>8. ASSUME NEW m \in Messages
        PROVE  /\ \A d \in Containers :
                    IsIn(m, d)' <=> IF m \in M THEN d = "returned" ELSE IsIn(m, d)
               /\ \A r \in Runs : IsHeld(m, r)' <=> m \notin M /\ IsHeld(m, r)
    <2>1. \A r \in Runs : IsHeld(m, r)' <=> IsHeld(m, r) BY <1>2 DEF IsHeld
    <2>2. \A d \in {"nextTurnQueue", "session", "lost"} : IsIn(m, d)' <=> IsIn(m, d)
      BY <1>1 DEF IsIn
    <2>3. ~IsIn(m, "steerQueue")' /\ ~IsIn(m, "followUpQueue")'
      BY <1>1, EmptyOnce DEF IsIn
    <2>4. IsIn(m, "returned")' <=> IsIn(m, "returned") \/ m \in M BY <1>1 DEF IsIn
    <2>5. CASE m \in M
      <3>1. \A d \in Containers \ {"steerQueue", "followUpQueue"} : ~IsIn(m, d)
        BY <1>5, <1>6, <2>5, OnlyPlace DEF MessagesInv
      <3>2. \A r \in Runs : ~IsHeld(m, r)
        BY <1>5, <1>6, <2>5, OnlyPlace DEF MessagesInv
      <3>3. \A d \in Containers : IsIn(m, d)' <=> d = "returned"
        BY <2>2, <2>3, <2>4, <2>5, <3>1 DEF Containers
      <3> QED BY <2>1, <2>5, <3>2, <3>3
    <2>6. CASE m \notin M
      <3>1. ~IsIn(m, "steerQueue") /\ ~IsIn(m, "followUpQueue") BY <1>6, <2>6
      <3>2. \A d \in Containers : IsIn(m, d)' <=> IsIn(m, d)
        BY <2>2, <2>3, <2>4, <2>6, <3>1 DEF Containers
      <3> QED BY <2>1, <2>6, <3>2
    <2> QED BY <2>5, <2>6
  <1>9. Placed' BY <1>4, <1>5, <1>7, <1>8, ToContainer DEF MessagesInv
  <1>10. StoredOnce' /\ LostByFault' BY <1>1 DEF MessagesInv, StoredOnce, LostByFault
  <1> QED BY <1>3, <1>9, <1>10 DEF MessagesInv

\* The other calls move no message.
LEMMA CallStays ==
  ASSUME MessagesInv, TypeInv',
         \/ \E w \in Writes : Set(w) \/ SetSaved(w) \/ SetRejected(w)
         \/ \E a \in Aborts : AbortStep(a)
         \/ \E s \in Structs :
              Compact(s) \/ Navigate(s) \/ StructStep(s) \/ CompactStartFault(s)
         \/ UNCHANGED vars
  PROVE  StaysPut
  <1>1. \A r \in Runs : Carries(run[r]) BY DEF MessagesInv, Once
  <1>2. CASE \E w \in Writes : SetSaved(w)
    <2>1. \A m \in Messages : stored'[m] = stored[m] BY <1>2, StoringWrites DEF SetSaved
    <2>2. UNCHANGED <<steerQueue, followUpQueue, nextTurnQueue, history, faults, run>>
      BY <1>2 DEF SetSaved, queues, bounds
    <2>3. faults' >= faults BY <2>2 DEF MessagesInv, TypeInv, TypeOK
    <2> QED BY <1>1, <2>1, <2>2, <2>3 DEF StaysPut
  <1>3. CASE \/ \E w \in Writes : Set(w) \/ SetRejected(w)
             \/ \E a \in Aborts : AbortStep(a)
             \/ UNCHANGED vars
    <2>1. UNCHANGED <<steerQueue, followUpQueue, nextTurnQueue, history, run, stored>>
      BY <1>3 DEF Set, SetRejected, AbortStep, AbortNotified, AbortReturns, vars, others,
         queues, session
    <2>2. faults' = faults \/ faults' = faults + 1
      BY <1>3 DEF Set, SetRejected, AbortStep, AbortNotified, AbortReturns, vars, others,
         bounds, Fault
    <2>3. faults' >= faults BY <2>2 DEF MessagesInv, TypeInv, TypeOK
    <2> QED BY <1>1, <2>1, <2>3 DEF StaysPut
  <1>4. CASE \E s \in Structs :
               Compact(s) \/ Navigate(s) \/ StructStep(s) \/ CompactStartFault(s)
    <2>1. UNCHANGED <<steerQueue, followUpQueue, nextTurnQueue, history, run, stored>>
      BY <1>4 DEF Compact, Navigate, StructStep, CompactStartFault, CompactStarted, Compacted,
         CompactFailed, Navigated, NavigateCancelled, Structural, queues, session
    <2>2. faults' = faults \/ faults' = faults + 1
      BY <1>4 DEF Compact, Navigate, StructStep, CompactStartFault, CompactStarted, Compacted,
         CompactFailed, Navigated, NavigateCancelled, Structural, Fault
    <2>3. faults' >= faults BY <2>2 DEF MessagesInv, TypeInv, TypeOK
    <2> QED BY <1>1, <2>1, <2>3 DEF StaysPut
  <1> QED BY <1>2, <1>3, <1>4

-----------------------------------------------------------------------------
(***************************************************************************)
(* Conservation of messages.                                               *)
(***************************************************************************)

LEMMA InitMessages == Init => MessagesInv
  <1> SUFFICES ASSUME Init PROVE MessagesInv OBVIOUS
  <1>1. \A r \in Runs : run[r] = NewRun BY DEF Init
  <1>2. NewRun.msgs = <<>> /\ NewRun.pc = "new" BY DEF NewRun
  <1>3. Once BY <1>1, <1>2, EmptyOnce DEF Init, Once, Carries
  <1>4. ASSUME NEW m \in Messages PROVE Whereabouts(m) = {}
    <2>1. stored[m] = 0 BY DEF Init
    <2>4. /\ Range(steerQueue) = {} /\ Range(followUpQueue) = {} /\ Range(nextTurnQueue) = {}
          /\ m \notin returned /\ m \notin lost /\ ~(stored[m] > 0)
      BY <2>1, EmptyOnce DEF Init
    <2>2. \A d \in Containers : ~IsIn(m, d)
      <3> SUFFICES ASSUME NEW d \in Containers, IsIn(m, d) PROVE FALSE OBVIOUS
      <3> QED BY <2>4 DEF IsIn, Containers
    <2>3. \A r \in Runs : ~IsHeld(m, r) BY <1>1, <1>2, EmptyOnce DEF IsHeld
    <2> QED BY <2>2, <2>3 DEF Whereabouts
  <1>5. Placed BY <1>4 DEF Init, Placed
  <1>6. StoredOnce /\ LostByFault BY DEF Init, StoredOnce, LostByFault
  <1> QED BY <1>3, <1>5, <1>6, InitTypeInv DEF MessagesInv

LEMMA NextMessages == MessagesInv /\ [Next]_vars => MessagesInv'
  <1> SUFFICES ASSUME MessagesInv, [Next]_vars PROVE MessagesInv' OBVIOUS
  <1>1. TypeInv' BY NextTypeInv DEF MessagesInv
  <1>2. ASSUME NEW r \in Runs, \E rearm \in BOOLEAN : Prompt(r, rearm) PROVE MessagesInv'
    BY <1>1, <1>2, PromptStays, Stay
  <1>3. ASSUME NEW r \in Runs, RunStep(r) PROVE MessagesInv'
    BY <1>1, <1>3, TakeNextTurnMoves, HoldStays, LoopStays, InjectMessageMoves, DrainMoves,
       RespondStays, FlushWriteStays, ErrorStays, PostRunStays, Stay
       DEF RunStep
  <1>4. ASSUME NEW r \in Runs, RunFault(r) PROVE MessagesInv'
    BY <1>1, <1>4, FaultLoses, EmitNextFaultMoves, EmitDrainFaultMoves, ErrorStays,
       PostRunStays, Stay
       DEF RunFault
  <1>5. CASE \E m \in Messages : Steer(m) \/ FollowUp(m) \/ NextTurn(m)
    BY <1>1, <1>5, QueueMoves
  <1>6. CASE ClearQueue \/ \E a \in Aborts : Abort(a) BY <1>1, <1>6, ReturnMoves
  <1>7. CASE \/ \E w \in Writes : Set(w) \/ SetSaved(w) \/ SetRejected(w)
             \/ \E a \in Aborts : AbortStep(a)
             \/ \E s \in Structs :
                  Compact(s) \/ Navigate(s) \/ StructStep(s) \/ CompactStartFault(s)
             \/ UNCHANGED vars
    BY <1>1, <1>7, CallStays, Stay
  <1> QED BY <1>2, <1>3, <1>4, <1>5, <1>6, <1>7 DEF Next, Rest

LEMMA MessagesInvariant == Spec => []MessagesInv
  BY InitMessages, NextMessages, PTL DEF Spec

\* A message a queue accepted is in exactly one place from then on: a queue,
\* the hands of one run, the session, where it was persisted once, the caller
\* of clearQueue() or abort(), or, only after something threw, lost with a run.
\* It holds for any number of calls, also in overlapping use (lines 432-442,
\* 594-607, 996-1003, 1350-1355).
THEOREM MessagesConserved == Spec => []Conservation
  <1>1. MessagesInv => Conservation
    <2> SUFFICES ASSUME MessagesInv, NEW m \in Messages
                 PROVE  /\ Cardinality(Whereabouts(m)) = (IF m \in sent THEN 1 ELSE 0)
                        /\ stored[m] <= 1
                        /\ m \in lost => faults > 0
      BY DEF Conservation
    <2>1. CASE m \in sent
      <3>1. PICK p : Whereabouts(m) = {p} BY <2>1 DEF MessagesInv, Placed
      <3>2. Cardinality(Whereabouts(m)) = 1 BY <3>1, FS_Singleton
      <3> QED BY <2>1, <3>2 DEF MessagesInv, StoredOnce, LostByFault
    <2>2. CASE m \notin sent
      <3>1. Cardinality(Whereabouts(m)) = 0 BY <2>2, FS_EmptySet DEF MessagesInv, Placed
      <3> QED BY <2>2, <3>1 DEF MessagesInv, StoredOnce, LostByFault
    <2> QED BY <2>1, <2>2
  <1> QED BY <1>1, MessagesInvariant, PTL

=============================================================================
