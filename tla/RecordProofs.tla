---------------------------- MODULE RecordProofs ----------------------------
(***************************************************************************)
(* The proof that the engine implements TaskRecord, for every workflow:    *)
(* what the drive's copy of the task can differ from the row in, step by   *)
(* step, and that each of the drive's writes is one the record may take.   *)
(***************************************************************************)
EXTENDS EngineProofs

\* The agent of the row r's state is yet to be recorded, and its round to be counted.
Unrecorded(r) ==
    r.state \in Capped /\ Graph[r.state].entry = "resume" /\ r.spawn # r.state
OneMoreRound(r) == [r.retries EXCEPT ![r.state] = @ + 1]
RoundsOf(r) == {r.retries} \cup IF Unrecorded(r) THEN {OneMoreRound(r)} ELSE {}

\* The transitions a drive may have under way to s, when r is the row, pr says
\* whether the drive knows the PR, n are the rounds it counted, and gh whether the PR
\* is merged.
Triggers(r, s, pr) ==
    LET st == Graph[r.state]
    IN  \/ s \in {st.auto, st.timeout} \ {NoState}
        \/ "fail" \in DOMAIN st.watch /\ s = st.watch["fail"]
        \/ \E v \in DOMAIN st.done : s = st.done[v] /\ (v = "pass" /\ ~st.decides => pr)

Passes(r, s) ==
    r.pr /\ "pass" \in DOMAIN Graph[r.state].watch /\ s = Graph[r.state].watch["pass"]

Confirms(r, s, gh) ==
    /\ Merging(r.state) /\ gh /\ r.pr /\ ~r.dry
    /\ Graph[r.state].merged # NoState /\ s = Graph[r.state].merged

Exhausts(r, s, n) ==
    /\ Unrecorded(r) /\ n = OneMoreRound(r) /\ n[r.state] > RetryCap[r.state]
    /\ Graph[r.state].exhausted # NoState /\ s = Graph[r.state].exhausted

MayGo(r, s, pr, n, gh) ==
    \/ /\ n = r.retries
       /\ \/ Triggers(r, s, pr) \/ Passes(r, s) \/ Confirms(r, s, gh)
          \/ s = escalationTarget(r.state)
    \/ Exhausts(r, s, n)

MaySettle(r, s, n) ==
    /\ n \in RoundsOf(r)
    /\ \E p \in {r.state} \cup Targets(r.state) : s \in {Cancelled, escalationTarget(p)}

\* What the drive's copy can differ from the row in, and where it may take the task.
Copied ==
    /\ row.state = NoState => row = NoTask
    /\ pc \in {"redrive", "reconcile", "loop"} \cup MergeSteps => mem = row
    /\ pc = "await" =>
          /\ mem = [row EXCEPT !.pr = mem.pr]
          /\ row.pr => mem.pr
          /\ DOMAIN Here.done = {} => mem.pr = row.pr
    /\ Spawning =>
          /\ mem = [row EXCEPT !.retries = IF Unrecorded(row) THEN OneMoreRound(row) ELSE @]
          /\ Unrecorded(row) => OneMoreRound(row)[row.state] <= RetryCap[row.state]
    /\ pc = "bookkeep" => prState = "merged"
    /\ why = "redrive" => ~mem.pr
    /\ Deciding /\ why # "redrive" =>
          /\ row.pr => mem.pr
          /\ IF why = "settle" THEN MaySettle(row, to, mem.retries)
             ELSE MayGo(row, to, mem.pr, mem.retries, prState = "merged")

-----------------------------------------------------------------------------
(***************************************************************************)
(* Where the drive may take the task.                                      *)
(***************************************************************************)
\* A drive that goes on from a state, or waits in it, is in a state of the workflow
\* that has not settled.
LEMMA OpenRow ==
    ASSUME IInv, pc \notin {"idle", "redrive"},
           pc = "loop" => ~isSettled(mem.state), why # "redrive"
    PROVE  row.state \in State /\ ~isSettled(row.state)
<1>0. TypeOK /\ Control /\ Stands
  BY DEF IInv
<1>1. row.state \in State \cup {NoState, Cancelled} /\ row.state # NoState
  BY <1>0 DEF TypeOK, Task, Control
<1>2. ~isSettled(row.state)
  <2>1. CASE Deciding
    BY <1>0, <2>1 DEF Control
  <2>2. CASE ~Deciding
    <3>1. mem.state = row.state
      BY <1>0, <2>2 DEF Control, Deciding
    <3>2. pc # "loop" => ~isSettled(mem.state)
      BY <1>0, <2>2 DEF Stands, Spawning, MergeSteps, Deciding, TypeOK
    <3> QED BY <3>1, <3>2
  <2> QED BY <2>1, <2>2
<1> QED BY <1>1, <1>2 DEF isSettled

\* Where a drive may go is where the workflow lets a task go.
LEMMA MayGoTargets ==
    ASSUME NEW r \in Task, r.state \in State, NEW s, NEW pr, NEW n, NEW gh,
           MayGo(r, s, pr, n, gh)
    PROVE  s \in Targets(r.state) /\ n \in RoundsOf(r)
<1>1. Triggers(r, s, pr) => s \in Targets(r.state)
  BY GraphAssumption, StateAssumption DEF Triggers, Targets, PlainTargets
<1>2. Passes(r, s) \/ Confirms(r, s, gh) => s \in Targets(r.state)
  BY DEF Passes, Confirms, Targets
<1>3. Exhausts(r, s, n) => s \in Targets(r.state) /\ n \in RoundsOf(r)
  BY DEF Exhausts, Targets, PlainTargets, RoundsOf
<1>4. s = escalationTarget(r.state) => s \in Targets(r.state)
  BY DEF Targets
<1>5. n = r.retries => n \in RoundsOf(r)
  BY DEF RoundsOf
<1> QED BY <1>1, <1>2, <1>3, <1>4, <1>5 DEF MayGo

\* A trigger that fires takes the task where the state says, on what the drive knows.
LEMMA LeavesMayGo ==
    ASSUME IInv, Copied, Leaves
    PROVE  /\ mem'.pr \in BOOLEAN /\ mem'.retries = row.retries /\ (row.pr => mem'.pr)
           /\ \/ Triggers(row, to', mem'.pr)
              \/ to' = escalationTarget(row.state)
<1>0. TypeOK /\ Control /\ Stands /\ row \in Task /\ mem \in Task
  BY DEF IInv, TypeOK
<1>1. pc = "await" /\ (mem' = mem \/ mem' = [mem EXCEPT !.pr = @ \/ prState = "open"])
  BY <1>0, LeavesTo
<1>2. /\ mem = [row EXCEPT !.pr = mem.pr] /\ (row.pr => mem.pr)
      /\ mem.state = row.state /\ Here = Graph[row.state] /\ row.state \in State
  BY <1>0, <1>1 DEF Copied, Stands, Here, Control, Deciding
<1>3. mem'.pr \in BOOLEAN /\ mem'.retries = row.retries /\ (row.pr => mem'.pr)
  <2>1. mem.pr \in BOOLEAN /\ (mem.pr \/ prState = "open") \in BOOLEAN
    BY <1>0, Tasks
  <2>2. mem.retries = row.retries
    BY <1>0, <1>2 DEF Task
  <2>3. mem'.pr = mem.pr \/ mem'.pr = (mem.pr \/ prState = "open")
    BY <1>0, <1>1 DEF Task
  <2>4. mem'.retries = mem.retries
    BY <1>0, <1>1 DEF Task
  <2> QED BY <1>2, <2>1, <2>2, <2>3, <2>4
<1>4. CASE Scheduled \/ StateTimeout \/ GateTimeout
  <2>1. to' \in {Graph[row.state].auto, Graph[row.state].timeout} \ {NoState}
    BY <1>2, <1>4 DEF Scheduled, StateTimeout, GateTimeout, Go
  <2> QED BY <1>3, <2>1 DEF Triggers
<1>5. CASE BoundFires
  <2>1. to' = escalationTarget(row.state)
    BY <1>2, <1>5 DEF BoundFires, Go
  <2> QED BY <1>3, <2>1
<1>6. CASE GateFails
  <2>1. "fail" \in DOMAIN Graph[row.state].watch /\ to' = Graph[row.state].watch["fail"]
    BY <1>0, <1>2, <1>6, GateBranches DEF GateFails, Go
  <2> QED BY <1>3, <2>1 DEF Triggers
<1>7. CASE \E v \in Verdicts : DecisionMade(v)
  <2>1. PICK v : DecisionMade(v)
    BY <1>7
  <2>2. /\ v \in DOMAIN Graph[row.state].done /\ to' = Graph[row.state].done[v]
        /\ Graph[row.state].decides
    BY <1>2, <2>1 DEF DecisionMade, Go
  <2> QED BY <1>3, <2>2 DEF Triggers
<1>8. CASE \E v \in Verdicts : WorkDone(v)
  <2>1. PICK v : WorkDone(v)
    BY <1>8
  <2>2. /\ v \in DOMAIN Graph[row.state].done /\ to' = Graph[row.state].done[v]
        /\ mem' = [mem EXCEPT !.pr = @ \/ prState = "open"]
    BY <1>0, <1>2, <2>1, GateBranches DEF WorkDone, GateVerdicts, Go
  <2>4. v = "pass" => prState = "open"
    BY <2>1 DEF WorkDone, GateVerdicts
  <2>3. v = "pass" => mem'.pr
    BY <1>0, <2>2, <2>4 DEF Task
  <2> QED BY <1>3, <2>2, <2>3 DEF Triggers
<1> QED BY <1>3, <1>4, <1>5, <1>6, <1>7, <1>8 DEF Leaves

\* What the drive counted and learnt, at any of its steps before it settles its task
\* or starts it over.
LEMMA KnownSoFar ==
    ASSUME IInv, Copied, pc \notin {"idle", "redrive"}, why \notin {"redrive", "settle"},
           Deciding => row.state \in State
    PROVE  /\ mem.retries \in RoundsOf(row) /\ (row.pr => mem.pr)
           /\ mem.state \in {row.state} \cup Targets(row.state)
<1>0. TypeOK /\ Control /\ row \in Task /\ mem \in Task
  BY DEF IInv, TypeOK
<1>1. row.retries \in RoundsOf(row)
  BY DEF RoundsOf
<1>2. CASE Deciding
  <2>1. MayGo(row, to, mem.pr, mem.retries, prState = "merged") /\ (row.pr => mem.pr)
    BY <1>2 DEF Copied
  <2>2. to \in Targets(row.state) /\ mem.retries \in RoundsOf(row)
    BY <1>0, <1>2, <2>1, MayGoTargets
  <2>3. mem.state = row.state \/ mem.state = to
    BY <1>0 DEF Control
  <2> QED BY <2>1, <2>2, <2>3
<1>3. CASE Spawning
  <2>1. mem = [row EXCEPT !.retries = IF Unrecorded(row) THEN OneMoreRound(row) ELSE @]
    BY <1>3 DEF Copied
  <2>2. mem.retries = (IF Unrecorded(row) THEN OneMoreRound(row) ELSE row.retries)
        /\ mem.pr = row.pr /\ mem.state = row.state
    BY <1>0, <2>1 DEF Task
  <2> QED BY <2>2 DEF RoundsOf
<1>4. CASE pc = "await"
  <2>1. mem = [row EXCEPT !.pr = mem.pr] /\ (row.pr => mem.pr)
    BY <1>4 DEF Copied
  <2>2. mem.retries = row.retries /\ mem.state = row.state
    BY <1>0, <2>1 DEF Task
  <2> QED BY <1>1, <2>1, <2>2
<1>5. CASE ~Deciding /\ ~Spawning /\ pc # "await"
  <2>1. mem = row
    BY <1>0, <1>5 DEF Copied, TypeOK, Deciding, Spawning, MergeSteps
  <2> QED BY <1>1, <2>1
<1> QED BY <1>2, <1>3, <1>4, <1>5

\* A drive that is cancelled settles its task where the record may be given up.
LEMMA SettlesMaySettle ==
    ASSUME IInv, Copied, pc \notin {"idle", "redrive"},
           pc = "loop" => ~isSettled(mem.state), Deciding => why \notin {"redrive", "settle"}
    PROVE  /\ MaySettle(row, SettleTarget(cause), mem.retries) /\ (row.pr => mem.pr)
           /\ mem.state \in {row.state} \cup Targets(row.state)
<1>1. why \notin {"redrive", "settle"}
  BY DEF IInv, Control
<1>2. row.state \in State
  BY <1>1, OpenRow
<1>3. /\ mem.retries \in RoundsOf(row) /\ (row.pr => mem.pr)
      /\ mem.state \in {row.state} \cup Targets(row.state)
  BY <1>1, <1>2, KnownSoFar
<1>4. SettleTarget(cause) \in {Cancelled, escalationTarget(mem.state)}
  BY DEF SettleTarget
<1> QED BY <1>3, <1>4 DEF MaySettle

\* Every step leaves the drive's copy as far from the row, and no farther.
LEMMA CopiedStep ==
    ASSUME IInv, IInv', Copied, [Next]_vars
    PROVE  Copied'
<1>0. TypeOK /\ Control /\ Stands /\ row \in Task /\ mem \in Task
  BY DEF IInv, TypeOK
<1>a. TypeOK' /\ Control' /\ Stands' /\ row' \in Task /\ mem' \in Task
  BY DEF IInv, TypeOK
<1>b. prState = "merged" /\ mem.pr => prState' = "merged"
  BY WorldChanges
<1>1. CASE Rests
  <2>1. UNCHANGED <<row, mem, pc, to, why>>
    BY <1>1 DEF Rests, taskVars, moveVars
  <2>2. pc = "bookkeep" => mem.pr
    BY <1>0 DEF Stands, MergeSteps
  <2>3. ASSUME Deciding, why \notin {"redrive", "settle"}
        PROVE  MayGo(row, to, mem.pr, mem.retries, prState' = "merged")
    <3>1. MayGo(row, to, mem.pr, mem.retries, prState = "merged") /\ (row.pr => mem.pr)
      BY <2>3 DEF Copied
    <3> QED BY <1>b, <3>1 DEF MayGo, Confirms
  <2> QED BY <1>b, <2>1, <2>2, <2>3 DEF Copied, Deciding, Spawning, Here
<1>2. CASE Returns
  BY <1>0, <1>2, StateAssumption DEF Returns, Return, ReturnAt, Copied, Deciding, Spawning, MergeSteps
<1>3. CASE Settles
  <2>1. MaySettle(row, SettleTarget(cause), mem.retries) /\ (row.pr => mem.pr)
    BY <1>3, SettlesMaySettle DEF Settles
  <2> QED BY <1>3, <2>1 DEF Settles, Go, taskVars, Copied, Deciding, Spawning, MergeSteps
<1>4. CASE RunNew
  BY <1>0, <1>4, <1>a DEF RunNew, Step, moveVars, Copied, Control, Deciding, Spawning, MergeSteps
<1>5. CASE RunExisting
  BY <1>0, <1>5 DEF RunExisting, Step, moveVars, taskVars, Copied, Control, Deciding, Spawning, MergeSteps
<1>6. CASE Redrive
  BY <1>0, <1>6 DEF Redrive, Go, Task, Copied, Deciding, Spawning, MergeSteps
<1>7. CASE Reconcile
  <2>0. /\ mem = row /\ pc = "reconcile" /\ ~Deciding /\ row.state \in State
        /\ Here = Graph[row.state] /\ row.state # NoState
    BY <1>0, <1>7, StateAssumption
       DEF Reconcile, Copied, Deciding, Stands, stateHasAgent, Here
  <2>1. ASSUME NEW t, row' = row, mem' = [mem EXCEPT !.pr = TRUE],
               Go(t, "reconcile"), UNCHANGED prState,
               "pass" \in DOMAIN Here.done, t = Here.done["pass"]
        PROVE  Copied'
    <3>1. mem'.pr /\ mem'.retries = row.retries
      BY <1>0, <2>0, <2>1 DEF Task
    <3>2. Triggers(row, to', mem'.pr)
      BY <2>0, <2>1, <3>1 DEF Go, Triggers
    <3>3. MayGo(row, to', mem'.pr, mem'.retries, prState = "merged")
      BY <3>1, <3>2 DEF MayGo
    <3> QED BY <2>0, <2>1, <3>1, <3>3 DEF Go, Copied, Deciding, Spawning, MergeSteps
  <2>2. ASSUME row' = row, ErrsWith([mem EXCEPT !.pr = TRUE])
        PROVE  Copied'
    <3>1. CASE Return
      BY <1>0, <2>0, <2>2, <3>1, StateAssumption
         DEF Return, ReturnAt, Copied, Deciding, Spawning, MergeSteps
    <3>2. CASE Go(SettleTarget(cause), "settle") /\ mem' = [mem EXCEPT !.pr = TRUE]
      <4>1. MaySettle(row, SettleTarget(cause), mem.retries)
        BY <1>7, <2>0, SettlesMaySettle
      <4>2. mem'.pr /\ mem'.retries = mem.retries
        BY <1>0, <3>2 DEF Task
      <4> QED BY <2>0, <2>2, <3>2, <4>1, <4>2
              DEF Go, Copied, Deciding, Spawning, MergeSteps
    <3> QED BY <2>2, <3>1, <3>2 DEF ErrsWith
  <2>3. ASSUME Step("loop"), row' = mem, UNCHANGED mem
        PROVE  Copied'
    BY <1>0, <2>0, <2>3 DEF Step, moveVars, Control, Copied, Deciding, Spawning, MergeSteps
  <2> QED BY <1>7, <2>1, <2>2, <2>3, Zenon DEF Reconcile, worldVars
<1>8. CASE Enters
  <2>1. /\ row' = row /\ mem' = mem /\ mem = row /\ pc' \in {"await", "premerge"}
        /\ why' = why /\ why = "none"
    BY <1>0, <1>8 DEF Enters, NoEntry, ReuseAgent, StartMerge, AtEntry, Step, moveVars,
                      taskVars, Copied, Control, Deciding
  <2> QED BY <1>0, <2>1 DEF Copied, Deciding, Spawning, MergeSteps, Task
<1>9. CASE Exhausted
  <2>0. /\ mem = row /\ pc = "loop" /\ ~Deciding /\ row' = row /\ UNCHANGED prState
        /\ Here = Graph[row.state] /\ ~isSettled(mem.state)
    BY <1>9 DEF Exhausted, AtEntry, Copied, Deciding, Here, worldVars
  <2>1. Unrecorded(row) /\ Counted = OneMoreRound(row)
        /\ Counted[row.state] > RetryCap[row.state] /\ row.state # NoState
    BY <1>9, <2>0, StateAssumption
       DEF Exhausted, FreshRound, Unrecorded, Counted, OneMoreRound, Capped
  <2>2. [mem EXCEPT !.retries = Counted].retries = Counted
        /\ [mem EXCEPT !.retries = Counted].pr = row.pr
    BY <1>0, <2>0 DEF Task
  <2>3. CASE Here.exhausted # NoState
    <3>1. mem' = [mem EXCEPT !.retries = Counted] /\ Go(Here.exhausted, "loop")
      BY <1>9, <2>3 DEF Exhausted
    <3>2. MayGo(row, to', mem'.pr, mem'.retries, prState = "merged")
      BY <2>0, <2>1, <2>2, <2>3, <3>1 DEF Go, MayGo, Exhausts
    <3> QED BY <2>0, <2>1, <2>2, <3>1, <3>2
            DEF Go, Copied, Deciding, Spawning, MergeSteps
  <2>4. CASE ErrsWith([mem EXCEPT !.retries = Counted])
    <3>1. CASE Return
      BY <1>0, <2>0, <2>1, <3>1, StateAssumption
         DEF Return, ReturnAt, Copied, Deciding, Spawning, MergeSteps
    <3>2. CASE Go(SettleTarget(cause), "settle") /\ mem' = [mem EXCEPT !.retries = Counted]
      <4>1. MaySettle(row, SettleTarget(cause), mem.retries)
        BY <2>0, SettlesMaySettle
      <4>2. MaySettle(row, SettleTarget(cause), mem'.retries)
        BY <2>1, <2>2, <3>2, <4>1 DEF MaySettle, RoundsOf
      <4> QED BY <2>0, <2>1, <2>2, <3>2, <4>2
              DEF Go, Copied, Deciding, Spawning, MergeSteps
    <3> QED BY <2>4, <3>1, <3>2 DEF ErrsWith
  <2> QED BY <1>9, <2>3, <2>4 DEF Exhausted
<1>10. CASE SpawnAfresh
  <2>0. /\ mem = row /\ pc = "loop" /\ row' = row /\ pc' = "prepare" /\ why' = why
        /\ why = "none"
    BY <1>0, <1>10 DEF SpawnAfresh, AtEntry, Copied, Step, moveVars, Control, Deciding
  <2>1. FreshRound <=> Unrecorded(row)
    BY <2>0 DEF FreshRound, Unrecorded, Here
  <2>2. Counted = OneMoreRound(row)
    BY <2>0 DEF Counted, OneMoreRound
  <2>3. /\ mem' = [row EXCEPT !.retries = IF Unrecorded(row) THEN OneMoreRound(row) ELSE @]
        /\ Unrecorded(row) => OneMoreRound(row)[row.state] <= RetryCap[row.state]
    BY <1>10, <2>0, <2>1, <2>2 DEF SpawnAfresh
  <2>4. row.state # NoState
    BY <1>0, <2>0 DEF Control
  <2> QED BY <2>0, <2>3, <2>4 DEF Copied, Deciding, Spawning, MergeSteps
<1>11. CASE Prepare \/ Spawn
  BY <1>0, <1>11 DEF Prepare, Spawn, Step, moveVars, taskVars, Copied, Deciding, Spawning, MergeSteps
<1>12. CASE Record
  <2>1. /\ row' = mem' /\ pc' = "await" /\ why' = why /\ why = "none" /\ row'.state # NoState
    BY <1>0, <1>12, <1>a DEF Record, Step, moveVars, Control, Deciding
  <2> QED BY <1>a, <2>1 DEF Copied, Deciding, Spawning, MergeSteps, Task
<1>13. CASE Leaves
  <2>1. /\ pc' = "audit" /\ row' = row /\ prState' = prState
        /\ why' \in {"loop", "decision"}
    BY <1>0, <1>13, LeavesTo
  <2>2. MayGo(row, to', mem'.pr, mem'.retries, prState = "merged") /\ (row.pr => mem'.pr)
    BY <1>13, LeavesMayGo DEF MayGo
  <2>3. row.state # NoState
    BY <1>0, <1>13, LeavesTo DEF Control
  <2> QED BY <2>1, <2>2, <2>3 DEF Copied, Deciding, Spawning, MergeSteps
<1>14. CASE StatusSeen
  <2>0. /\ pc = "await" /\ pc' = "await" /\ why' = why /\ why = "none" /\ row' = mem
        /\ DOMAIN Here.done # {} /\ row.state # NoState /\ mem.state = row.state
    BY <1>0, <1>14 DEF StatusSeen, AwaitsAgent, moveVars, Control, Deciding
  <2>1. mem' = mem \/ mem' = [mem EXCEPT !.pr = @ \/ prState = "open"]
    BY <1>14 DEF StatusSeen
  <2>2. mem' = [mem EXCEPT !.pr = mem'.pr] /\ (mem.pr => mem'.pr) /\ mem'.state = mem.state
    BY <1>0, <2>1 DEF Task
  <2>3. DOMAIN Here'.done # {}
    BY <2>0, <2>2 DEF Here
  <2> QED BY <2>0, <2>2, <2>3 DEF Copied, Deciding, Spawning, MergeSteps
<1>15. CASE GatePasses
  <2>0. /\ pc = "await" /\ pc' = "audit" /\ row' = row /\ mem' = mem /\ why' = "gate"
        /\ DOMAIN Here.done = {} /\ mem.pr /\ to' = Here.watch["pass"]
        /\ prState' = prState
    BY <1>15 DEF GatePasses, AwaitsGate, Go, taskVars, worldVars
  <2>1. row.pr /\ mem = [row EXCEPT !.pr = mem.pr]
    BY <2>0 DEF Copied
  <2>2. mem.state = row.state /\ mem.retries = row.retries /\ row.state # NoState
    BY <1>0, <2>0, <2>1 DEF Task, Control
  <2>3. "pass" \in DOMAIN Here.watch
    BY <1>0, <1>15, GateBranches DEF GatePasses
  <2>4. MayGo(row, to', mem'.pr, mem'.retries, prState = "merged")
    BY <2>0, <2>1, <2>2, <2>3 DEF MayGo, Passes, Here
  <2> QED BY <2>0, <2>2, <2>4 DEF Copied, Deciding, Spawning, MergeSteps
<1>16. CASE Merges
  <2>1. /\ row' = row /\ mem' = mem /\ mem = row /\ pc' \in MergeSteps
        /\ why' = why /\ why = "none"
    BY <1>0, <1>16 DEF Merges, PreMerge, Merge, Verify, Step, moveVars,
                      taskVars, Copied, Control, Deciding, MergeSteps
  <2>2. pc' = "bookkeep" => prState' = "merged"
    BY <1>16 DEF Merges, PreMerge, Merge, Verify, Step, worldVars
  <2> QED BY <1>0, <2>1, <2>2 DEF Copied, Deciding, Spawning, MergeSteps, Task
<1>17. CASE Bookkeep
  <2>0. /\ pc = "bookkeep" /\ pc' = "audit" /\ row' = row /\ mem' = mem /\ why' = "loop"
        /\ to' = Here.merged /\ Here.merged # NoState /\ prState' = prState
    BY <1>17 DEF Bookkeep, Go, taskVars
  <2>1. mem = row /\ prState = "merged" /\ row.state # NoState
    BY <1>0, <2>0 DEF Copied, MergeSteps, Control
  <2>2. Merging(row.state) /\ row.pr /\ ~row.dry
    BY <1>0, <2>0, <2>1 DEF Stands, MergeSteps
  <2>3. MayGo(row, to', mem'.pr, mem'.retries, prState = "merged")
    BY <2>0, <2>1, <2>2 DEF MayGo, Confirms, Here
  <2> QED BY <2>0, <2>1, <2>3 DEF Copied, Deciding, Spawning, MergeSteps
<1>18. CASE AppendAudit
  <2>1. mem'.pr = mem.pr /\ mem'.retries = mem.retries
    BY <1>0, <1>18 DEF AppendAudit, Task
  <2> QED BY <1>18, <2>1 DEF AppendAudit, moveVars, worldVars, Copied, Deciding, Spawning, MergeSteps
<1>19. CASE UpdateTask
  <2>1. /\ row' = mem /\ mem' = mem /\ pc' \in {"idle", "loop"} /\ why' = "none"
    BY <1>19 DEF UpdateTask, ReturnAt
  <2>2. row'.state # NoState
    BY <1>0, <1>19, <2>1 DEF UpdateTask, Control, Deciding
  <2> QED BY <2>1, <2>2 DEF Copied, Deciding, Spawning, MergeSteps
<1> QED BY <1>1, <1>2, <1>3, <1>4, <1>5, <1>6, <1>7, <1>8, <1>9, <1>10, <1>11, <1>12,
           <1>13, <1>14, <1>15, <1>16, <1>17, <1>18, <1>19, StepKinds, Zenon

-----------------------------------------------------------------------------
(***************************************************************************)
(* Each write of the row is one of the record's.                           *)
(***************************************************************************)
\* The two modules read the workflow alike.
LEMMA SameWorkflow ==
    /\ \A s : Life!isSettled(s) <=> isSettled(s)
    /\ \A s : Life!IsStopped(s) <=> IsStopped(s)
    /\ \A s : Life!stateHasAgent(s) <=> stateHasAgent(s)
    /\ \A s : Life!Merging(s) <=> Merging(s)
    /\ \A s : Life!escalationTarget(s) = escalationTarget(s)
    /\ \A s : Life!Targets(s) = Targets(s)
<1>1. \A s : Life!isTerminal(s) <=> isTerminal(s)
  BY DEF Life!isTerminal, isTerminal
<1>2. \A s : Life!isAlert(s) <=> isAlert(s)
  BY DEF Life!isAlert, isAlert
<1>3. \A s : Life!Merging(s) <=> Merging(s)
  BY DEF Life!Merging, Merging
<1>4. Life!alertTerminal = alertTerminal
  BY DEF Life!alertTerminal, alertTerminal, Life!isAlert, isAlert
<1>5. \A s : Life!escalationTarget(s) = escalationTarget(s)
  BY <1>4 DEF Life!escalationTarget, escalationTarget
<1>6. \A s : Life!PlainTargets(s) = PlainTargets(s)
  BY DEF Life!PlainTargets, PlainTargets
<1>7. \A s : Life!Targets(s) = Targets(s)
  BY <1>5, <1>6 DEF Life!Targets, Targets
<1>8. \A s : Life!isSettled(s) <=> isSettled(s)
  BY <1>1 DEF Life!isSettled, isSettled
<1>9. \A s : Life!IsStopped(s) <=> IsStopped(s)
  BY <1>2 DEF Life!IsStopped, IsStopped
<1>10. \A s : Life!stateHasAgent(s) <=> stateHasAgent(s)
  BY DEF Life!stateHasAgent, stateHasAgent
<1> QED BY <1>3, <1>5, <1>7, <1>8, <1>9, <1>10

\* They count rounds alike.
LEMMA SameRounds ==
    /\ Life!NewRound <=> Unrecorded(row)
    /\ Life!OneMore = OneMoreRound(row)
    /\ Life!Declared = Graph[row.state]
    /\ Life!NoRounds = NoRetries
BY DEF Life!NewRound, Life!OneMore, Life!Declared, Life!NoRounds, NoRetries, Capped,
       Unrecorded, OneMoreRound

\* At first there is no task.
LEMMA InitLives == Init => Life!Init
BY DEF Init, Life!Init, NoTask, NoRetries, Life!NoRounds, Capped

\* The write that ends a transition is one that the record may take.
LEMMA TransitionLives ==
    ASSUME IInv, Copied, UpdateTask
    PROVE  Life!Write
<1>0. TypeOK /\ Control /\ row \in Task /\ mem \in Task
  BY DEF IInv, TypeOK
<1>1. pc = "save" /\ Deciding /\ row' = mem /\ mem.state = to /\ mem.dry = row.dry
  BY <1>0 DEF UpdateTask, Deciding, Control
<1>2. CASE why = "redrive"
  <2>1. IsStopped(row.state) /\ to = EntryState /\ mem.retries = NoRetries
        /\ mem.spawn = NoState
    BY <1>0, <1>2 DEF Control
  <2>2. ~mem.pr /\ mem.pr \in BOOLEAN
    BY <1>0, <1>2 DEF Copied, Task
  <2>3. row' = [row EXCEPT !.state = EntryState, !.pr = FALSE, !.spawn = NoState,
                           !.retries = NoRetries]
    BY <1>0, <1>1, <2>1, <2>2 DEF Task
  <2>4. Life!StartOver
    BY <2>1, <2>3, SameWorkflow, SameRounds DEF Life!StartOver
  <2> QED BY <2>4 DEF Life!Write
<1>3. CASE why # "redrive"
  <2>1. row.state \in State /\ ~isSettled(row.state) /\ Life!Open
    BY <1>1, <1>3, OpenRow, SameWorkflow DEF Life!Open
  <2>2. mem.pr \in {row.pr, TRUE} /\ mem.spawn = row.spawn
    BY <1>0, <1>1, <1>3 DEF Copied, Task, Control
  <2>3. row' = [row EXCEPT !.state = to, !.pr = mem.pr, !.retries = mem.retries]
    BY <1>0, <1>1, <2>2 DEF Task
  <2>4. Life!MovesTo(to, mem.retries)
    BY <2>2, <2>3 DEF Life!MovesTo
  <2>5. CASE why = "settle"
    <3>1. MaySettle(row, to, mem.retries)
      BY <1>1, <2>5 DEF Copied
    <3>2. Life!GiveUp
      BY <2>1, <2>4, <3>1, SameWorkflow, SameRounds DEF MaySettle, RoundsOf, Life!GiveUp
    <3> QED BY <3>2 DEF Life!Write
  <2>6. CASE why # "settle"
    <3>1. MayGo(row, to, mem.pr, mem.retries, prState = "merged")
      BY <1>1, <1>3, <2>6 DEF Copied
    <3>2. row'.pr = mem.pr
      BY <1>1
    <3>3. CASE Triggers(row, to, mem.pr) /\ mem.retries = row.retries
      <4>1. Life!Follow
        BY <2>1, <2>4, <3>2, <3>3, SameRounds DEF Triggers, Life!Follow
      <4> QED BY <4>1 DEF Life!Write
    <3>4. CASE Passes(row, to) /\ mem.retries = row.retries
      <4>1. Life!GatesPass
        BY <2>1, <2>4, <3>4, SameRounds DEF Passes, Life!GatesPass
      <4> QED BY <4>1 DEF Life!Write
    <3>5. CASE Confirms(row, to, prState = "merged") /\ mem.retries = row.retries
      <4>1. Life!MergeConfirmed
        BY <2>1, <2>4, <3>5, SameWorkflow, SameRounds DEF Confirms, Life!MergeConfirmed
      <4> QED BY <4>1 DEF Life!Write
    <3>6. CASE to = escalationTarget(row.state) /\ mem.retries = row.retries
      <4>1. Life!GiveUp
        BY <2>1, <2>4, <3>6, SameWorkflow DEF Life!GiveUp
      <4> QED BY <4>1 DEF Life!Write
    <3>7. CASE Exhausts(row, to, mem.retries)
      <4>1. Life!Exhaust
        BY <2>1, <2>4, <3>7, SameRounds DEF Exhausts, Life!Exhaust
      <4> QED BY <4>1 DEF Life!Write
    <3> QED BY <3>1, <3>3, <3>4, <3>5, <3>6, <3>7 DEF MayGo
  <2> QED BY <2>5, <2>6
<1> QED BY <1>2, <1>3

\* A step of the engine is one of the record's, or none.
LEMMA StepLives ==
    ASSUME IInv, Copied, [Next]_vars
    PROVE  [Life!Next]_<<row, prState = "merged">>
<1>0. TypeOK /\ Control /\ Stands /\ row \in Task /\ mem \in Task
  BY DEF IInv, TypeOK
<1>1. CASE row' = row
  <2>1. (prState = "merged")' \in BOOLEAN
    OBVIOUS
  <2> QED BY <1>1, <2>1 DEF Life!Next
<1>2. CASE RunNew
  <2>1. row = NoTask /\ liveDry \in BOOLEAN /\ prState' = prState /\ row.state = NoState
    BY <1>0, <1>2, DryRunsAssumption DEF RunNew, Copied, TypeOK, worldVars
  <2>2. row' = [row EXCEPT !.state = EntryState, !.dry = liveDry]
    BY <1>2, <2>1 DEF RunNew
  <2>3. Life!Create
    BY <2>1, <2>2 DEF Life!Create
  <2> QED BY <2>1, <2>3 DEF Life!Write, Life!Next
<1>3. CASE Record
  <2>1. /\ pc = "record" /\ prState' = prState /\ mem.state = row.state
        /\ row' = [mem EXCEPT !.spawn = mem.state]
    BY <1>0, <1>3 DEF Record, Control, Deciding, worldVars
  <2>2. /\ mem = [row EXCEPT !.retries = IF Unrecorded(row) THEN OneMoreRound(row) ELSE @]
        /\ Unrecorded(row) => OneMoreRound(row)[row.state] <= RetryCap[row.state]
    BY <2>1 DEF Copied, Spawning
  <2>3. row' = [row EXCEPT !.spawn = row.state,
                           !.retries = IF Unrecorded(row) THEN OneMoreRound(row) ELSE @]
    BY <1>0, <2>1, <2>2 DEF Task
  <2>4. stateHasAgent(row.state) /\ ~isSettled(row.state) /\ row.state \in State
    BY <1>0, <2>1 DEF Stands, Spawning, stateHasAgent
  <2>5. Life!AgentSpawned
    BY <2>2, <2>3, <2>4, SameWorkflow, SameRounds DEF Life!AgentSpawned, Life!Open
  <2> QED BY <2>1, <2>5 DEF Life!Write, Life!Next
<1>4. CASE StatusSeen
  <2>1. pc = "await" /\ row' = mem /\ prState' = prState /\ mem.state = row.state
    BY <1>0, <1>4 DEF StatusSeen, AwaitsAgent, worldVars, Control, Deciding
  <2>2. row' = [row EXCEPT !.pr = mem.pr] /\ (row.pr => mem.pr)
    BY <2>1 DEF Copied
  <2>3. row' = row \/ row' = [row EXCEPT !.pr = TRUE]
    BY <1>0, <2>2 DEF Task
  <2>4. row.state \in State /\ ~isSettled(row.state)
    BY <1>0, <2>1 DEF Stands
  <2>5. row' = row \/ Life!PRFound
    BY <2>3, <2>4, SameWorkflow DEF Life!PRFound, Life!Open
  <2> QED BY <1>1, <2>1, <2>5 DEF Life!Write, Life!Next
<1>5. CASE UpdateTask
  <2>1. prState' = prState
    BY <1>5 DEF UpdateTask
  <2> QED BY <1>5, <2>1, TransitionLives DEF Life!Next
<1>6. row' = row \/ RunNew \/ Record \/ StatusSeen \/ UpdateTask
  <2>1. Reconcile => row' = row
    BY DEF Reconcile, Copied
  <2>2. Leaves => row' = row
    BY <1>0, LeavesTo
  <2> QED BY <2>1, <2>2, StepKinds
          DEF Rests, Returns, Settles, RunExisting, Redrive, Enters, NoEntry, ReuseAgent,
              StartMerge, Exhausted, SpawnAfresh, Prepare, Spawn, GatePasses, Merges,
              PreMerge, Merge, Verify, Bookkeep, AppendAudit, taskVars
<1> QED BY <1>1, <1>2, <1>3, <1>4, <1>5, <1>6

\* The drive's copy of the task and the row never differ in more than Copied says.
THEOREM CopyInvariant == Spec => []Copied
<1>1. Init => Copied
  BY DEF Init, Copied, Deciding, Spawning, MergeSteps
<1>2. IInv /\ IInv' /\ Copied /\ [Next]_vars => Copied'
  BY CopiedStep
<1> QED BY <1>1, <1>2, Invariant, PTL DEF Spec

\* Every behaviour of the engine, read as the life of its row and whether GitHub has
\* merged the PR, is one of TaskRecord, on every workflow.
THEOREM RowsLiveByWorkflow == Spec => RowLivesByWorkflow
<1>1. Init => Life!Init
  BY InitLives
<1>2. IInv /\ Copied /\ [Next]_vars => [Life!Next]_<<row, prState = "merged">>
  BY StepLives
<1> QED BY <1>1, <1>2, Invariant, CopyInvariant, PTL DEF Spec, RowLivesByWorkflow, Life!Spec

=============================================================================
