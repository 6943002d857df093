---------------------------- MODULE EngineProofs ----------------------------
(***************************************************************************)
(* Proofs about Engine, for every workflow: the inductive invariants its   *)
(* safety properties need, and the properties as theorems of Spec.  Those  *)
(* that only some workflows have are proved from what the workflow must    *)
(* have for them (module Workflow).                                        *)
(***************************************************************************)
EXTENDS Engine, TLAPS

Deciding   == pc \in {"audit", "save"}
Spawning   == pc \in {"prepare", "spawn", "record"}
MergeSteps == {"premerge", "merge", "verify", "bookkeep"}

\* Where the drive can be, given the row and its own copy of it.
Control ==
    /\ pc = "idle" => mem = row
    /\ pc # "idle" => row.state # NoState /\ mem.dry = row.dry
    /\ Deciding <=> why # "none"
    /\ Deciding <=> to # NoState
    /\ pc = "save" => mem.state = to
    /\ pc # "save" /\ why # "settle" => mem.state = row.state
    /\ why # "redrive" => mem.spawn = row.spawn
    /\ pc = "redrive" \/ why = "redrive" => IsStopped(row.state)
    /\ why = "redrive" => to = EntryState /\ mem.retries = NoRetries /\ mem.spawn = NoState
    /\ Deciding /\ isSettled(row.state) => why = "redrive"
    /\ Deciding /\ why # "settle" /\ to = Cancelled => alertTerminal = NoState

\* What holds of the task's state at each of the drive's steps.
Stands ==
    /\ pc = "reconcile" \/ Spawning =>
          stateHasAgent(mem.state) /\ ~isSettled(mem.state)
    /\ pc = "await" =>
          /\ mem.state \in State /\ ~isSettled(mem.state) /\ ~Merging(mem.state)
          /\ stateHasAgent(mem.state) => mem.spawn = mem.state
    /\ pc \in MergeSteps =>
          Merging(mem.state) /\ ~isSettled(mem.state) /\ mem.pr /\ ~mem.dry

\* An agent is only replaced when it is gone, or not the recorded one of this state.
Agents ==
    /\ agent.at = NoState => ~agent.fresh
    /\ LiveAgentIsKept

IInv == TypeOK /\ Control /\ Stands /\ Agents

-----------------------------------------------------------------------------
MergesAt(s) == Merging(s) /\ ~isSettled(s)

\* A merge state is entered through gates that passed, by a drive that knew the PR.
Gated ==
    /\ MergesAt(row.state) => green /\ row.pr
    /\ Deciding /\ MergesAt(to) => why = "gate" /\ mem.pr

\* Where the task counts as merged, or is about to, its PR is merged, and known:
\* no agent opens another one.
Merged ==
    LET done == prState = "merged" /\ mem.pr
    IN  /\ row.state \in MergedStates => done /\ row.pr
        /\ pc = "bookkeep" => done
        /\ Deciding /\ to \in MergedStates => done

\* The states a task can be in while its last agent is one of s, a state it left.
Anew == {s \in State : SpawnsAnew(s)}
Left == [s \in Anew |->
            CHOOSE R \in SUBSET (State \cup {Cancelled}) : Outlasts(s, R)]

\* Where the task can be, or go, given the state its last agent was spawned for.
SpawnKnown ==
    \A s \in Anew :
        /\ row.spawn = s => row.state = s \/ row.state \in Left[s]
        /\ Deciding /\ mem.spawn = s =>
              to \in Left[s] \/ (to = s /\ row.state = s)

\* The verdict file holds nothing of an earlier round once this round's agent is
\* asked, or is recorded as asked.
Asked ==
    /\ row.state \in State /\ Graph[row.state].decides /\ row.spawn = row.state
          => verdict # "old"
    /\ pc \in {"spawn", "record"} /\ Here.decides => verdict # "old"
    /\ why = "decision" => verdict # "old"

\* The count of rounds, in the row, in the drive's copy, and on the way to the row.
Rounds ==
    /\ RoundsAreCounted
    /\ row.state = NoState => row.retries = NoRetries
    /\ ~(Deciding \/ Spawning) => mem.retries = row.retries
    /\ Spawning => mem.retries =
          IF FreshRound THEN [row.retries EXCEPT ![mem.state] = @ + 1] ELSE row.retries
    /\ Deciding /\ why # "redrive" =>
          \A s \in Capped :
              /\ rounds[s] - mem.retries[s] \in
                     IF why = "settle" /\ isSettled(to) THEN {0, 1} ELSE {0}
              /\ to = s => why # "settle" /\ (row.state = s <=> mem.spawn = s)

-----------------------------------------------------------------------------
(***************************************************************************)
(* What a step can be, for the row, the drive and its transition; and what *)
(* a step can do to the world outside.                                     *)
(***************************************************************************)
\* A step of somebody else.
Rests == UNCHANGED <<taskVars, pc, moveVars, histVars>>

\* The drive ends where the row is.
Returns == row' = row /\ Return /\ UNCHANGED histVars

\* A failing drive that was cancelled settles its task.
Settles ==
    /\ pc \notin {"idle", "redrive"}
    /\ pc = "loop" => ~isSettled(mem.state)
    /\ Deciding => why \notin {"redrive", "settle"}
    /\ Go(SettleTarget(cause), "settle")
    /\ UNCHANGED <<taskVars, histVars>>

\* The drive has what it needs in its state, and waits, or merges.
Enters == (NoEntry \/ ReuseAgent \/ StartMerge) /\ UNCHANGED worldVars

\* A trigger fires, other than the pass of a merge gate.
Leaves ==
    \/ Scheduled \/ StateTimeout \/ BoundFires \/ GateFails \/ GateTimeout
    \/ \E v \in Verdicts : DecisionMade(v) \/ WorkDone(v)

Merges == PreMerge \/ Merge \/ Verify

\* Every step is one of these.
LEMMA StepKinds ==
    ASSUME [Next]_vars
    PROVE  \/ Rests \/ Returns \/ Settles
           \/ RunNew \/ RunExisting \/ Redrive \/ Reconcile
           \/ Enters \/ Exhausted \/ SpawnAfresh \/ Prepare \/ Spawn \/ Record
           \/ Leaves \/ StatusSeen \/ GatePasses \/ Merges \/ Bookkeep
           \/ AppendAudit \/ UpdateTask
<1>1. CASE Environment \/ Finished \/ UNCHANGED vars
  <2>1. Rests
    BY <1>1, Zenon DEF Environment, Finished, Cancel, TimePasses, AgentWrites, AgentPushes,
         AgentOpensPR, AgentGone, PersonActs, EditConfig, Outside, Rests, vars, taskVars,
         clockVars, moveVars, worldVars, histVars
  <2> QED BY <2>1
<1>2. CASE DriveLost \/ RefuseRedrive \/ Halt \/ DryMerge \/ Suspend \/ RedriveCancelled
  <2>1. Returns
    BY <1>2, Zenon DEF DriveLost, RefuseRedrive, Halt, DryMerge, Suspend, RedriveCancelled,
         Returns, histVars
  <2> QED BY <2>1
<1>3. CASE CallCancelled \/ DriveErrs
  <2>1. Returns \/ Settles
    BY <1>3, Zenon
       DEF CallCancelled, DriveErrs, DoneUndecided, Refuses, AwaitsAgent, AtEntry,
           Deciding, Errs, ErrsWith, Returns, Settles, taskVars, histVars
  <2> QED BY <2>1
<1>4. CASE NoEntry \/ ReuseAgent \/ StartMerge
  BY <1>4, Zenon DEF Enters, NoEntry, ReuseAgent, StartMerge
<1> QED BY <1>1, <1>2, <1>3, <1>4, Zenon DEF Next, Run, DriveStep, EntryActions, AgentStep,
             Leaves, Merges

\* Where an escalation leads.
LEMMA EscalationTargets ==
    /\ alertTerminal \in State \cup {NoState}
    /\ alertTerminal # NoState => isAlert(alertTerminal)
    /\ \A s : escalationTarget(s) \in State \cup {Cancelled}
    /\ \A s : escalationTarget(s) = Cancelled => alertTerminal = NoState
BY GraphAssumption, StateAssumption DEF escalationTarget, alertTerminal, isAlert

\* A state that waits for gates, or whose agent's work is judged by gates, has a
\* branch for either verdict.
LEMMA GateBranches ==
    ASSUME TypeOK, Stands
    PROVE  /\ AwaitsGate =>
                 /\ mem.state \in State /\ DOMAIN Here.watch = {"pass", "fail"}
                 /\ Here.watch["pass"] \in State /\ Here.watch["fail"] \in State
           /\ AwaitsAgent /\ ~Here.decides => DOMAIN Here.done = {"pass", "fail"}
<1>1. pc = "await" => mem.state \in State /\ ~isTerminal(mem.state) /\ ~Merging(mem.state)
  BY DEF Stands, isSettled
<1>2. pc = "await" =>
        /\ Here.terminal = "no" /\ Here.entry # "merge"
        /\ DOMAIN Here.watch \in {{}, {"pass", "fail"}}
        /\ ~Here.decides => DOMAIN Here.done \in {{}, {"pass", "fail"}}
        /\ DOMAIN Here.done = {} /\ Here.auto = NoState =>
              DOMAIN Here.watch # {}
  BY <1>1, ExecutableAssumption DEF Here, isTerminal, Merging
<1>3. pc = "await" => \A v \in DOMAIN Here.watch : Here.watch[v] \in State
  BY <1>1, GraphAssumption DEF Here
<1> QED BY <1>1, <1>2, <1>3 DEF AwaitsGate, AwaitsAgent

\* A trigger leads to a target the state declares, or escalates; on the way the
\* drive may learn of the PR.
LEMMA LeavesTo ==
    ASSUME TypeOK, Stands, Leaves
    PROVE  /\ pc = "await" /\ pc' = "audit" /\ UNCHANGED <<row, agent, verdict, prState, histVars>>
           /\ mem' = mem \/ mem' = [mem EXCEPT !.pr = @ \/ prState = "open"]
           /\ to' \in PlainTargets(mem.state) \cup {escalationTarget(mem.state)}
           /\ to' \in State \cup {Cancelled} /\ to' # NoState
           /\ to' = Cancelled => alertTerminal = NoState
           /\ why' \in {"loop", "decision"}
           /\ why' = "decision" => Here.decides
<1>0. mem.state \in State /\ pc = "await"
  BY Zenon DEF Leaves, Scheduled, StateTimeout, BoundFires, GateFails, GateTimeout,
               DecisionMade, WorkDone, AwaitsAgent, AwaitsGate, Stands
<1>1. PlainTargets(mem.state) \subseteq State /\ NoState \notin PlainTargets(mem.state)
  BY <1>0, GraphAssumption, StateAssumption DEF PlainTargets
<1>2. CASE Scheduled
  <2>1. to' \in PlainTargets(mem.state) /\ why' = "loop"
    BY <1>2 DEF Scheduled, Go, Here, PlainTargets
  <2> QED BY <1>0, <1>1, <1>2, <2>1, StateAssumption
          DEF Scheduled, Go, taskVars, worldVars, histVars
<1>3. CASE StateTimeout \/ GateTimeout
  <2>1. to' \in PlainTargets(mem.state) /\ why' = "loop"
    BY <1>3 DEF StateTimeout, GateTimeout, Go, Here, PlainTargets
  <2> QED BY <1>0, <1>1, <1>3, <2>1, StateAssumption
          DEF StateTimeout, GateTimeout, Go, taskVars, worldVars, histVars
<1>4. CASE BoundFires
  BY <1>0, <1>4, EscalationTargets, StateAssumption
     DEF BoundFires, Go, taskVars, worldVars, histVars
<1>5. CASE GateFails
  <2>1. to' \in PlainTargets(mem.state) /\ why' = "loop"
    BY <1>0, <1>5, GateBranches, StateAssumption DEF GateFails, Go, Here, PlainTargets
  <2> QED BY <1>0, <1>1, <1>5, <2>1, StateAssumption
          DEF GateFails, Go, taskVars, worldVars, histVars
<1>6. CASE \E v \in Verdicts : DecisionMade(v)
  <2>1. PICK v \in DOMAIN Here.done : DecisionMade(v)
    BY <1>6 DEF DecisionMade
  <2>2. to' \in PlainTargets(mem.state) /\ why' = "decision" /\ Here.decides
    BY <1>0, <1>1, <2>1, GraphAssumption, StateAssumption
       DEF DecisionMade, Go, Here, PlainTargets
  <2> QED BY <1>0, <1>1, <2>1, <2>2, StateAssumption
          DEF DecisionMade, Go, taskVars, worldVars, histVars
<1>7. CASE \E v \in Verdicts : WorkDone(v)
  <2>1. PICK v \in {"pass", "fail"} : WorkDone(v)
    BY <1>7 DEF WorkDone, GateVerdicts
  <2>2. to' \in PlainTargets(mem.state) /\ why' = "loop"
    BY <1>0, <2>1, GateBranches, GraphAssumption, StateAssumption
       DEF WorkDone, Go, Here, PlainTargets
  <2> QED BY <1>0, <1>1, <2>1, <2>2, StateAssumption
          DEF WorkDone, Go, taskVars, worldVars, histVars
<1> QED BY <1>2, <1>3, <1>4, <1>5, <1>6, <1>7 DEF Leaves

\* The task's record, and what is changed of it.
LEMMA Tasks ==
    ASSUME NEW t \in Task
    PROVE  /\ t.state \in State \cup {NoState, Cancelled} /\ t.pr \in BOOLEAN
           /\ t.spawn \in State \cup {NoState} /\ t.retries \in [Capped -> Nat]
           /\ t.dry \in BOOLEAN
           /\ \A s \in State \cup {Cancelled} : [t EXCEPT !.state = s] \in Task
           /\ \A s \in State : [t EXCEPT !.spawn = s] \in Task
           /\ \A b \in BOOLEAN : [t EXCEPT !.pr = b] \in Task
           /\ \A n \in [Capped -> Nat] : [t EXCEPT !.retries = n] \in Task
BY DEF Task

\* Counts of rounds, and one more.
LEMMA Counts ==
    /\ NoRetries \in [Capped -> Nat]
    /\ \A r \in [Capped -> Nat] : \A s \in Capped :
          [r EXCEPT ![s] = @ + 1] \in [Capped -> Nat]
BY DEF NoRetries

\* A step keeps the row, and the copy of it, a task.
LEMMA TaskStep ==
    ASSUME IInv, [Next]_vars
    PROVE  (row \in Task /\ mem \in Task)'
<1> USE DEF IInv, TypeOK
<1>1. CASE Rests \/ Settles
  BY <1>1 DEF Rests, Settles, taskVars
<1>2. CASE Returns
  BY <1>2 DEF Returns, Return, ReturnAt
<1>3. CASE RunNew
  <2>1. liveDry \in BOOLEAN
    BY DryRunsAssumption
  <2> QED BY <1>3, <2>1, StateAssumption, Counts DEF RunNew, NoTask, Task
<1>4. CASE RunExisting \/ Enters \/ Prepare \/ Spawn \/ GatePasses \/ Merges \/ Bookkeep
  BY <1>4, Zenon DEF RunExisting, Enters, NoEntry, ReuseAgent, StartMerge, Prepare, Spawn,
       GatePasses, Merges, PreMerge, Merge, Verify, Bookkeep, taskVars
<1>5. CASE Redrive
  BY <1>5, Counts DEF Redrive, Task
<1>6. CASE Reconcile
  BY <1>6, Tasks DEF Reconcile, ErrsWith, Return, ReturnAt
<1>7. CASE Exhausted \/ SpawnAfresh
  <2>1. FreshRound => Counted \in [Capped -> Nat]
    BY Counts, Tasks DEF FreshRound, Counted
  <2>2. CASE Exhausted
    BY <2>1, <2>2, Tasks DEF Exhausted, ErrsWith, Return, ReturnAt
  <2>3. CASE SpawnAfresh
    BY <2>1, <2>3, Tasks DEF SpawnAfresh
  <2> QED BY <1>7, <2>2, <2>3
<1>8. CASE Record
  <2>1. mem.state \in State
    BY <1>8 DEF Record, Stands, Spawning, stateHasAgent
  <2> QED BY <1>8, <2>1, Tasks DEF Record
<1>9. CASE Leaves \/ StatusSeen
  <2>1. (mem.pr \/ prState = "open") \in BOOLEAN
    OBVIOUS
  <2>2. CASE Leaves
    BY <2>1, <2>2, LeavesTo, Tasks DEF IInv
  <2>3. CASE StatusSeen
    BY <2>1, <2>3, Tasks DEF StatusSeen
  <2> QED BY <1>9, <2>2, <2>3
<1>10. CASE AppendAudit
  <2>1. to \in State \cup {Cancelled}
    BY <1>10 DEF AppendAudit, Control, Deciding
  <2> QED BY <1>10, <2>1, Tasks DEF AppendAudit
<1>11. CASE UpdateTask
  BY <1>11, Zenon DEF UpdateTask, ReturnAt
<1> QED
  BY <1>1, <1>2, <1>3, <1>4, <1>5, <1>6, <1>7, <1>8, <1>9, <1>10, <1>11, StepKinds,
     Zenon

\* What a step does to the task's workspace, pull request and verdict file: a merged
\* pull request stays so, unless an agent may open another one; a verdict is written
\* by an agent, or cleared, or made an old one by the task's going on.
LEMMA WorldChanges ==
    ASSUME [Next]_vars
    PROVE  /\ \/ agent' = agent
              \/ /\ agent' = NoAgent
                 /\ pc' = pc \/ pc = "spawn" \/ (pc = "loop" /\ ~IsStopped(mem.state))
              \/ pc = "spawn" /\ pc' \notin {"prepare", "spawn"}
                   /\ agent' = [at |-> mem.state, fresh |-> TRUE]
              \/ UpdateTask /\ row.state # to /\ agent' = [agent EXCEPT !.fresh = FALSE]
           /\ \/ prState' = prState \/ prState' = "merged"
              \/ prState = "open" /\ prState' = "closed"
              \/ prState # "open" /\ prState' = "open" /\ ~mem.pr
           /\ \/ verdict' = verdict
              \/ verdict' \in {"fresh", "late", "bad"} /\ Rests
              \/ pc = "prepare" /\ verdict' = "none"
              \/ UpdateTask /\ row.state # to /\ verdict' = "old"
<1> USE DEF Next, Run, RunNew, RunExisting, DriveStep, AgentStep, Environment, EntryActions,
      RefuseRedrive, Redrive, Reconcile, Halt, NoEntry, ReuseAgent, Exhausted, SpawnAfresh,
      DryMerge, StartMerge, Prepare, Spawn, Record, Scheduled, StateTimeout, GatePasses,
      GateFails, GateTimeout, Suspend, PreMerge, Merge, Verify, Bookkeep, AppendAudit,
      UpdateTask, CallCancelled, RedriveCancelled, DriveErrs, DriveLost, StatusSeen,
      BoundFires, DecisionMade, WorkDone, Cancel, TimePasses, AgentWrites, AgentPushes,
      AgentOpensPR, AgentGone, PersonActs, EditConfig, Finished, Outside, Partly, Rests,
      Step, Return, ReturnAt, Errs, ErrsWith, Go, worldVars, taskVars, vars
<1>1. \/ agent' = agent
      \/ /\ agent' = NoAgent
         /\ pc' = pc \/ pc = "spawn" \/ (pc = "loop" /\ ~IsStopped(mem.state))
      \/ pc = "spawn" /\ pc' \notin {"prepare", "spawn"}
           /\ agent' = [at |-> mem.state, fresh |-> TRUE]
      \/ UpdateTask /\ row.state # to /\ agent' = [agent EXCEPT !.fresh = FALSE]
  BY ZenonT(30)
<1>2. \/ prState' = prState \/ prState' = "merged"
      \/ prState = "open" /\ prState' = "closed"
      \/ prState # "open" /\ prState' = "open" /\ ~mem.pr
  BY ZenonT(30)
<1>3. \/ verdict' = verdict
      \/ verdict' \in {"fresh", "late", "bad"} /\ Rests
      \/ pc = "prepare" /\ verdict' = "none"
      \/ UpdateTask /\ row.state # to /\ verdict' = "old"
  BY ZenonT(30)
<1>4. QED BY <1>1, <1>2, <1>3, Zenon

\* The drive's steps, triggers and flags stay of their types.
LEMMA NamesStep ==
    ASSUME TypeOK, [Next]_vars
    PROVE  /\ pc' \in {"idle", "redrive", "reconcile", "loop", "prepare", "spawn", "record",
                       "await", "premerge", "merge", "verify", "bookkeep", "audit", "save"}
           /\ why' \in {"none", "loop", "decision", "gate", "reconcile", "redrive", "settle"}
           /\ cause' \in {"none", "operator", "deadline"}
           /\ entered' \in BOOLEAN /\ late' \in BOOLEAN /\ moved' \in BOOLEAN
           /\ branch' \in BOOLEAN /\ green' \in BOOLEAN
           /\ liveDry' \in DryRuns
           /\ faults' \in 0..MaxFaults
<1> USE DEF TypeOK, Next, Run, RunNew, RunExisting, DriveStep, AgentStep, Environment, EntryActions,
      RefuseRedrive, Redrive, Reconcile, Halt, NoEntry, ReuseAgent, Exhausted, SpawnAfresh,
      DryMerge, StartMerge, Prepare, Spawn, Record, Scheduled, StateTimeout, GatePasses,
      GateFails, GateTimeout, Suspend, PreMerge, Merge, Verify, Bookkeep, AppendAudit,
      UpdateTask, CallCancelled, RedriveCancelled, DriveErrs, DriveLost, StatusSeen,
      BoundFires, DecisionMade, WorkDone, Cancel, TimePasses, AgentWrites, AgentPushes,
      AgentOpensPR, AgentGone, PersonActs, EditConfig, Finished, Outside, Partly,
      Step, Return, ReturnAt, Errs, ErrsWith, Go,
      taskVars, clockVars, moveVars, worldVars, histVars, vars
<1>1. pc' \in {"idle", "redrive", "reconcile", "loop", "prepare", "spawn", "record",
               "await", "premerge", "merge", "verify", "bookkeep", "audit", "save"}
  BY ZenonT(30)
<1>2. why' \in {"none", "loop", "decision", "gate", "reconcile", "redrive", "settle"}
  BY ZenonT(30)
<1>3. cause' \in {"none", "operator", "deadline"}
  BY ZenonT(30)
<1>4. entered' \in BOOLEAN /\ late' \in BOOLEAN /\ moved' \in BOOLEAN
  BY ZenonT(30)
<1>5. branch' \in BOOLEAN /\ green' \in BOOLEAN
  BY ZenonT(30)
<1>6. liveDry' \in DryRuns
  BY ZenonT(30)
<1>7. faults' = faults \/ DriveLost \/ AgentGone
  <2> HIDE DEF DriveLost, AgentGone
  <2> QED BY ZenonT(30)
<1>8. faults' \in 0..MaxFaults
  <2>1. CASE faults' = faults
    BY <2>1, Zenon
  <2>2. CASE DriveLost \/ AgentGone
    <3>1. faults' = faults + 1 /\ faults < MaxFaults
      BY <2>2, Zenon
    <3>2. faults \in 0..MaxFaults
      BY Zenon
    <3> HIDE DEF TypeOK
    <3> QED BY <3>1, <3>2, MaxFaultsAssumption
  <2> QED BY <1>7, <2>1, <2>2, Zenon
<1> QED BY <1>1, <1>2, <1>3, <1>4, <1>5, <1>6, <1>8, Zenon

\* A step leaves the rounds a count of rounds, the target a state, and the drive in one.
LEMMA MovesStep ==
    ASSUME IInv, [Next]_vars
    PROVE  /\ to' \in State \cup {NoState, Cancelled}
           /\ rounds' \in [Capped -> Nat]
           /\ pc' # "idle" => mem'.state # NoState
<1> USE StateAssumption DEF IInv, TypeOK
<1>1. CASE Rests
  BY <1>1 DEF Rests, taskVars, moveVars, histVars
<1>2. CASE Returns
  BY <1>2 DEF Returns, Return, ReturnAt, histVars
<1>3. CASE Settles
  BY <1>3, EscalationTargets DEF Settles, Go, SettleTarget, taskVars, histVars
<1>4. CASE RunNew
  BY <1>4 DEF RunNew, NoTask, Step, moveVars, histVars
<1>5. CASE RunExisting \/ Enters \/ Prepare \/ Spawn \/ StatusSeen \/ Merges
  <2>1. UNCHANGED <<to, histVars>>
    BY <1>5, Zenon DEF RunExisting, Enters, NoEntry, ReuseAgent, StartMerge, Prepare, Spawn,
         StatusSeen, Merges, PreMerge, Merge, Verify, Step, moveVars
  <2>2. mem'.state = mem.state
    BY <1>5 DEF RunExisting, Enters, NoEntry, ReuseAgent, StartMerge, Prepare, Spawn,
         StatusSeen, Merges, PreMerge, Merge, Verify, taskVars, Task
  <2>3. mem.state # NoState
    BY <1>5
       DEF RunExisting, Enters, NoEntry, ReuseAgent, StartMerge, AtEntry, Prepare,
           Spawn, StatusSeen, AwaitsAgent, Merges, PreMerge, Merge, Verify, Control
  <2> QED BY <2>1, <2>2, <2>3 DEF histVars
<1>6. CASE SpawnAfresh \/ Record
  BY <1>6 DEF SpawnAfresh, Record, AtEntry, Step, moveVars, histVars, Task
<1>7. CASE Redrive
  BY <1>7 DEF Redrive, Go, histVars, Task
<1>8. CASE Reconcile
  <2>1. mem.state \in State
    BY <1>8 DEF Reconcile, Stands, stateHasAgent
  <2>2. \A v \in DOMAIN Here.done : Here.done[v] \in State
    BY <2>1, GraphAssumption DEF Here
  <2> QED BY <1>8, <2>1, <2>2, EscalationTargets DEF Reconcile, ErrsWith, SettleTarget, Go,
           Return, ReturnAt, Step, moveVars, histVars, Task
<1>9. CASE Exhausted
  <2>1. mem.state \in State
    BY <1>9 DEF Exhausted, FreshRound, Capped
  <2>2. Here.exhausted \in State \cup {NoState}
    BY <2>1, GraphAssumption DEF Here
  <2> QED BY <1>9, <2>1, <2>2, EscalationTargets DEF Exhausted, ErrsWith, SettleTarget, Go,
           Return, ReturnAt, histVars, Task
<1>10. CASE Leaves
  BY <1>10, LeavesTo DEF Stands, histVars, Task
<1>11. CASE GatePasses
  BY <1>11, GateBranches DEF GatePasses, Go, taskVars, histVars
<1>12. CASE Bookkeep
  <2>1. Here.merged \in State \cup {NoState}
    BY <1>12, GraphAssumption DEF Bookkeep, Stands, MergeSteps, Merging, Here
  <2> QED BY <1>12, <2>1 DEF Bookkeep, Go, taskVars, histVars
<1>13. CASE AppendAudit
  BY <1>13 DEF AppendAudit, Control, Deciding, moveVars, histVars, Task
<1>14. CASE UpdateTask
  <2>1. mem.state = to /\ to # NoState
    BY <1>14 DEF UpdateTask, Control, Deciding
  <2>2. rounds' \in [Capped -> Nat]
    BY <1>14, Counts DEF UpdateTask
  <2> QED BY <1>14, <2>1, <2>2 DEF UpdateTask, ReturnAt
<1> QED BY <1>1, <1>2, <1>3, <1>4, <1>5, <1>6, <1>7, <1>8, <1>9, <1>10, <1>11, <1>12,
           <1>13, <1>14, StepKinds, Zenon

\* Every step keeps the types.
LEMMA TypeStep ==
    ASSUME IInv, [Next]_vars
    PROVE  TypeOK'
<1>1. agent' \in [at : State \cup {NoState}, fresh : BOOLEAN]
  <2>1. agent \in [at : State \cup {NoState}, fresh : BOOLEAN]
    BY DEF IInv, TypeOK
  <2>2. CASE agent' = NoAgent
    BY <2>2 DEF NoAgent
  <2>3. CASE pc = "spawn" /\ agent' = [at |-> mem.state, fresh |-> TRUE]
    BY <2>3 DEF IInv, Stands, Spawning, stateHasAgent
  <2>4. CASE agent' = [agent EXCEPT !.fresh = FALSE]
    BY <2>1, <2>4
  <2> QED BY <2>1, <2>2, <2>3, <2>4, WorldChanges
<1>2. /\ verdict' \in {"none", "bad", "fresh", "late", "old"}
      /\ prState' \in {"none", "open", "merged", "closed"}
  BY WorldChanges, Zenon DEF IInv, TypeOK
<1>3. TypeOK
  BY DEF IInv
<1> QED BY <1>1, <1>2, <1>3, TaskStep, NamesStep, MovesStep, Zenon DEF TypeOK

\* Every step leaves the drive where it can be.
LEMMA ControlStep ==
    ASSUME IInv, [Next]_vars
    PROVE  (Control /\ Stands)'
<1> USE StateAssumption DEF Control, Stands, Deciding, Spawning, MergeSteps, stateHasAgent,
      isSettled, isTerminal, Merging
<1>0. IInv /\ TypeOK /\ Control /\ Stands
  BY DEF IInv
<1>1. CASE Rests
  BY <1>0, <1>1 DEF Rests, taskVars, moveVars
<1>2. CASE Returns
  BY <1>0, <1>2 DEF Returns, Return, ReturnAt
<1>3. CASE Settles
  <2>1. ~isSettled(row.state)
    BY <1>0, <1>3 DEF Settles, TypeOK
  <2>2. why # "redrive" /\ mem.dry = row.dry /\ mem.spawn = row.spawn /\ row.state # NoState
    BY <1>0, <1>3 DEF Settles
  <2> QED BY <2>1, <2>2, <1>3, EscalationTargets DEF Settles, Go, SettleTarget, taskVars
<1>4. CASE RunNew
  BY <1>0, <1>4 DEF RunNew, NoTask, Step, moveVars
<1>5. CASE RunExisting
  BY <1>0, <1>5 DEF RunExisting, Step, moveVars, taskVars, TypeOK, Task, settledStates,
                    IsStopped, isAlert
<1>6. CASE Redrive
  BY <1>0, <1>6 DEF Redrive, Go, TypeOK, Task
<1>7. CASE Reconcile
  <2>1. \A v \in DOMAIN Here.done : Here.done[v] \in State
    BY <1>0, <1>7, GraphAssumption DEF Reconcile, Here
  <2> QED BY <1>0, <1>7, <2>1, EscalationTargets DEF Reconcile, ErrsWith, SettleTarget, Go,
           Return, ReturnAt, Step, moveVars, TypeOK, Task
<1>8. CASE Enters
  BY <1>0, <1>8 DEF Enters, NoEntry, ReuseAgent, StartMerge, AtEntry, Here, HasLiveAgent,
                    Step, moveVars, taskVars, TypeOK, Task
<1>9. CASE Exhausted
  <2>1. mem.state \in State /\ Here.exhausted \in State \cup {NoState}
    BY <1>9, GraphAssumption DEF Exhausted, FreshRound, Capped, Here
  <2> QED BY <1>0, <1>9, <2>1, EscalationTargets DEF Exhausted, AtEntry, ErrsWith,
           SettleTarget, Go, Return, ReturnAt, TypeOK, Task
<1>10. CASE SpawnAfresh
  BY <1>0, <1>10 DEF SpawnAfresh, AtEntry, Here, Step, moveVars, TypeOK, Task
<1>11. CASE Prepare \/ Spawn
  BY <1>0, <1>11 DEF Prepare, Spawn, Step, moveVars, taskVars
<1>12. CASE Record
  BY <1>0, <1>12 DEF Record, Step, moveVars, TypeOK, Task
<1>13. CASE Leaves
  BY <1>0, <1>13, LeavesTo DEF TypeOK, Task
<1>14. CASE StatusSeen
  BY <1>0, <1>14 DEF StatusSeen, AwaitsAgent, moveVars, TypeOK, Task
<1>15. CASE GatePasses
  BY <1>0, <1>15, GateBranches DEF GatePasses, AwaitsGate, Go, taskVars
<1>16. CASE Merges
  BY <1>0, <1>16 DEF Merges, PreMerge, Merge, Verify, Step, moveVars, taskVars
<1>17. CASE Bookkeep
  <2>1. Here.merged \in State
    BY <1>0, <1>17, GraphAssumption DEF Bookkeep, Here
  <2> QED BY <1>0, <1>17, <2>1 DEF Bookkeep, Go, taskVars
<1>18. CASE AppendAudit
  BY <1>0, <1>18 DEF AppendAudit, moveVars, TypeOK, Task
<1>19. CASE UpdateTask
  BY <1>0, <1>19 DEF UpdateTask, ReturnAt
<1> QED BY <1>1, <1>2, <1>3, <1>4, <1>5, <1>6, <1>7, <1>8, <1>9, <1>10, <1>11, <1>12,
           <1>13, <1>14, <1>15, <1>16, <1>17, <1>18, <1>19, StepKinds, Zenon

\* A live agent is not replaced: what is prepared or spawned replaces none.
LEMMA AgentsStep ==
    ASSUME IInv, [Next]_vars
    PROVE  Agents'
<1>0. IInv /\ TypeOK /\ Control /\ Stands /\ Agents
  BY DEF IInv
<1>1. agent \in [at : State \cup {NoState}, fresh : BOOLEAN]
  BY <1>0 DEF TypeOK
<1>2. agent'.at = NoState => ~agent'.fresh
  <2>1. pc = "spawn" => mem.state # NoState
    BY <1>0, StateAssumption DEF Stands, Spawning, stateHasAgent
  <2> QED BY <1>0, <1>1, <2>1, WorldChanges DEF Agents, NoAgent
<1>3. ASSUME pc' \in {"prepare", "spawn"}, row'.spawn = row'.state, agent'.fresh
      PROVE  FALSE
  <2>1. CASE Rests
    <3>1. agent' = agent
      BY <1>1, <1>3, <2>1, WorldChanges DEF Rests, NoAgent
    <3> QED BY <1>0, <1>3, <2>1, <3>1 DEF Rests, taskVars, Agents, LiveAgentIsKept
  <2>2. CASE SpawnAfresh
    <3>1. mem.spawn = row.spawn /\ mem.state = row.state
      BY <1>0, <2>2 DEF SpawnAfresh, AtEntry, Control, Deciding
    <3> QED BY <1>0, <1>3, <2>2, <3>1 DEF SpawnAfresh, HasLiveAgent, Agents, worldVars
  <2>3. CASE Prepare
    BY <1>0, <1>3, <2>3 DEF Prepare, taskVars, Agents, LiveAgentIsKept
  <2>4. pc' \in {"prepare", "spawn"} => Rests \/ SpawnAfresh \/ Prepare
    BY <1>0, StepKinds, LeavesTo
       DEF Returns, Return, ReturnAt, Settles, Go, RunNew, RunExisting, Step, Redrive,
           Reconcile, ErrsWith, Enters, NoEntry, ReuseAgent, StartMerge, Exhausted,
           Spawn, Record, StatusSeen, AwaitsAgent, GatePasses, Merges, PreMerge, Merge,
           Verify, Bookkeep, AppendAudit, UpdateTask
  <2> QED BY <1>3, <2>1, <2>2, <2>3, <2>4
<1> QED BY <1>2, <1>3 DEF Agents, LiveAgentIsKept

\* The inductive invariant.
THEOREM Invariant == Spec => []IInv
<1>1. Init => IInv
  <2> SUFFICES ASSUME Init PROVE IInv
    OBVIOUS
  <2>1. NoTask \in Task
    BY StateAssumption, Counts DEF NoTask, Task
  <2>2. TypeOK
    <3>1. agent \in [at : State \cup {NoState}, fresh : BOOLEAN]
      BY DEF Init, NoAgent
    <3>2. rounds \in [Capped -> Nat] /\ faults \in 0..MaxFaults
      BY MaxFaultsAssumption, Counts DEF Init
    <3> QED BY <2>1, <3>1, <3>2, Zenon DEF Init, TypeOK
  <2>3. Control /\ Stands
    BY DEF Init, Control, Stands, Deciding, Spawning, MergeSteps
  <2>4. Agents
    BY DEF Init, Agents, LiveAgentIsKept, NoAgent
  <2> QED BY <2>2, <2>3, <2>4 DEF IInv
<1>2. IInv /\ [Next]_vars => IInv'
  BY TypeStep, ControlStep, AgentsStep DEF IInv
<1> QED BY <1>1, <1>2, PTL DEF Spec

\* Every variable has its type throughout.
THEOREM Typing == Spec => []TypeOK
BY Invariant, PTL DEF IInv

\* However drives are lost, cancelled and started again: when the engine is about to
\* replace a workspace, no live agent is in it that the row records for this state.
THEOREM NoLiveAgentIsReplaced == Spec => []LiveAgentIsKept
BY Invariant, PTL DEF IInv, Agents

\* The row of a settled task is only changed by starting a stopped one over.
THEOREM SettledTasksStay == Spec => SettledSticks
<1>1. ASSUME IInv, [Next]_vars, isSettled(row.state), row' # row
      PROVE  IsStopped(row.state) /\ why = "redrive"
  <2>0. TypeOK /\ Control /\ Stands
    BY <1>1 DEF IInv
  <2>1. row.state # NoState
    BY <1>1, StateAssumption DEF isSettled, isTerminal
  <2>2. UpdateTask
    BY <1>1, <2>0, <2>1, StepKinds, LeavesTo
       DEF Rests, Returns, Settles, RunNew, RunExisting, Redrive, Reconcile, Enters,
           NoEntry, ReuseAgent, StartMerge, Exhausted, SpawnAfresh, Prepare, Spawn,
           Record, StatusSeen, AwaitsAgent, GatePasses, Merges, PreMerge, Merge, Verify,
           Bookkeep, AppendAudit, taskVars, Control, Stands, Spawning, Deciding
  <2> QED BY <1>1, <2>0, <2>2 DEF UpdateTask, Control, Deciding
<1> QED BY <1>1, Invariant, PTL DEF Spec, SettledSticks

\* No step of the engine removes the workspace of a stopped task.
THEOREM StoppedWorkStays == Spec => StoppedWorkIsKept
<1>1. ASSUME IInv, [Next]_vars, IsStopped(row.state), pc' # pc
      PROVE  agent'.at = agent.at
  <2>0. TypeOK /\ Control /\ Stands
    BY <1>1 DEF IInv
  <2>1. isSettled(row.state)
    BY <1>1 DEF IsStopped, isSettled, isAlert, isTerminal
  <2>2. pc # "spawn" /\ (pc = "loop" => IsStopped(mem.state))
    BY <1>1, <2>0, <2>1 DEF Control, Stands, Spawning, Deciding
  <2>3. agent' = agent \/ agent' = [agent EXCEPT !.fresh = FALSE]
    BY <1>1, <2>2, WorldChanges
  <2> QED BY <2>0, <2>3 DEF TypeOK
<1> QED BY <1>1, Invariant, PTL DEF Spec, StoppedWorkIsKept

-----------------------------------------------------------------------------
(***************************************************************************)
(* Merging.                                                                *)
(***************************************************************************)

\* Where merges are entered through gates only, nothing else leads to one.
LEMMA OtherTargets ==
    ASSUME MergesByGates
    PROVE  /\ ~MergesAt(EntryState) /\ ~MergesAt(Cancelled) /\ ~MergesAt(NoState)
           /\ \A s \in State : \A t \in PlainTargets(s) : ~MergesAt(t)
           /\ \A s \in State : ~MergesAt(Graph[s].merged)
           /\ \A s : ~MergesAt(escalationTarget(s))
<1>1. /\ ~MergesAt(EntryState) /\ ~MergesAt(Cancelled) /\ ~MergesAt(NoState)
      /\ \A s \in State : \A t \in PlainTargets(s) : ~MergesAt(t)
      /\ \A s \in State : ~MergesAt(Graph[s].merged)
  BY StateAssumption DEF MergesByGates, MergesAt, Merging
<1>2. ASSUME NEW s PROVE ~MergesAt(escalationTarget(s))
  <2>1. CASE s \in State /\ Graph[s].timeout # NoState
    BY <1>1, <2>1 DEF escalationTarget, PlainTargets
  <2>2. CASE ~(s \in State /\ Graph[s].timeout # NoState)
    BY <1>1, <2>2, EscalationTargets DEF escalationTarget, MergesAt, isSettled, isTerminal,
       isAlert
  <2> QED BY <2>1, <2>2
<1> QED BY <1>1, <1>2

\* A step keeps the gating.
LEMMA GatedStep ==
    ASSUME MergesByGates, IInv, Gated, [Next]_vars
    PROVE  Gated'
<1> USE OtherTargets DEF Gated, Deciding
<1>0. IInv /\ TypeOK /\ Control /\ Stands
  BY DEF IInv
<1>1. CASE Rests
  BY <1>1 DEF Rests, taskVars, moveVars, histVars
<1>2. CASE Returns
  BY <1>2 DEF Returns, Return, ReturnAt, histVars
<1>3. CASE Settles
  BY <1>3 DEF Settles, Go, SettleTarget, taskVars, histVars
<1>4. CASE RunNew
  BY <1>4 DEF RunNew, NoTask, Step, moveVars
<1>5. CASE RunExisting \/ Enters \/ Prepare \/ Spawn \/ Merges
  <2>1. UNCHANGED <<row, histVars>>
    BY <1>5, Zenon DEF RunExisting, Enters, NoEntry, ReuseAgent, StartMerge, Prepare, Spawn,
         Merges, PreMerge, Merge, Verify, taskVars
  <2>2. pc' \notin {"audit", "save"}
    BY <1>5 DEF RunExisting, Enters, NoEntry, ReuseAgent, StartMerge, Prepare, Spawn,
         Merges, PreMerge, Merge, Verify, Step
  <2> QED BY <2>1, <2>2 DEF histVars
<1>6. CASE Redrive
  BY <1>6 DEF Redrive, Go, histVars
<1>7. CASE Reconcile \/ Record
  <2>1. ~MergesAt(mem.state) /\ mem.state = row.state
    BY <1>0, <1>7 DEF Reconcile, Record, Stands, Control, Spawning, MergesAt, Merging,
                      stateHasAgent
  <2>2. row'.state = row.state /\ UNCHANGED histVars
    BY <1>0, <1>7, <2>1 DEF Reconcile, Record, TypeOK, Task
  <2>3. pc' \in {"audit", "save"} => ~MergesAt(to')
    <3>1. mem.state \in State
      BY <1>0, <1>7 DEF Reconcile, Record, Stands, Spawning, stateHasAgent
    <3>2. \A v \in DOMAIN Here.done : ~MergesAt(Here.done[v])
      <4>1. \A v \in DOMAIN Here.done :
               Here.done[v] # NoState => Here.done[v] \in PlainTargets(mem.state)
        BY DEF Here, PlainTargets
      <4> QED BY <3>1, <4>1
    <3> QED BY <1>7, <3>2 DEF Reconcile, Record, Step, ErrsWith, Return, ReturnAt, Go,
             SettleTarget
  <2> QED BY <2>1, <2>2, <2>3 DEF histVars
<1>8. CASE Exhausted
  <2>1. mem.state \in State
    BY <1>8, StateAssumption DEF Exhausted, FreshRound, Capped
  <2>2. Here.exhausted # NoState => ~MergesAt(Here.exhausted)
    BY <2>1 DEF Here, PlainTargets
  <2> QED
    BY <1>8, <2>2
       DEF Exhausted, ErrsWith, Return, ReturnAt, Go, SettleTarget, histVars
<1>9. CASE SpawnAfresh
  BY <1>9 DEF SpawnAfresh, Step, histVars
<1>10. CASE Leaves
  <2>1. UNCHANGED <<row, green>> /\ ~MergesAt(to')
    BY <1>0, <1>10, LeavesTo DEF Stands, histVars
  <2> QED BY <2>1
<1>11. CASE StatusSeen
  <2>1. ~MergesAt(row.state)
    BY <1>0, <1>11 DEF StatusSeen, AwaitsAgent, Stands, Control, MergesAt
  <2>2. row'.state = row.state /\ pc' = "await"
    BY <1>0, <1>11 DEF StatusSeen, AwaitsAgent, Control
  <2> QED BY <2>1, <2>2
<1>12. CASE GatePasses
  BY <1>12 DEF GatePasses, Go, taskVars, histVars
<1>13. CASE Bookkeep
  <2>1. mem.state \in State
    BY <1>0, <1>13 DEF Bookkeep, Stands, MergeSteps, Merging
  <2> QED BY <1>13, <2>1 DEF Bookkeep, Go, Here, taskVars, histVars
<1>14. CASE AppendAudit
  BY <1>0, <1>14 DEF AppendAudit, moveVars, histVars, TypeOK, Task
<1>15. CASE UpdateTask
  BY <1>0, <1>15 DEF UpdateTask, ReturnAt, Control
<1> QED BY <1>1, <1>2, <1>3, <1>4, <1>5, <1>6, <1>7, <1>8, <1>9, <1>10, <1>11, <1>12,
           <1>13, <1>14, <1>15, StepKinds, Zenon

\* Whatever the workflow, if its merge states are only entered through the pass of a
\* merge gate: the engine merges a task only on that, with its PR recorded, and never
\* in a dry run.
THEOREM MergesAreGated == ASSUME MergesByGates PROVE Spec => []MergeIsGated
<1>1. Init => Gated
  BY OtherTargets DEF Init, NoTask, Gated, Deciding
<1>2. IInv /\ Gated /\ [Next]_vars => Gated'
  BY GatedStep
<1>3. IInv /\ Gated => MergeIsGated
  BY DEF IInv, Gated, MergeIsGated, Control, Stands, MergeSteps, MergesAt, Deciding
<1> QED BY <1>1, <1>2, <1>3, Invariant, PTL DEF Spec

\* Where only merges lead to the merged states, nothing else does.
LEMMA UnmergedTargets ==
    ASSUME MergedByMerge
    PROVE  /\ EntryState \notin MergedStates /\ Cancelled \notin MergedStates
           /\ \A m \in MergedStates : m \in State /\ ~IsStopped(m)
           /\ \A s \in State : \A t \in PlainTargets(s) : t \notin MergedStates
           /\ \A s \in State : \A v \in DOMAIN Graph[s].watch :
                 Graph[s].watch[v] \notin MergedStates
           /\ \A s : escalationTarget(s) \notin MergedStates
<1>1. \A m \in MergedStates : m \in State
  BY GraphAssumption DEF MergedStates
<1>2. /\ EntryState \notin MergedStates /\ Cancelled \notin MergedStates
      /\ \A m \in MergedStates : ~IsStopped(m)
      /\ \A s \in State : \A t \in PlainTargets(s) : t \notin MergedStates
      /\ \A s \in State : \A v \in DOMAIN Graph[s].watch :
            Graph[s].watch[v] \notin MergedStates
  BY <1>1, StateAssumption DEF MergedByMerge, IsStopped
<1>3. ASSUME NEW s PROVE escalationTarget(s) \notin MergedStates
  <2>1. CASE s \in State /\ Graph[s].timeout # NoState
    BY <1>2, <2>1 DEF escalationTarget, PlainTargets
  <2>2. CASE ~(s \in State /\ Graph[s].timeout # NoState)
    BY <1>2, <2>2, EscalationTargets DEF escalationTarget, IsStopped
  <2> QED BY <2>1, <2>2
<1> QED BY <1>1, <1>2, <1>3

\* A step keeps what is merged merged.
LEMMA MergedStep ==
    ASSUME MergedByMerge, IInv, Merged, [Next]_vars
    PROVE  Merged'
<1> USE UnmergedTargets DEF Merged, Deciding
<1>0. IInv /\ TypeOK /\ Control /\ Stands
  BY DEF IInv
<1>1. NoState \notin MergedStates
  BY DEF MergedStates
<1>2. prState = "merged" /\ mem.pr => prState' = "merged"
  BY WorldChanges
<1>3. CASE Rests
  BY <1>2, <1>3 DEF Rests, taskVars, moveVars
<1>4. CASE Returns
  BY <1>2, <1>4 DEF Returns, Return, ReturnAt
<1>5. CASE Settles
  BY <1>2, <1>5 DEF Settles, Go, SettleTarget, taskVars
<1>6. CASE RunNew
  BY <1>1, <1>6 DEF RunNew, NoTask, Step, moveVars
<1>7. CASE RunExisting \/ Enters \/ Prepare \/ Spawn
  <2>1. UNCHANGED <<row, mem>> /\ pc' \notin {"audit", "save", "bookkeep"}
    BY <1>7, Zenon DEF RunExisting, Enters, NoEntry, ReuseAgent, StartMerge, Prepare, Spawn,
         taskVars, Step
  <2> QED BY <1>2, <2>1
<1>8. CASE Redrive
  <2>1. row.state \notin MergedStates
    BY <1>0, <1>8 DEF Redrive, Control
  <2> QED BY <1>8, <2>1 DEF Redrive, Go
<1>9. CASE Reconcile \/ Exhausted
  <2>1. mem.state \in State
    BY <1>0, <1>9, StateAssumption
       DEF Reconcile, Stands, stateHasAgent, Exhausted, FreshRound, Capped
  <2>2. /\ Here.exhausted \notin MergedStates
        /\ \A v \in DOMAIN Here.done : Here.done[v] \notin MergedStates
    <3>1. /\ Here.exhausted = NoState \/ Here.exhausted \in PlainTargets(mem.state)
          /\ \A v \in DOMAIN Here.done :
                Here.done[v] = NoState \/ Here.done[v] \in PlainTargets(mem.state)
      BY DEF Here, PlainTargets
    <3> QED BY <1>1, <2>1, <3>1
  <2>3. pc' \notin {"bookkeep", "save"} /\ (pc' = "audit" => to' \notin MergedStates)
    BY <1>9, <2>2
       DEF Reconcile, Exhausted, Step, ErrsWith, Return, ReturnAt, Go, SettleTarget
  <2>4. row' = row \/ (row' = mem /\ mem.state = row.state)
    <3>1. pc = "reconcile" => mem.state = row.state
      BY <1>0 DEF Control
    <3>2. Reconcile => row' = row \/ row' = mem
      BY DEF Reconcile
    <3>3. Exhausted => row' = row
      BY DEF Exhausted
    <3>4. Reconcile => pc = "reconcile"
      BY DEF Reconcile
    <3> QED BY <1>9, <3>1, <3>2, <3>3, <3>4, Zenon
  <2>5. row.state \in MergedStates /\ mem.pr /\ row.pr => mem'.pr /\ row'.pr
    BY <1>0, <1>9 DEF Reconcile, Exhausted, ErrsWith, Return, ReturnAt, TypeOK, Task
  <2> QED BY <1>2, <2>3, <2>4, <2>5
<1>10. CASE SpawnAfresh \/ Record \/ StatusSeen
  <2>1. row' = row \/ (row'.state = row.state /\ row'.pr = mem.pr)
    <3>1. pc \in {"record", "await"} => mem.state = row.state
      BY <1>0 DEF Control
    <3>2. row' = row \/ row' = mem \/ row' = [mem EXCEPT !.spawn = mem.state]
      BY <1>10, Zenon DEF SpawnAfresh, Record, StatusSeen
    <3>3. row' # row => pc \in {"record", "await"}
      BY <1>10, Zenon DEF SpawnAfresh, Record, StatusSeen, AwaitsAgent
    <3>4. LET t == [mem EXCEPT !.spawn = mem.state] IN t.state = mem.state /\ t.pr = mem.pr
      BY <1>0 DEF TypeOK, Task
    <3> QED BY <3>1, <3>2, <3>3, <3>4
  <2>2. mem.pr => mem'.pr
    BY <1>0, <1>10 DEF SpawnAfresh, Record, StatusSeen, TypeOK, Task
  <2>3. pc' \in {"prepare", "await"}
    BY <1>10 DEF SpawnAfresh, Record, StatusSeen, AwaitsAgent, Step
  <2> QED BY <1>2, <2>1, <2>2, <2>3
<1>11. CASE Leaves
  <2>1. row' = row /\ pc' = "audit" /\ to' \notin MergedStates
    BY <1>0, <1>11, LeavesTo DEF Stands
  <2>2. mem.pr => mem'.pr
    BY <1>0, <1>11, LeavesTo DEF TypeOK, Task
  <2> QED BY <1>2, <2>1, <2>2
<1>12. CASE GatePasses
  <2>1. to' \notin MergedStates
    BY <1>0, <1>12, GateBranches DEF GatePasses, Go, Here
  <2> QED BY <1>2, <1>12, <2>1 DEF GatePasses, Go, taskVars
<1>13. CASE Merges
  <2>1. mem.pr
    BY <1>0, <1>13 DEF Merges, PreMerge, Merge, Verify, Stands, MergeSteps
  <2>2. pc' = "bookkeep" => prState = "merged"
    BY <1>13 DEF Merges, PreMerge, Merge, Verify, Step
  <2> QED BY <1>2, <1>13, <2>1, <2>2 DEF Merges, PreMerge, Merge, Verify, Step, taskVars
<1>14. CASE Bookkeep
  BY <1>2, <1>14 DEF Bookkeep, Go, taskVars
<1>15. CASE AppendAudit
  BY <1>0, <1>2, <1>15 DEF AppendAudit, moveVars, TypeOK, Task
<1>16. CASE UpdateTask
  BY <1>0, <1>2, <1>16 DEF UpdateTask, ReturnAt, Control
<1> QED BY <1>3, <1>4, <1>5, <1>6, <1>7, <1>8, <1>9, <1>10, <1>11, <1>12, <1>13, <1>14,
           <1>15, <1>16, StepKinds, Zenon

\* Whatever the workflow, if only its merge states lead to where a task counts as
\* merged: a task is recorded there only when its pull request is merged, and stays so.
THEOREM MergedTasksAreMerged == ASSUME MergedByMerge PROVE Spec => []MergedIsTrue
<1>1. Init => Merged
  BY DEF Init, NoTask, Merged, Deciding, MergedStates
<1>2. IInv /\ Merged /\ [Next]_vars => Merged'
  BY MergedStep
<1>3. Merged => MergedIsTrue
  BY DEF Merged, MergedIsTrue, MergedStates
<1> QED BY <1>1, <1>2, <1>3, Invariant, PTL DEF Spec

-----------------------------------------------------------------------------
(***************************************************************************)
(* Agents and verdicts.                                                    *)
(***************************************************************************)

\* The states a task can be in while its last agent is one of s are closed under
\* what can be done there without another agent.
LEMMA LeftIsClosed ==
    ASSUME NEW s \in Anew
    PROVE  /\ s \in State /\ s \notin Left[s] /\ Cancelled \in Left[s]
           /\ Left[s] \subseteq State \cup {Cancelled}
           /\ Targets(s) \subseteq Left[s] \cup {s}
           /\ \A p \in State : p \in Left[s] => EarlyTargets(p) \subseteq Left[s]
           /\ \A p \in State : p \in Left[s] => escalationTarget(p) \in Left[s]
           /\ escalationTarget(s) \in Left[s] \cup {s}
<1>1. s \in State /\ Left[s] \in SUBSET (State \cup {Cancelled}) /\ Outlasts(s, Left[s])
  BY DEF Anew, Left, SpawnsAnew
<1>2. /\ s \notin Left[s] /\ Targets(s) \subseteq Left[s] \cup {s}
      /\ \A p \in State : p \in Left[s] => EarlyTargets(p) \subseteq Left[s]
  BY <1>1, StateAssumption DEF Outlasts
<1>3. \A p \in State : escalationTarget(p) \in EarlyTargets(p)
  BY DEF EarlyTargets, Targets
<1>4. Cancelled \in Left[s] /\ escalationTarget(s) \in Left[s] \cup {s}
  BY <1>1, <1>2, StateAssumption DEF Targets
<1> QED BY <1>1, <1>2, <1>3, <1>4

\* Where a task can be when its drive fails, or goes on, by the agent it last had.
LEMMA WhereItStands ==
    ASSUME IInv, SpawnKnown, NEW s \in Anew, mem.spawn = s, pc # "idle",
           why \notin {"redrive", "settle"}
    PROVE  /\ mem.state \in Left[s] \/ (mem.state = s /\ row.state = s)
           /\ pc # "save" => mem.spawn = row.spawn /\ mem.state = row.state
<1>1. mem.spawn = row.spawn /\ (pc # "save" => mem.state = row.state)
  BY DEF IInv, Control
<1>2. pc = "save" => mem.state = to
  BY DEF IInv, Control
<1> QED BY <1>1, <1>2 DEF SpawnKnown, Deciding

\* A step keeps that.
LEMMA SpawnStep ==
    ASSUME IInv, SpawnKnown, [Next]_vars
    PROVE  SpawnKnown'
<1> SUFFICES ASSUME NEW s \in Anew
             PROVE  /\ row'.spawn = s => row'.state = s \/ row'.state \in Left[s]
                    /\ Deciding' /\ mem'.spawn = s =>
                          to' \in Left[s] \/ (to' = s /\ row'.state = s)
  BY DEF SpawnKnown
<1> USE DEF Deciding
<1>0. IInv /\ TypeOK /\ Control /\ Stands
  BY DEF IInv
<1>1. /\ row.spawn = s => row.state = s \/ row.state \in Left[s]
      /\ Deciding /\ mem.spawn = s => to \in Left[s] \/ (to = s /\ row.state = s)
  BY DEF SpawnKnown
<1>2. s \in State /\ s # NoState /\ s # Cancelled
  BY LeftIsClosed, StateAssumption
<1>3. CASE Rests
  BY <1>1, <1>3 DEF Rests, taskVars, moveVars
<1>4. CASE Returns
  BY <1>1, <1>4 DEF Returns, Return, ReturnAt
<1>5. ASSUME pc \notin {"idle", "redrive"}, Deciding => why \notin {"redrive", "settle"},
             pc = "loop" => ~isSettled(mem.state),
             mem.spawn = s, to' = SettleTarget(cause)
      PROVE  to' \in Left[s] \/ (to' = s /\ row.state = s)
  <2>1. why \notin {"redrive", "settle"} /\ (mem.state = Cancelled => pc = "save")
    BY <1>0, <1>5
       DEF Control, Stands, Spawning, MergeSteps, isSettled, stateHasAgent, Merging,
           TypeOK
  <2>2. mem.state = Cancelled => escalationTarget(mem.state) = Cancelled
    BY <1>0, <2>1, StateAssumption DEF Control, escalationTarget
  <2>3. mem.state \in Left[s] \/ (mem.state = s /\ row.state = s)
    BY <1>5, <2>1, WhereItStands
  <2>4. mem.state \in State \cup {Cancelled}
    BY <1>2, <2>3, LeftIsClosed
  <2>5. escalationTarget(mem.state) \in Left[s] \/ (escalationTarget(mem.state) = s /\ row.state = s)
    BY <2>2, <2>3, <2>4, LeftIsClosed
  <2> QED BY <1>5, <2>5, LeftIsClosed DEF SettleTarget
<1>6. CASE Settles
  BY <1>1, <1>5, <1>6 DEF Settles, Go, taskVars
<1>7. CASE RunNew \/ Redrive
  <2>1. CASE RunNew
    BY <1>2, <2>1 DEF RunNew, NoTask, Step
  <2>2. CASE Redrive
    BY <1>0, <1>1, <1>2, <2>2 DEF Redrive, Go, TypeOK, Task
  <2> QED BY <1>7, <2>1, <2>2
<1>8. CASE RunExisting \/ Enters \/ Prepare \/ Spawn \/ Merges
  <2>1. UNCHANGED <<row, mem>> /\ pc' \notin {"audit", "save"}
    BY <1>8, Zenon DEF RunExisting, Enters, NoEntry, ReuseAgent, StartMerge, Prepare, Spawn,
         Merges, PreMerge, Merge, Verify, taskVars, Step
  <2> QED BY <1>1, <2>1
<1>9. CASE Reconcile
  <2>1. /\ pc = "reconcile" /\ why = "none" /\ ~isSettled(mem.state)
        /\ mem.state \in State /\ stateHasAgent(mem.state)
        /\ mem.state = row.state /\ mem.spawn = row.spawn
    BY <1>0, <1>9 DEF Reconcile, Stands, Control, stateHasAgent
  <2>2. \/ pc' = "loop" /\ row' = mem /\ mem' = mem
        \/ pc' = "idle" /\ row' = row /\ mem' = row
        \/ /\ row' = row /\ mem'.spawn = mem.spawn
           /\ \/ to' = SettleTarget(cause)
              \/ /\ mem.state = "implementing" /\ "pass" \in DOMAIN Here.done
                 /\ to' = Here.done["pass"]
    BY <1>0, <1>9 DEF Reconcile, ErrsWith, Return, ReturnAt, Go, Step, TypeOK, Task
  <2>3. ASSUME mem.state = "implementing", "pass" \in DOMAIN Here.done,
               to' = Here.done["pass"], mem.spawn = s
        PROVE  to' \in Left[s] \/ (to' = s /\ row.state = s)
    <3>1. mem.state \in Left[s] \/ (mem.state = s /\ row.state = s)
      BY <1>1, <2>1, <2>3
    <3>2. CASE mem.state \in Left[s]
      <4>1. to' \in EarlyTargets(mem.state)
        BY <2>1, <2>3 DEF EarlyTargets, Here
      <4> QED BY <2>1, <3>2, <4>1, LeftIsClosed
    <3>3. CASE mem.state = s /\ row.state = s
      <4>1. to' \in Targets(s)
        <5>1. to' \in State
          BY <2>1, <2>3, GraphAssumption DEF Here
        <5> QED BY <2>3, <3>3, <5>1, StateAssumption DEF Targets, PlainTargets, Here
      <4> QED BY <3>3, <4>1, LeftIsClosed
    <3> QED BY <3>1, <3>2, <3>3
  <2> QED BY <1>1, <1>5, <2>1, <2>2, <2>3
<1>10. CASE Exhausted
  <2>1. /\ pc = "loop" /\ ~isSettled(mem.state) /\ why = "none" /\ mem.spawn # mem.state
        /\ mem.state \in State /\ stateHasAgent(mem.state)
    BY <1>0, <1>10, StateAssumption
       DEF Exhausted, AtEntry, FreshRound, Control, Capped, Here, stateHasAgent
  <2>2. /\ row' = row
        /\ \/ pc' = "idle" /\ mem' = row
           \/ /\ mem'.spawn = mem.spawn
              /\ to' = SettleTarget(cause) \/ (to' = Here.exhausted /\ to' # NoState)
    BY <1>0, <1>10 DEF Exhausted, ErrsWith, Return, ReturnAt, Go, TypeOK, Task
  <2>3. ASSUME to' = Here.exhausted, to' # NoState, mem.spawn = s
        PROVE  to' \in Left[s]
    <3>1. mem.state \in Left[s]
      BY <2>1, <2>3, WhereItStands
    <3>2. to' \in EarlyTargets(mem.state)
      BY <2>1, <2>3 DEF EarlyTargets, Here
    <3> QED BY <2>1, <3>1, <3>2, LeftIsClosed
  <2> QED BY <1>1, <1>5, <2>1, <2>2, <2>3
<1>11. CASE SpawnAfresh
  BY <1>1, <1>11 DEF SpawnAfresh, Step
<1>12. CASE Record
  BY <1>0, <1>12 DEF Record, Step, Control, TypeOK, Task
<1>13. CASE StatusSeen
  BY <1>0, <1>1, <1>13 DEF StatusSeen, AwaitsAgent, Control, TypeOK, Task
\* from a state the drive waits or merges in, the target is any of its targets
<1>14. ASSUME pc = "await" \/ pc = "bookkeep", mem.spawn = s, to' \in Targets(mem.state)
       PROVE  to' \in Left[s] \/ (to' = s /\ row.state = s)
  <2>1. mem.state \in State /\ why = "none" /\ (stateHasAgent(mem.state) => mem.state = s)
    BY <1>0, <1>14 DEF Stands, MergeSteps, Merging, Control, stateHasAgent
  <2>2. mem.state \in Left[s] \/ (mem.state = s /\ row.state = s)
    BY <1>14, <2>1, WhereItStands
  <2>3. mem.state \in Left[s] => to' \in EarlyTargets(mem.state)
    BY <1>14, <2>1, LeftIsClosed DEF EarlyTargets
  <2> QED BY <1>14, <2>1, <2>2, <2>3, LeftIsClosed
<1>15. CASE Leaves
  <2>1. to' \in Targets(mem.state) /\ pc = "await" /\ row' = row /\ mem'.spawn = mem.spawn
    BY <1>0, <1>15, LeavesTo DEF Targets, TypeOK, Task
  <2> QED BY <1>1, <1>14, <2>1
<1>16. CASE GatePasses
  <2>1. to' \in Targets(mem.state)
    BY <1>0, <1>16, GateBranches DEF GatePasses, Go, Targets, Here
  <2> QED BY <1>1, <1>14, <1>16, <2>1 DEF GatePasses, AwaitsGate, taskVars
<1>17. CASE Bookkeep
  <2>1. to' \in Targets(mem.state)
    BY <1>0, <1>17 DEF Bookkeep, Go, Targets, Here
  <2> QED BY <1>1, <1>14, <1>17, <2>1 DEF Bookkeep, taskVars
<1>18. CASE AppendAudit
  BY <1>0, <1>1, <1>18 DEF AppendAudit, moveVars, TypeOK, Task
<1>19. CASE UpdateTask
  BY <1>0, <1>1, <1>19 DEF UpdateTask, ReturnAt, Control
<1> QED BY <1>3, <1>4, <1>6, <1>7, <1>8, <1>9, <1>10, <1>11, <1>12, <1>13, <1>15, <1>16,
           <1>17, <1>18, <1>19, StepKinds, Zenon

\* A step leaves no old verdict where one is asked for.
LEMMA AskedStep ==
    ASSUME VerdictsAreAsked, IInv, SpawnKnown, Asked, [Next]_vars
    PROVE  Asked'
<1> USE DEF Asked
<1>0. IInv /\ TypeOK /\ Control /\ Stands
  BY DEF IInv
<1>1. \A s \in State : Graph[s].decides => stateHasAgent(s) /\ s \in Anew
  BY DEF VerdictsAreAsked, Anew
<1>2. CASE UpdateTask
  <2>1. row'.state = to /\ row'.spawn = mem.spawn /\ pc' \in {"idle", "loop"} /\ why' = "none"
    BY <1>0, <1>2 DEF UpdateTask, ReturnAt, Control
  <2>2. CASE row.state = to
    <3>1. verdict' = verdict
      BY <1>2, <2>2, Zenon DEF UpdateTask
    <3>2. mem.spawn = row.spawn \/ mem.spawn = NoState
      BY <1>0 DEF Control
    <3> QED BY <2>1, <2>2, <3>1, <3>2, StateAssumption
  <2>3. CASE row.state # to
    <3>1. to \in Anew => mem.spawn # to
      BY <1>2, <2>3, LeftIsClosed DEF SpawnKnown, Deciding, UpdateTask
    <3> QED BY <1>1, <2>1, <3>1
  <2> QED BY <2>2, <2>3
<1>3. CASE Prepare
  BY <1>3 DEF Prepare, Step, moveVars, taskVars, Here
<1>4. CASE ~UpdateTask /\ ~Prepare
  <2>1. verdict' # "old" \/ verdict' = verdict
    BY <1>4, WorldChanges
  <2>2. why' = "decision" => why = "decision" \/ (Leaves /\ Here.decides)
    BY <1>0, <1>4, StepKinds, LeavesTo, Zenon
       DEF Rests, Returns, Return, ReturnAt, Settles, Go, RunNew, RunExisting, Step,
           Redrive, Reconcile, ErrsWith, Enters, NoEntry, ReuseAgent, StartMerge,
           Exhausted, SpawnAfresh, Spawn, Record, StatusSeen, GatePasses, Merges,
           PreMerge, Merge, Verify, Bookkeep, AppendAudit, moveVars
  <2>3. pc' \in {"spawn", "record"} => pc \in {"spawn", "record"} /\ mem' = mem
    BY <1>0, <1>4, StepKinds, LeavesTo
       DEF Rests, Returns, Return, ReturnAt, Settles, Go, RunNew, RunExisting, Step,
           Redrive, Reconcile, ErrsWith, Enters, NoEntry, ReuseAgent, StartMerge,
           Exhausted, SpawnAfresh, Spawn, Record, StatusSeen, AwaitsAgent, GatePasses,
           Merges, PreMerge, Merge, Verify, Bookkeep, AppendAudit, taskVars
  <2>4. \/ row'.state = row.state /\ row'.spawn = row.spawn
        \/ pc = "record" /\ row'.state = mem.state
        \/ row'.spawn = NoState
    <3>1. pc \in {"reconcile", "await"} => mem.state = row.state /\ mem.spawn = row.spawn
      BY <1>0 DEF Control, Deciding
    <3>2. \/ row' = row
          \/ row' = mem /\ pc \in {"reconcile", "await"}
          \/ row' = [mem EXCEPT !.spawn = mem.state] /\ pc = "record"
          \/ RunNew
      BY <1>0, <1>4, StepKinds, LeavesTo, Zenon
         DEF Rests, Returns, Settles, RunExisting, Redrive, Reconcile, Enters, NoEntry,
             ReuseAgent, StartMerge, Exhausted, SpawnAfresh, Spawn, Record, StatusSeen,
             AwaitsAgent, GatePasses, Merges, PreMerge, Merge, Verify, Bookkeep,
             AppendAudit, taskVars
    <3>3. RunNew => row'.spawn = NoState
      BY DEF RunNew, NoTask
    <3>4. LET t == [mem EXCEPT !.spawn = mem.state] IN t.state = mem.state
      BY <1>0 DEF TypeOK, Task
    <3> QED BY <3>1, <3>2, <3>3, <3>4
  <2>5. Leaves /\ Here.decides => verdict # "old" /\ verdict' = verdict
    <3> SUFFICES ASSUME Leaves, Here.decides PROVE verdict # "old"
      BY <1>0, LeavesTo
    <3>1. pc = "await"
      BY <1>0, LeavesTo
    <3>2. mem.state \in State /\ Graph[mem.state].decides
      BY <1>0, <3>1 DEF Stands, Here
    <3>3. row.spawn = row.state /\ row.state = mem.state
      BY <1>0, <1>1, <3>1, <3>2 DEF Stands, Control, Deciding
    <3> QED BY <3>2, <3>3
  <2>6. pc = "record" /\ row'.state = mem.state /\ Graph[row'.state].decides => verdict # "old"
    BY DEF Here
  <2> QED BY <2>1, <2>2, <2>3, <2>4, <2>5, <2>6, StateAssumption DEF Here
<1> QED BY <1>2, <1>3, <1>4

\* Whatever the workflow, if its decisions are made by agents, and by another one each
\* time the state is entered: no decision is taken from a verdict of an earlier round.
THEOREM OldVerdictsDie == ASSUME VerdictsAreAsked PROVE Spec => []OldVerdictIsDead
<1>1. Init => SpawnKnown /\ Asked
  BY LeftIsClosed, StateAssumption DEF Init, NoTask, SpawnKnown, Asked, Deciding
<1>2. IInv /\ SpawnKnown /\ Asked /\ [Next]_vars => SpawnKnown' /\ Asked'
  BY SpawnStep, AskedStep
<1>3. Asked => OldVerdictIsDead
  BY DEF Asked, OldVerdictIsDead
<1> QED BY <1>1, <1>2, <1>3, Invariant, PTL DEF Spec

-----------------------------------------------------------------------------
(***************************************************************************)
(* Rounds.                                                                 *)
(***************************************************************************)

\* While a drive is under way and the task has not settled, its copy of the count
\* lacks the round of a capped state whose agent is not there yet, and no other.
LEMMA CountOfDrive ==
    ASSUME RoundsAreSpawns, IInv, Rounds, ~isSettled(row.state), pc # "idle",
           why \notin {"redrive", "settle"}, NEW s \in Capped
    PROVE  rounds[s] - mem.retries[s] =
              IF ~(Deciding \/ Spawning) /\ row.state = s /\ row.spawn # s THEN 1 ELSE 0
<1>0. IInv /\ TypeOK /\ Control /\ Stands
  BY DEF IInv
<1>1. rounds[s] - row.retries[s] = IF row.state = s /\ row.spawn # s THEN 1 ELSE 0
  BY DEF Rounds, RoundsAreCounted
<1>2. rounds \in [Capped -> Nat] /\ row.retries \in [Capped -> Nat]
  BY <1>0, Tasks DEF TypeOK
<1>3. CASE Deciding
  BY <1>3 DEF Rounds, Deciding, Spawning
<1>4. CASE Spawning
  <2>1. mem.state = row.state /\ mem.spawn = row.spawn /\ ~Deciding
    BY <1>0, <1>4 DEF Control, Spawning, Deciding
  <2>2. Graph[s].entry = "resume"
    BY DEF RoundsAreSpawns, Capped
  <2>3. mem.retries = IF FreshRound THEN [row.retries EXCEPT ![mem.state] = @ + 1]
                      ELSE row.retries
    BY <1>4 DEF Rounds
  <2>4. CASE mem.state = s
    BY <1>1, <1>2, <1>4, <2>1, <2>2, <2>3, <2>4 DEF FreshRound, Here
  <2>5. CASE mem.state # s
    <3>1. mem.retries[s] = row.retries[s]
      BY <1>2, <2>3, <2>5 DEF FreshRound
    <3> QED BY <1>1, <1>4, <2>1, <2>5, <3>1
  <2> QED BY <2>4, <2>5
<1>5. CASE ~(Deciding \/ Spawning)
  BY <1>1, <1>5 DEF Rounds
<1> QED BY <1>3, <1>4, <1>5

\* The state a drive settles its task to is no capped one, and a settled one if it
\* gives up a capped one.
LEMMA SettledTargets ==
    ASSUME RoundsAreSpawns, IInv, pc \notin {"idle", "redrive"},
           pc = "loop" => ~isSettled(mem.state), Deciding => why \notin {"redrive", "settle"}
    PROVE  /\ ~isSettled(row.state) /\ why \notin {"redrive", "settle"}
           /\ SettleTarget(cause) \notin Capped
<1>0. IInv /\ TypeOK /\ Control /\ Stands
  BY DEF IInv
<1>1. ~isSettled(row.state) /\ why \notin {"redrive", "settle"}
  BY <1>0 DEF TypeOK, Control, Stands, Deciding, Spawning, MergeSteps
<1>2. mem.state \in State \/ (mem.state = Cancelled /\ alertTerminal = NoState)
  <2>1. CASE pc = "save"
    BY <1>0, <1>1, <2>1, Tasks DEF TypeOK, Control, Deciding
  <2>2. CASE pc # "save"
    BY <1>0, <1>1, <2>2, Tasks DEF TypeOK, Control, isSettled
  <2> QED BY <2>1, <2>2
<1>3. escalationTarget(mem.state) \notin Capped
  BY <1>2, StateAssumption DEF RoundsAreSpawns, Capped, escalationTarget
<1> QED BY <1>1, <1>3, StateAssumption DEF SettleTarget, Capped

\* A step to a target that is decided on leaves no round uncounted, unless it gives up.
LEMMA DecidedRounds ==
    ASSUME RoundsAreSpawns, IInv, SpawnKnown, SpawnKnown', Rounds,
           row' = row, rounds' = rounds, pc' = "audit", row.state # NoState,
           why' \notin {"none", "redrive"},
           \A s \in Capped :
              /\ rounds[s] - mem'.retries[s] \in
                     IF why' = "settle" /\ isSettled(to') THEN {0, 1} ELSE {0}
              /\ to' = s => why' # "settle" /\ (row.state = s => mem'.spawn = s)
    PROVE  Rounds'
<1>1. \A s \in Capped : s \in Anew
  BY StateAssumption DEF RoundsAreSpawns, Capped, Anew
<1>2. ASSUME NEW s \in Capped, to' = s, mem'.spawn = s PROVE row.state = s
  BY <1>1, <1>2, LeftIsClosed DEF SpawnKnown, Deciding
<1>3. RoundsAreCounted'
  BY DEF Rounds, RoundsAreCounted
<1> QED BY <1>2, <1>3 DEF Rounds, Deciding, Spawning

\* Deciding on a target where the task stands; its counts are those of the drive.
LEMMA GoingRounds ==
    ASSUME RoundsAreSpawns, IInv, SpawnKnown, SpawnKnown', Rounds,
           row' = row, rounds' = rounds, pc' = "audit",
           mem'.retries = mem.retries,
           ~isSettled(row.state), pc # "idle", why \notin {"redrive", "settle"},
           why' \notin {"none", "redrive", "settle"},
           \A s \in Capped : row.state = s => row.spawn = s /\ mem'.spawn = s
    PROVE  Rounds'
<1>1. \A s \in Capped : rounds[s] - mem'.retries[s] = 0
  BY CountOfDrive
<1>2. row.state # NoState
  BY DEF IInv, Control
<1> QED BY <1>1, <1>2, DecidedRounds

\* Giving up: the one round that may be uncounted is of a state that gives up for good.
LEMMA SettlingRounds ==
    ASSUME RoundsAreSpawns, IInv, SpawnKnown, SpawnKnown', Rounds,
           row' = row, rounds' = rounds, pc' = "audit", why' = "settle",
           mem'.retries = mem.retries, to' = SettleTarget(cause),
           pc \notin {"idle", "redrive"}, pc = "loop" => ~isSettled(mem.state),
           Deciding => why \notin {"redrive", "settle"}
    PROVE  Rounds'
<1>1. ~isSettled(row.state) /\ why \notin {"redrive", "settle"} /\ to' \notin Capped
  BY SettledTargets
<1>2. ASSUME NEW s \in Capped
      PROVE  rounds[s] - mem'.retries[s] \in IF isSettled(to') THEN {0, 1} ELSE {0}
  <2>1. rounds[s] - mem.retries[s] =
           IF ~(Deciding \/ Spawning) /\ row.state = s /\ row.spawn # s THEN 1 ELSE 0
    BY <1>1, CountOfDrive
  <2>2. ~Deciding /\ row.state = s => isSettled(to')
    <3>1. ~Deciding => mem.state = row.state
      BY DEF IInv, Control, Deciding
    <3>2. isSettled(escalationTarget(s))
      BY DEF RoundsAreSpawns, Capped
    <3> QED BY <3>1, <3>2 DEF SettleTarget, isSettled
  <2> QED BY <2>1, <2>2
<1>3. row.state # NoState
  BY DEF IInv, Control
<1> QED BY <1>1, <1>2, <1>3, DecidedRounds

\* A step loses no round and counts none twice.
LEMMA RoundsStep ==
    ASSUME RoundsAreSpawns, IInv, IInv', SpawnKnown, SpawnKnown', Rounds, [Next]_vars
    PROVE  Rounds'
<1>0. IInv /\ TypeOK /\ Control /\ Stands
  BY DEF IInv
<1>1. \A s \in Capped : /\ s \in State /\ s \notin {EntryState, "implementing", NoState}
                        /\ Graph[s].entry = "resume" /\ s # Graph[s].exhausted
  BY StateAssumption DEF RoundsAreSpawns, Capped
<1>2. CASE Rests
  BY <1>2 DEF Rests, taskVars, moveVars, histVars, Rounds, RoundsAreCounted, Deciding,
              Spawning, FreshRound, Here
<1>3. CASE Returns
  BY <1>3
     DEF Returns, Return, ReturnAt, histVars, Rounds, RoundsAreCounted, Deciding,
         Spawning
<1>4. CASE Settles
  BY <1>4, SettlingRounds DEF Settles, Go, taskVars, histVars
<1>5. CASE RunNew
  <2>1. \A r \in Capped : rounds[r] = 0
    <3>1. row.retries = NoRetries /\ rounds \in [Capped -> Nat]
      BY <1>0, <1>5 DEF RunNew, Rounds, TypeOK
    <3>2. \A r \in Capped : rounds[r] - row.retries[r] = 0
      BY <1>1, <1>5, StateAssumption
         DEF RunNew, Rounds, RoundsAreCounted, isSettled, isTerminal
    <3> QED BY <3>1, <3>2 DEF NoRetries
  <2>2. /\ row'.state = EntryState /\ row'.retries = NoRetries
        /\ mem' = row' /\ rounds' = rounds /\ pc' = "loop"
    BY <1>5 DEF RunNew, NoTask, Step, histVars
  <2>3. why' = "none"
    BY <1>0, <1>5 DEF RunNew, Step, moveVars, Control, Deciding
  <2> QED BY <1>1, <2>1, <2>2, <2>3, StateAssumption
          DEF Rounds, RoundsAreCounted, NoRetries, Deciding, Spawning
<1>6. ASSUME UNCHANGED rounds, row'.state = row.state, row'.spawn = row.spawn,
             row'.retries = row.retries
      PROVE  RoundsAreCounted' /\ (row'.state = NoState => row'.retries = NoRetries)
  BY <1>6 DEF Rounds, RoundsAreCounted
<1>7. CASE RunExisting \/ Enters \/ Merges
  <2>1. UNCHANGED <<row, mem, rounds>>
    BY <1>7, Zenon
       DEF RunExisting, Enters, NoEntry, ReuseAgent, StartMerge, Merges, PreMerge,
           Merge, Verify, taskVars, histVars
  <2>2. ~Deciding /\ ~Spawning /\ ~Deciding' /\ ~Spawning'
    BY <1>7 DEF RunExisting, Enters, NoEntry, ReuseAgent, StartMerge, AtEntry, Merges,
         PreMerge, Merge, Verify, Step, Deciding, Spawning
  <2> QED BY <1>6, <2>1, <2>2 DEF Rounds
<1>8. CASE Redrive
  BY <1>6, <1>8 DEF Redrive, Go, histVars, Rounds, Deciding, Spawning
<1>9. CASE Reconcile
  <2>1. /\ pc = "reconcile" /\ why = "none" /\ ~isSettled(row.state) /\ row.state \in State
        /\ mem.state = row.state /\ mem.spawn = row.spawn /\ mem.retries = row.retries
        /\ ~Deciding /\ ~Spawning
    BY <1>0, <1>9 DEF Reconcile, Stands, Control, stateHasAgent, Rounds, Deciding, Spawning
  <2>2. rounds' = rounds
    BY <1>9 DEF Reconcile, histVars
  <2>3. \/ pc' = "loop" /\ row' = mem /\ mem' = mem
        \/ Returns
        \/ /\ row' = row /\ mem'.retries = mem.retries /\ pc' = "audit"
           /\ \/ to' = SettleTarget(cause) /\ why' = "settle"
              \/ why' = "reconcile" /\ mem.state = "implementing"
    BY <1>0, <1>9 DEF Reconcile, ErrsWith, Returns, Go, Step, TypeOK, Task
  <2>4. CASE pc' = "loop" /\ row' = mem /\ mem' = mem
    BY <1>6, <2>1, <2>2, <2>4 DEF Rounds, Deciding, Spawning
  <2>5. CASE /\ row' = row /\ mem'.retries = mem.retries /\ pc' = "audit"
             /\ to' = SettleTarget(cause) /\ why' = "settle"
    BY <2>1, <2>2, <2>5, SettlingRounds
  <2>6. CASE /\ row' = row /\ mem'.retries = mem.retries /\ pc' = "audit"
             /\ why' = "reconcile" /\ mem.state = "implementing"
    BY <1>1, <2>1, <2>2, <2>6, GoingRounds
  <2> QED BY <1>3, <2>3, <2>4, <2>5, <2>6
<1>10. CASE Exhausted
  <2>1. /\ pc = "loop" /\ why = "none" /\ ~isSettled(mem.state) /\ ~Deciding /\ ~Spawning
        /\ mem.state = row.state /\ mem.spawn = row.spawn /\ row.spawn # row.state
        /\ row.state # NoState
    BY <1>0, <1>10 DEF Exhausted, AtEntry, FreshRound, Control, Deciding, Spawning
  <2>2. row' = row /\ rounds' = rounds
    BY <1>10 DEF Exhausted, histVars
  <2>3. \/ Returns
        \/ /\ mem'.retries = Counted /\ pc' = "audit"
           /\ \/ to' = SettleTarget(cause) /\ why' = "settle"
              \/ to' = Here.exhausted /\ why' = "loop"
    BY <1>0, <1>10 DEF Exhausted, ErrsWith, Returns, Go, TypeOK, Task
  <2>4. ASSUME mem'.retries = Counted, pc' = "audit",
               \/ to' = SettleTarget(cause) /\ why' = "settle"
               \/ to' = Here.exhausted /\ why' = "loop"
        PROVE  Rounds'
    <3>1. ASSUME NEW s \in Capped PROVE rounds[s] - mem'.retries[s] = 0
      <4>1. rounds[s] - mem.retries[s] = IF row.state = s THEN 1 ELSE 0
        BY <2>1, CountOfDrive
      <4>2. rounds[s] \in Nat /\ mem.retries \in [Capped -> Nat]
        BY <1>0, Tasks DEF TypeOK
      <4>3. mem'.retries[s] = IF row.state = s THEN mem.retries[s] + 1 ELSE mem.retries[s]
        BY <2>1, <2>4, <4>2 DEF Counted
      <4> QED BY <4>1, <4>2, <4>3
    <3>2. ASSUME NEW s \in Capped, to' = s PROVE why' # "settle" /\ row.state # s
      BY <1>1, <2>1, <2>4, <3>2, SettledTargets DEF Here
    <3> QED BY <2>1, <2>2, <2>4, <3>1, <3>2, DecidedRounds
  <2> QED BY <1>3, <2>3, <2>4
<1>11. CASE SpawnAfresh
  <2>1. /\ pc = "loop" /\ why = "none" /\ mem.retries = row.retries /\ ~Deciding
    BY <1>0, <1>11 DEF SpawnAfresh, AtEntry, Control, Deciding, Spawning, Rounds
  <2>2. /\ row' = row /\ rounds' = rounds /\ pc' = "prepare" /\ why' = why
    BY <1>11 DEF SpawnAfresh, Step, moveVars, histVars
  <2>3. /\ mem'.state = mem.state /\ mem'.spawn = mem.spawn
        /\ mem'.retries = IF FreshRound THEN [row.retries EXCEPT ![mem.state] = @ + 1]
                          ELSE row.retries
    BY <1>0, <1>11, <2>1 DEF SpawnAfresh, Counted, TypeOK, Task
  <2>4. FreshRound' <=> FreshRound
    BY <2>3 DEF FreshRound, Here
  <2> QED BY <1>6, <2>1, <2>2, <2>3, <2>4 DEF Rounds, Deciding, Spawning
<1>12. CASE Prepare \/ Spawn
  BY <1>6, <1>12 DEF Prepare, Spawn, Step, taskVars, moveVars, histVars, Rounds, Deciding,
                     Spawning, FreshRound, Here
<1>13. CASE Record
  <2>1. /\ pc = "record" /\ Spawning /\ why = "none" /\ mem.state = row.state
        /\ ~isSettled(row.state) /\ row.state # NoState
    BY <1>0, <1>13 DEF Record, Control, Deciding, Spawning, Stands
  <2>2. \A s \in Capped : rounds[s] - mem.retries[s] = 0
    BY <2>1, CountOfDrive
  <2>3. /\ row'.state = row.state /\ row'.spawn = row.state /\ row'.retries = mem.retries
        /\ mem' = row' /\ rounds' = rounds /\ pc' = "await" /\ why' = why
    BY <1>0, <1>13, <2>1 DEF Record, Step, moveVars, histVars, TypeOK, Task
  <2>4. RoundsAreCounted'
    BY <2>1, <2>2, <2>3 DEF RoundsAreCounted
  <2> QED BY <2>1, <2>3, <2>4 DEF Rounds, Deciding, Spawning
<1>14. CASE StatusSeen
  <2>1. /\ pc = "await" /\ pc' = "await" /\ why' = why /\ mem.retries = row.retries
        /\ mem.state = row.state /\ mem.spawn = row.spawn
    BY <1>0, <1>14
       DEF StatusSeen, AwaitsAgent, moveVars, Control, Rounds, Deciding, Spawning
  <2>2. row' = mem /\ mem'.retries = mem.retries /\ rounds' = rounds
    BY <1>0, <1>14 DEF StatusSeen, histVars, TypeOK, Task
  <2> QED BY <1>0, <1>6, <2>1, <2>2 DEF Rounds, Deciding, Spawning, Control
<1>15. CASE Leaves \/ GatePasses
  <2>1. pc = "await" /\ row' = row /\ rounds' = rounds /\ pc' = "audit"
    BY <1>0, <1>15, LeavesTo DEF GatePasses, AwaitsGate, Go, taskVars, histVars
  <2>2. mem'.retries = mem.retries /\ mem'.spawn = mem.spawn
    BY <1>0, <1>15, LeavesTo DEF GatePasses, taskVars, TypeOK, Task
  <2>3. why' \in {"loop", "decision", "gate"}
    BY <1>0, <1>15, LeavesTo DEF GatePasses, Go
  <2>4. /\ why = "none" /\ mem.state = row.state /\ mem.spawn = row.spawn
        /\ ~isSettled(row.state)
    BY <1>0, <2>1 DEF Control, Deciding, Stands
  <2>5. \A s \in Capped : row.state = s => mem.spawn = s
    BY <1>0, <1>1, <2>1, <2>4 DEF Stands, stateHasAgent
  <2> QED BY <2>1, <2>2, <2>3, <2>4, <2>5, GoingRounds
<1>16. CASE Bookkeep
  <2>1. /\ pc = "bookkeep" /\ row' = row /\ mem' = mem /\ rounds' = rounds
        /\ pc' = "audit" /\ why' = "loop"
    BY <1>16 DEF Bookkeep, Go, taskVars, histVars
  <2>2. why = "none" /\ mem.state = row.state /\ ~isSettled(row.state) /\ Merging(row.state)
    BY <1>0, <2>1 DEF Control, Deciding, Stands, MergeSteps
  <2>3. \A s \in Capped : row.state # s
    BY <1>1, <2>2 DEF Merging
  <2> QED BY <2>1, <2>2, <2>3, GoingRounds
<1>17. CASE AppendAudit
  <2>1. UNCHANGED <<row, rounds, to, why>> /\ Deciding /\ Deciding'
    BY <1>17 DEF AppendAudit, moveVars, histVars, Deciding
  <2>2. mem'.retries = mem.retries /\ mem'.spawn = mem.spawn
    BY <1>0, <1>17 DEF AppendAudit, TypeOK, Task
  <2> QED BY <1>6, <2>1, <2>2 DEF Rounds, Deciding, Spawning
<1>18. CASE UpdateTask
  <2>1. /\ pc = "save" /\ Deciding /\ why # "none" /\ to # NoState
        /\ mem.state = to /\ row' = mem /\ mem' = row' /\ why' = "none"
        /\ ~Deciding' /\ ~Spawning'
    BY <1>0, <1>18 DEF UpdateTask, ReturnAt, Control, Deciding, Spawning
  <2>2. /\ rounds \in [Capped -> Nat] /\ mem.retries \in [Capped -> Nat]
        /\ NoRetries \in [Capped -> Nat]
    BY <1>0, Tasks, Counts DEF TypeOK
  <2>3. RoundsAreCounted'
    <3> SUFFICES ASSUME NEW s \in Capped
                 PROVE  rounds'[s] - mem.retries[s] \in
                           IF to = s /\ mem.spawn # s THEN {1}
                           ELSE IF isSettled(to) THEN {0, 1} ELSE {0}
      BY <2>1 DEF RoundsAreCounted
    <3>1. CASE why = "redrive"
      <4>1. to = EntryState /\ to \notin Capped /\ mem.retries = NoRetries
        BY <1>0, <1>1, <3>1 DEF Control
      <4>2. rounds' = NoRetries
        BY <1>18, <3>1, <4>1 DEF UpdateTask
      <4> QED BY <4>1, <4>2 DEF NoRetries
    <3>2. CASE why # "redrive"
      <4>1. /\ rounds[s] - mem.retries[s] \in
                   IF why = "settle" /\ isSettled(to) THEN {0, 1} ELSE {0}
            /\ to = s => why # "settle" /\ (row.state = s <=> mem.spawn = s)
        BY <2>1, <3>2 DEF Rounds
      <4>2. rounds'[s] = IF to = s /\ row.state # s THEN rounds[s] + 1 ELSE rounds[s]
        BY <1>18, <2>2, <3>2 DEF UpdateTask
      <4> QED BY <2>2, <4>1, <4>2
    <3> QED BY <3>1, <3>2
  <2> QED BY <2>1, <2>3 DEF Rounds
<1> QED BY <1>2, <1>3, <1>4, <1>5, <1>7, <1>8, <1>9, <1>10, <1>11, <1>12, <1>13,
           <1>14, <1>15, <1>16, <1>17, <1>18, StepKinds, Zenon

\* Whatever the workflow, if the rounds of its capped states are those of agents it
\* resumes there: no crash or cancellation loses a round or counts one twice.
THEOREM RoundsStayCounted == ASSUME RoundsAreSpawns PROVE Spec => []RoundsAreCounted
<1>1. Init => SpawnKnown /\ Rounds
  <2>1. \A s \in Capped : NoRetries[s] - NoRetries[s] = 0
    BY DEF NoRetries
  <2> QED BY <2>1, LeftIsClosed, StateAssumption
          DEF Init, NoTask, SpawnKnown, Deciding, Rounds, RoundsAreCounted, Spawning,
              isSettled, isTerminal
<1>2. IInv /\ IInv' /\ SpawnKnown /\ Rounds /\ [Next]_vars => SpawnKnown' /\ Rounds'
  BY SpawnStep, RoundsStep
<1>3. Rounds => RoundsAreCounted
  BY DEF Rounds
<1> QED BY <1>1, <1>2, <1>3, Invariant, PTL DEF Spec

=============================================================================
