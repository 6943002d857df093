------------------------------- MODULE Engine -------------------------------
(***************************************************************************)
(* The interpreter that drives one task through the workflow graph         *)
(* (internal/engine), with the row and audit log it persists               *)
(* (internal/store), the agent it spawns in a herdr workspace, and the     *)
(* task's branch and pull request on GitHub.                               *)
(*                                                                         *)
(* A drive is one call of Engine.Run.  Each read or write of the store, of *)
(* herdr, of GitHub or of the verdict file is a step of its own: between   *)
(* two of them the agent, a person, a cancellation or the death of the     *)
(* daemon can come in.  The scheduler gives a task to one drive at a time  *)
(* (module Scheduler, ExclusiveClaim), so there is one drive here.         *)
(*                                                                         *)
(* PaneID is left out: whenever spawn consults it, it tells no more than   *)
(* Resolve and PaneSpawnState do.                                          *)
(***************************************************************************)
EXTENDS Workflow, FiniteSets

CONSTANTS
    DryRuns,   \* the values policies.dry_run takes over the daemon's life
    MaxFaults  \* bound: crashes of the daemon and calls that fail by themselves

ASSUME DryRunsAssumption == DryRuns \in SUBSET BOOLEAN \ {{}}
ASSUME MaxFaultsAssumption == MaxFaults \in Nat

VARIABLES
    row,      \* the persisted task
    mem,      \* the drive's own copy of it; the row while no drive runs
    entered,  \* the audit log records when the task entered its state
    late,     \* by that record (else by the drive's timer) the state's timeout is past
    pc,       \* the drive's next step
    to,       \* the transition under way: its target
    why,      \* and its trigger
    moved,    \* driveLoop's transitioned
    cause,    \* context.Cause of the drive's context
    agent,    \* the task's workspace: the state its agent was spawned for, and
              \* whether that was since the task entered its present state
    verdict,  \* the verdict file, by who wrote it, "bad" if it cannot be used
    prState,  \* the pull request of the task's branch
    branch,   \* the branch exists on the remote
    liveDry,  \* policies.dry_run of the daemon's current configuration
    green,    \* history: the last transition was the pass of a merge gate
    rounds,   \* history: how often this attempt entered each capped state
    faults    \* history: how many faults there were

taskVars  == <<row, mem>>
clockVars == <<entered, late>>
moveVars  == <<to, why>>
worldVars == <<agent, verdict, prState, branch>>
histVars  == <<green, rounds>>
vars == <<row, mem, entered, late, pc, to, why, moved, cause, agent, verdict,
          prState, branch, liveDry, histVars, faults>>

Capped == DOMAIN RetryCap

\* state: CurrentState; pr: PRNumber is set; spawn: PaneSpawnState; retries:
\* RetryCounts; dry: dry_run of the WorkflowSnapshot
Task == [state : State \cup {NoState, Cancelled}, pr : BOOLEAN,
         spawn : State \cup {NoState},
         retries : [Capped -> Nat], dry : BOOLEAN]

TypeOK ==
    /\ row \in Task
    /\ mem \in Task
    /\ pc # "idle" => mem.state # NoState
    /\ entered \in BOOLEAN
    /\ late \in BOOLEAN
    /\ pc \in {"idle", "redrive", "reconcile", "loop", "prepare", "spawn",
               "record", "await", "premerge", "merge", "verify", "bookkeep",
               "audit", "save"}
    /\ to \in State \cup {NoState, Cancelled}
    /\ why \in {"none", "loop", "decision", "gate", "reconcile", "redrive",
               "settle"}
    /\ moved \in BOOLEAN
    /\ cause \in {"none", "operator", "deadline"}
    /\ agent \in [at : State \cup {NoState}, fresh : BOOLEAN]
    /\ verdict \in {"none", "bad", "fresh", "late", "old"}
    /\ prState \in {"none", "open", "merged", "closed"}
    /\ branch \in BOOLEAN
    /\ liveDry \in DryRuns
    /\ green \in BOOLEAN
    /\ rounds \in [Capped -> Nat]
    /\ faults \in 0..MaxFaults

NoRetries == [s \in Capped |-> 0]
NoTask == [state |-> NoState, pr |-> FALSE, spawn |-> NoState,
           retries |-> NoRetries, dry |-> FALSE]
NoAgent == [at |-> NoState, fresh |-> FALSE]

Init ==
    /\ row = NoTask /\ mem = NoTask
    /\ entered = FALSE /\ late = FALSE
    /\ pc = "idle" /\ to = NoState /\ why = "none"
    /\ moved = FALSE /\ cause = "none"
    /\ agent = NoAgent /\ verdict = "none"
    /\ prState = "none" /\ branch = FALSE
    /\ liveDry \in DryRuns
    /\ green = FALSE /\ rounds = NoRetries
    /\ faults = 0

-----------------------------------------------------------------------------
\* The state the drive stands at, as its workflow declares it.
Here == Graph[mem.state]

\* Run returns and leaves the row at t; its own copy is gone.
ReturnAt(t) ==
    /\ pc' = "idle" /\ mem' = t /\ to' = NoState /\ why' = "none"
    /\ moved' = FALSE /\ cause' = "none"
Return == ReturnAt(row)

\* A transition to s is decided on.
Go(s, trigger) ==
    /\ to' = s /\ why' = trigger
    /\ pc' = "audit"
    /\ UNCHANGED <<moved, cause>>

\* The drive goes on in the same state.
Step(next) == pc' = next /\ UNCHANGED <<moveVars, moved, cause>>

\* Mutant: a state without a timeout has nowhere to escalate to.
SettleByTimeout(c) ==
    IF c = "operator" \/ mem.state \notin State THEN Cancelled ELSE Graph[mem.state].timeout

\* What a cancelled drive settles to, by the cause of its cancellation.
SettleTarget(c) == IF c = "operator" THEN Cancelled ELSE escalationTarget(mem.state)

\* reclassifyCancel: an error of a cancelled drive settles its task, which the
\* drive has brought to t.
ErrsWith(t) ==
    IF cause = "none"
      THEN Return
      ELSE Go(SettleTarget(cause), "settle") /\ mem' = t
Errs == ErrsWith(mem)

(***************************************************************************)
(* Run: the task is created, or loaded and reconciled or started over.     *)
(***************************************************************************)
RunNew ==
    /\ pc = "idle"
    /\ row.state = NoState
    /\ row' = [NoTask EXCEPT !.state = EntryState, !.dry = liveDry]
    /\ mem' = row'
    /\ Step("loop")
    /\ UNCHANGED <<clockVars, worldVars, liveDry, histVars, faults>>

\* The poller takes up a task that has not settled, an operator's enqueue a
\* stopped one too.  A state whose entry no audit row records has its timeout
\* counted from now.
RunExisting ==
    /\ pc = "idle"
    /\ row.state # NoState
    /\ row.state \notin settledStates(liveDry) \/ IsStopped(row.state)
    /\ late' = (late /\ entered)
    /\ Step(IF IsStopped(row.state) THEN "redrive"
            ELSE IF stateHasAgent(row.state) THEN "reconcile" ELSE "loop")
    /\ UNCHANGED <<taskVars, entered, worldVars, liveDry, histVars, faults>>

RefuseRedrive ==
    /\ pc = "redrive"
    /\ prState = "open" \/ branch
    /\ Return
    /\ UNCHANGED <<row, clockVars, worldVars, liveDry, histVars, faults>>

\* Every field that tied the task to its earlier attempt is cleared.  An open
\* PR has its branch on the remote, so the two lookups are one step.
Redrive ==
    /\ pc = "redrive"
    /\ prState # "open" /\ ~branch
    /\ mem' = [mem EXCEPT !.pr = FALSE, !.spawn = NoState, !.retries = NoRetries]
    /\ Go(EntryState, "redrive")
    /\ UNCHANGED <<row, clockVars, worldVars, liveDry, histVars, faults>>

\* Resolve the agent's pane; an open PR of an implementing task counts as its
\* agent's success, and where nothing is declared for that, the drive fails.
Reconcile ==
    /\ pc = "reconcile"
    /\ LET found == [mem EXCEPT !.pr = TRUE] IN
       IF mem.state = "implementing" /\ prState = "open"
         THEN /\ row' = row
              /\ IF "pass" \in DOMAIN Here.done
                   THEN mem' = found /\ Go(Here.done["pass"], "reconcile")
                   ELSE ErrsWith(found)
         ELSE /\ Step("loop")
              /\ row' = mem
              /\ UNCHANGED mem
    /\ UNCHANGED <<clockVars, worldVars, liveDry, histVars, faults>>

(***************************************************************************)
(* driveLoop and runState: the entry action of the present state.          *)
(***************************************************************************)
AtEntry(kind) == pc = "loop" /\ ~isSettled(mem.state) /\ Here.entry = kind

\* Mutant: a task that halts at any terminal is torn down.
HaltCleansUp ==
    /\ pc = "loop"
    /\ isSettled(mem.state)
    /\ agent' \in IF moved THEN {agent, NoAgent} ELSE {agent}
    /\ Return
    /\ UNCHANGED <<row, clockVars, verdict, prState, branch, liveDry, histVars, faults>>

\* Mutant: the drive's cancellation is looked at even when it has no error.
HaltReclassified ==
    /\ pc = "loop"
    /\ isSettled(mem.state)
    /\ Errs
    /\ UNCHANGED <<row, clockVars, worldVars, liveDry, histVars, faults>>

\* The workspace is torn down, best effort, by the drive that brought the task
\* to a terminal that alerts nobody.
Halt ==
    /\ pc = "loop"
    /\ isSettled(mem.state)
    /\ agent' \in IF moved /\ ~IsStopped(mem.state) THEN {agent, NoAgent} ELSE {agent}
    /\ Return
    /\ UNCHANGED <<row, clockVars, verdict, prState, branch, liveDry, histVars, faults>>

NoEntry ==
    /\ AtEntry("none")
    /\ Step("await")
    /\ UNCHANGED <<taskVars, clockVars, worldVars, liveDry, histVars, faults>>

\* Mutant: a resumed agent is never the one that lives.
HasLiveSpawned ==
    Here.entry = "spawn" /\ mem.spawn = mem.state /\ agent.at # NoState

HasLiveAgent == mem.spawn = mem.state /\ agent.at # NoState

\* An agent spawned for this state and still there is used again.
ReuseAgent ==
    /\ AtEntry("spawn") \/ AtEntry("resume")
    /\ HasLiveAgent
    /\ Step("await")
    /\ UNCHANGED <<taskVars, clockVars, worldVars, liveDry, histVars, faults>>

\* Mutant: a re-driven round is counted again.
RecountedRound == mem.state \in Capped /\ Here.entry = "resume"

\* A round counts unless its agent was spawned before.
FreshRound == mem.spawn # mem.state /\ mem.state \in Capped /\ Here.entry = "resume"

Counted == [mem.retries EXCEPT ![mem.state] = @ + 1]

\* A capped state may declare no way out, which is an error of the drive.
Exhausted ==
    /\ AtEntry("resume")
    /\ FreshRound
    /\ Counted[mem.state] > RetryCap[mem.state]
    /\ LET over == [mem EXCEPT !.retries = Counted]
       IN  IF Here.exhausted = NoState
             THEN ErrsWith(over)
             ELSE mem' = over /\ Go(Here.exhausted, "loop")
    /\ UNCHANGED <<row, clockVars, worldVars, liveDry, histVars, faults>>

SpawnAfresh ==
    /\ AtEntry("spawn") \/ AtEntry("resume")
    /\ ~HasLiveAgent
    /\ FreshRound => Counted[mem.state] <= RetryCap[mem.state]
    /\ mem' = [mem EXCEPT !.retries = IF FreshRound THEN Counted ELSE @]
    /\ Step("prepare")
    /\ UNCHANGED <<row, clockVars, worldVars, liveDry, histVars, faults>>

\* A dry run stops at the merge, with an audit row that is no transition.
DryMerge ==
    /\ AtEntry("merge")
    /\ mem.pr /\ mem.dry
    /\ Return
    /\ UNCHANGED <<row, clockVars, worldVars, liveDry, histVars, faults>>

StartMerge ==
    /\ AtEntry("merge")
    /\ mem.pr /\ ~mem.dry
    /\ Step("premerge")
    /\ UNCHANGED <<taskVars, clockVars, worldVars, liveDry, histVars, faults>>

(***************************************************************************)
(* Spawning: clear the verdict file, replace the workspace, persist.       *)
(***************************************************************************)
\* Mutant: the verdict file is left as it is.
PrepareKeepsVerdict ==
    /\ pc = "prepare"
    /\ Step("spawn")
    /\ UNCHANGED <<taskVars, clockVars, worldVars, liveDry, histVars, faults>>

Prepare ==
    /\ pc = "prepare"
    /\ verdict' = IF Here.decides THEN "none" ELSE verdict
    /\ Step("spawn")
    /\ UNCHANGED <<taskVars, clockVars, agent, prState, branch, liveDry,
                   histVars, faults>>

Spawn ==
    /\ pc = "spawn"
    /\ agent' = [at |-> mem.state, fresh |-> TRUE]
    /\ Step("record")
    /\ UNCHANGED <<taskVars, clockVars, verdict, prState, branch, liveDry,
                   histVars, faults>>

Record ==
    /\ pc = "record"
    /\ mem' = [mem EXCEPT !.spawn = mem.state]
    /\ row' = mem'
    /\ Step("await")
    /\ UNCHANGED <<clockVars, worldVars, liveDry, histVars, faults>>

(***************************************************************************)
(* Waiting for a trigger.  An event or a status of the agent may come at   *)
(* any time; what it produced decides, never its status.                   *)
(***************************************************************************)
Scheduled ==
    /\ pc = "await"
    /\ Here.auto # NoState
    /\ Go(Here.auto, "loop")
    /\ UNCHANGED <<taskVars, clockVars, worldVars, liveDry, histVars, faults>>

AwaitsAgent == pc = "await" /\ Here.auto = NoState /\ DOMAIN Here.done # {}
AwaitsGate  == pc = "await" /\ Here.auto = NoState /\ DOMAIN Here.done = {}

\* The keys branches have: a decision's verdicts, or a gate's pass and fail.
Verdicts == UNION {DOMAIN Graph[s].done : s \in State}

DecisionMade(v) ==
    /\ AwaitsAgent
    /\ Here.decides
    /\ verdict \notin {"none", "bad"} /\ v \in DOMAIN Here.done
    /\ Go(Here.done[v], "decision")
    /\ UNCHANGED <<taskVars, clockVars, worldVars, liveDry, histVars, faults>>

\* The gates of agent.done: the PR exists, and commits moved where the state
\* asks for that (or GitHub was not asked for the baseline).
GateVerdicts ==
    IF prState # "open" THEN {"fail"}
    ELSE IF Here.commits THEN {"pass", "fail"} ELSE {"pass"}

\* An event that ends nothing: the agent's status is persisted, and with it what
\* an earlier look at the gates learnt; an idle agent's gates are looked at.
StatusSeen ==
    /\ AwaitsAgent
    /\ row' = mem
    /\ mem' \in {mem} \cup IF Here.decides \/ "fail" \notin GateVerdicts THEN {}
                           ELSE {[mem EXCEPT !.pr = @ \/ prState = "open"]}
    /\ UNCHANGED <<clockVars, pc, moveVars, moved, cause, worldVars, liveDry,
                   histVars, faults>>

\* The agent reports done: either verdict is final.  One found idle is only
\* believed when the gates pass.
WorkDone(v) ==
    /\ AwaitsAgent
    /\ ~Here.decides
    /\ v \in GateVerdicts
    /\ mem' = [mem EXCEPT !.pr = @ \/ prState = "open"]
    /\ Go(Here.done[v], "loop")
    /\ UNCHANGED <<row, clockVars, worldVars, liveDry, histVars, faults>>

StateTimeout ==
    /\ AwaitsAgent
    /\ late
    /\ Here.timeout # NoState
    /\ Go(Here.timeout, "loop")
    /\ UNCHANGED <<taskVars, clockVars, worldVars, liveDry, histVars, faults>>

\* The agent is blocked for too long, parked on a prompt, crashed, or static.
BoundFires ==
    /\ AwaitsAgent
    /\ Go(escalationTarget(mem.state), "loop")
    /\ UNCHANGED <<taskVars, clockVars, worldVars, liveDry, histVars, faults>>

\* Mutant: a merge gate passes without a PR.
GatePassesUndetected ==
    /\ AwaitsGate
    /\ Go(Here.watch["pass"], IF mem.pr /\ prState = "open" THEN "gate" ELSE "loop")
    /\ UNCHANGED <<taskVars, clockVars, worldVars, liveDry, histVars, faults>>

\* The merge gates are green only for a detected PR that is open and mergeable.
GatePasses ==
    /\ AwaitsGate
    /\ mem.pr /\ prState = "open"
    /\ Go(Here.watch["pass"], "gate")
    /\ UNCHANGED <<taskVars, clockVars, worldVars, liveDry, histVars, faults>>

GateFails ==
    /\ AwaitsGate
    /\ Here.timeout = NoState
    /\ Go(Here.watch["fail"], "loop")
    /\ UNCHANGED <<taskVars, clockVars, worldVars, liveDry, histVars, faults>>

\* Mutant: a failing gate is waited for without end.
GateTimeoutSuspends ==
    /\ AwaitsGate
    /\ late /\ entered
    /\ Here.timeout # NoState
    /\ Return
    /\ UNCHANGED <<row, clockVars, worldVars, liveDry, histVars, faults>>

GateTimeout ==
    /\ AwaitsGate
    /\ late /\ entered
    /\ Here.timeout # NoState
    /\ Go(Here.timeout, "loop")
    /\ UNCHANGED <<taskVars, clockVars, worldVars, liveDry, histVars, faults>>

\* A state with a timeout gives its worker back until the next poll.
Suspend ==
    /\ AwaitsGate
    /\ ~(late /\ entered)
    /\ Here.timeout # NoState
    /\ Return
    /\ UNCHANGED <<row, clockVars, worldVars, liveDry, histVars, faults>>

(***************************************************************************)
(* runMergeAction: idempotent over a crash, and confirmed by GitHub.       *)
(***************************************************************************)
PreMerge ==
    /\ pc = "premerge"
    /\ Step(IF prState = "merged" THEN "bookkeep" ELSE "merge")
    /\ UNCHANGED <<taskVars, clockVars, worldVars, liveDry, histVars, faults>>

\* `gh pr merge` may succeed with the merge only queued.
Merge ==
    /\ pc = "merge"
    /\ prState \in {"open", "merged"}
    /\ prState' \in {prState, "merged"}
    /\ Step("verify")
    /\ UNCHANGED <<taskVars, clockVars, agent, verdict, branch, liveDry,
                   histVars, faults>>

\* Mutant: the merge is taken for done when the call succeeded.
VerifyTrusts ==
    /\ pc = "verify"
    /\ Step("bookkeep")
    /\ UNCHANGED <<taskVars, clockVars, worldVars, liveDry, histVars, faults>>

Verify ==
    /\ pc = "verify"
    /\ prState = "merged"
    /\ Step("bookkeep")
    /\ UNCHANGED <<taskVars, clockVars, worldVars, liveDry, histVars, faults>>

\* settleMerged: closing the issue and deleting the branch may fail unnoticed.
Bookkeep ==
    /\ pc = "bookkeep"
    /\ Here.merged # NoState
    /\ branch' \in {branch, FALSE}
    /\ Go(Here.merged, "loop")
    /\ UNCHANGED <<taskVars, clockVars, agent, verdict, prState, liveDry,
                   histVars, faults>>

(***************************************************************************)
(* advance: first the audit row, then the task.                            *)
(***************************************************************************)
AppendAudit ==
    /\ pc = "audit"
    /\ mem' = [mem EXCEPT !.state = to]
    /\ pc' = "save"
    /\ UNCHANGED <<row, clockVars, moveVars, moved, cause, worldVars, liveDry,
                   histVars, faults>>

\* The task is in its new state; what the agent of the last one wrote, or may
\* still write, is of an earlier round.  A settled drive returns.
UpdateTask ==
    /\ pc = "save"
    /\ row' = mem
    /\ entered' = (entered \/ row.state # to)
    /\ late' = (late /\ row.state = to)
    /\ agent' = IF row.state = to THEN agent ELSE [agent EXCEPT !.fresh = FALSE]
    /\ verdict' = IF row.state = to \/ verdict \in {"none", "bad"} THEN verdict
                  ELSE "old"
    /\ green' = IF row.state = to THEN green ELSE why = "gate"
    /\ rounds' = LET before == IF why = "redrive" THEN NoRetries ELSE rounds
                 IN  IF to \in Capped /\ row.state # to
                       THEN [before EXCEPT ![to] = @ + 1] ELSE before
    /\ IF why = "settle"
         THEN ReturnAt(mem)
         ELSE /\ pc' = "loop" /\ to' = NoState /\ why' = "none"
              /\ moved' = (moved \/ why \in {"loop", "decision", "gate"})
              /\ UNCHANGED <<mem, cause>>
    /\ UNCHANGED <<prState, branch, liveDry, faults>>

(***************************************************************************)
(* How a drive fails.                                                      *)
(***************************************************************************)
\* What a call that did not return may have done all the same.
Partly ==
    /\ agent' \in IF pc = "spawn"
                    THEN {agent, NoAgent, [at |-> mem.state, fresh |-> TRUE]}
                    ELSE {agent}
    /\ prState' \in IF pc = "merge" /\ prState = "open" THEN {"open", "merged"}
                    ELSE {prState}
    /\ branch' \in IF pc = "bookkeep" THEN {branch, FALSE} ELSE {branch}

\* The daemon dies, or a call fails by itself: the next drive starts from the
\* row.
DriveLost ==
    /\ pc # "idle"
    /\ faults < MaxFaults
    /\ faults' = faults + 1
    /\ Return
    /\ Partly
    /\ UNCHANGED <<row, clockVars, verdict, liveDry, histVars>>

\* A call of a cancelled drive fails.  Settling runs on a context of its own.
CallCancelled ==
    /\ cause # "none"
    /\ pc \in {"reconcile", "prepare", "spawn", "record", "await", "premerge",
               "merge", "verify", "audit", "save"}
    /\ why \notin {"redrive", "settle"}
    /\ Errs
    /\ Partly
    /\ UNCHANGED <<row, clockVars, verdict, liveDry, histVars, faults>>

\* Starting over is not reclassified: the stopped task stays as it was.
RedriveCancelled ==
    /\ cause # "none"
    /\ pc = "redrive" \/ why = "redrive"
    /\ Return
    /\ UNCHANGED <<row, clockVars, worldVars, liveDry, histVars, faults>>

\* The decision agent reports done without a verdict, or its verdict file is
\* malformed or names none of the declared verdicts.
DoneUndecided == AwaitsAgent /\ Here.decides /\ verdict \in {"none", "bad"}

\* The engine refuses to go on: there is no PR to merge, GitHub refuses the
\* merge or does not confirm it, or the merge leads nowhere.
Refuses ==
    \/ AtEntry("merge") /\ ~mem.pr
    \/ pc = "merge" /\ prState \notin {"open", "merged"}
    \/ pc = "verify" /\ prState # "merged"
    \/ pc = "bookkeep" /\ Here.merged = NoState

DriveErrs ==
    /\ DoneUndecided \/ Refuses
    /\ Errs
    /\ UNCHANGED <<row, clockVars, worldVars, liveDry, histVars, faults>>

(***************************************************************************)
(* Cancellation, time, the agent, GitHub and the operator.                 *)
(***************************************************************************)
Cancel(c) ==
    /\ pc # "idle"
    /\ cause = "none"
    /\ cause' = c
    /\ UNCHANGED <<taskVars, clockVars, pc, moveVars, moved, worldVars, liveDry,
                   histVars, faults>>

\* Where no audit row records the entry, only the wait itself counts.
TimePasses ==
    /\ row.state \in State /\ Graph[row.state].timeout # NoState
    /\ entered \/ pc = "await"
    /\ ~late
    /\ late' = TRUE
    /\ UNCHANGED <<taskVars, entered, pc, moveVars, moved, cause, worldVars,
                   liveDry, histVars, faults>>

Outside == UNCHANGED <<taskVars, clockVars, pc, moveVars, moved, cause, liveDry,
                       histVars>>

AgentDecides == agent.at # NoState /\ Graph[agent.at].decides
AgentWorks   == agent.at # NoState /\ ~Graph[agent.at].decides

\* An agent that has written a verdict of its own does not spoil it.
AgentWrites ==
    /\ AgentDecides
    /\ verdict' \in {IF agent.fresh THEN "fresh" ELSE "late"}
                      \cup IF verdict \in {"none", "old"} THEN {"bad"} ELSE {}
    /\ Outside /\ UNCHANGED <<agent, prState, branch, faults>>

AgentPushes ==
    /\ AgentWorks
    /\ ~branch
    /\ branch' = TRUE
    /\ Outside /\ UNCHANGED <<agent, verdict, prState, faults>>

\* One pull request per attempt.
AgentOpensPR ==
    /\ AgentWorks
    /\ branch /\ prState # "open" /\ ~mem.pr
    /\ prState' = "open"
    /\ Outside /\ UNCHANGED <<agent, verdict, branch, faults>>

AgentGone ==
    /\ agent.at # NoState
    /\ faults < MaxFaults
    /\ faults' = faults + 1
    /\ agent' = NoAgent
    /\ Outside /\ UNCHANGED <<verdict, prState, branch>>

\* A person, or GitHub's merge queue, acts on the PR.  Deleting the branch
\* closes it.
PersonActs ==
    /\ \/ prState = "open" /\ prState' \in {"merged", "closed"} /\ UNCHANGED branch
       \/ /\ branch /\ branch' = FALSE
          /\ prState' = IF prState = "open" THEN "closed" ELSE prState
    /\ Outside /\ UNCHANGED <<agent, verdict, faults>>

EditConfig ==
    /\ pc = "idle"
    /\ liveDry' \in DryRuns \ {liveDry}
    /\ UNCHANGED <<taskVars, clockVars, pc, moveVars, moved, cause, worldVars,
                   histVars, faults>>

\* A finished task is never driven again.
Finished ==
    /\ pc = "idle"
    /\ row.state \in settledStates(liveDry) /\ ~IsStopped(row.state)
    /\ UNCHANGED vars

-----------------------------------------------------------------------------
EntryActions ==
    \/ Halt \/ NoEntry \/ ReuseAgent \/ Exhausted \/ SpawnAfresh
    \/ DryMerge \/ StartMerge

\* What the drive does without waiting for its agent.
DriveStep ==
    \/ RefuseRedrive \/ Redrive \/ Reconcile
    \/ EntryActions
    \/ Prepare \/ Spawn \/ Record
    \/ Scheduled \/ StateTimeout
    \/ GatePasses \/ GateFails \/ GateTimeout \/ Suspend
    \/ PreMerge \/ Merge \/ Verify \/ Bookkeep
    \/ AppendAudit \/ UpdateTask
    \/ CallCancelled \/ RedriveCancelled
    \/ Refuses /\ DriveErrs

\* What it does on something its agent did, or stopped doing.
AgentStep ==
    \/ \E v \in Verdicts : DecisionMade(v) \/ WorkDone(v)
    \/ StatusSeen \/ BoundFires
    \/ DoneUndecided /\ DriveErrs

Environment ==
    \/ \E c \in {"operator", "deadline"} : Cancel(c)
    \/ TimePasses
    \/ AgentWrites \/ AgentPushes \/ AgentOpensPR \/ AgentGone
    \/ PersonActs \/ EditConfig

Run == RunNew \/ RunExisting

Next == Run \/ DriveStep \/ AgentStep \/ DriveLost \/ Environment \/ Finished

Spec == Init /\ [][Next]_vars

(***************************************************************************)
(* Fairness.  The scheduler takes up what is open again and again          *)
(* (Scheduler, OpenWorkIsDriven), a drive goes on, its deadline comes if   *)
(* it does not end before, Go's select does not pass over a due timer for  *)
(* ever, and a merge asked for time and again is made.  An agent need      *)
(* never do anything.                                                      *)
(***************************************************************************)
EngineRuns ==
    /\ WF_vars(Run /\ ~IsStopped(row.state))
    /\ WF_vars(DriveStep) /\ SF_vars(StateTimeout)
    /\ WF_vars(TimePasses) /\ WF_vars(Cancel("deadline"))
    /\ SF_vars(Merge /\ prState' = "merged")

\* An agent that is asked for a verdict time and again writes a proper one.
AgentsDecide == SF_vars(AgentWrites /\ verdict' # "bad")

EngineSpec == Spec /\ EngineRuns
FairSpec == EngineSpec /\ AgentsDecide

-----------------------------------------------------------------------------
(***************************************************************************)
(* Safety.                                                                 *)
(***************************************************************************)

\* Whatever crashes, cancels and re-drives came between, the engine merges only
\* a task whose last transition was the pass of a merge gate, whose PR it has
\* recorded, and whose workflow is not a dry run.
MergeIsGated ==
    pc \in {"premerge", "merge", "verify", "bookkeep"} =>
        green /\ row.pr /\ ~row.dry

\* A task is only recorded as merged when GitHub says its PR is.
MergedIsTrue ==
    row.state \in {Graph[s].merged : s \in State} \ {NoState} => prState = "merged"

\* A crash between the count of a round, its spawn and its record neither loses
\* a round nor counts one twice; a task started over starts at none. (A task that
\* was cancelled or given up may have stopped before its last round was counted.)
RoundsAreCounted ==
    \A s \in Capped :
        LET uncounted == IF row.state = s /\ row.spawn # s THEN {1}
                         ELSE IF isSettled(row.state) THEN {0, 1} ELSE {0}
        IN  rounds[s] - row.retries[s] \in uncounted

\* An agent that is recorded for the state its task is in, and lives, is never
\* replaced: its worktree may hold work that is nowhere else.
LiveAgentIsKept ==
    pc \in {"prepare", "spawn"} => ~(row.spawn = row.state /\ agent.fresh)

\* A decision is never taken from a verdict of an earlier round.
OldVerdictIsDead == why = "decision" => verdict # "old"

\* A settled task stays as it is, but for an operator's starting a stopped one
\* over.
SettledSticks ==
    [][isSettled(row.state) /\ row' # row => IsStopped(row.state) /\ why = "redrive"]_vars

\* Nothing the engine does to a stopped task removes its workspace: a person may
\* want to look at work that was never committed.
StoppedWorkIsKept ==
    [][IsStopped(row.state) /\ pc' # pc => agent'.at = agent.at]_vars

\* Whatever crashes, failures and cancellations come between, the row lives the
\* life of a task's record: it goes through the workflow by declared transitions,
\* counts each round with its agent, and is merged, given up or started over as
\* module TaskRecord says.
Life == INSTANCE TaskRecord WITH task <- row, merged <- (prState = "merged")
RowLivesByWorkflow == Life!Spec

-----------------------------------------------------------------------------
(***************************************************************************)
(* Liveness.                                                               *)
(***************************************************************************)

\* Every task comes to its end, unless a person closes its PR.
EveryTaskSettles == row.state # NoState ~> isSettled(row.state) \/ prState = "closed"

-----------------------------------------------------------------------------
(***************************************************************************)
(* What the documentation says and the code does not do.                   *)
(***************************************************************************)

\* docs/WORKFLOW.md: loops terminate, every cycle has a retry cap or a timeout.
CapEndsLoop == \A s \in Capped : rounds[s] <= RetryCap[s] + 1

\* decision.go: clearing the verdict file turns a decision agent that is done
\* without a verdict into an error, never into an earlier agent's verdict.
VerdictIsFresh == why = "decision" => verdict = "fresh"

\* default-pipeline.yaml: the bounds cover every state, so that none is
\* unbounded merely because nobody annotated it; engine.go (awaitAgentState): no
\* stuck agent evades its state's timeout by outliving restarts and re-drives.
NoAgentStateIsUnbounded ==
    \A s \in State : stateHasAgent(s) => (row.state = s ~> row.state # s)

=============================================================================
