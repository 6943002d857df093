# A verification development for herdr-orchestrator

TLA+ models of the daemon's core, checked with TLC on small instances, and
theorems about them proved with TLAPS for every instance.  All source paths are
relative to the repository.

- [The system](#the-system)
- [The modules](#the-modules)
- [The runs](#the-runs)
- [Fairness](#fairness)
- [Proofs](#proofs)
- [Where documentation and code differ](#where-documentation-and-code-differ)
- [Not modelled](#not-modelled)
- [Plan](#plan)

## The system

The daemon (`cmd/orchestratord`) takes labelled issues from a source and drives
each through a workflow graph: an agent is spawned in a herdr workspace, what it
leaves on GitHub or in a verdict file decides the next state, and at the end the
engine merges the pull request.  Everything durable is one SQLite file.

| Component | State it keeps | Operations | What makes it correct |
| --- | --- | --- | --- |
| scheduler (`internal/scheduler`) | inflight set, work channel, per-drive contexts | poll, seed, enqueue, cancel, drive, reap, shut down | an issue is driven by one worker at a time; no claim leaks; a stopped task runs again only for an operator, a finished one never; open work is always taken up again; wedged drives end; shutdown completes |
| engine (`internal/engine`) | a copy of the task during a drive | Run, redrive, reconcile, entry actions, waits, gates, merge, advance, settle | merges only what a gate passed; a task is `merged` only if GitHub agrees; retry rounds survive crashes; live agents and stopped work are not destroyed; every task settles |
| store (`internal/store`) | task rows, append-only audit log | CreateTask, UpdateTask, AppendAudit, StateEntryTime | audit row before task row; entry times survive restarts |
| herdr backend (`internal/exec/herdr.go`) | worktrees, workspaces by label | Spawn, Resolve, Cleanup, Message | one workspace per label; spawning replaces, resolving never does |
| event hub (`internal/exec/events.go`) | subscribers, last state per pane, one poller | subscribe, unsubscribe, poll, broadcast | at most one live poller; no send on a closed channel; the last status reaches every subscriber |
| workflow configuration (`internal/config`) | the graph, gates, decisions, policies | parse, validate, analyse | merge states are gate-only; loops are bounded; every state is drivable |
| daemon seams (`cmd/orchestratord/main.go`) | settled states of the live configuration | Disposition, SeedFrom, RunTask | agree with the engine on what is settled |
| control server (`internal/mcp`) | none of its own | enqueue, cancel, read-only tools | commands reach the poller or fail |
| github client (`internal/github`) | none | PR status, find, merge, branches | - |
| classifier, notifier, event log, process runner, doctor, ui | none that matters to a task | - | - |

They interact as follows.  The scheduler's poller is the only sender on the work
channel and the only one to claim an issue; workers call `Engine.Run` under a
context of their own, which the poller (operator cancel), the reaper (drive
deadline) and the daemon's end can cancel with a cause.  The engine is the only
writer of task rows.  Agents and people act on GitHub and on the verdict file at
any time, seen by nobody until the engine looks.  A drive that waits for its agent
subscribes to the event hub, whose one poller serves all drives; the other
commands to git and herdr it gives itself, and the next drive of the task finds
what they left by the task's label.

What is hard here: claims and dispositions read in different steps; drives that
end while they are being cancelled or reaped; two writes per transition with
crashes between them; merges that happened but were not recorded; agents of an
earlier round that are still alive; timers per drive against drives that keep
failing; retry rounds counted across crashes; pollers that overlap; kickoffs that
are lost or sent twice; worktrees and workspaces half made or half removed;
workflows that the validator takes and the interpreter cannot finish.
`PROJECT.json` lists these hazards with their lines and the properties for them.

## The modules

| Module | Models | Remarks |
| --- | --- | --- |
| `Scheduler` | `internal/scheduler/scheduler.go` | every critical section of `inflightSet`, every channel operation and every call out of the package is one step |
| `DriveLease` | what the scheduler promises about one issue | abstract specification, implemented by `Scheduler` with `lease <- inflight` |
| `SchedulerMC` | - | symmetry for TLC |
| `SchedulerProofs` | - | theorems about `Scheduler` |
| `Workflow` | what the engine reads of a workflow (`internal/config/types.go`) | the graph is a constant; the questions the engine asks of it are operators, and so is what a workflow must have for some of the engine's promises |
| `Engine` | `internal/engine`, with store, herdr, GitHub, agents and people as far as the engine meets them | one task of one workflow; each read or write outside the process is a step |
| `TaskRecord` | what the engine promises about a task's row | abstract specification, implemented by `Engine` with `task <- row` and `merged` for GitHub's word on the pull request |
| `DefaultPipeline` | `examples/default-pipeline.yaml` | values for `Workflow`'s constants |
| `EngineMC` | - | the shipped pipeline with one round of changes |
| `ReworkMC` | - | a small workflow the validator accepts |
| `EngineProofs` | - | theorems about `Engine`, for every workflow |
| `RecordProofs` | - | that `Engine` implements `TaskRecord`, for every workflow |
| `EventHub` | `internal/exec/events.go` | every critical section of `hub.mu` is one step |
| `EventHubProofs` | - | theorems about `EventHub` |
| `SequenceLemmas` | - | facts about `SetToSeq`, `FlattenSeq` and the like, for `EventHubProofs` and `ValidationProofs` |
| `Validation` | `internal/config/validate.go`, `graph.go` | the workflow is a variable; the checks, and the steps of both graph searches |
| `ValidationProofs` | - | lemmas about `Validation`'s searches, for every workflow |
| `WorkflowRun` | `runState`, `CheckExecutable` and what settles a task from outside, on any accepted workflow | extends `Validation`: a task is created where that accepts |
| `WorkflowRunMC` | - | three families of workflows |
| `WorkflowRunProofs` | - | theorems about `WorkflowRun`, for every workflow |
| `Herdr` | `internal/exec/herdr.go` for one task | every git or herdr command is one step |
| `AgentWait` | `awaitAgentState` with its timers | extends `Herdr` by the drive that waits for the agent, and time |
| `AgentSession` | `reconcile`, `spawn`, messages, crashes, cleanup | composes the two; the specification that is checked |
| `AgentSessionProofs` | - | theorems about `AgentSession` |

**Scheduler.** `pc` is where the poller goroutine stands in `Serve`, with the
issue it examines in `cur` and the rest of its batch in `batch`; `wpc[w]` and
`job[w]` are the worker goroutines.  A drive is reduced to what it does to the
task's disposition (`store`) and how it ends.  `enqueue` and `enqueueOne` are the
same sequence has / Disposition / add / send, so they share `Examine`, `Admit`,
`Refuse`, `Claim`, `Send` and `SendFull`, with `src` telling whose call it is.
`cause[w]` is `context.Cause` of the drive's context: the first cancellation
stays.  `asked`, the issues an operator has queued, is a history variable.

**Engine.** `row` is the persisted task, `mem` the drive's copy; `entered` is
whether the audit log has an entry time for the present state and `late` whether
that state's timeout is past.  A transition is two steps, `AppendAudit` and
`UpdateTask`, and any step can be the last of its drive: by a crash or a failing
call (`DriveLost`) or by a cancellation, which is reclassified (`Errs`).
`GateVerdicts`, `StatusSeen`, `WorkDone`, `DecisionMade`, `StateTimeout` and
`BoundFires` are the arms of the wait in `awaitAgentState`; an agent's status
may be anything at any time.  Which bound fires and when is left open here, and
is what `AgentWait` is about.  `agent.fresh` and `verdict` tell who wrote what:
they are not visible to the engine and no guard of an engine step depends on
more of more of them than that a file or a workspace is there.  `green` and `rounds` are
history variables.

`TaskRecord` is what remains of the engine when all that dies with a drive is
left out: one record, and a step for each write of it.  Its steps are what a task
can do, not what a drive does: `Create`, `AgentSpawned` (which counts the round in
the same write), `PRFound`, the transitions of the workflow (`Follow`, `Exhaust`,
`GatesPass`, `MergeConfirmed`), `GiveUp` and `StartOver`.  The mapping takes
`row` for the record, and every other step of the engine for none, or for one of
GitHub's.  `GiveUp` has a part one would not promise without reading the code: a
drive that is cancelled while it saves a transition escalates from where it was
going, and the row passes over that state.

**EventHub.** `last`, `subs` and `current` are the hub's fields of these names
(`current` stands for `hub.cancel`), `ch` and `room` the subscribers' channels
and their capacities.  A poller goroutine is at its poll, or has a list in hand
that it is about to broadcast; a poller that was cancelled may still have one.
A context that is done (`leaving`) and the goroutine that unsubscribes for it are
two steps.  `view`, `missed`, `older` and `overtaken` are history variables: what
a subscriber was told, and whose list is older than whose.

**Validation and WorkflowRun.** `pc` goes through `semanticChecks`: the checks
that take transitions one by one (`shape`), Tarjan's algorithm (`cycles`) with
its recursion as an explicit stack of `calls`, and the reachability search.
Where it accepts, a task is created, and `Waits` is the order in which `runState`
looks for what the state waits for.  `WellFormed` is what the JSON schema has seen
to before, as far as it matters.  What an event's transition leads to is the
code's; which event comes is anybody's choice.  `by` is a history variable: what
brought the task to where it is.

**Herdr, AgentWait, AgentSession.** `op` is the command a drive gives next, of
the backend's (`Spawning`, `Cleaning`), of the wait's (`Waiting`) or of the
engine's around them.  `agents` maps each pane to its agent, `dir`, `reg` and `br`
are the worktree's directory, its entry in git's registry and the branch.
`left`, `blocked` and `progress` are the drive's timers, `Off` where Go has a nil
channel; `queue` is the subscriber's channel and `shown` what the hub knows.
Commands that are best effort go on after a failure (`BestEffort`), the others
end the Spawn (`Essential`).  `Interrupted` is what a command of git has done
when the daemon dies under it.  The tasks are the two states of the pipeline
that wait for an agent, one on gates (`implementing`) and one on a decision
(`pr_open`).  `entered` is, as in `Engine`, whether an audit row records the entry
of the present state.  None does of the state a task is created in, so the run has
tasks that were created in `implementing` and tasks that came there from an
earlier state (the shipped pipeline creates them in `intake`).  `since` counts the
time in either state from its entry, recorded or not.
`hurt`, `lost`, `since`, `still` and `parked` are history variables.

Time in `AgentWait` passes in ticks.  A tick stands for minutes, the calls and
polls between for seconds: before the next one, the drive has dealt with the
timers that are due, with the events on their way and with what its pane shows.
Within a tick nothing is assumed of the order.

## The runs

| Run | Instance | Shows |
| --- | --- | --- |
| `scheduler_safety` | 3 issues, 2 workers, 1 place on the channel | more issues than workers and places, so that issues queue, the channel fills and claims are given back; each issue starts in any disposition. `TypeOK`, `ExclusiveClaim`, `ClaimAccounting`, `DriveIsDue`, and `DriveLease` is implemented |
| `scheduler_live` | 2 issues, 1 worker, 2 places | two issues compete for the worker: `OpenWorkIsDriven`, `DriveAlwaysEnds`, `QueuedEnqueueIsDriven`, `ShutdownCompletes` |
| `scheduler_cancel` | 1 issue, 1 worker | violation, below |
| `engine_safety` | the shipped pipeline, a cap of 1 round, dry_run edited at will, 2 faults | `TypeOK`, what a merge and a merged task rest on (`MergeIsGated`, `MergedIsTrue`), what survives a crash (`RoundsAreCounted`, `LiveAgentIsKept`, `OldVerdictIsDead`) and what is left alone in the end (`StoppedWorkIsKept`), and `TaskRecord` is implemented (`RowLivesByWorkflow`). The cap of 1 lets rounds be counted, repeated after a crash, and exhausted; two faults put a crash inside the recovery from another |
| `engine_live` | the same, dry_run off, 1 fault | `EveryTaskSettles` |
| `engine_unbounded`, `engine_verdict`, `engine_rework` | no faults | violations, below |
| `event_hub` | 2 subscribers, 1 pane of 2 statuses, 2 pollers, channels of 1 event | one subscriber goes while another comes, a stopped poller overlaps the running one, and channels fill: `OnePoller`, `NothingIsLost`, `EventsAreChanges`, `OldListsAreLast`, `StatusArrives` |
| `workflow_run` | some ten thousand workflows of up to four states | `SearchesAreRight` (against reachability by definition), what acceptance is worth (`LoopsMeetABound`, `DeadlineIsBackstop`), and what no task on an accepted workflow meets (`TaskIsSomewhere`, `NoMergeWithoutGates`) |
| `workflow_gate` | the same | violation, below |
| `agent_session` | 2 workspaces, 2 kickoff attempts, 1 fault; timeouts of 3, 2 and 1 ticks; 1 event on its way; the entry of the first state recorded or not | what attempts leave behind (`OneWorkspacePerLabel`, `WorktreeCanBeAdded`), the kickoff (`KickoffIsHonest`, `AwaitedAgentWasAsked`) and the bounds of a wait (`BlockedIsBounded`, `SilenceIsBounded`, `SuspectIsStill`, `TimeoutOutlivesRestarts`, `ParkedIsNotDone`) |

The bounds.  `QueueDepth` stands for the 128 places of the code; `MaxFaults`
bounds crashes and calls that fail by themselves, not cancellations, deadlines,
timeouts or redrives, which are unbounded; the shipped cap of 3 rounds is 1.
Issues and workers are interchangeable, hence the symmetry of
`scheduler_safety`, whose only temporal property is a safety property.

`Buffer` stands for the 64 events of a channel.  Panes do not depend on each
other but by the room they share, and a channel of one event is full with any.
A third poller would need a third subscriber to come while two stopped ones are
still at work; `EventHubProofs` covers any number.

The workflows are all that two free states can declare before a merge and a
terminal (`Shapes`), what concerns time (`Policies`) and every graph of four
states with at most two edges each (`Graphs`), up to renaming; the cycles of the
last nest, touch and share states, which is what a search could get wrong.

`MaxSpawns` of 2 has an attempt with one before it.  One fault is one failing
command, one crash or one lost workspace; kickoffs that stall, agents that are
not detected, blocked, silent or write back are no faults and are unbounded.  The
three timeouts differ, so that each of them can fire first and the blocked one
can be overtaken by the state's.  One event on its way can be out of date when the
drive takes it, and be followed by another that the poller has yet to see;
`AgentSessionProofs` covers any number.

Deadlock is not checked in `agent_session`, where a task settles and workspaces
run out, nor in `workflow_run` and `workflow_gate`, where a rejected workflow
and a merged task are the end.

Each property of a passing run has a mutant in `PROJECT.json`: a definition as a
plausible bug would have it (the operators commented `Mutant:`), under which TLC
finds the property violated.

## Fairness

*Scheduler.* `GoroutinesRun`: each goroutine that can take a step eventually
does, Go's select does not pass over a done context for ever (it chooses at
random among its ready cases), time passes, and a cancelled drive ends, since
every call it makes honours its context.  A drive that nobody cancels may run
for ever; that it does not is what the reaper is for.  `ReadsSucceed` adds, for
one issue (`AnyIssue`; the issues are interchangeable), that reads of the store
and of the source that are tried again and again succeed now and then.  Only
`OpenWorkIsDriven` needs it.

*Engine.* `EngineRuns`: the scheduler takes an open task up again and again
(`OpenWorkIsDriven` shows this of the scheduler), a drive goes on, a due timer
fires in the end, the drive deadline comes, and a merge that is asked for again
and again is made.  An agent need never do anything; only `EveryTaskSettles`
assumes `AgentsDecide`, that an agent asked for a verdict again and again writes
a proper one in the end, and `engine_unbounded` shows what happens without it.

*EventHub.* `HubRuns`: pollers poll, broadcast and stop, a done context is
noticed, and subscribers read what they are sent.  Statuses may change for ever.

`WorkflowRun` and `AgentSession` state no fairness.  That a wait ends is stated
there as a bound on time (`BlockedIsBounded`, `SilenceIsBounded`,
`TimeoutOutlivesRestarts`), which is the stronger statement.  The last is about
states whose entry is recorded; of the state a task is created in it does not
hold (see `NoAgentStateIsUnbounded` below).

## Proofs

`SchedulerProofs` holds for any set of issues, any set of workers and any channel
depth; it assumes `QueueDepthAssumption` (the channel has a place) and
`NoIssueAssumption` (the null issue is no issue).

- `TypeCorrect`, `ClaimsAreExclusive`, `ClaimsAreAccounted`, `DrivesAreDue`: the
  four invariants of `scheduler_safety`.
- `LeaseIsKept`: `Scheduler` implements `DriveLease`.

They follow from one inductive invariant, `IInv`.  The four are not inductive:
`ExclusiveClaim` survives a claim only because the poller found the issue free
and is alone in claiming (`CurFits`), and because free means that nobody holds
it (`ClaimAccounting`); `DriveIsDue` survives a send only because what the
disposition check read, two steps before, still holds (`CurDue`), which needs
that the tasks of issues nobody holds do not change, and for the worker's part
that a driving task is open (`DrivenIsOpen`).  One lemma per group of actions
shows that a step keeps `IInv`; `HeldClaims` and `NextLeases` map each step to a
step of the lease or a stutter.

`EventHubProofs` holds for any subscribers, panes, statuses and pollers and any
size of the channels; it assumes `NoneAssumption`, `BufferAssumption` (a channel has
a place) and `PaneAssumption` (the panes are finitely many, as what a poll lists is).

- `PollerIsOne`, `OldListsAreOnTheirWayOut`: `OnePoller` and `OldListsAreLast` of
  `event_hub`, where the bound on overlapping pollers matters most.
- `Typing`, `NothingGetsLost`, `EventsStayChanges`: `TypeOK`, `NothingIsLost` and
  `EventsAreChanges`, what subscribers know.

`OldListsAreLast` is not inductive: a broadcast overtakes the lists that are
older than its own, so that their pollers must have been stopped before it
(`OlderAreStopped`).  That they were follows, as the younger list is got, from
`OnePoller`: who gets a list goes on, and all others are stopped.

For what subscribers know there is a second invariant, `KInv`, of one channel at
a time: the last that is heard of a pane, in the channel or before, is the last
status seen, if no event of the pane was lost (`KnowsAll`), and no event follows
one that says the same (`NoEchoes`).  `Heard` is that reading of a channel up to
a place; the lemmas say what becomes of it when an event is taken from the head
(`TakingKeeps`), when a subscriber is primed (`PrimingTells`), and when as many
events of a broadcast as fit are put at the end (`BroadcastTells`), and they rest
on what the community modules' `SetToSeq` lists (`SetToSeqListsAll` of
`SequenceLemmas`).

`EngineProofs` holds for every workflow with `Workflow`'s assumptions, which are
what the validator and `CheckExecutable` leave, and any number of faults.

- `Typing`, `NoLiveAgentIsReplaced`, `SettledTasksStay`, `StoppedWorkStays`:
  `TypeOK`, `LiveAgentIsKept`, `SettledSticks` and `StoppedWorkIsKept`, on every
  such workflow.  (No run checks `SettledSticks`: `TaskRecord` has no step of a
  settled record but `StartOver` of a stopped one.)
- `MergesAreGated`, `MergedTasksAreMerged`, `OldVerdictsDie`, `RoundsStayCounted`:
  the other four of `engine_safety`, each on the workflows that have the right
  structure for it, an operator of `Workflow`.

| Theorem | supposes | which says |
| --- | --- | --- |
| `MergesAreGated` | `MergesByGates` | a merge state is no entry state, and only the pass of a merge gate leads to it |
| `MergedTasksAreMerged` | `MergedByMerge` | only a merge leads to the state where a task counts as merged |
| `OldVerdictsDie` | `VerdictsAreAsked` | a state that decides has an agent, and a task comes back to it only after another state's agent was spawned (`SpawnsAnew`) |
| `RoundsStayCounted` | `RoundsAreSpawns` | a capped state resumes an agent, `SpawnsAnew` holds of it, it is neither the entry state nor `implementing` nor where a bound leads, and its own bounds settle the task |

TLC evaluates the four on the shipped pipeline (`PipelineAssumption` of
`EngineMC`).  The code does not check them on other workflows, and where one
fails the promise can: the workflow of `engine_rework` (`ReworkMC`) has a capped
state for which `SpawnsAnew` fails, and is the one on which `CapEndsLoop` does;
that of `workflow_gate` has a merge that reconcile enters, against
`MergesByGates`.

The inductive invariant `IInv` says where a drive can be, given the row and its
copy of it (`Control`: they agree but in the save; a settled row is only left by
a redrive of a stopped task), what state it is in at each step (`Stands`), and
that an agent is only about to be replaced when it is gone or another state's
(`Agents`).  On top of it each of the four has a layer of its own, which needs
its hypothesis: `Gated` and `Merged` tell what the row, the decision in hand and
the pull request have to do with each other at each step of a transition;
`SpawnKnown` and `Asked` which agent can have written the verdict; `Rounds`
relates the row's count, the drive's and the rounds that were begun, before and
after a crash.  For the last two, `SpawnsAnew` provides a set of states `R` that
the task stays in until another agent is spawned, which the invariants carry
along (`LeftIsClosed`); the engine's own test, `PaneSpawnState # CurrentState`,
rests on no more than that.

`RecordProofs` has the refinement: `RowsLiveByWorkflow`, that `Engine` implements
`TaskRecord`, for every workflow with `Workflow`'s assumptions, and no others.  A
write of the row says nothing of why it may be made; the reason is a step taken
before, and a crash, a cancellation or somebody's closing the PR may have come
between.  `Copied` (`CopyInvariant`) carries it along: what the drive's copy can
differ from the row in at each step (nothing, the PR it learnt of, the round it
counted), and, from the decision to the save, which transition of the row's state
is under way (`MayGo`, `MaySettle`).  Two facts in it are less than obvious.  A
wait for merge gates never knows more of the PR than the row does, so the row
that passes them has the PR recorded; and a merged PR stays merged while its merge
is being recorded, since no agent opens another once the drive knows of one.
`StepLives` then maps each write to a step of the record, action by action.

`AgentSessionProofs` holds for any number of workspaces, attempts, faults and
events on their way and for any timeouts; it assumes what the constants are.

- `Typing`, `SpacesStayFew`, `WorktreesCanBeAdded`, `AwaitedAgentsWereAsked`,
  `BlockedStaysBounded`, `SilenceStaysBounded`: the invariants of `agent_session`.
- `KickoffsAreHonest`, `SuspectsAreStill`, `TimeoutsOutliveRestarts`,
  `ParkedIsNeverDone`: its action properties.  The third excepts, as its property
  does, the state a task is created in.

Its `IInv` has a conjunct for each: `Panes` (an agent is started in the newest
pane, which the row does not know yet) and `Few` (before a workspace is made, all
others but those that failures paid for are closed); `Tidy`, what the steps of a
Spawn that went well so far have removed; `Asked`, what the agent of each pane was
asked at each step, and that the row recognizes none that was not, unless a
workspace was lost; `Clocks`, how the drive's timers
stand to the time that has really passed, `since`, `still` and `parked`, in the
middle of a tick as well.  Without the last, none of the bounds is inductive: a
timer that is `Off`, or one that was set from a baseline that is too late, would
let time pass.

`WorkflowRunProofs` holds for every workflow of any size that the schema admits
(`WorkflowsAssumption`).

- `MergesNeedGates`, `TasksStaySomewhere`: `NoMergeWithoutGates` and
  `TaskIsSomewhere` of `workflow_run`.
- `DeadlinesAreBackstops`: `DeadlineIsBackstop`.
- `SearchesFindAll`, `LoopsAreBounded`: `SearchesAreRight` and `LoopsMeetABound`,
  from the lemmas of `ValidationProofs`; `GraphIsOfTransitions` says that the graph
  searched has the edges that the transitions declare.
- `RunTyping`: `RunTypeOK`.

`Checked` is what each check leaves of a workflow once it has passed; `Placed`
follows from `checkRefs` for each transition a task can take (`Found`), and
`Gated` from `checkMergeGated`.  That `runState` finds something to wait for
wherever a task goes is `CheckExecutable`'s doing.  The proof of
`TasksStaySomewhere` is what brought up the start without an entry_state (below).

`ValidationProofs` proves Tarjan's algorithm, as `graph.go` has it, correct on
every graph.  `SInv` (`SearchInvariant`) is its invariant, with the recursion
explicit: the stack and the calls on it are in the order of the visits
(`Sorted`); a call leads to all that came later and is still on the stack
(`Down`), and all on the stack leads to a call from before (`Up`); a call's `low`
is the index of something on the stack that it leads to (`LowFound`), and no edge
that was followed from its part of the stack leads lower (`LowIsLeast`); no edge
leaves what was put in components (`Known`), and each of these is a whole class
(`ComponentsFound`).  When a call ends with `low` at its own index
(`ReturnRoot`), no edge leads from its part of the stack to below it, and that
part is one class (`RootOfComponent`); when it ends lower, its caller takes the
part over (`ReturnInside`).  `Searched` is the invariant of the reachability
search.  That a path exists is a statement of the sets no edge leaves (`Path`):
a state leads to another if that is in every such set the first is in.  With paths
as sequences of edges all this would be induction over their length, which the
provers cannot instantiate; as it is, each step shows a set to be closed.

Only model-checked: all liveness (`OpenWorkIsDriven`, `DriveAlwaysEnds`,
`QueuedEnqueueIsDriven`, `ShutdownCompletes`, `EveryTaskSettles`,
`StatusArrives`), since fairness and ENABLED are out of the prover's reach.  That
the searches of `Validation` end is not stated at all; TLC's finishing on
`workflow_run` shows no more than that the states are finitely many.

## Where documentation and code differ

Five runs check a sentence of the documentation or of a comment against the code
and find it violated; `PROJECT.json` quotes each.

- `CancelSettles`: an acknowledged cancel can leave its task open, when the drive
  suspends or fails to load its task.
- `CapEndsLoop`: a retry cap is not enforced in a state that is re-entered
  without another agent having been spawned between.
- `MergeIsGateOnly`: reconcile takes a task to the merge on an open pull request
  alone, where the workflow branches from `implementing` to the merge by other
  gates.  The shipped pipeline does not.
- `VerdictIsFresh`: a decision is taken from an abandoned attempt's agent, which
  wrote after the verdict file was cleared and before its workspace was closed.
- `NoAgentStateIsUnbounded`: an agent that reports done without a verdict, again
  and again, is bounded by nothing.  The counterexample refutes two sentences: the
  pipeline's, that no state is unbounded, and the comment on a state's timeout
  (engine.go:699-703), that anchoring the deadline to the audit-recorded entry
  keeps a stuck agent from evading the timeout by outliving restarts.  Its task
  stays in `intake`, the state it was created in, where the shipped pipeline
  declares 15 minutes: no audit row records that entry (store.go:124-151), so they
  start anew with every drive (engine.go:704-713).  That is why
  `TimeoutOutlivesRestarts` and its theorem are about recorded entries only.

Met while modelling, and not made runs:

- "Every real transition returns a non-empty next" (engine.go:553-556): a timeout
  or scheduled transition with a branch or an alert leads nowhere; the validator
  accepts it, the drive halts, and the next poll drives the task again.
- `drivable` is to be "an exact mirror of runState" (executable.go:19); it is one
  of what can be waited for, not of where that leads, as above.
- "Every cycle has a retry cap or a timeout" (docs/WORKFLOW.md:178): what is
  checked, and what `LoopsMeetABound` states, is one bound in each strongly
  connected component; a cycle within one may have none.
- "Any non-blocked event clears it" of the blocked timer (engine.go:731-733): only
  working does (engine.go:891), for the reason the comment there gives.
- Cleanup takes a missing workspace for "already clean" (herdr.go:425): the
  worktree of a settled task whose workspace is gone stays.
- Without an entry_state a task starts in `queued`, declared or not, and the
  validator only warns that it cannot check reachability.  Where `queued`
  is not declared, every drive of the task fails, at every poll.  `TaskIsSomewhere`
  excepts that start, and some workflows of `workflow_run` are without.
- A respawn for the same state that fails after its workspace was lost leaves a
  row that the next drive recognizes, so that it waits for an agent that was not
  told its task (`AwaitedAgentWasAsked` excludes lost workspaces).
- A drive_deadline of "0s" is accepted where no state has a timeout, and disables
  the reaper.

## Not modelled

- Of `internal/exec/herdr.go`: `WaitState` and `Close`, which nothing in the
  daemon calls on a task, and `SmokeKickoff`, which doctor runs under a label of
  its own.
- Loading of workflows: YAML, the parsing of durations, and the JSON schema beyond
  `WellFormed`.
- The heuristics of the classifier: `AgentWait` lets it answer anything.
- Parsing of `gh` and `herdr` output; the JSON-RPC layer of the control server,
  its read-only tools, and the answer an enqueue gives; migrations and listings of
  the store; the texts of task files and notifications.
- Notifier, event log, process runner, doctor and ui: input and output with no
  way back into a task.
- Several alerting terminals in one workflow: the code takes the first by name,
  `alertTerminal` and `escalationTarget` a fixed one.
- A second task: tasks share the hub, the channel and the workers, which the
  modules of these model, and nothing else.

## Plan

1. Refinement: `Engine`'s wait (`BoundFires`, `StatusSeen`) implemented by
   `AgentWait`, for the two agent states.
2. An abstract specification of the hub, a lossy and duplicate-free stream of
   each pane's last status, and `AgentWait`'s `queue` and `Poll` as an instance
   of it.
3. Termination of the searches of `Validation`, as a measure that every step of
   theirs decreases.
