----------------------------- MODULE AgentSession -----------------------------
(***************************************************************************)
(* A task's drives through the states that run an agent: the engine's       *)
(* reconcile and spawn (internal/engine/engine.go) call the backend         *)
(* (module Herdr), the drive waits for the agent (module AgentWait), an     *)
(* operator sends it messages (internal/mcp/tools.go), the daemon dies and  *)
(* comes back, and a settled task is cleaned up.                            *)
(***************************************************************************)
EXTENDS AgentWait

VARIABLES
    row,  \* the persisted task's PaneID, 0 for none, and PaneSpawnState
    lost  \* history: a workspace was lost

vars == <<herdrVars, waitVars, row, lost>>

TypeOK ==
    /\ HerdrTypeOK(AgentStage)
    /\ WaitTypeOK
    /\ op \in Spawning \cup Cleaning \cup Waiting
                \cup {"off", "resolve", "enter", "record", "arm", "failed", "settled"}
    /\ row \in [pane : 0..MaxSpawns, spawned : AgentStage \cup {"none"}]
    /\ lost \in BOOLEAN

Init ==
    /\ HerdrInit /\ WaitInit
    /\ row = [pane |-> 0, spawned |-> "none"]
    /\ lost = FALSE

-----------------------------------------------------------------------------
InDrive == UNCHANGED <<agents, made, dir, reg, br, hurt, post, lost>>

StartDrive ==
    /\ stage \in AgentStage
    /\ Step("off", "resolve")
    /\ InDrive /\ UNCHANGED <<waitVars, row, handle, faults>>

\* backend.Resolve: any workspace with the label, for there should be one.
Resolved == IF Live = {} THEN {0} ELSE Live

\* reconcile: the pane is looked up by the task's label.  An implementing task
\* whose PR is there goes on without its agent.
Reconcile ==
    /\ Step("resolve", "enter")
    /\ \E p \in Resolved : row' = [row EXCEPT !.pane = p]
    /\ IF artifact /\ ~Decides
         THEN stage' = "pr_open" /\ entered' = TRUE /\ since' = 0 /\ artifact' = FALSE
         ELSE UNCHANGED <<stage, entered, since, artifact>>
    /\ InDrive
    /\ UNCHANGED <<timers, sightVars, still, parked, handle, faults>>

\* Mutant: any agent that lives is used again.
RecognizedAnyway == row.pane # 0

Recognized == row.pane # 0 /\ row.spawned = stage

\* spawn: an agent that was spawned for this state is used again.
Reuse ==
    /\ Recognized
    /\ Step("enter", "arm")
    /\ handle' \in Live
    /\ shown' = IF handle' = handle THEN shown ELSE "none"
    /\ InDrive
    /\ UNCHANGED <<stage, entered, artifact, timers, queue, changed, histVars, row, faults>>

SpawnAnew ==
    /\ op = "enter"
    /\ ~Recognized \/ Live = {}
    /\ BeginSpawn
    /\ UNCHANGED <<waitVars, row, lost>>

Record ==
    /\ Step("record", "arm")
    /\ row' = [pane |-> handle, spawned |-> stage]
    /\ shown' = "none"
    /\ InDrive
    /\ UNCHANGED <<stage, entered, artifact, timers, queue, changed, histVars, handle,
                   faults>>

Arm ==
    /\ op = "arm"
    /\ BeginWait
    /\ InDrive /\ UNCHANGED <<row, handle>>

SpawnFailed ==
    /\ Step("failed", "off")
    /\ InDrive /\ UNCHANGED <<waitVars, row, handle, faults>>

\* The store, GitHub or herdr cannot be read.
DriveErrs ==
    /\ op \in {"resolve", "enter", "record"}
    /\ op' = "off" /\ Fault
    /\ InDrive /\ UNCHANGED <<waitVars, row, handle>>

\* maybeCleanup, as the drive comes to its end.
SettledCleansUp ==
    /\ op = "settled"
    /\ BeginCleanup
    /\ UNCHANGED <<waitVars, row, lost>>

Backend ==
    /\ HerdrStep(stage = "pr_open", stage)
    /\ UNCHANGED <<waitVars, row, lost>>

Wait == WaitStep /\ UNCHANGED <<row, lost>>

DaemonDies ==
    /\ op # "off"
    /\ Fault
    /\ op' = "off" /\ handle' = 0 /\ hurt' = FALSE
    /\ post' = NoPost
    /\ Interrupted
    /\ Quiet /\ shown' = "none"
    /\ UNCHANGED <<agents, made, stage, entered, artifact, since, row, lost>>

(***************************************************************************)
(* The operator, the agents and time.                                       *)
(***************************************************************************)
Outside == UNCHANGED <<stage, entered, timers, queue, shown, since, row>>

\* messageTask: the text goes to the pane the row had as it was read, which may
\* be one of an earlier agent by now.
MessageTask ==
    /\ stage \notin Settled
    /\ \E p \in 1..row.pane :
         /\ Takes(p) /\ agents[p].ready
         /\ agents' = Typed(p, agents[p].asked)
         /\ Stirs(p)
    /\ Outside
    /\ UNCHANGED <<made, dir, reg, br, op, handle, hurt, post, faults, artifact, lost>>

AgentStirs ==
    /\ \E p \in Live : AgentActs(p) /\ Stirs(p)
    /\ Outside
    /\ UNCHANGED <<made, dir, reg, br, op, handle, hurt, post, faults, artifact, lost>>

\* An agent at work shows it, and makes what it was asked for.
AgentWorks ==
    /\ row.pane # 0 /\ agents[row.pane].status = "working"
    /\ agents[row.pane].asked = stage
    /\ artifact' \in {artifact, TRUE}
    /\ agents' = agents
    /\ Stirs(row.pane)
    /\ Outside
    /\ UNCHANGED <<made, dir, reg, br, op, handle, hurt, post, faults, lost>>

Loss ==
    /\ WorkspaceLost
    /\ lost' = TRUE
    /\ UNCHANGED <<waitVars, row>>

WritesBack == AgentWritesBack /\ UNCHANGED <<waitVars, row, lost>>

Seen  == Poll /\ UNCHANGED <<row, lost>>
Clock == Tick /\ UNCHANGED <<row, lost>>

-----------------------------------------------------------------------------
Drive ==
    \/ StartDrive \/ Reconcile \/ Reuse \/ SpawnAnew \/ Record \/ Arm
    \/ SpawnFailed \/ DriveErrs \/ SettledCleansUp
    \/ Backend \/ Wait

World == MessageTask \/ AgentStirs \/ AgentWorks \/ Loss \/ WritesBack \/ Seen \/ Clock

Next == Drive \/ DaemonDies \/ World

Spec == Init /\ [][Next]_vars

-----------------------------------------------------------------------------
(***************************************************************************)
(* The backend.                                                             *)
(***************************************************************************)

\* Spawn closes what an earlier attempt left under the label: each workspace more
\* than one was paid for by something that failed.
OneWorkspacePerLabel == Cardinality(Live) <= 1 + faults

\* Whatever an interrupted Spawn, a Cleanup or an agent that outlived its
\* worktree left behind, git is not asked for a worktree it refuses, unless
\* something goes wrong within this very Spawn: no task is stuck on "already
\* exists" for ever.
WorktreeCanBeAdded == op = "add" /\ ~hurt => CanAdd(stage = "pr_open")

\* A delivery is only called a success if the agent has the kickoff, or a dialog
\* is up which the engine will see.
KickoffIsHonest ==
    [][post.step = "wait" /\ post'.step = "took" =>
         agents[handle].asked = stage \/ agents[handle].status = "blocked"]_vars

\* Through failed kickoffs and deaths of the daemon, the agent a drive waits for
\* was given the task of the present state, if no workspace was lost and there
\* is no other with the label.
AwaitedAgentWasAsked ==
    op \in Waiting /\ Live = {handle} /\ ~lost => agents[handle].asked = stage

(***************************************************************************)
(* The wait.                                                                *)
(***************************************************************************)

\* An agent that stays blocked without going to work, or that reads as idle
\* meanwhile, is given up when blocked_timeout is over, however often it is
\* reported blocked.
BlockedIsBounded == parked <= BlockedTimeout

\* An agent that shows nothing is given up within two windows, unless its pane
\* cannot be read or it is taken for working or finished.
SilenceIsBounded == still <= 2 * NoProgress

\* No agent is suspected that showed something within the last window.
SuspectIsStill == [][op = "select" /\ op' = "classify" => still >= NoProgress]_vars

\* Where an audit row records the entry of the task's state, no wait goes on beyond
\* the state's timeout, counted from that entry through every restart.  The state a
\* task is created in has no such row: there, every drive has the full timeout
\* anew, against the comment in awaitAgentState (see NoAgentStateIsUnbounded).
TimeoutOutlivesRestarts ==
    [][entered /\ since' > since /\ op \in Waiting => since < StateTimeout]_vars

\* Inside a blocked window, no gate is passed because its agent looks idle.
ParkedIsNotDone ==
    [][stage = "implementing" /\ stage' = "pr_open" /\ op \in Waiting /\ parked > 0
         => queue # <<>> /\ Head(queue) = "done"]_vars

=============================================================================
