------------------------- MODULE AgentSessionProofs -------------------------
(***************************************************************************)
(* Proofs about AgentSession, for every bound and every timeout: the        *)
(* inductive invariants of the backend and of the wait, and the safety      *)
(* properties of AgentSession as theorems of its Spec.                      *)
(***************************************************************************)
EXTENDS AgentSession, FiniteSetTheorems, SequenceTheorems, TLAPS

(***************************************************************************)
(* The backend.                                                             *)
(***************************************************************************)
Launching == {"launch", "detect", "deliver"}

\* No pane is known, to the row or to the drive, that was not made; the one an
\* agent is started in is the newest, and the row does not know it yet.
Panes ==
    /\ \A p \in Pane : p > made => agents[p].status = "gone"
    /\ row.pane <= made /\ handle <= made
    /\ op \in Launching \cup {"record", "arm"} \cup Waiting => handle # 0
    /\ op \in Launching => handle = made /\ row.pane < handle

\* The state in which the drive is at each of its steps.
Stands ==
    /\ op \in Spawning \cup Waiting \cup {"resolve", "enter", "record", "arm", "failed"}
          => stage \in AgentStage
    /\ op \in Cleaning \cup {"settled"} => stage = "merged"
    /\ op = "deliver" <=> post.step # "none"
    /\ post.step = "prompt" => post.tries < MaxTries

Few ==
    /\ OneWorkspacePerLabel
    /\ op \in {"add", "create"} => Cardinality(Live) <= faults

\* What the steps of a Spawn in which nothing went wrong have removed so far.
Tidy ==
    ~hurt =>
      /\ op \in {"removeall", "prune", "unbranch", "close", "add"} => ~reg
      /\ op \in {"prune", "unbranch", "close", "add"} => ~dir
      /\ op = "unbranch" => stage # "pr_open"
      /\ op \in {"close", "add"} => stage = "pr_open" \/ ~br

\* The agent of this state is the one the row knows.
Served == stage \in AgentStage /\ row.spawned = stage

\* What the agents were asked.  Nobody else asks the one whose kickoff is under way.
Asked ==
    /\ op \in Launching =>
          \/ agents[handle].asked = stage
          \/ /\ agents[handle].asked = "nothing"
             /\ ~agents[handle].todo
             /\ agents[handle].status # "working"
    /\ (op = "deliver" /\ post.step = "took") \/ op = "record" =>
          lost \/ (handle \in Live /\ agents[handle].asked = stage)
    /\ op \in {"arm"} \cup Waiting => Served
    /\ stage = "implementing" => row.spawned # "pr_open"
    /\ ~lost /\ Served =>
          /\ row.pane # 0
          /\ \E p \in Live : agents[p].asked = stage
          /\ op \notin Spawning \cup {"record"}

(***************************************************************************)
(* The wait.                                                                *)
(***************************************************************************)
AtRest ==
    /\ left = Off /\ blocked = Off /\ progress = Off
    /\ queue = <<>> /\ still = 0 /\ parked = 0

\* What is on its way to the drive happened in this tick, and ends with what the
\* hub knows.
Fresh ==
    /\ queue # <<>> \/ Unseen => still = 0
    /\ queue # <<>> => queue[Len(queue)] = shown

\* Time shown nothing, and what is left of the window: nothing was shown since
\* it began, or something was within it.
Window ==
    /\ progress # Off
    /\ ~changed => still + progress \in NoProgress..2 * NoProgress
    /\ changed => still + progress <= NoProgress

\* A blocked agent has its clock running, or to be started by an event that is on
\* its way; and what would stop the clock is none of these.
BlockedRuns ==
    /\ queue = <<>> /\ shown = "blocked" => blocked # Off
    /\ parked > 0 =>
          /\ blocked # Off /\ parked + blocked <= BlockedTimeout
          /\ agents[handle].status # "working"
          /\ \A i \in 1..Len(queue) : queue[i] # "working"

\* What is left of the state's time, where the audit log tells since when it runs.
StageRuns ==
    /\ left # Off
    /\ entered /\ left > 0 => left + since <= StateTimeout

Clocks ==
    /\ op \notin Waiting => AtRest
    /\ op \in Waiting => Fresh /\ Window /\ BlockedRuns /\ StageRuns

IInv == TypeOK /\ Panes /\ Stands /\ Few /\ Tidy /\ Asked /\ Clocks

-----------------------------------------------------------------------------
(***************************************************************************)
(* Types.                                                                   *)
(***************************************************************************)
AgentT == [status : {"gone", "shell", "starting", "idle", "working", "blocked", "done"},
           ready : BOOLEAN, asked : {"nothing"} \cup AgentStage, todo : BOOLEAN]
Agents == [Pane -> AgentT]

Ops == Spawning \cup Cleaning \cup Waiting
         \cup {"off", "resolve", "enter", "record", "arm", "failed", "settled"}

\* Every step keeps what is there or not, and where the drive and the task are.
LEMMA NamesStep ==
  ASSUME TypeOK, Next
  PROVE  /\ dir' \in BOOLEAN /\ reg' \in BOOLEAN /\ br' \in BOOLEAN
         /\ hurt' \in BOOLEAN /\ lost' \in BOOLEAN
         /\ artifact' \in BOOLEAN /\ changed' \in BOOLEAN
         /\ op' \in Ops /\ stage' \in AgentStage \cup Settled
<1> USE DEF AgentStage, Settled, Ops, Spawning, Cleaning, Waiting
<1> USE DEF TypeOK, HerdrTypeOK, WaitTypeOK
<1>1. CASE Backend
  <2>1. CASE SpawnStep(stage = "pr_open", stage)
    <3>1. CASE \/ WorktreeRemove("remove", "removeall") \/ RemoveAll
               \/ Prune(stage = "pr_open") \/ DeleteBranch \/ CloseOld
               \/ Fails("prune", IF stage = "pr_open" THEN "close" ELSE "unbranch")
      BY <1>1, <3>1, ZenonT(60)
         DEF Backend, Fails, Step, WorktreeRemove, RemoveAll, Prune, DeleteBranch,
             CloseOld, CloseFirst, waitVars, gitVars
    <3>2. CASE AddWorktree(stage = "pr_open") \/ CreateWorkspace \/ Launch
      BY <1>1, <3>2, ZenonT(60)
         DEF Backend, Step, AddWorktree, CreateWorkspace, Launch, waitVars, gitVars
    <3>3. CASE AgentDetected \/ NotDetected \/ Deliver(stage) \/ SpawnReturns
      BY <1>1, <3>3, ZenonT(60)
         DEF Backend, Step, AgentDetected, NotDetected, Deliver, Prompt, PromptTakes,
             PromptStalls, PromptFails, Delivery, SpawnReturns, waitVars, gitVars
    <3> QED
      BY <2>1, <3>1, <3>2, <3>3 DEF SpawnStep
  <2>2. CASE CleanupStep \/ BestEffort \/ Essential
    BY <1>1, <2>2, ZenonT(60)
       DEF Backend, Fails, Step, BestEffort, Essential,
           CleanupStep, CleanTree, CleanClose, WorktreeRemove, CloseFirst, waitVars, gitVars
  <2> QED
    BY <1>1, <2>1, <2>2 DEF Backend, HerdrStep
<1>2. CASE Wait
  BY <1>2, ZenonT(60)
     DEF Wait, WaitStep, InWait, TimeoutFires, BlockedFires, Confirm, Moved, Unread,
         Suspect, GiveUp, SaysWorking, SaysFinished, EventDone, EventIdle, EventBlocked,
         EventWorking, WaitErrs, WaitFails, Leave, Carry, Quiet, Outcomes
<1>3. CASE StartDrive \/ Reconcile \/ Reuse \/ SpawnAnew \/ Record \/ Arm
           \/ SpawnFailed \/ DriveErrs \/ SettledCleansUp
  BY <1>3, ZenonT(60)
     DEF StartDrive, Reconcile, Reuse, SpawnAnew, Record, Arm, BeginWait, SetTimers,
         SpawnFailed, DriveErrs, SettledCleansUp, BeginSpawn, BeginCleanup, Step, InDrive,
         waitVars, gitVars, sightVars
<1>4. CASE DaemonDies
  BY <1>4, ZenonT(60) DEF DaemonDies, Interrupted, Quiet
<1>5. CASE World
  <2>1. CASE MessageTask \/ AgentStirs
    <3>1. \A p : Stirs(p) => changed' \in BOOLEAN
      BY Zenon DEF Stirs
    <3>2. changed' \in BOOLEAN
      BY <2>1, <3>1, Zenon DEF MessageTask, AgentStirs
    <3>3. UNCHANGED <<dir, reg, br, hurt, lost, artifact, op, stage>>
      BY <2>1, Zenon DEF MessageTask, AgentStirs, Outside
    <3> QED
      BY <3>2, <3>3, ZenonT(60)
  <2>2. CASE AgentWorks
    BY <2>2, ZenonT(60) DEF AgentWorks, Outside, Stirs
  <2>3. CASE Loss
    BY <2>3, ZenonT(60) DEF Loss, WorkspaceLost, waitVars, gitVars
  <2>5. CASE WritesBack
    BY <2>5, ZenonT(60) DEF WritesBack, AgentWritesBack, waitVars, gitVars
  <2>4. CASE Seen \/ Clock
    BY <2>4, ZenonT(60) DEF Seen, Clock, Poll, Tick, herdrVars
  <2> QED
    BY <1>5, <2>1, <2>2, <2>3, <2>4, <2>5 DEF World
<1> QED
  BY <1>1, <1>2, <1>3, <1>4, <1>5 DEF Next, Drive

\* What happens to an agent leaves it one.
LEMMA AgentOps ==
  ASSUME agents \in Agents
  PROVE  /\ \A p : [agents EXCEPT ![p] = Gone] \in Agents
         /\ \A p : [agents EXCEPT ![p] = [Gone EXCEPT !.status = "shell"]] \in Agents
         /\ \A p \in Pane : \A s \in {"starting", "idle", "working", "blocked", "done"} :
               [agents EXCEPT ![p].status = s] \in Agents
         /\ \A p \in Pane : \A k \in {"nothing"} \cup AgentStage :
               /\ [agents EXCEPT ![p].asked = k] \in Agents
               /\ Typed(p, k) \in Agents
         /\ \A p \in Pane :
               /\ [agents EXCEPT ![p].ready = TRUE] \in Agents
               /\ [agents EXCEPT ![p].status = "working", ![p].todo = FALSE]
                     \in Agents
<1>1. Gone \in AgentT
  BY DEF AgentT, Gone
<1>2. [Gone EXCEPT !.status = "shell"] \in AgentT
  BY DEF AgentT, Gone
<1>3. ASSUME NEW p \in Pane
      PROVE  /\ \A s \in {"starting", "idle", "working", "blocked", "done"} :
                   [agents[p] EXCEPT !.status = s] \in AgentT
             /\ \A k \in {"nothing"} \cup AgentStage :
                   /\ [agents[p] EXCEPT !.asked = k] \in AgentT
                   /\ [agents[p] EXCEPT !.todo = TRUE, !.asked = k] \in AgentT
             /\ [agents[p] EXCEPT !.ready = TRUE] \in AgentT
             /\ [agents[p] EXCEPT !.status = "working", !.todo = FALSE] \in AgentT
  BY DEF AgentT, Agents
<1> QED
  BY <1>1, <1>2, <1>3 DEF Typed, Agents

\* Every step leaves agents in the panes.
LEMMA AgentsStep ==
  ASSUME TypeOK, Panes, Stands, Next
  PROVE  agents' \in Agents
<1> USE HerdrAssumption
<1>1. /\ agents \in Agents
      /\ made \in 0..MaxSpawns /\ handle \in 0..made
      /\ row.pane \in 0..made
  BY DEF TypeOK, HerdrTypeOK, AgentT, Agents, Panes
<1>2. op \in Launching => handle \in Pane
  BY <1>1 DEF Panes, Launching, Pane
<1>3. Live \subseteq Pane
  BY DEF Live
<1>4. stage \in AgentStage => stage \in {"nothing"} \cup AgentStage
  OBVIOUS
<1>5. \A p \in Pane : agents[p].asked \in {"nothing"} \cup AgentStage
  BY <1>1 DEF AgentT, Agents
<1>6. CASE agents' = agents
  BY <1>1, <1>6
<1>7. CASE \E p : agents' = [agents EXCEPT ![p] = Gone]
  BY <1>1, <1>7, AgentOps, Zenon
<1>8. ASSUME CreateWorkspace
      PROVE  agents' \in Agents
  BY <1>1, <1>8, AgentOps DEF CreateWorkspace
<1>9. ASSUME Launch
      PROVE  agents' \in Agents
  <2>1. agents' = [agents EXCEPT ![handle].status =
                     IF agents[handle].status = "shell" THEN "starting" ELSE agents[handle].status]
    BY <1>9 DEF Launch
  <2>2. handle \in Pane
    BY <1>2, <1>9 DEF Launch, Step, Launching
  <2>3. CASE agents[handle].status = "shell"
    BY <1>1, <2>1, <2>2, <2>3, AgentOps
  <2>4. CASE agents[handle].status # "shell"
    BY <1>1, <2>1, <2>2, <2>4 DEF AgentT, Agents
  <2> QED
    BY <2>3, <2>4
<1>10. ASSUME Deliver(stage)
       PROVE  agents' \in Agents
  <2>0. stage \in AgentStage
    BY <1>10
       DEF Stands, Spawning, Deliver, Prompt, PromptTakes, PromptStalls, PromptFails,
           Delivery
  <2>1. handle \in Pane
    BY <1>2, <1>10
       DEF Deliver, Prompt, PromptTakes, PromptStalls, PromptFails, Delivery, Launching
  <2>2. \/ agents' = agents
        \/ agents' = Typed(handle, stage)
        \/ agents' = [agents EXCEPT ![handle].asked = stage]
    BY <1>10 DEF Deliver, Prompt, PromptTakes, PromptStalls, PromptFails, spaceVars
  <2> QED
    BY <1>1, <1>4, <2>0, <2>1, <2>2, AgentOps, Zenon
<1>11. ASSUME MessageTask
       PROVE  agents' \in Agents
  <2>1. PICK p \in 1..row.pane : agents' = Typed(p, agents[p].asked)
    BY <1>11 DEF MessageTask
  <2>2. p \in Pane
    BY <1>1, <2>1 DEF Pane
  <2> QED
    BY <1>1, <1>5, <2>1, <2>2, AgentOps
<1>12. ASSUME AgentStirs
       PROVE  agents' \in Agents
  <2>1. PICK p \in Live : AgentActs(p)
    BY <1>12 DEF AgentStirs
  <2> QED
    BY <1>1, <1>3, <2>1, AgentOps, Zenon DEF AgentActs, AgentIs
<1>13. CASE Backend
  BY <1>6, <1>7, <1>8, <1>9, <1>10, <1>13, ZenonT(60)
     DEF Backend, HerdrStep, SpawnStep, CleanupStep, BestEffort, Essential, Fails,
         WorktreeRemove, RemoveAll, Prune, DeleteBranch, CloseOld, CloseFirst, AddWorktree,
         AgentDetected, NotDetected, SpawnReturns, CleanTree, CleanClose, spaceVars
<1>14. CASE World
  BY <1>6, <1>7, <1>11, <1>12, <1>14, ZenonT(60)
     DEF World, AgentWorks, Loss, WritesBack, WorkspaceLost, AgentWritesBack, Seen, Clock,
         Poll, Tick, herdrVars, spaceVars
<1>15. CASE Wait \/ DaemonDies \/ StartDrive \/ Reconcile \/ Reuse \/ SpawnAnew \/ Record \/ Arm
            \/ SpawnFailed \/ DriveErrs \/ SettledCleansUp
  BY <1>6, <1>15, ZenonT(60)
     DEF Wait, WaitStep, InWait, DaemonDies, StartDrive, Reconcile, Reuse, SpawnAnew,
         Record, Arm, SpawnFailed, DriveErrs, SettledCleansUp, BeginSpawn, BeginCleanup,
         InDrive, spaceVars
<1> QED
  BY <1>13, <1>14, <1>15 DEF Next, Drive

\* A step is a fault or none.
LEMMA FaultsStep ==
  ASSUME Next
  PROVE  faults' = faults \/ Fault
<1>1. CASE Backend
  BY <1>1, ZenonT(60)
     DEF Backend, HerdrStep, SpawnStep, CleanupStep, BestEffort, Essential, Fails,
         WorktreeRemove, RemoveAll, Prune, DeleteBranch, CloseOld, CloseFirst, AddWorktree,
         CreateWorkspace, Launch, AgentDetected, NotDetected, Deliver, Prompt, PromptTakes,
         PromptStalls, PromptFails, Delivery, SpawnReturns, CleanTree, CleanClose
<1>2. CASE Wait
  BY <1>2, ZenonT(60)
     DEF Wait, WaitStep, TimeoutFires, BlockedFires, Confirm, Moved, Unread, PaneUnread,
         GiveUp, SaysWorking, SaysFinished, EventDone, EventIdle, EventBlocked,
         EventWorking, WaitErrs, Leave
<1>3. CASE StartDrive \/ Reconcile \/ Reuse \/ SpawnAnew \/ Record \/ Arm
           \/ SpawnFailed \/ DriveErrs \/ SettledCleansUp \/ DaemonDies
  BY <1>3, ZenonT(60)
     DEF StartDrive, Reconcile, Reuse, SpawnAnew, Record, Arm, BeginWait, SetTimers,
         SpawnFailed, DriveErrs, SettledCleansUp, BeginSpawn, BeginCleanup, DaemonDies
<1>4. CASE World
  BY <1>4, ZenonT(60)
     DEF World, MessageTask, AgentStirs, AgentWorks, Loss, WritesBack, Seen, Clock,
         WorkspaceLost, AgentWritesBack, Poll, Tick, herdrVars
<1> QED
  BY <1>1, <1>2, <1>3, <1>4 DEF Next, Drive

(***************************************************************************)
(* What a step can be, for the drive and its task.                          *)
(***************************************************************************)
\* A step of somebody else.
Rests == UNCHANGED <<op, handle, made, post, stage, row>>

\* A step of the wait, which goes on or ends.
Waits ==
    /\ op \in Waiting
    /\ UNCHANGED <<agents, made, dir, reg, br, handle, hurt, post, row, lost>>
    /\ \/ op' \in Waiting /\ stage' = stage
       \/ op' = "enter" /\ stage' = "pr_open"
       \/ op' = "settled" /\ stage' = "merged"
       \/ op' = "off" /\ stage' \in {stage, "escalated"}

\* A step on the worktree, or one that only fails.
Tree ==
    /\ UNCHANGED <<agents, made, handle, post, stage, row, lost>>
    /\ \/ /\ op \in {"remove", "removeall", "prune", "unbranch", "close"}
          /\ op' \in {"removeall", "prune", "unbranch", "close", "add"}
          /\ op' = "add" => Fault
       \/ op = "add" /\ op' = "create"
       \/ op \in {"add", "create", "launch", "detect"} /\ op' = "failed"
       \/ op \in Cleaning /\ op' \in {"cleanclose", "off"}

\* Whoever else acts leaves the drive where it is.
LEMMA WorldRests ==
  World => Rests
BY ZenonT(60)
   DEF World, Rests, MessageTask, AgentStirs, AgentWorks, Loss, WritesBack, Outside,
       WorkspaceLost, AgentWritesBack, Seen, Clock, Poll, Tick, herdrVars, waitVars,
       spaceVars

\* What a drive that waits can do.
LEMMA WaitsKind ==
  Wait => Waits
BY ZenonT(60)
   DEF Waits, Wait, WaitStep, InWait, TimeoutFires, BlockedFires, Confirm, Moved, Unread,
       Suspect, GiveUp, SaysWorking, SaysFinished, EventDone, EventIdle, EventBlocked,
       EventWorking, Event, WaitErrs, WaitFails, Leave, Carry, Outcomes, AgentStage, Waiting

\* What the backend can do next.
LEMMA BackendKinds ==
  ASSUME Backend
  PROVE  /\ \/ Tree \/ CloseOld \/ CleanClose \/ CreateWorkspace \/ Launch
            \/ AgentDetected \/ Deliver(stage) \/ SpawnReturns
         /\ UNCHANGED <<waitVars, row, lost>>
<1> USE DEF Tree, Spawning, Cleaning, Launching, spaceVars, Step
<1>1. UNCHANGED <<stage, row, lost>>
  BY DEF Backend, waitVars
<1>2. ASSUME BestEffort \/ Essential \/ Fails("prune", IF stage = "pr_open" THEN "close" ELSE "unbranch")
      PROVE  Tree
  BY <1>1, <1>2, ZenonT(60) DEF BestEffort, Essential, Fails
<1>3. ASSUME WorktreeRemove("remove", "removeall") \/ CleanTree
      PROVE  Tree
  BY <1>1, <1>3, ZenonT(60) DEF CleanTree, WorktreeRemove
<1>4. ASSUME RemoveAll \/ Prune(stage = "pr_open") \/ DeleteBranch
      PROVE  Tree
  BY <1>1, <1>4, ZenonT(60) DEF RemoveAll, Prune, DeleteBranch
<1>5. ASSUME AddWorktree(stage = "pr_open") \/ NotDetected
      PROVE  Tree
  BY <1>1, <1>5, ZenonT(60) DEF AddWorktree, NotDetected
<1> QED
  BY <1>2, <1>3, <1>4, <1>5, Zenon DEF Backend, HerdrStep, SpawnStep, CleanupStep

\* What any step can be.
LEMMA StepKinds ==
  ASSUME Next
  PROVE  \/ Tree
         \/ /\ CloseOld \/ CleanClose \/ CreateWorkspace \/ Launch
               \/ AgentDetected \/ Deliver(stage) \/ SpawnReturns
            /\ UNCHANGED <<waitVars, row, lost>>
         \/ StartDrive \/ Reconcile \/ Reuse \/ SpawnAnew \/ Record \/ Arm
         \/ SpawnFailed \/ DriveErrs \/ SettledCleansUp \/ DaemonDies
         \/ Waits \/ (World /\ Rests)
BY BackendKinds, WaitsKind, WorldRests, Zenon DEF Next, Drive

\* Only a workspace that is made makes an empty pane live.
LEMMA GoneStaysGone ==
  ASSUME TypeOK, Panes, Stands, Next,
         NEW p \in Pane, agents[p].status = "gone", ~(CreateWorkspace /\ p = made')
  PROVE  agents'[p].status = "gone"
<1>1. agents \in Agents
  BY DEF TypeOK, HerdrTypeOK, AgentT, Agents
<1>2. \A q : agents' = [agents EXCEPT ![q] = Gone] => agents'[p].status = "gone"
  BY <1>1 DEF Agents, Gone
<1>3. \A q \in Pane : \A k :
         agents' = Typed(q, k) \/ agents' = [agents EXCEPT ![q].asked = k]
           => agents'[p].status = "gone"
  BY <1>1 DEF Agents, AgentT, Typed
<1>4. CASE agents' = agents
  BY <1>4
<1>5. CASE CloseOld \/ CleanClose
  BY <1>2, <1>5, Zenon DEF CloseOld, CleanClose, CloseFirst
<1>6. CASE CreateWorkspace
  BY <1>1, <1>6 DEF CreateWorkspace, Agents
<1>7. CASE Launch
  BY <1>1, <1>7 DEF Launch, Agents, AgentT
<1>8. CASE Deliver(stage)
  <2>1. handle \in Pane
    BY <1>8, HerdrAssumption
       DEF Deliver, Prompt, PromptTakes, PromptStalls, PromptFails, Delivery, Launching,
           Panes, TypeOK, HerdrTypeOK, Pane
  <2>2. agents' \in {agents, Typed(handle, stage), [agents EXCEPT ![handle].asked = stage]}
    BY <1>8 DEF Deliver, Prompt, PromptTakes, PromptStalls, PromptFails, spaceVars
  <2> QED
    BY <1>3, <1>4, <2>1, <2>2
<1>9. CASE World
  <2>1. CASE MessageTask
    <3>1. PICK q \in 1..row.pane : agents' = Typed(q, agents[q].asked)
      BY <2>1 DEF MessageTask
    <3>2. q \in Pane
      BY <3>1, HerdrAssumption DEF Panes, TypeOK, HerdrTypeOK, Pane
    <3>3. agents' = Typed(q, agents[q].asked) => agents'[p].status = "gone"
      BY <1>3, <3>2, Zenon
    <3> QED
      BY <3>1, <3>3
  <2>2. CASE AgentStirs
    <3>1. PICK q \in Live : AgentActs(q)
      BY <2>2 DEF AgentStirs
    <3>2. CASE q = p
      BY <3>1, <3>2 DEF Live
    <3>3. CASE q # p
      BY <1>1, <3>1, <3>3 DEF AgentActs, AgentIs, Agents
    <3> QED
      BY <3>2, <3>3
  <2>3. CASE Loss
    BY <1>2, <2>3, Zenon DEF Loss, WorkspaceLost
  <2> QED
    BY <1>4, <1>9, <2>1, <2>2, <2>3, Zenon
       DEF World, AgentWorks, WritesBack, AgentWritesBack, Seen, Clock, Poll, Tick,
           herdrVars, spaceVars
<1>10. CASE SpawnAnew \/ SettledCleansUp \/ DaemonDies \/ Arm \/ Reconcile \/ StartDrive
             \/ Record \/ Reuse \/ SpawnFailed \/ DriveErrs
  BY <1>4, <1>10, Zenon
     DEF SpawnAnew, SettledCleansUp, DaemonDies, Arm, Reconcile, StartDrive, Record, Reuse,
         SpawnFailed, DriveErrs, InDrive, BeginSpawn, BeginCleanup, spaceVars
<1>11. CASE Tree \/ AgentDetected \/ SpawnReturns \/ Waits
  BY <1>4, <1>11, Zenon DEF Tree, AgentDetected, SpawnReturns, Waits, spaceVars
<1> QED
  BY <1>5, <1>6, <1>7, <1>8, <1>9, <1>10, <1>11, StepKinds, BackendKinds, WaitsKind
     DEF Next, Drive

\* The panes that are known stay panes that were made.
LEMMA PanesStep ==
  ASSUME TypeOK, Panes, Stands, Next
  PROVE  /\ made' \in 0..MaxSpawns /\ handle' \in 0..MaxSpawns
         /\ row' \in [pane : 0..MaxSpawns, spawned : AgentStage \cup {"none"}]
         /\ Panes'
<1> USE HerdrAssumption
<1> DEFINE Row == [pane : 0..MaxSpawns, spawned : AgentStage \cup {"none"}]
<1>1. /\ agents \in Agents
      /\ made \in 0..MaxSpawns /\ handle \in 0..made
      /\ row \in Row
      /\ row.pane <= made
  BY DEF TypeOK, HerdrTypeOK, AgentT, Agents, Panes
<1>2. Live \subseteq 1..made
  BY <1>1 DEF Live, Panes, Pane
<1> DEFINE Rest == /\ row.pane <= made /\ handle <= made
                   /\ op \in Launching \cup {"record", "arm"} \cup Waiting => handle # 0
                   /\ op \in Launching => handle = made /\ row.pane < handle
<1>3. Rest
  BY DEF Panes
<1> DEFINE Goal == /\ made' \in 0..MaxSpawns /\ made' >= made /\ handle' \in 0..MaxSpawns
                   /\ row' \in Row /\ Rest'
<1>4. Goal
  <2> USE <1>1, <1>2, <1>3 DEF Launching, Waiting, Spawning, Cleaning, Step
  <2>1. CASE Tree
    BY <2>1 DEF Tree
  <2>2. ASSUME CloseOld \/ CleanClose \/ CreateWorkspace \/ Launch \/ AgentDetected \/ SpawnReturns,
               UNCHANGED <<waitVars, row, lost>>
        PROVE  Goal
    <3>1. CASE CloseOld \/ CleanClose
      BY <2>2, <3>1 DEF CloseOld, CleanClose, CloseFirst
    <3>2. CASE CreateWorkspace
      BY <2>2, <3>2 DEF CreateWorkspace
    <3>3. CASE Launch \/ AgentDetected \/ SpawnReturns
      BY <2>2, <3>3 DEF Launch, AgentDetected, SpawnReturns, spaceVars
    <3> QED
      BY <2>2, <3>1, <3>2, <3>3
  <2>3. ASSUME Deliver(stage), UNCHANGED <<waitVars, row, lost>>
        PROVE  Goal
    BY <2>3 DEF Deliver, Prompt, PromptTakes, PromptStalls, PromptFails, Delivery, spaceVars
  <2>4. CASE StartDrive \/ SpawnFailed \/ DriveErrs
    BY <2>4 DEF StartDrive, SpawnFailed, DriveErrs, InDrive
  <2>5. CASE Reconcile
    BY <2>5 DEF Reconcile, Resolved, InDrive
  <2>6. CASE Reuse
    BY <2>6 DEF Reuse, InDrive
  <2>7. CASE SpawnAnew \/ SettledCleansUp
    BY <2>7 DEF SpawnAnew, SettledCleansUp, BeginSpawn, BeginCleanup, spaceVars
  <2>8. CASE Record
    <3>1. stage \in AgentStage
      BY <2>8 DEF Stands, Record
    <3> QED
      BY <2>8, <3>1 DEF Record, InDrive
  <2>9. CASE Arm
    BY <2>9 DEF Arm, BeginWait, SetTimers, InDrive
  <2>10. CASE DaemonDies
    BY <2>10 DEF DaemonDies
  <2>11. CASE Waits \/ Rests
    BY <2>11 DEF Waits, Rests
  <2> HIDE DEF Goal
  <2> QED
    BY <2>1, <2>2, <2>3, <2>4, <2>5, <2>6, <2>7, <2>8, <2>9, <2>10, <2>11, StepKinds, Zenon
<1> QED
  <2>1. (\A p \in Pane : p > made => agents[p].status = "gone")'
    BY <1>1, <1>4, GoneStaysGone DEF Panes, CreateWorkspace, Pane
  <2> QED
    BY <1>4, <2>1 DEF Panes

\* The drive's step stays the one its task's state allows, and its delivery one that
\* has a try left.
LEMMA StandsStep ==
  ASSUME TypeOK, Stands, Next
  PROVE  /\ post' \in [step : {"none", "prompt", "wait", "took", "lost"}, tries : 0..MaxTries]
         /\ Stands'
<1> USE HerdrAssumption
<1> DEFINE Post == [step : {"none", "prompt", "wait", "took", "lost"}, tries : 0..MaxTries]
           Goal == post' \in Post /\ Stands'
<1> SUFFICES Goal
  OBVIOUS
<1>1. post \in Post /\ stage \in AgentStage \cup Settled
  BY DEF TypeOK, HerdrTypeOK, WaitTypeOK
<1>2. NoPost \in Post /\ Lost \in Post /\ NoPost.step = "none" /\ Lost.step = "lost"
  BY DEF NoPost, Lost
<1> USE <1>1 DEF Stands, Launching, Waiting, Spawning, Cleaning, Step, AgentStage, Settled
<1>3. CASE Tree
  BY <1>3 DEF Tree
<1>4. ASSUME CloseOld \/ CleanClose \/ CreateWorkspace \/ Launch \/ AgentDetected \/ SpawnReturns,
             UNCHANGED <<waitVars, row, lost>>
      PROVE  Goal
  <2>1. CASE CloseOld \/ CleanClose
    BY <1>4, <2>1 DEF CloseOld, CleanClose, CloseFirst, waitVars
  <2>2. CASE CreateWorkspace \/ Launch
    BY <1>4, <2>2 DEF CreateWorkspace, Launch, waitVars
  <2>3. CASE AgentDetected
    BY <1>4, <2>3 DEF AgentDetected, waitVars, NoPost
  <2>4. CASE SpawnReturns
    BY <1>2, <1>4, <2>4 DEF SpawnReturns, waitVars
  <2> QED
    BY <1>4, <2>1, <2>2, <2>3, <2>4
<1>5. ASSUME Deliver(stage), UNCHANGED <<waitVars, row, lost>>
      PROVE  Goal
  <2>1. op' = op /\ stage' = stage /\ op = "deliver"
    BY <1>5 DEF Deliver, Prompt, PromptTakes, PromptStalls, PromptFails, Delivery, waitVars
  <2>2. post' \in Post /\ post'.step # "none" /\ (post'.step = "prompt" => post'.tries < MaxTries)
    BY <1>2, <1>5 DEF Deliver, Prompt, PromptTakes, PromptStalls, PromptFails, Delivery
  <2> QED
    BY <2>1, <2>2
<1>6. CASE StartDrive \/ SpawnFailed \/ DriveErrs \/ Reuse \/ Record
  BY <1>6 DEF StartDrive, SpawnFailed, DriveErrs, Reuse, Record, InDrive, waitVars
<1>7. CASE Reconcile
  BY <1>7 DEF Reconcile, InDrive
<1>8. CASE SpawnAnew
  BY <1>8 DEF SpawnAnew, BeginSpawn, waitVars
<1>9. CASE SettledCleansUp
  BY <1>9 DEF SettledCleansUp, BeginCleanup, waitVars
<1>10. CASE Arm
  BY <1>10 DEF Arm, BeginWait, SetTimers, InDrive
<1>11. CASE DaemonDies
  BY <1>2, <1>11 DEF DaemonDies
<1>12. CASE Waits
  BY <1>12 DEF Waits
<1>13. CASE Rests
  BY <1>13 DEF Rests
<1> HIDE DEF Goal, Stands, Launching, Waiting, Spawning, Cleaning, Step, AgentStage, Settled
<1> QED
  BY <1>3, <1>4, <1>5, <1>6, <1>7, <1>8, <1>9, <1>10, <1>11, <1>12, <1>13, StepKinds, Zenon

-----------------------------------------------------------------------------
\* The workspaces with the label stay few: one is made when those that nobody's
\* failure explains are closed.
LEMMA FewStep ==
  ASSUME TypeOK, Panes, Stands, Few, Next, TypeOK'
  PROVE  Few'
<1>1. faults \in Nat /\ faults' \in Nat /\ faults' \in {faults, faults + 1}
  BY FaultsStep, HerdrAssumption DEF Fault, TypeOK, HerdrTypeOK
<1>2. IsFiniteSet(Live) /\ Cardinality(Live) \in Nat
  <2>1. IsFiniteSet(Pane)
    BY FS_Interval, HerdrAssumption DEF Pane
  <2> QED
    BY <2>1, FS_Subset, FS_CardinalityType DEF Live
<1>3. \A S \in SUBSET Live : Cardinality(S) \in Nat /\ Cardinality(S) <= Cardinality(Live)
  BY <1>2, FS_Subset, FS_CardinalityType
<1>4. CASE CreateWorkspace
  <2>1. Live' \subseteq Live \cup {made'}
    BY <1>4, GoneStaysGone DEF Live, Pane
  <2>2. /\ IsFiniteSet(Live \cup {made'})
        /\ Cardinality(Live \cup {made'}) <= Cardinality(Live) + 1
    BY <1>2, FS_AddElement
  <2>4. Cardinality(Live') \in Nat /\ Cardinality(Live') <= Cardinality(Live \cup {made'})
    BY <2>1, <2>2, FS_Subset, FS_CardinalityType
  <2>5. Cardinality(Live \cup {made'}) \in Nat
    BY <2>2, FS_CardinalityType
  <2>3. Cardinality(Live) <= faults /\ op' = "launch"
    BY <1>4 DEF CreateWorkspace, Step, Few
  <2> QED
    BY <1>1, <1>2, <2>2, <2>3, <2>4, <2>5 DEF Few, OneWorkspacePerLabel
<1>5. CASE ~CreateWorkspace
  <2>1. Live' \subseteq Live
    BY <1>5, GoneStaysGone DEF Live, Pane
  <2>2. Cardinality(Live') \in Nat /\ Cardinality(Live') <= Cardinality(Live)
    BY <1>3, <2>1
  <2>3. OneWorkspacePerLabel'
    BY <1>1, <1>2, <2>2 DEF Few, OneWorkspacePerLabel
  <2>4. ASSUME op' \in {"add", "create"}
        PROVE  Cardinality(Live') <= faults'
    <3>1. CASE CloseOld
      <4>1. op = "close"
        BY <3>1 DEF CloseOld, CloseFirst, Step
      <4>2. CASE Live = {}
        BY <1>1, <2>1, <4>2, FS_EmptySet
      <4>3. ASSUME NEW p \in Live, agents' = [agents EXCEPT ![p] = Gone]
            PROVE  Cardinality(Live') <= faults'
        <5>1. Live' \subseteq Live \ {p}
          BY <2>1, <4>3 DEF Live, Gone, TypeOK, HerdrTypeOK
        <5>2. Cardinality(Live') <= Cardinality(Live) - 1
          <6>1. /\ IsFiniteSet(Live \ {p})
                /\ Cardinality(Live \ {p}) = Cardinality(Live) - 1
            BY <1>2, <4>3, FS_RemoveElement
          <6> QED
            BY <5>1, <6>1, FS_Subset
        <5> QED
          BY <1>1, <1>2, <2>2, <5>2 DEF Few, OneWorkspacePerLabel
      <4> QED
        BY <3>1, <4>2, <4>3 DEF CloseOld, CloseFirst
    <3>2. CASE op' = "add" /\ Fault
      BY <1>1, <1>2, <2>2, <3>2 DEF Fault, Few, OneWorkspacePerLabel
    <3>3. CASE op \in {"add", "create"}
      BY <1>1, <1>2, <2>2, <3>3 DEF Few
    <3>4. op \in {"add", "create"} \/ (op' = "add" /\ Fault) \/ CloseOld
      BY <1>5, <2>4, StepKinds, ZenonT(60)
         DEF Tree, CleanClose, CloseFirst, Launch, AgentDetected, Deliver, Prompt,
             PromptTakes, PromptStalls, PromptFails, Delivery, SpawnReturns, StartDrive,
             Reconcile, Reuse, SpawnAnew, Record, Arm, SpawnFailed, DriveErrs,
             SettledCleansUp, DaemonDies, Waits, Rests, Step, BeginSpawn, BeginCleanup,
             BeginWait, SetTimers, Cleaning, Waiting
    <3> QED
      BY <3>1, <3>2, <3>3, <3>4
  <2> QED
    BY <2>3, <2>4 DEF Few
<1> QED
  BY <1>4, <1>5

\* A Spawn in which nothing goes wrong keeps removed what it has removed.
LEMMA TidyStep ==
  ASSUME Stands, Tidy, Next
  PROVE  Tidy'
<1> DEFINE Tidying == {"removeall", "prune", "unbranch", "close", "add"}
<1>1. CASE hurt' \/ op' \notin Tidying
  BY <1>1, Zenon DEF Tidy
<1>2. CASE UNCHANGED <<op, hurt, dir, reg, br, stage>>
  BY <1>2, Zenon DEF Tidy
<1>3. ASSUME Backend
      PROVE  Tidy'
  <2>1. stage' = stage
    BY <1>3 DEF Backend, waitVars
  <2>2. CASE WorktreeRemove("remove", "removeall")
    BY <2>2, Zenon DEF WorktreeRemove, Step, Tidy
  <2>3. CASE RemoveAll
    BY <2>3, Zenon DEF RemoveAll, Step, Tidy
  <2>4. CASE Prune(stage = "pr_open")
    BY <2>1, <2>4, Zenon DEF Prune, Step, Tidy
  <2>5. CASE DeleteBranch
    BY <2>1, <2>5, Zenon DEF DeleteBranch, Step, Tidy
  <2>6. CASE CloseOld
    BY <2>1, <2>6, Zenon DEF CloseOld, CloseFirst, Step, gitVars, Tidy
  <2>7. ASSUME Deliver(stage)
        PROVE  op' \notin Tidying
    BY <2>7 DEF Deliver, Prompt, PromptTakes, PromptStalls, PromptFails, Delivery
  <2>8. ASSUME \/ AddWorktree(stage = "pr_open") \/ CreateWorkspace \/ Launch
               \/ AgentDetected \/ NotDetected \/ SpawnReturns \/ CleanTree \/ CleanClose
        PROVE  op' \notin Tidying
    BY <2>8
       DEF AddWorktree, CreateWorkspace, Launch, AgentDetected, NotDetected,
           SpawnReturns, CleanTree, CleanClose, WorktreeRemove, CloseFirst, Step
  <2>9. ASSUME \/ BestEffort \/ Essential
               \/ Fails("prune", IF stage = "pr_open" THEN "close" ELSE "unbranch")
        PROVE  hurt'
    BY <2>9 DEF BestEffort, Essential, Fails
  <2> HIDE DEF Tidying
  <2> QED
    BY <1>1, <1>3, <2>2, <2>3, <2>4, <2>5, <2>6, <2>7, <2>8, <2>9, Zenon
       DEF Backend, HerdrStep, SpawnStep, CleanupStep
<1>4. ASSUME World
      PROVE  Tidy'
  <2>1. hurt' \/ UNCHANGED <<op, hurt, dir, reg, br, stage>>
    BY <1>4, ZenonT(60)
       DEF World, MessageTask, AgentStirs, AgentWorks, Loss, WritesBack, Seen, Clock,
           WorkspaceLost, AgentWritesBack, Outside, Poll, Tick, herdrVars, waitVars, gitVars
  <2> QED
    BY <1>1, <1>2, <2>1
<1>5. ASSUME \/ StartDrive \/ Reconcile \/ Reuse \/ SpawnAnew \/ Record \/ Arm
             \/ SpawnFailed \/ DriveErrs \/ SettledCleansUp \/ DaemonDies \/ Waits
      PROVE  op' \notin Tidying
  BY <1>5 DEF StartDrive, Reconcile, Reuse, SpawnAnew, Record, Arm, SpawnFailed, DriveErrs,
              SettledCleansUp, DaemonDies, Waits, Step, BeginSpawn, BeginCleanup, BeginWait,
              SetTimers, Waiting
<1> HIDE DEF Tidying
<1> QED
  BY <1>1, <1>3, <1>4, <1>5, WaitsKind, Zenon DEF Next, Drive

-----------------------------------------------------------------------------
\* The world asks no agent for anything else, and an agent that was asked for
\* nothing, and has no text to turn to, does not go to work.
LEMMA WorldAsksNothing ==
  ASSUME TypeOK, Panes, World, ~Loss
  PROVE  /\ lost' = lost
         /\ \A q \in Pane :
               /\ agents'[q].asked = agents[q].asked
               /\ agents[q].status # "gone" => agents'[q].status # "gone"
               /\ /\ agents[q].asked = "nothing" /\ ~agents[q].todo
                  /\ agents[q].status # "working" /\ q > row.pane
                  => ~agents'[q].todo /\ agents'[q].status # "working"
<1> USE HerdrAssumption
<1>1. /\ agents \in Agents
      /\ made \in 0..MaxSpawns /\ row.pane \in 0..made
  BY DEF TypeOK, HerdrTypeOK, AgentT, Agents, Panes
<1>2. CASE MessageTask
  <2>1. PICK p \in 1..row.pane : agents' = Typed(p, agents[p].asked)
    BY <1>2 DEF MessageTask
  <2>2. p \in Pane
    BY <1>1, <2>1 DEF Pane
  <2>3. lost' = lost
    BY <1>2 DEF MessageTask
  <2> QED
    BY <1>1, <2>1, <2>2, <2>3 DEF Typed, Agents, AgentT, Pane
<1>3. CASE AgentStirs
  <2>1. PICK p \in Live : AgentActs(p)
    BY <1>3 DEF AgentStirs
  <2>2. p \in Pane /\ lost' = lost
    BY <1>3, <2>1 DEF AgentStirs, Live
  <2>3. ASSUME NEW q \in Pane, q # p
        PROVE  agents'[q] = agents[q]
    BY <1>1, <2>1, <2>2, <2>3 DEF AgentActs, AgentIs, Agents
  <2>4. /\ agents'[p].asked = agents[p].asked
        /\ agents'[p].status # "gone"
        /\ /\ agents[p].asked = "nothing" /\ ~agents[p].todo
           /\ agents[p].status # "working"
           => ~agents'[p].todo /\ agents'[p].status # "working"
    BY <1>1, <2>1, <2>2 DEF AgentActs, AgentIs, Agents, AgentT, Detected
  <2> QED
    BY <2>2, <2>3, <2>4
<1>4. CASE AgentWorks \/ WritesBack \/ Seen \/ Clock
  <2>1. agents' = agents /\ lost' = lost
    BY <1>4, Zenon
       DEF AgentWorks, WritesBack, AgentWritesBack, Seen, Clock, Poll, Tick, herdrVars,
           spaceVars
  <2> QED
    BY <2>1
<1> QED
  BY <1>2, <1>3, <1>4 DEF World

\* An agent that serves the task's state was asked for it.
LEMMA AskedStep ==
  ASSUME TypeOK, Panes, Stands, Asked, Next, stage' \in AgentStage \cup Settled
  PROVE  Asked'
<1> USE HerdrAssumption
<1> SUFFICES Asked'
  OBVIOUS
<1>1. /\ agents \in Agents
      /\ made \in 0..MaxSpawns /\ handle \in 0..made
      /\ row \in [pane : 0..MaxSpawns, spawned : AgentStage \cup {"none"}]
      /\ row.pane <= made
      /\ stage \in AgentStage \cup Settled
  BY DEF TypeOK, HerdrTypeOK, WaitTypeOK, AgentT, Agents, Panes
<1>2. ~("merged" \in AgentStage) /\ ~("escalated" \in AgentStage)
  BY DEF AgentStage
<1>3. CASE Tree
  <2>1. UNCHANGED <<agents, row, stage, lost, handle>>
    BY <1>3 DEF Tree
  <2>2. op' \notin Launching \cup {"record", "arm"} \cup Waiting
    BY <1>3 DEF Tree, Launching, Spawning, Cleaning, Waiting
  <2>3. op' \in Spawning => op \in Spawning \cup Cleaning
    BY <1>3 DEF Tree, Spawning, Cleaning
  <2> QED
    BY <1>2, <2>1, <2>2, <2>3 DEF Asked, Stands, Served, Live, Launching, Waiting
<1>4. ASSUME CloseOld \/ CleanClose, UNCHANGED <<waitVars, row, lost>>
      PROVE  Asked'
  <2>1. op' \in {"add", "off"} /\ op \in Spawning \cup Cleaning
    BY <1>4 DEF CloseOld, CleanClose, CloseFirst, Step, Spawning, Cleaning
  <2> QED
    BY <1>2, <1>4, <2>1 DEF Asked, Stands, Served, Launching, Waiting, Spawning, waitVars
<1>5. ASSUME CreateWorkspace, UNCHANGED <<waitVars, row, lost>>
      PROVE  Asked'
  <2>1. op' = "launch" /\ op \in Spawning
    BY <1>5 DEF CreateWorkspace, Step, Spawning
  <2>2. /\ agents'[handle'].asked = "nothing" /\ ~agents'[handle'].todo
        /\ agents'[handle'].status # "working"
    BY <1>1, <1>5 DEF CreateWorkspace, Agents, Gone, Pane
  <2> QED
    BY <1>5, <2>1, <2>2 DEF Asked, Served, Launching, Waiting, Spawning, waitVars
<1>6. ASSUME Launch \/ AgentDetected, UNCHANGED <<waitVars, row, lost>>
      PROVE  Asked'
  <2>1. op' \in {"detect", "deliver"} /\ op \in {"launch", "detect"} /\ handle' = handle
    BY <1>6 DEF Launch, AgentDetected, Step
  <2>2. handle \in Pane
    BY <1>1, <2>1 DEF Panes, Launching, Pane
  <2>3. /\ agents'[handle].asked = agents[handle].asked
        /\ agents'[handle].todo = agents[handle].todo
        /\ agents[handle].status # "working" => agents'[handle].status # "working"
    BY <1>1, <1>6, <2>2 DEF Launch, AgentDetected, Agents, AgentT, spaceVars
  <2>4. post'.step # "took"
    BY <1>6 DEF Launch, AgentDetected, NoPost, Stands, Step
  <2> QED
    BY <1>6, <2>1, <2>3, <2>4 DEF Asked, Served, Launching, Waiting, Spawning, waitVars
<1>7. ASSUME Deliver(stage), UNCHANGED <<waitVars, row, lost>>
      PROVE  Asked'
  <2>1. op' = "deliver" /\ op = "deliver" /\ handle' = handle
    BY <1>7 DEF Deliver, Prompt, PromptTakes, PromptStalls, PromptFails, Delivery
  <2>2. handle \in Pane
    BY <1>1, <2>1 DEF Panes, Launching, Pane
  <2>3. CASE Prompt(stage) \/ PromptStalls \/ PromptFails
    <3>1. \/ agents' = agents
          \/ agents[handle].ready /\ agents' = [agents EXCEPT ![handle].todo = TRUE, ![handle].asked = stage]
      BY <2>3 DEF Prompt, PromptStalls, PromptFails, Typed, spaceVars
    <3>2. \/ agents'[handle] = agents[handle]
          \/ agents'[handle].asked = stage
      BY <1>1, <2>2, <3>1 DEF Agents, AgentT
    <3>3. post'.step # "took"
      BY <2>3 DEF Prompt, PromptStalls, PromptFails, Delivery, Lost, TypeOK, HerdrTypeOK
    <3> QED
      BY <1>7, <2>1, <3>2, <3>3 DEF Asked, Served, Launching, Waiting, Spawning, waitVars
  <2>4. CASE PromptTakes(stage)
    <3>1. handle \in Live' /\ agents'[handle].asked = stage
      BY <1>1, <2>2, <2>4 DEF PromptTakes, Acted, Agents, AgentT, Live
    <3> QED
      BY <1>7, <2>1, <3>1 DEF Asked, Served, Launching, Waiting, Spawning, waitVars
  <2> QED
    BY <1>7, <2>3, <2>4 DEF Deliver
<1>8. ASSUME SpawnReturns, UNCHANGED <<waitVars, row, lost>>
      PROVE  Asked'
  BY <1>8
     DEF SpawnReturns, Step, Asked, Served, Launching, Waiting, Spawning, Live,
         waitVars, spaceVars
<1>9. CASE StartDrive \/ SpawnFailed \/ DriveErrs \/ DaemonDies
  <2>1. op' \in {"resolve", "off"} /\ UNCHANGED <<agents, row, stage, lost>>
    BY <1>9 DEF StartDrive, SpawnFailed, DriveErrs, DaemonDies, Step, InDrive, waitVars
  <2> QED
    BY <2>1 DEF Asked, Served, Launching, Waiting, Spawning, Live
<1>10. CASE Reconcile
  <2>1. /\ op' = "enter" /\ agents' = agents /\ lost' = lost
        /\ row'.spawned = row.spawned
        /\ Live # {} => row'.pane \in Live
    BY <1>1, <1>10 DEF Reconcile, Resolved, Step, InDrive
  <2>2. stage' = stage \/ (stage = "implementing" /\ stage' = "pr_open")
    BY <1>10 DEF Reconcile, Decides, AgentStage, Stands, Step
  <2>3. 0 \notin Live
    BY DEF Live, Pane
  <2> QED
    BY <2>1, <2>2, <2>3 DEF Asked, Served, Launching, Waiting, Spawning, Live
<1>11. CASE Reuse
  BY <1>11 DEF Reuse, Recognized, Step, InDrive, Stands, Asked, Served, Launching, Waiting,
               Spawning, Live
<1>12. CASE SpawnAnew
  <2>1. op' = "remove" /\ UNCHANGED <<row, stage, lost>> /\ (~Recognized \/ Live = {})
    BY <1>12 DEF SpawnAnew, BeginSpawn, waitVars
  <2> QED
    BY <2>1 DEF Recognized, Asked, Served, Launching, Waiting, Spawning
<1>13. CASE Record
  <2>1. /\ op' = "arm" /\ UNCHANGED <<agents, stage, lost>>
        /\ row' = [pane |-> handle, spawned |-> stage]
        /\ stage \in AgentStage /\ handle # 0
        /\ lost \/ (handle \in Live /\ agents[handle].asked = stage)
    BY <1>13 DEF Record, Step, InDrive, Stands, Panes, Asked
  <2> QED
    BY <2>1 DEF Asked, Served, Launching, Waiting, Spawning, Live, AgentStage
<1>14. CASE Arm
  BY <1>14
     DEF Arm, BeginWait, SetTimers, InDrive, Asked, Served, Launching, Waiting,
         Spawning, Live
<1>15. CASE SettledCleansUp
  <2>1. /\ op' \in {"off", "cleantree"} /\ UNCHANGED <<row, stage, lost>>
        /\ stage = "merged"
    BY <1>15 DEF SettledCleansUp, BeginCleanup, Stands, waitVars
  <2> QED
    BY <1>2, <2>1 DEF Asked, Served, Launching, Waiting
<1>16. CASE Waits
  BY <1>2, <1>16 DEF Waits, Asked, Served, Launching, Waiting, Spawning, Live, AgentStage
<1>17. ASSUME Rests, World
       PROVE  Asked'
  <2>1. UNCHANGED <<op, handle, made, post, stage, row>>
    BY <1>17 DEF Rests
  <2>2. op \in Launching => handle \in Pane /\ handle > row.pane
    BY <1>1 DEF Panes, Launching, Pane
  <2>3. CASE Loss
    <3>1. lost'
      BY <2>3 DEF Loss
    <3>2. PICK p \in Live : agents' = [agents EXCEPT ![p] = Gone]
      BY <2>3 DEF Loss, WorkspaceLost
    <3>3. op \in Launching =>
            \/ agents'[handle] = agents[handle]
            \/ /\ agents'[handle].asked = "nothing" /\ ~agents'[handle].todo
               /\ agents'[handle].status # "working"
      BY <1>1, <2>2, <3>2 DEF Agents, Gone
    <3> QED
      BY <2>1, <3>1, <3>3 DEF Asked, Served
  <2>4. CASE ~Loss
    <3>1. /\ lost' = lost
          /\ \A q \in Pane : agents'[q].asked = agents[q].asked
          /\ \A q \in Live : q \in Live'
      BY <1>17, <2>4, WorldAsksNothing DEF Live
    <3>2. op \in Launching /\ agents[handle].asked = "nothing" /\ ~agents[handle].todo
             /\ agents[handle].status # "working"
          => ~agents'[handle].todo /\ agents'[handle].status # "working"
      BY <1>17, <2>2, <2>4, WorldAsksNothing
    <3>3. Live \subseteq Pane
      BY DEF Live
    <3> QED
      BY <2>1, <2>2, <3>1, <3>2, <3>3 DEF Asked, Served
  <2> QED
    BY <2>3, <2>4
<1> QED
  BY <1>3, <1>4, <1>5, <1>6, <1>7, <1>8, <1>9, <1>10, <1>11, <1>12, <1>13, <1>14, <1>15,
     <1>16,
     <1>17, StepKinds, Zenon

-----------------------------------------------------------------------------
(***************************************************************************)
(* What a step can be, for the clocks of the wait.                          *)
(***************************************************************************)
Statuses == {"idle", "working", "blocked", "done"}

\* A step away from the wait.
Apart ==
    /\ op \notin Waiting /\ op' \notin Waiting
    /\ UNCHANGED <<timers, queue, still, parked>>
    /\ shown' \in {shown, "none"}
    /\ since' \in {since, 0} /\ entered' \in {entered, TRUE}

\* The wait is over.
Quits ==
    /\ Quiet /\ op' \notin Waiting
    /\ shown' \in {shown, "none"}
    /\ since' \in {since, 0} /\ entered' \in {entered, TRUE}

\* The wait goes on.
Goes ==
    /\ op \in Waiting /\ op' \in Waiting
    /\ UNCHANGED <<agents, handle, stage, entered, left, shown, since, parked>>

\* The drive looked at the pane, or was told of it by the classifier.
Looks ==
    /\ Goes
    /\ UNCHANGED <<blocked, queue>>
    /\ \/ changed /\ changed' = FALSE /\ progress' = NoProgress /\ still' = still
       \/ changed' = changed /\ progress' = NoProgress /\ still' = 0
       \/ UNCHANGED <<changed, progress, still>>

\* The drive took an event.
Hears ==
    /\ Goes
    /\ queue # <<>> /\ queue' = Tail(queue)
    /\ progress' = NoProgress /\ changed' = changed /\ still' = still
    /\ \/ Head(queue) = "idle" /\ blocked' = blocked
       \/ Head(queue) = "blocked" /\ blocked' = BlockedClock
       \/ Head(queue) = "working" /\ blocked' = Off

\* The steps of the wait end it, or leave the drive with a look or an event.
LEMMA WaitClocks ==
  Wait => Quits \/ Looks \/ Hears
<1> USE DEF Goes, Waiting, Carry, Leave, InWait, Event
<1>0. Wait => InWait
  BY DEF Wait, WaitStep
<1>1. ASSUME Wait, TimeoutFires \/ BlockedFires \/ GiveUp \/ EventDone \/ WaitErrs
      PROVE  Quits
  BY <1>1, ZenonT(60)
     DEF TimeoutFires, BlockedFires, GiveUp, EventDone, WaitErrs, WaitFails, Quits,
         Outcomes, AgentStage
<1>2. ASSUME Wait, Confirm
      PROVE  Looks
  <2>1. Goes /\ UNCHANGED <<blocked, queue>>
    BY <1>0, <1>2, ZenonT(60) DEF Confirm, Moved, Unread, Suspect
  <2>2. \/ changed /\ changed' = FALSE /\ progress' = NoProgress /\ still' = still
        \/ changed' = changed /\ progress' = NoProgress /\ still' = 0
        \/ UNCHANGED <<changed, progress, still>>
    BY <1>2, ZenonT(60) DEF Confirm, Moved, Unread, Suspect
  <2> QED
    BY <2>1, <2>2, Zenon DEF Looks
<1>3. ASSUME Wait, SaysWorking \/ SaysFinished
      PROVE  Quits \/ Looks
  <2>1. CASE \E s \in Outcomes : Leave(s)
    BY <2>1, ZenonT(60) DEF Quits, Outcomes, AgentStage
  <2>2. CASE op = "classify" /\ Carry(changed) /\ still' = 0 /\ UNCHANGED <<blocked, queue, parked>>
    BY <1>0, <1>3, <2>2, SMT DEF Looks
  <2> QED
    BY <1>3, <2>1, <2>2, Zenon DEF SaysWorking, SaysFinished
<1>4. ASSUME Wait, EventIdle \/ EventBlocked \/ EventWorking
      PROVE  Quits \/ Hears
  <2>1. CASE \E s \in Outcomes : Leave(s)
    BY <2>1, ZenonT(60) DEF Quits, Outcomes, AgentStage
  <2>2. ASSUME op = "select", queue # <<>>, Carry(changed), queue' = Tail(queue), UNCHANGED <<still, parked>>,
               \/ Head(queue) = "idle" /\ blocked' = blocked
               \/ Head(queue) = "blocked" /\ blocked' = BlockedClock
               \/ Head(queue) = "working" /\ blocked' = Off
        PROVE  Hears
    BY <1>0, <1>4, <2>2, SMT DEF Hears
  <2>3. CASE EventIdle
    BY <2>1, <2>2, <2>3, Zenon DEF EventIdle
  <2>4. CASE EventBlocked
    BY <2>2, <2>4, Zenon DEF EventBlocked
  <2>5. CASE EventWorking
    BY <2>2, <2>5, Zenon DEF EventWorking
  <2> QED
    BY <1>4, <2>3, <2>4, <2>5
<1> QED
  BY <1>1, <1>2, <1>3, <1>4, Zenon DEF Wait, WaitStep

\* The daemon's death stops the clocks.
LEMMA DeathClocks ==
  DaemonDies => Quits
BY ZenonT(60) DEF DaemonDies, Quits, Waiting

\* The other steps of the drive do not touch them.
LEMMA DriveClocks ==
  ASSUME Drive, ~Wait, ~Arm
  PROVE  Apart
<1>1. CASE Backend
  <2>1. op \notin Waiting /\ op' \notin Waiting
    BY <1>1, BackendKinds
       DEF Tree, CloseOld, CleanClose, CloseFirst, CreateWorkspace, Launch,
           AgentDetected, Deliver, Prompt, PromptTakes, PromptStalls, PromptFails,
           Delivery, SpawnReturns, Step, Spawning, Cleaning, Launching, Waiting
  <2> QED
    BY <1>1, <2>1, Zenon DEF Backend, Apart, waitVars, timers
<1>2. CASE StartDrive \/ Reuse \/ Record \/ SpawnFailed
  <2>1. UNCHANGED <<since, entered>>
    BY <1>2, Zenon DEF StartDrive, Reuse, Record, SpawnFailed, waitVars, histVars
  <2>2. /\ op \notin Waiting /\ op' \notin Waiting
        /\ UNCHANGED <<timers, queue, still, parked>>
        /\ shown' \in {shown, "none"}
    BY <1>2, SMT
       DEF StartDrive, Reuse, Record, SpawnFailed, Step, waitVars, timers, histVars,
           Waiting
  <2> QED
    BY <2>1, <2>2, Zenon DEF Apart
<1>5. CASE DriveErrs
  BY <1>5, ZenonT(60) DEF DriveErrs, Apart, waitVars, timers, Waiting
<1>6. CASE SpawnAnew \/ SettledCleansUp
  BY <1>6, ZenonT(60)
     DEF SpawnAnew, SettledCleansUp, BeginSpawn, BeginCleanup, Apart, waitVars, timers,
         Waiting
<1>3. CASE Reconcile
  BY <1>3, ZenonT(60) DEF Reconcile, Step, Apart, sightVars, Waiting
<1> QED
  BY <1>1, <1>2, <1>3, <1>5, <1>6 DEF Drive

\* Who acts while a drive waits.
LEMMA WaitingKinds ==
  ASSUME Next, op \in Waiting
  PROVE  Wait \/ World \/ DaemonDies
<1>1. ~Arm
  BY DEF Arm, Waiting
<1>2. ~Apart
  BY DEF Apart
<1> QED
  BY <1>1, <1>2, DriveClocks DEF Next

\* An entry that is recorded stays so, and leaving a state records one.
LEMMA EntryStep ==
  ASSUME TypeOK, Next
  PROVE  entered' \in BOOLEAN
<1>1. entered \in BOOLEAN
  BY Zenon DEF TypeOK, WaitTypeOK
<1>2. CASE Apart \/ Quits
  BY <1>1, <1>2, Zenon DEF Apart, Quits
<1>3. CASE Looks \/ Hears
  BY <1>1, <1>3, Zenon DEF Looks, Hears, Goes
<1>4. CASE Arm
  BY <1>1, <1>4, Zenon DEF Arm, BeginWait, SetTimers
<1>5. CASE World
  <2>1. CASE MessageTask \/ AgentStirs \/ AgentWorks
    BY <1>1, <2>1, Zenon DEF MessageTask, AgentStirs, AgentWorks, Outside
  <2>2. CASE Loss \/ WritesBack
    BY <1>1, <2>2, Zenon DEF Loss, WritesBack, waitVars
  <2>3. CASE Seen \/ Clock
    BY <1>1, <2>3, Zenon DEF Seen, Poll, Clock, Tick
  <2> QED
    BY <1>5, <2>1, <2>2, <2>3, Zenon DEF World
<1> QED
  BY <1>2, <1>3, <1>4, <1>5, WaitClocks, DriveClocks, DeathClocks, Zenon DEF Next

(***************************************************************************)
(* The events on their way.                                                 *)
(***************************************************************************)
QueueT == UNION {[1..n -> Statuses] : n \in 0..MaxEvents}

\* They are a sequence that has a bound.
LEMMA QueueType ==
  ASSUME NEW q
  PROVE  q \in QueueT <=> q \in Seq(Statuses) /\ Len(q) <= MaxEvents
<1> USE WaitAssumption
<1>1. ASSUME q \in QueueT
      PROVE  q \in Seq(Statuses) /\ Len(q) <= MaxEvents
  <2>1. PICK n \in 0..MaxEvents : q \in [1..n -> Statuses]
    BY <1>1 DEF QueueT
  <2>2. q \in Seq(Statuses)
    BY <2>1, SeqDef
  <2>3. Len(q) = n
    BY <2>1, <2>2, LenProperties
  <2> QED
    BY <2>1, <2>2, <2>3
<1>2. ASSUME q \in Seq(Statuses), Len(q) <= MaxEvents
      PROVE  q \in QueueT
  BY <1>2, LenProperties DEF QueueT
<1> QED
  BY <1>1, <1>2

\* None, or one, is short enough.
LEMMA FirstEvents ==
  /\ <<>> \in QueueT /\ Len(<<>>) = 0
  /\ \A s \in Statuses : <<s>> \in QueueT /\ <<s>> # <<>> /\ Len(<<s>>) = 1 /\ <<s>>[1] = s
<1>1. <<>> \in QueueT /\ Len(<<>>) = 0
  <2>1. <<>> \in Seq(Statuses) /\ Len(<<>>) = 0
    BY EmptySeq
  <2>2. Len(<<>>) <= MaxEvents
    BY <2>1, WaitAssumption
  <2> QED
    BY <2>1, <2>2, QueueType, Zenon
<1>2. ASSUME NEW s \in Statuses
      PROVE  <<s>> \in QueueT /\ <<s>> # <<>> /\ Len(<<s>>) = 1 /\ <<s>>[1] = s
  <2>1. <<s>> \in Seq(Statuses) /\ Len(<<s>>) = 1 /\ <<s>>[1] = s
    OBVIOUS
  <2>2. Len(<<s>>) <= MaxEvents /\ <<s>> # <<>>
    BY <2>1, WaitAssumption
  <2> QED
    BY <2>1, <2>2, QueueType, Zenon
<1> QED
  BY <1>1, <1>2

\* The drive takes the first.
LEMMA TailOfEvents ==
  ASSUME NEW q \in QueueT, q # <<>>
  PROVE  /\ Tail(q) \in QueueT
         /\ Len(q) \in Nat \ {0} /\ Head(q) = q[1]
         /\ Tail(q) = <<>> => Len(q) = 1
         /\ Tail(q) # <<>> => Tail(q)[Len(Tail(q))] = q[Len(q)]
         /\ \A i \in 1..Len(Tail(q)) : i + 1 \in 1..Len(q) /\ Tail(q)[i] = q[i + 1]
<1>1. q \in Seq(Statuses) /\ Len(q) <= MaxEvents
  BY QueueType
<1>2. /\ Tail(q) \in Seq(Statuses) /\ Len(Tail(q)) = Len(q) - 1
      /\ \A i \in 1..Len(Tail(q)) : Tail(q)[i] = q[i + 1]
  BY <1>1, HeadTailProperties
<1>3. Len(q) \in Nat \ {0} /\ (Tail(q) # <<>> => Len(Tail(q)) \in Nat \ {0})
  BY <1>1, <1>2, EmptySeq
<1>4. Tail(q) \in QueueT
  <2>1. Len(Tail(q)) <= MaxEvents
    BY <1>1, <1>2, <1>3, WaitAssumption
  <2> QED
    BY <1>2, <2>1, QueueType, Zenon
<1>5. Head(q) = q[1]
  BY <1>1
<1>6. Tail(q) = <<>> => Len(q) = 1
  <2>1. Len(<<>>) = 0
    OBVIOUS
  <2>2. Tail(q) = <<>> => Len(Tail(q)) = 0
    BY <2>1, Zenon
  <2> QED
    BY <1>2, <1>3, <2>2
<1> QED
  BY <1>2, <1>3, <1>4, <1>5, <1>6

\* The poller adds the last.
LEMMA AppendedEvents ==
  ASSUME NEW q \in QueueT, NEW s \in Statuses, Len(q) < MaxEvents
  PROVE  /\ Append(q, s) \in QueueT /\ Append(q, s) # <<>>
         /\ Append(q, s)[Len(Append(q, s))] = s
         /\ \A i \in 1..Len(Append(q, s)) : 
                (i \in 1..Len(q) /\ Append(q, s)[i] = q[i]) \/ Append(q, s)[i] = s
<1>1. q \in Seq(Statuses) /\ Len(q) \in Nat
  BY QueueType, LenProperties
<1>2. /\ Append(q, s) \in Seq(Statuses) /\ Len(Append(q, s)) = Len(q) + 1
      /\ \A i \in 1..Len(q) : Append(q, s)[i] = q[i]
      /\ Append(q, s)[Len(q) + 1] = s
  BY <1>1, AppendProperties
<1>3. Append(q, s) \in QueueT /\ Append(q, s) # <<>>
  <2>1. Len(Append(q, s)) <= MaxEvents /\ Append(q, s) # <<>>
    BY <1>1, <1>2, WaitAssumption, AppendProperties
  <2> QED
    BY <1>2, <2>1, QueueType, Zenon
<1> QED
  BY <1>1, <1>2, <1>3

(***************************************************************************)
(* The clocks.                                                              *)
(***************************************************************************)
ClockTypes ==
    /\ left \in Timer(StateTimeout)
    /\ blocked \in Timer(BlockedTimeout)
    /\ progress \in Timer(NoProgress)
    /\ queue \in QueueT
    /\ shown \in Statuses \cup {"none"}
    /\ since \in 0..StateTimeout + 1
    /\ still \in 0..2 * NoProgress + 1
    /\ parked \in 0..BlockedTimeout + 1

Waited == Fresh /\ Window /\ BlockedRuns /\ StageRuns

\* A look at the pane keeps the clocks right.
LEMMA LooksKeepsClocks ==
  ASSUME ClockTypes, Waited, Looks
  PROVE  ClockTypes' /\ Waited'
<1> USE WaitAssumption DEF Looks, Goes, Timer
<1>1. ClockTypes'
  BY DEF ClockTypes
<1>2. Fresh'
  BY DEF Waited, Fresh, Unseen, Detected
<1>3. Window'
  BY DEF ClockTypes, Waited, Window
<1>4. BlockedRuns' /\ StageRuns'
  BY DEF Waited, BlockedRuns, StageRuns
<1> QED
  BY <1>1, <1>2, <1>3, <1>4 DEF Waited

\* So does an event.
LEMMA HearsKeepsClocks ==
  ASSUME ClockTypes, Waited, Hears
  PROVE  ClockTypes' /\ Waited'
<1> USE WaitAssumption DEF Hears, Goes, Timer
<1>1. /\ queue \in QueueT /\ queue # <<>>
  BY DEF ClockTypes
<1>2. /\ queue' \in QueueT
      /\ Len(queue) \in Nat \ {0} /\ Head(queue) = queue[1]
      /\ queue' = <<>> => Len(queue) = 1
      /\ queue' # <<>> => queue'[Len(queue')] = queue[Len(queue)]
      /\ \A i \in 1..Len(queue') : i + 1 \in 1..Len(queue) /\ queue'[i] = queue[i + 1]
  BY <1>1, TailOfEvents
<1>3. /\ blocked' \in Timer(BlockedTimeout)
      /\ blocked # Off => Head(queue) = "working" \/ blocked' = blocked
      /\ Head(queue) = "blocked" => blocked' # Off
      /\ blocked' = blocked \/ blocked = Off \/ Head(queue) = "working"
  BY DEF ClockTypes, BlockedClock
<1>4. ClockTypes'
  BY <1>2, <1>3 DEF ClockTypes
<1>5. Fresh' /\ still = 0
  BY <1>1, <1>2 DEF Waited, Fresh, Unseen, Detected
<1>6. Window'
  BY <1>5 DEF ClockTypes, Waited, Window
<1>7. BlockedRuns'
  <2>1. ASSUME queue' = <<>>, shown' = "blocked"
        PROVE  blocked' # Off
    BY <1>1, <1>2, <1>3, <2>1 DEF Waited, Fresh
  <2>2. ASSUME parked' > 0
        PROVE  /\ blocked' # Off /\ parked' + blocked' <= BlockedTimeout
               /\ agents'[handle'].status # "working"
               /\ \A i \in 1..Len(queue') : queue'[i] # "working"
    <3>1. Head(queue) # "working"
      BY <1>2, <2>2 DEF Waited, BlockedRuns
    <3> QED
      BY <1>2, <1>3, <2>2, <3>1 DEF Waited, BlockedRuns
  <2> QED
    BY <2>1, <2>2 DEF BlockedRuns
<1>8. StageRuns'
  BY DEF Waited, StageRuns
<1> QED
  BY <1>4, <1>5, <1>6, <1>7, <1>8 DEF Waited

\* A wait begins with its clocks right.
LEMMA ArmSetsClocks ==
  ASSUME ClockTypes, Arm
  PROVE  ClockTypes' /\ Waited' /\ op' = "select"
<1> USE WaitAssumption DEF Timer
<1>1. /\ op' = "select" /\ blocked' = Off /\ progress' = NoProgress
      /\ left' = IF entered THEN Remaining ELSE StateTimeout
      /\ queue' = IF shown = "none" THEN <<>> ELSE <<shown>>
      /\ still' = 0 /\ parked' = 0
      /\ UNCHANGED <<entered, shown, since>>
  BY DEF Arm, BeginWait, SetTimers
<1>2. left' \in 0..StateTimeout /\ (entered /\ left' > 0 => left' + since <= StateTimeout)
  <2>1. CASE entered
    BY <1>1, <2>1 DEF ClockTypes, Remaining, Least
  <2>2. CASE ~entered
    BY <1>1, <2>2
  <2> QED
    BY <2>1, <2>2
<1>3. /\ queue' \in QueueT
      /\ shown # "none" => queue' # <<>> /\ queue'[Len(queue')] = shown
  <2>1. CASE shown = "none"
    BY <1>1, <2>1, FirstEvents, Zenon
  <2>2. CASE shown # "none"
    <3>1. shown \in Statuses /\ queue' = <<shown>>
      BY <1>1, <2>2 DEF ClockTypes
    <3> QED
      BY <3>1, FirstEvents, Zenon
  <2> QED
    BY <2>1, <2>2
<1>4. ClockTypes'
  BY <1>1, <1>2, <1>3 DEF ClockTypes
<1>5. Fresh'
  BY <1>1, <1>3 DEF Fresh
<1>6. Window'
  BY <1>1 DEF Window
<1>7. BlockedRuns'
  BY <1>1, <1>3 DEF BlockedRuns
<1>8. StageRuns'
  BY <1>1, <1>2 DEF StageRuns
<1> QED
  BY <1>1, <1>4, <1>5, <1>6, <1>7, <1>8 DEF Waited

\* What the poller sees is on its way.
LEMMA PollKeepsClocks ==
  ASSUME ClockTypes, Waited, Poll, agents[handle].status \in {"gone", "shell", "starting"} \cup Statuses
  PROVE  ClockTypes' /\ Waited'
<1> USE WaitAssumption DEF Timer
<1> DEFINE s == agents[handle].status
<1>1. /\ s \in Statuses /\ Len(queue) < MaxEvents /\ Unseen
      /\ queue' = Append(queue, s) /\ shown' = s
      /\ UNCHANGED <<agents, handle, entered, left, blocked, progress, changed, since, still,
                  parked>>
  BY DEF Poll, Unseen, Detected, herdrVars, timers, histVars
<1>2. /\ queue' \in QueueT /\ queue' # <<>>
      /\ queue'[Len(queue')] = s
      /\ \A i \in 1..Len(queue') : (i \in 1..Len(queue) /\ queue'[i] = queue[i]) \/ queue'[i] = s
  BY <1>1, AppendedEvents DEF ClockTypes
<1>3. ClockTypes'
  BY <1>1, <1>2 DEF ClockTypes
<1>4. Fresh'
  BY <1>1, <1>2 DEF Waited, Fresh
<1>5. Window' /\ StageRuns'
  BY <1>1 DEF Waited, Window, StageRuns
<1>6. BlockedRuns'
  BY <1>1, <1>2 DEF Waited, BlockedRuns
<1> QED
  BY <1>3, <1>4, <1>5, <1>6 DEF Waited

\* A tick takes from what is left what it adds to the time that passed.
LEMMA TickKeepsClocks ==
  ASSUME ClockTypes, Waited, Tick, op = "select",
         agents[handle].status \in {"gone", "shell", "starting"} \cup Statuses
  PROVE  ClockTypes' /\ Waited'
<1> USE WaitAssumption DEF Timer
<1>1. /\ left # 0 /\ blocked # 0 /\ progress # 0
      /\ queue = <<>> /\ ~Unseen
      /\ UNCHANGED <<agents, handle, queue, shown, changed, entered>>
      /\ left' = Down(left) /\ blocked' = Down(blocked) /\ progress' = Down(progress)
      /\ since' = Least(since + 1, StateTimeout + 1) \/ since' = 0
      /\ still' = Least(still + 1, 2 * NoProgress + 1)
      /\ parked' = IF parked > 0 \/ agents[handle].status = "blocked"
                     THEN Least(parked + 1, BlockedTimeout + 1) ELSE 0
  BY DEF Tick, Waiting, herdrVars
<1>2. /\ left \in 1..StateTimeout /\ progress \in 1..NoProgress
      /\ blocked = Off \/ blocked \in 1..BlockedTimeout
  BY <1>1 DEF ClockTypes, Waited, Window, StageRuns
<1>3. /\ left' = left - 1 /\ progress' = progress - 1
      /\ blocked # Off => blocked' = blocked - 1
      /\ blocked = Off => blocked' = Off
  BY <1>1, <1>2 DEF Down
<1>4. still' = still + 1
  BY <1>1, <1>2 DEF ClockTypes, Waited, Window, Least
<1>5. ClockTypes'
  BY <1>1, <1>2, <1>3 DEF ClockTypes, Least
<1>6. Fresh'
  BY <1>1 DEF Fresh, Unseen, Detected
<1>7. Window'
  BY <1>1, <1>2, <1>3, <1>4 DEF ClockTypes, Waited, Window
<1>8. StageRuns'
  BY <1>1, <1>2, <1>3 DEF ClockTypes, Waited, StageRuns, Least
<1>9. BlockedRuns'
  <2>1. Len(queue) = 0
    BY <1>1, FirstEvents, Zenon
  <2>2. agents[handle].status = "blocked" => shown = "blocked"
    BY <1>1 DEF Unseen, Detected
  <2>3. ASSUME parked' > 0
        PROVE  /\ blocked # Off /\ parked' = parked + 1
               /\ parked + blocked <= BlockedTimeout
               /\ agents[handle].status # "working"
    BY <1>1, <1>2, <2>2, <2>3 DEF ClockTypes, Waited, BlockedRuns, Least
  <2> QED
    BY <1>1, <1>2, <1>3, <2>1, <2>3 DEF ClockTypes, Waited, BlockedRuns
<1> QED
  BY <1>5, <1>6, <1>7, <1>8, <1>9 DEF Waited

Resting == ClockTypes /\ (op \in Waiting => Waited) /\ (op \notin Waiting => AtRest)

\* An agent that stirs gets another window, and has its time blocked counted anew
\* if it goes to work.
LEMMA StirsKeepsClocks ==
  ASSUME Resting, NEW p, Stirs(p), Outside, op' = op, handle' = handle,
         op \in Waiting => p = handle \/ agents'[handle] = agents[handle]
  PROVE  Resting'
<1> USE WaitAssumption DEF Timer
<1>1. UNCHANGED <<entered, left, blocked, progress, queue, shown, since>>
  BY DEF Outside, timers
<1>2. CASE op \in Waiting /\ p = handle
  <2>1. /\ changed' = TRUE /\ still' = 0
        /\ parked' = IF agents'[handle].status = "working" THEN 0 ELSE parked
    BY <1>2 DEF Stirs
  <2>2. ClockTypes'
    BY <1>1, <2>1 DEF Resting, ClockTypes
  <2>3. Fresh'
    BY <1>1, <1>2, <2>1 DEF Resting, Waited, Fresh
  <2>4. Window'
    BY <1>1, <1>2, <2>1 DEF Resting, ClockTypes, Waited, Window
  <2>5. StageRuns'
    BY <1>1, <1>2 DEF Resting, Waited, StageRuns
  <2>6. BlockedRuns'
    BY <1>1, <1>2, <2>1 DEF Resting, Waited, BlockedRuns
  <2> QED
    BY <1>2, <2>2, <2>3, <2>4, <2>5, <2>6 DEF Resting, Waited
<1>3. CASE ~(op \in Waiting /\ p = handle)
  <2>1. UNCHANGED <<changed, still, parked>>
    BY <1>3 DEF Stirs
  <2>2. ClockTypes'
    BY <1>1, <2>1 DEF Resting, ClockTypes
  <2>3. CASE op \in Waiting
    <3>1. agents'[handle] = agents[handle]
      BY <1>3, <2>3
    <3>2. Fresh'
      BY <1>1, <2>1, <2>3, <3>1 DEF Resting, Waited, Fresh, Unseen, Detected
    <3>3. Window' /\ StageRuns'
      BY <1>1, <2>1, <2>3 DEF Resting, Waited, Window, StageRuns
    <3>4. BlockedRuns'
      BY <1>1, <2>1, <2>3, <3>1 DEF Resting, Waited, BlockedRuns
    <3> QED
      BY <2>2, <2>3, <3>2, <3>3, <3>4 DEF Resting, Waited
  <2>4. CASE op \notin Waiting
    BY <1>1, <2>1, <2>2, <2>4 DEF Resting, AtRest
  <2> QED
    BY <2>3, <2>4
<1> QED
  BY <1>2, <1>3

\* The clocks stay right through every step.
LEMMA ClocksStep ==
  ASSUME TypeOK, Panes, Stands, Clocks, Next
  PROVE  ClockTypes' /\ Clocks'
<1> USE WaitAssumption, HerdrAssumption
<1>1. /\ agents \in Agents
      /\ made \in 0..MaxSpawns /\ handle \in 0..made /\ row.pane \in 0..made
      /\ stage \in AgentStage \cup Settled
      /\ op \in Ops
      /\ op \in Waiting => handle \in Pane
  BY DEF TypeOK, HerdrTypeOK, WaitTypeOK, AgentT, Agents, Panes, Ops, Pane
<1>2. Resting
  BY DEF TypeOK, WaitTypeOK, Clocks, Resting, ClockTypes, Waited, QueueT, Statuses
<1>3. SUFFICES Resting'
  BY DEF Clocks, Resting, Waited
<1>4. op \in Waiting => agents[handle].status \in {"gone", "shell", "starting"} \cup Statuses
  BY <1>1 DEF Agents, AgentT, Statuses
<1>5. CASE Apart
  BY <1>2, <1>5 DEF Apart, Resting, ClockTypes, AtRest, timers
<1>6. CASE Quits
  <2>1. AtRest'
    BY <1>6 DEF Quits, Quiet, AtRest
  <2>2. ClockTypes' /\ op' \notin Waiting
    BY <1>2, <1>6, FirstEvents DEF Quits, Quiet, Resting, ClockTypes, Timer
  <2> QED
    BY <2>1, <2>2 DEF Resting
<1>7. CASE Looks
  BY <1>2, <1>7, LooksKeepsClocks DEF Resting, Looks, Goes
<1>8. CASE Hears
  BY <1>2, <1>8, HearsKeepsClocks DEF Resting, Hears, Goes
<1>9. CASE Arm
  BY <1>2, <1>9, ArmSetsClocks DEF Resting, Waiting
<1>10. CASE World
  <2>1. UNCHANGED <<op, handle, stage>>
    BY <1>10, WorldRests DEF Rests
  <2>2. CASE MessageTask
    <3>1. PICK p \in 1..row.pane : agents' = Typed(p, agents[p].asked) /\ Stirs(p)
      BY <2>2 DEF MessageTask
    <3>2. op \in Waiting => p = handle \/ agents'[handle] = agents[handle]
      BY <1>1, <3>1 DEF Typed, Agents, Pane
    <3>3. Outside
      BY <2>2 DEF MessageTask
    <3> QED
      BY <1>2, <2>1, <3>1, <3>2, <3>3, StirsKeepsClocks
  <2>3. CASE AgentStirs
    <3>1. PICK p \in Live : AgentActs(p) /\ Stirs(p)
      BY <2>3 DEF AgentStirs
    <3>2. op \in Waiting => p = handle \/ agents'[handle] = agents[handle]
      BY <1>1, <3>1 DEF AgentActs, AgentIs, Agents, Live
    <3>3. Outside
      BY <2>3 DEF AgentStirs
    <3> QED
      BY <1>2, <2>1, <3>1, <3>2, <3>3, StirsKeepsClocks
  <2>4. CASE AgentWorks
    <3>1. Stirs(row.pane) /\ Outside /\ agents' = agents
      BY <2>4 DEF AgentWorks
    <3> QED
      BY <1>2, <2>1, <3>1, StirsKeepsClocks
  <2>5. ASSUME Loss \/ WritesBack
        PROVE  Resting'
    <3>1. UNCHANGED waitVars
      BY <2>5 DEF Loss, WritesBack
    <3>2. op \in Waiting => agents'[handle] = agents[handle] \/ agents'[handle].status = "gone"
      BY <1>1, <2>5
         DEF Loss, WorkspaceLost, WritesBack, AgentWritesBack, Agents, Gone, spaceVars
    <3>3. UNCHANGED <<entered, left, blocked, progress, queue, shown, changed, since, still, parked>>
      BY <3>1 DEF waitVars
    <3>4. ClockTypes'
      BY <1>2, <3>3 DEF Resting, ClockTypes
    <3>5. CASE op \in Waiting
      <4>1. Fresh' /\ BlockedRuns'
        BY <1>2, <2>1, <3>2, <3>3, <3>5
           DEF Resting, Waited, Fresh, BlockedRuns, Unseen, Detected
      <4>2. Window' /\ StageRuns'
        BY <1>2, <3>3, <3>5 DEF Resting, Waited, Window, StageRuns
      <4> QED
        BY <2>1, <3>4, <3>5, <4>1, <4>2 DEF Resting, Waited
    <3>6. CASE op \notin Waiting
      BY <1>2, <2>1, <3>3, <3>4, <3>6 DEF Resting, AtRest
    <3> QED
      BY <3>4, <3>5, <3>6
  <2>6. CASE Seen
    <3>1. op \in Waiting /\ Poll
      BY <2>6 DEF Seen, Poll
    <3> QED
      BY <1>2, <1>4, <2>1, <3>1, PollKeepsClocks DEF Resting
  <2>7. CASE Clock
    <3>1. Tick
      BY <2>7 DEF Clock
    <3>2. CASE op = "select"
      BY <1>2, <1>4, <2>1, <3>1, <3>2, TickKeepsClocks DEF Resting, Waiting
    <3>3. CASE op = "off"
      <4>1. op \notin Waiting /\ AtRest
        BY <1>2, <3>3 DEF Resting, Waiting
      <4>2. /\ left' = Off /\ blocked' = Off /\ progress' = Off
            /\ UNCHANGED <<queue, shown, still, parked>>
            /\ since' = Least(since + 1, StateTimeout + 1) \/ since' = 0
        BY <3>1, <4>1 DEF Tick, AtRest, Down
      <4>3. ClockTypes'
        BY <1>2, <4>2 DEF Resting, ClockTypes, Timer, Least
      <4>4. AtRest'
        BY <4>1, <4>2 DEF AtRest
      <4> QED
        BY <2>1, <4>1, <4>3, <4>4 DEF Resting
    <3> QED
      BY <3>1, <3>2, <3>3 DEF Tick
  <2> QED
    BY <1>10, <2>2, <2>3, <2>4, <2>5, <2>6, <2>7 DEF World
<1> QED
  BY <1>5, <1>6, <1>7, <1>8, <1>9, <1>10, WaitClocks, DriveClocks, DeathClocks, Zenon
     DEF Next

-----------------------------------------------------------------------------
\* The invariant is inductive: every reachable state of every bound has it.
THEOREM Invariant == Spec => []IInv
<1>1. Init => IInv
  <2> SUFFICES ASSUME Init
               PROVE  IInv
    OBVIOUS
  <2> USE HerdrAssumption, WaitAssumption DEF Init, HerdrInit, WaitInit
  <2>1. HerdrTypeOK(AgentStage)
    <3>1. agents \in Agents
      BY DEF Agents, AgentT, Gone
    <3>2. /\ made \in 0..MaxSpawns /\ handle \in 0..MaxSpawns /\ faults \in 0..MaxFaults
          /\ post \in [step : {"none", "prompt", "wait", "took", "lost"}, tries : 0..MaxTries]
      BY DEF NoPost
    <3>3. dir \in BOOLEAN /\ reg \in BOOLEAN /\ br \in BOOLEAN /\ hurt \in BOOLEAN
      BY Zenon
    <3> QED
      BY <3>1, <3>2, <3>3, Zenon DEF HerdrTypeOK, Agents, AgentT
  <2>2. WaitTypeOK
    <3>1. /\ left \in Timer(StateTimeout) /\ blocked \in Timer(BlockedTimeout)
          /\ progress \in Timer(NoProgress)
          /\ since \in 0..StateTimeout + 1 /\ still \in 0..2 * NoProgress + 1
          /\ parked \in 0..BlockedTimeout + 1
      BY DEF Timer
    <3>2. /\ stage \in AgentStage \cup Settled
          /\ entered \in BOOLEAN /\ artifact \in BOOLEAN /\ changed \in BOOLEAN
      BY Zenon DEF AgentStage
    <3>3. queue \in QueueT /\ shown \in {"none", "idle", "working", "blocked", "done"}
      BY FirstEvents
    <3> QED
      BY <3>1, <3>2, <3>3, Zenon DEF WaitTypeOK, QueueT, Statuses
  <2>3. TypeOK
    <3>1. row \in [pane : 0..MaxSpawns, spawned : AgentStage \cup {"none"}]
      OBVIOUS
    <3>2. lost \in BOOLEAN /\ op = "off"
      BY Zenon
    <3> QED
      BY <2>1, <2>2, <3>1, <3>2, Zenon DEF TypeOK
  <2>4. Live = {}
    BY DEF Live, Gone
  <2>5. Panes /\ Stands /\ Tidy
    BY DEF Panes, Stands, Tidy, Launching, Spawning, Cleaning, Waiting, Gone, NoPost, Pane
  <2>6. Few
    BY <2>4, FS_EmptySet DEF Few, OneWorkspacePerLabel
  <2>7. Asked
    BY DEF Asked, Served, Launching, Waiting, AgentStage
  <2>8. Clocks
    BY DEF Clocks, AtRest, Waiting
  <2> QED
    BY <2>3, <2>5, <2>6, <2>7, <2>8 DEF IInv
<1>2. IInv /\ [Next]_vars => IInv'
  <2>1. ASSUME IInv, Next
        PROVE  IInv'
    <3>1. agents' \in Agents
      BY <2>1, AgentsStep DEF IInv
    <3>2. /\ dir' \in BOOLEAN /\ reg' \in BOOLEAN /\ br' \in BOOLEAN
          /\ hurt' \in BOOLEAN /\ lost' \in BOOLEAN
          /\ artifact' \in BOOLEAN /\ changed' \in BOOLEAN
          /\ op' \in Ops /\ stage' \in AgentStage \cup Settled
          /\ entered' \in BOOLEAN
      BY <2>1, NamesStep, EntryStep DEF IInv
    <3>3. /\ made' \in 0..MaxSpawns /\ handle' \in 0..MaxSpawns
          /\ row' \in [pane : 0..MaxSpawns, spawned : AgentStage \cup {"none"}]
          /\ Panes'
      BY <2>1, PanesStep DEF IInv
    <3>4. /\ post' \in [step : {"none", "prompt", "wait", "took", "lost"}, tries : 0..MaxTries]
          /\ Stands'
      BY <2>1, StandsStep DEF IInv
    <3>5. faults' \in 0..MaxFaults
      BY <2>1, FaultsStep, HerdrAssumption DEF IInv, TypeOK, HerdrTypeOK, Fault
    <3>6. ClockTypes' /\ Clocks'
      BY <2>1, ClocksStep DEF IInv
    <3>7. HerdrTypeOK(AgentStage)'
      BY <3>1, <3>2, <3>3, <3>4, <3>5, Zenon DEF HerdrTypeOK, Agents, AgentT
    <3>8. WaitTypeOK'
      BY <3>2, <3>6, Zenon DEF WaitTypeOK, ClockTypes, QueueT, Statuses
    <3>9. TypeOK'
      BY <3>2, <3>3, <3>7, <3>8, Zenon DEF TypeOK, Ops
    <3>10. Few' /\ Tidy' /\ Asked'
      BY <2>1, <3>2, <3>9, FewStep, TidyStep, AskedStep DEF IInv
    <3> QED
      BY <3>3, <3>4, <3>6, <3>9, <3>10 DEF IInv
  <2>2. ASSUME IInv, UNCHANGED vars
        PROVE  IInv'
    <3>1. UNCHANGED <<agents, made, dir, reg, br, op, handle, hurt, post, faults, stage, entered,
                      artifact, left, blocked, progress, queue, shown, changed, since, still, parked, row,
                      lost>>
      BY <2>2 DEF vars, herdrVars, waitVars
    <3>2. TypeOK'
      <4>1. HerdrTypeOK(AgentStage)'
        BY <2>2, <3>1 DEF IInv, TypeOK, HerdrTypeOK
      <4>2. WaitTypeOK'
        BY <2>2, <3>1 DEF IInv, TypeOK, WaitTypeOK
      <4> QED
        BY <2>2, <3>1, <4>1, <4>2 DEF IInv, TypeOK
    <3>3. Panes' /\ Stands'
      BY <2>2, <3>1 DEF IInv, Panes, Stands
    <3>4. Few'
      BY <2>2, <3>1 DEF IInv, Few, OneWorkspacePerLabel, Live
    <3>5. Tidy'
      BY <2>2, <3>1, Zenon DEF IInv, Tidy
    <3>6. Asked'
      BY <2>2, <3>1 DEF IInv, Asked, Served, Live
    <3>7. Clocks'
      BY <2>2, <3>1
         DEF IInv, Clocks, AtRest, Fresh, Window, BlockedRuns, StageRuns, Unseen, Detected
    <3> QED
      BY <3>2, <3>3, <3>4, <3>5, <3>6, <3>7 DEF IInv
  <2> QED
    BY <2>1, <2>2
<1> QED
  BY <1>1, <1>2, PTL DEF Spec

\* The variables have their types: in particular no count or timer runs past its
\* bound, and no delivery is tried once more than there is time for.
THEOREM Typing == Spec => []TypeOK
BY Invariant, PTL DEF IInv

\* Spawn closes what an earlier attempt left under the task's label: more than one
\* workspace is paid for by failures.
THEOREM SpacesStayFew == Spec => []OneWorkspacePerLabel
<1>1. IInv => OneWorkspacePerLabel
  BY DEF IInv, Few
<1> QED
  BY <1>1, Invariant, PTL

\* git is not asked for a worktree it refuses, whatever earlier attempts, cleanups
\* and crashes left behind.
THEOREM WorktreesCanBeAdded == Spec => []WorktreeCanBeAdded
<1>1. IInv => WorktreeCanBeAdded
  BY Zenon DEF IInv, Tidy, WorktreeCanBeAdded, CanAdd
<1> QED
  BY <1>1, Invariant, PTL

\* The agent a drive waits for was asked for what the task's state needs.
THEOREM AwaitedAgentsWereAsked == Spec => []AwaitedAgentWasAsked
<1>1. IInv => AwaitedAgentWasAsked
  BY DEF IInv, Asked, Served, AwaitedAgentWasAsked
<1> QED
  BY <1>1, Invariant, PTL

\* A blocked agent is given up in time.
THEOREM BlockedStaysBounded == Spec => []BlockedIsBounded
<1>1. IInv => BlockedIsBounded
  BY WaitAssumption
     DEF IInv, TypeOK, WaitTypeOK, Timer, Clocks, AtRest, BlockedRuns, BlockedIsBounded
<1> QED
  BY <1>1, Invariant, PTL

\* An agent that shows nothing is given up within two windows.
THEOREM SilenceStaysBounded == Spec => []SilenceIsBounded
<1>1. IInv => SilenceIsBounded
  BY WaitAssumption
     DEF IInv, TypeOK, WaitTypeOK, Timer, Clocks, AtRest, Window, SilenceIsBounded
<1> QED
  BY <1>1, Invariant, PTL

-----------------------------------------------------------------------------
\* A delivery that is called a success left the agent with the kickoff, or in front
\* of a dialog: what an agent works at is what it was asked.
THEOREM KickoffsAreHonest == Spec => KickoffIsHonest
<1> DEFINE Honest == post.step = "wait" /\ post'.step = "took"
                       => agents[handle].asked = stage \/ agents[handle].status = "blocked"
<1>1. ASSUME IInv, Next
      PROVE  Honest
  <2> SUFFICES ASSUME post.step = "wait", post'.step = "took"
               PROVE  agents[handle].asked = stage \/ agents[handle].status = "blocked"
    OBVIOUS
  <2>1. post' # NoPost /\ post' # [NoPost EXCEPT !.step = "prompt"] /\ post' # post /\ post' # Lost
    BY DEF NoPost, Lost
  <2>2. Deliver(stage)
    BY <1>1, <2>1, StepKinds, ZenonT(60)
       DEF Tree, CloseOld, CleanClose, CloseFirst, CreateWorkspace, Launch,
           AgentDetected, SpawnReturns, StartDrive, Reconcile, Reuse, SpawnAnew, Record,
           Arm, SpawnFailed, DriveErrs, SettledCleansUp, DaemonDies, Waits, Rests,
           InDrive, BeginSpawn, BeginCleanup
  <2>3. PromptTakes(stage)
    <3>1. post'.step \notin {"prompt", "lost"}
      BY DEF Lost
    <3>2. ~Prompt(stage) /\ ~PromptFails
      BY <3>1 DEF Prompt, PromptFails, Delivery, Lost
    <3>3. ~PromptStalls
      BY <1>1, <3>1 DEF PromptStalls, Delivery, Lost, IInv, TypeOK, HerdrTypeOK
    <3> QED
      BY <2>2, <3>2, <3>3 DEF Deliver
  <2>4. op = "deliver" /\ agents[handle].status \in {"working", "blocked"}
    BY <2>3 DEF PromptTakes, Delivery, Acted
  <2> QED
    BY <1>1, <2>4 DEF IInv, Asked, Launching
<1>2. ASSUME UNCHANGED vars
      PROVE  Honest
  BY <1>2 DEF vars, herdrVars
<1> QED
  BY <1>1, <1>2, Invariant, PTL DEF Spec, KickoffIsHonest

\* No agent is suspected within a window in which it showed something.
THEOREM SuspectsAreStill == Spec => SuspectIsStill
<1> DEFINE Quiescent == op = "select" /\ op' = "classify" => still >= NoProgress
<1>1. ASSUME IInv, Next
      PROVE  Quiescent
  <2> SUFFICES ASSUME op = "select", op' = "classify"
               PROVE  still >= NoProgress
    OBVIOUS
  <2>1. Wait
    BY <1>1, WaitingKinds, DeathClocks, WorldRests DEF Waiting, Rests, Quits
  <2>2. progress = 0 /\ ~changed
    BY <2>1, ZenonT(60)
       DEF Wait, WaitStep, TimeoutFires, BlockedFires, Confirm, Moved, Unread, Carry,
           Leave, GiveUp, SaysWorking, SaysFinished, EventDone, EventIdle, EventBlocked,
           EventWorking, Event, WaitErrs, WaitFails, AgentStage
  <2> QED
    BY <1>1, <2>2, WaitAssumption DEF IInv, TypeOK, WaitTypeOK, Clocks, Window, Waiting
<1>2. ASSUME UNCHANGED vars
      PROVE  Quiescent
  BY <1>2 DEF vars, herdrVars
<1> QED
  BY <1>1, <1>2, Invariant, PTL DEF Spec, SuspectIsStill

\* Where an audit row records the state's entry, no wait goes on beyond the state's
\* timeout, whatever restarts it went through.
THEOREM TimeoutsOutliveRestarts == Spec => TimeoutOutlivesRestarts
<1> DEFINE InTime == entered /\ since' > since /\ op \in Waiting => since < StateTimeout
<1>1. ASSUME IInv, Next
      PROVE  InTime
  <2> SUFFICES ASSUME entered, since' > since, op \in Waiting
               PROVE  since < StateTimeout
    OBVIOUS
  <2>1. since \in Nat /\ since' # since /\ since' # 0
    BY <1>1 DEF IInv, TypeOK, WaitTypeOK
  <2>2. Tick
    <3>1. World
      BY <1>1, <2>1, WaitingKinds, WaitClocks, DeathClocks DEF Quits, Looks, Hears, Goes
    <3> QED
      BY <2>1, <3>1, ZenonT(60)
         DEF World, MessageTask, AgentStirs, AgentWorks, Outside, Loss, WritesBack,
             Seen, Poll, Clock, waitVars, histVars
  <2> QED
    BY <1>1, <2>1, <2>2, WaitAssumption
       DEF IInv, TypeOK, WaitTypeOK, Timer, Clocks, StageRuns, Tick, Waiting
<1>2. ASSUME IInv, UNCHANGED vars
      PROVE  InTime
  <2>1. since' = since /\ since \in Nat
    BY <1>2 DEF vars, waitVars, IInv, TypeOK, WaitTypeOK
  <2> QED
    BY <2>1
<1> QED
  BY <1>1, <1>2, Invariant, PTL DEF Spec, TimeoutOutlivesRestarts

\* Inside a blocked window, only an agent that is done passes the gate.
THEOREM ParkedIsNeverDone == Spec => ParkedIsNotDone
<1> DEFINE Gate == stage = "implementing" /\ stage' = "pr_open" /\ op \in Waiting /\ parked > 0
                     => queue # <<>> /\ Head(queue) = "done"
<1>1. ASSUME IInv, Next
      PROVE  Gate
  <2> SUFFICES ASSUME stage = "implementing", stage' = "pr_open", op \in Waiting, parked > 0
               PROVE  queue # <<>> /\ Head(queue) = "done"
    OBVIOUS
  <2>1. ~Decides /\ blocked # Off
    BY <1>1 DEF Decides, IInv, Clocks, BlockedRuns
  <2>2. Wait
    BY <1>1, WaitingKinds, WorldRests DEF DaemonDies, Rests
  <2>3. stage' # stage /\ stage' # "escalated" /\ ~IdleArtifact
    BY <2>1 DEF IdleArtifact
  <2>4. EventDone
    BY <2>2, <2>3, ZenonT(60)
       DEF Wait, WaitStep, TimeoutFires, BlockedFires, Confirm, Moved, Unread, Suspect,
           Carry, Leave, GiveUp, SaysWorking, SaysFinished, EventIdle, EventBlocked,
           EventWorking, WaitErrs, WaitFails
  <2> QED
    BY <2>4 DEF EventDone, Event
<1>2. ASSUME UNCHANGED vars
      PROVE  Gate
  BY <1>2 DEF vars, waitVars
<1> QED
  BY <1>1, <1>2, Invariant, PTL DEF Spec, ParkedIsNotDone

=============================================================================
