-------------------------------- MODULE Herdr --------------------------------
(***************************************************************************)
(* The herdr backend (internal/exec/herdr.go) for one task: the git        *)
(* worktree and the herdr workspace of its agent, made by Spawn and removed *)
(* by Cleanup, and the delivery of text into the agent's pane.             *)
(*                                                                         *)
(* Each command that git or herdr is asked for is a step: it may fail, the  *)
(* daemon may die around it, and the agents go on between two of them.  The *)
(* task's label is the only one, so that a workspace is told by its pane.   *)
(* Who calls the backend, and when, is in module AgentSession.              *)
(***************************************************************************)
EXTENDS Naturals, FiniteSets

CONSTANTS
    MaxSpawns,  \* bound: workspaces ever made
    MaxTries,   \* how many attempts fit into KickoffAckTimeout
    MaxFaults   \* bound: calls that fail by themselves, deaths of the daemon,
                \* and workspaces lost

ASSUME HerdrAssumption ==
    MaxSpawns \in Nat \ {0} /\ MaxTries \in Nat \ {0} /\ MaxFaults \in Nat

VARIABLES
    agents,   \* the workspaces with the task's label: the agent in each pane
    made,     \* the panes there ever were: 1..made
    dir,      \* the worktree's directory is there
    reg,      \* git has it in its registry, with the task's branch checked out
    br,       \* the local branch exists
    op,       \* the drive's next step, in the backend or around it
    handle,   \* the pane the drive works with, or 0
    hurt,     \* history: something went wrong since this Spawn or Cleanup began
    post,     \* the delivery of a kickoff
    faults    \* history: how many faults there were

spaceVars == <<agents, made>>
gitVars   == <<dir, reg, br>>
herdrVars == <<agents, made, dir, reg, br, op, handle, hurt, post, faults>>

Pane == 1..MaxSpawns
\* ready: its input box is drawn; asked: the kickoff it got, or herdr says it got;
\* todo: it has text it has not turned to.
Gone == [status |-> "gone", ready |-> FALSE, asked |-> "nothing", todo |-> FALSE]
Live == {p \in Pane : agents[p].status # "gone"}

\* deliverKickoff: the next step, or "took" or "lost" at its end; attempts made.
NoPost == [step |-> "none", tries |-> 0]
Lost   == [step |-> "lost", tries |-> 0]

Spawning == {"remove", "removeall", "prune", "unbranch", "close", "add",
             "create", "launch", "detect", "deliver"}
Cleaning == {"find", "cleantree", "cleanclose"}

HerdrTypeOK(Kickoff) ==
    /\ agents \in [Pane -> [status : {"gone", "shell", "starting", "idle", "working",
                                      "blocked", "done"},
                            ready : BOOLEAN, asked : {"nothing"} \cup Kickoff, todo : BOOLEAN]]
    /\ made \in 0..MaxSpawns
    /\ dir \in BOOLEAN /\ reg \in BOOLEAN /\ br \in BOOLEAN
    /\ handle \in 0..MaxSpawns
    /\ hurt \in BOOLEAN
    /\ post \in [step : {"none", "prompt", "wait", "took", "lost"}, tries : 0..MaxTries]
    /\ faults \in 0..MaxFaults

HerdrInit ==
    /\ agents = [p \in Pane |-> Gone] /\ made = 0
    /\ dir = FALSE /\ reg = FALSE /\ br = FALSE
    /\ op = "off" /\ handle = 0 /\ hurt = FALSE
    /\ post = NoPost
    /\ faults = 0

-----------------------------------------------------------------------------
Step(from, next) == op = from /\ op' = next

\* A call fails by itself, and the backend goes on with next.
Fault == faults < MaxFaults /\ faults' = faults + 1
Fails(from, next) ==
    /\ Step(from, next) /\ Fault /\ hurt' = TRUE
    /\ UNCHANGED <<spaceVars, gitVars, handle, post>>

(***************************************************************************)
(* Spawn: first what an earlier attempt left is removed, best effort.       *)
(***************************************************************************)
BeginSpawn ==
    /\ op' = "remove" /\ hurt' = FALSE /\ handle' = 0
    /\ UNCHANGED <<spaceVars, gitVars, post, faults>>

\* `git worktree remove --force` does nothing to a directory it does not know.
WorktreeRemove(from, next) ==
    /\ Step(from, next)
    /\ reg' = FALSE /\ dir' = (dir /\ ~reg)
    /\ UNCHANGED <<spaceVars, br, handle, hurt, post, faults>>

\* Mutant: a stray directory stays.
RemoveNothing ==
    /\ Step("removeall", "prune")
    /\ UNCHANGED <<spaceVars, gitVars, handle, hurt, post, faults>>

RemoveAll ==
    /\ Step("removeall", "prune")
    /\ dir' = FALSE
    /\ UNCHANGED <<spaceVars, reg, br, handle, hurt, post, faults>>

\* git forgets a worktree whose directory is gone.
Prune(preserve) ==
    /\ Step("prune", IF preserve THEN "close" ELSE "unbranch")
    /\ reg' = (reg /\ dir)
    /\ UNCHANGED <<spaceVars, dir, br, handle, hurt, post, faults>>

\* A branch that is checked out cannot be deleted.
DeleteBranch ==
    /\ Step("unbranch", "close")
    /\ br' = (br /\ reg)
    /\ UNCHANGED <<spaceVars, dir, reg, handle, hurt, post, faults>>

\* A workspace with the label is found first and closed.
CloseFirst(from, next) ==
    /\ Step(from, next)
    /\ \/ \E p \in Live : agents' = [agents EXCEPT ![p] = Gone]
       \/ Live = {} /\ UNCHANGED agents
    /\ UNCHANGED <<made, gitVars, handle, hurt, post, faults>>

\* Mutant: an earlier attempt's workspace stays.
CloseNothing ==
    /\ Step("close", "add")
    /\ UNCHANGED <<spaceVars, gitVars, handle, hurt, post, faults>>

CloseOld == CloseFirst("close", "add")

(***************************************************************************)
(* ... then the worktree, the workspace and its agent are made.             *)
(***************************************************************************)
\* git refuses a path that exists or is registered, and -b a branch that
\* exists.  A preserved branch is fetched from the remote first.
CanAdd(preserve) == ~dir /\ ~reg /\ (preserve \/ ~br)

AddWorktree(preserve) ==
    /\ op = "add"
    /\ IF CanAdd(preserve)
         THEN op' = "create" /\ dir' = TRUE /\ reg' = TRUE /\ br' = TRUE
         ELSE op' = "failed" /\ UNCHANGED gitVars
    /\ UNCHANGED <<spaceVars, handle, hurt, post, faults>>

CreateWorkspace ==
    /\ Step("create", "launch")
    /\ made < MaxSpawns
    /\ made' = made + 1 /\ handle' = made'
    /\ agents' = [agents EXCEPT ![made'] = [Gone EXCEPT !.status = "shell"]]
    /\ UNCHANGED <<gitVars, hurt, post, faults>>

Launch ==
    /\ Step("launch", "detect")
    /\ agents' = [agents EXCEPT ![handle].status = IF @ = "shell" THEN "starting" ELSE @]
    /\ UNCHANGED <<made, gitVars, handle, hurt, post, faults>>

(***************************************************************************)
(* awaitAgent: herdr detects an agent, or ReadyTimeout is over.  That it be *)
(* ready for input is waited for as well, but never insisted on.            *)
(***************************************************************************)
Detected(p) == agents[p].status \notin {"gone", "shell", "starting"}

AgentDetected ==
    /\ Step("detect", "deliver")
    /\ Detected(handle)
    /\ post' = [NoPost EXCEPT !.step = "prompt"]
    /\ UNCHANGED <<spaceVars, gitVars, handle, hurt, faults>>

NotDetected ==
    /\ Step("detect", "failed")
    /\ ~Detected(handle)
    /\ UNCHANGED <<spaceVars, gitVars, handle, hurt, post, faults>>

(***************************************************************************)
(* deliverKickoff.                                                          *)
(***************************************************************************)
Delivery(step, next) ==
    /\ op = "deliver" /\ post.step = step
    /\ post' = next
    /\ UNCHANGED <<made, gitVars, op, handle, hurt, faults>>

\* herdr types no text into a dialog (agent_blocked), nor where it knows no agent.
Takes(p) == Detected(p) /\ agents[p].status # "blocked"

\* A text submitted before the agent's input box is drawn is lost.
Typed(p, asked) ==
    IF agents[p].ready THEN [agents EXCEPT ![p].todo = TRUE, ![p].asked = asked] ELSE agents

Prompt(kickoff) ==
    \/ /\ Delivery("prompt", [step |-> "wait", tries |-> post.tries + 1])
       /\ Takes(handle)
       /\ agents' = Typed(handle, kickoff)
    \/ /\ Delivery("prompt", Lost)
       /\ ~Takes(handle)
       /\ UNCHANGED agents

\* Mutant: a kickoff that stalled is taken for delivered.
ActedOrStalled == TRUE

Acted == agents[handle].status \in {"working", "blocked"}

\* The agent works, or blocked right after the text was submitted.
PromptTakes(kickoff) ==
    /\ Delivery("wait", [post EXCEPT !.step = "took"])
    /\ Acted
    /\ agents' = [agents EXCEPT ![handle].asked = kickoff]

\* agent_prompt_stalled: the text is sent again while there is time left.
PromptStalls ==
    /\ \/ post.tries < MaxTries /\ Delivery("wait", [post EXCEPT !.step = "prompt"])
       \/ Delivery("wait", Lost)
    /\ ~Acted
    /\ UNCHANGED agents

\* Any other error of herdr's ends the delivery.
PromptFails ==
    /\ op = "deliver" /\ post.step \in {"prompt", "wait"}
    /\ post' = Lost
    /\ Fault
    /\ UNCHANGED <<spaceVars, gitVars, op, handle, hurt>>

Deliver(kickoff) == Prompt(kickoff) \/ PromptTakes(kickoff) \/ PromptStalls \/ PromptFails

\* Spawn returns.
SpawnReturns ==
    /\ Step("deliver", IF post.step = "took" THEN "record" ELSE "failed")
    /\ post.step \in {"took", "lost"}
    /\ post' = NoPost
    /\ UNCHANGED <<spaceVars, gitVars, handle, hurt, faults>>

(***************************************************************************)
(* Cleanup of a settled task: nothing is done where no workspace is found.  *)
(***************************************************************************)
BeginCleanup ==
    /\ op' = IF Live = {} THEN "off" ELSE "cleantree"
    /\ hurt' = FALSE
    /\ UNCHANGED <<spaceVars, gitVars, handle, post, faults>>

CleanTree  == WorktreeRemove("cleantree", "cleanclose")
CleanClose == CloseFirst("cleanclose", "off")

-----------------------------------------------------------------------------
BestEffort ==
    \/ Fails("remove", "removeall") \/ Fails("removeall", "prune")
    \/ Fails("unbranch", "close") \/ Fails("close", "add")
    \/ Fails("cleantree", "cleanclose")

Essential ==
    \/ Fails("add", "failed") \/ Fails("create", "failed")
    \/ Fails("launch", "failed") \/ Fails("cleanclose", "off")

SpawnStep(preserve, kickoff) ==
    \/ WorktreeRemove("remove", "removeall") \/ RemoveAll \/ Prune(preserve)
    \/ Fails("prune", IF preserve THEN "close" ELSE "unbranch")
    \/ DeleteBranch \/ CloseOld
    \/ AddWorktree(preserve) \/ CreateWorkspace \/ Launch
    \/ AgentDetected \/ NotDetected
    \/ Deliver(kickoff) \/ SpawnReturns

CleanupStep == CleanTree \/ CleanClose

HerdrStep(preserve, kickoff) ==
    \/ SpawnStep(preserve, kickoff) \/ CleanupStep \/ BestEffort \/ Essential

\* What the command under way has done when the daemon dies: git makes its entry
\* before a directory and removes it after.
Interrupted ==
    /\ \/ UNCHANGED <<dir, reg>>
       \/ /\ op \in {"remove", "cleantree"}
          /\ dir' = (dir /\ ~reg) /\ reg' \in {reg, FALSE}
       \/ op = "removeall" /\ dir' = FALSE /\ reg' = reg
       \/ op = "add" /\ dir' \in {dir, TRUE} /\ reg' = TRUE
    /\ br' = br \/ (op = "add" /\ br' = TRUE)

(***************************************************************************)
(* The agents, and whoever acts in their panes.                             *)
(***************************************************************************)
AgentIs(p, from, to) ==
    /\ agents[p].status \in from
    /\ agents' = [agents EXCEPT ![p].status = to]

AgentActs(p) ==
    \/ AgentIs(p, {"starting"}, "idle")                      \* its prompt shows
    \/ AgentIs(p, {"starting", "idle", "working"}, "blocked") \* a dialog is up
    \/ AgentIs(p, {"blocked"}, "idle")                       \* which may read as idle
    \/ agents[p].asked # "nothing" /\ AgentIs(p, {"blocked"}, "working") \* it was answered
    \/ AgentIs(p, {"working"}, "idle") \/ AgentIs(p, {"working"}, "done")
    \/ /\ agents[p].todo /\ agents[p].status \in {"idle", "done"}
       /\ agents' = [agents EXCEPT ![p].status = "working", ![p].todo = FALSE]
    \/ /\ ~agents[p].ready /\ Detected(p)                    \* its input box is drawn
       /\ agents' = [agents EXCEPT ![p].ready = TRUE]

\* An agent that lives while its worktree is removed writes into it all the same.
AgentWritesBack ==
    /\ \E p \in Live : agents[p].asked # "nothing"
    /\ ~dir /\ dir' = TRUE
    /\ hurt' = TRUE
    /\ UNCHANGED <<spaceVars, reg, br, op, handle, post, faults>>

WorkspaceLost ==
    /\ Fault
    /\ \E p \in Live : agents' = [agents EXCEPT ![p] = Gone]
    /\ UNCHANGED <<made, gitVars, op, handle, hurt, post>>

=============================================================================
