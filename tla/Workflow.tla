------------------------------ MODULE Workflow ------------------------------
(***************************************************************************)
(* The workflow graph the engine interprets, as a parameter: what the      *)
(* engine reads of each state of the configuration (internal/config), and  *)
(* the questions it derives from the graph, never from state names.        *)
(***************************************************************************)
EXTENDS Naturals

CONSTANTS
    State,      \* the workflow's states
    NoState,    \* no target, no row
    Cancelled,  \* CancelState, which no workflow declares
    EntryState, \* entry_state
    Graph,      \* what each state declares, see GraphAssumption
    RetryCap    \* policies.retry_caps: the capped states' caps

\* entry:     the entry action (entry.spawn, entry.resume, entry.action)
\* terminal:  "no", or the kind of terminal; "alert" is one flagged alert
\* auto:      target of an auto-fired event (scheduled)
\* done:      branches of agent.done, by verdict
\* decides:   agent.done evaluates a decision, else gates
\* commits:   those gates ask for commits since the state was entered
\* watch:     branches of status.changed, by verdict of the merge gates
\* timeout, exhausted, merged: targets of timeout, retry_exhausted, pr.merged
ASSUME GraphAssumption ==
    \A s \in State :
        /\ Graph[s].entry \in {"none", "spawn", "resume", "merge"}
        /\ Graph[s].terminal \in {"no", "success", "rejected", "alert"}
        /\ \A v \in DOMAIN Graph[s].done : Graph[s].done[v] \in State
        /\ \A v \in DOMAIN Graph[s].watch : Graph[s].watch[v] \in State
        /\ {Graph[s].auto, Graph[s].timeout, Graph[s].exhausted, Graph[s].merged}
              \subseteq State \cup {NoState}

\* What every workflow here fulfils: the engine can make progress in every state,
\* and a gate has a branch for each of its verdicts.  Most of it is checked before
\* a workflow is driven (config.Validate's transition checks, CheckExecutable).
ASSUME ExecutableAssumption ==
    \A s \in State :
        LET st == Graph[s] IN
        /\ DOMAIN st.watch \in {{}, {"pass", "fail"}}
        /\ ~st.decides => DOMAIN st.done \in {{}, {"pass", "fail"}}
        /\ st.terminal = "no" =>
              \/ st.entry = "merge"
              \/ st.auto # NoState
              \/ st.entry \in {"spawn", "resume"} /\ DOMAIN st.done # {}
              \/ DOMAIN st.watch # {}

ASSUME StateAssumption ==
    /\ EntryState \in State
    /\ NoState \notin State
    /\ Cancelled \notin State
    /\ Cancelled # NoState
    /\ DOMAIN RetryCap \subseteq State
    /\ \A s \in DOMAIN RetryCap : RetryCap[s] \in Nat

isTerminal(s) == s \in State /\ Graph[s].terminal # "no"
isSettled(s)  == s = Cancelled \/ isTerminal(s)
isAlert(s)    == s \in State /\ Graph[s].terminal = "alert"
IsStopped(s)  == s = Cancelled \/ isAlert(s)
stateHasAgent(s) == s \in State /\ Graph[s].entry \in {"spawn", "resume"}
Merging(s)    == s \in State /\ Graph[s].entry = "merge"

\* The daemon's settledStates: with dry_run on, a merge state counts too.
settledStates(dry) == {s \in State \cup {Cancelled} : isSettled(s) \/ (dry /\ Merging(s))}

\* A workflow with several alert terminals has a fixed one among them chosen.
alertTerminal ==
    IF \E s \in State : isAlert(s) THEN CHOOSE s \in State : isAlert(s) ELSE NoState

escalationTarget(s) ==
    IF s \in State /\ Graph[s].timeout # NoState THEN Graph[s].timeout
    ELSE IF alertTerminal # NoState THEN alertTerminal
    ELSE Cancelled

-----------------------------------------------------------------------------
(***************************************************************************)
(* What a workflow may have on top of that.  Some of the engine's promises  *)
(* depend on the workflow: they hold where it has the right one of these.   *)
(***************************************************************************)
MergedStates == {Graph[s].merged : s \in State} \ {NoState}

\* Where transitions of s lead, but for the passing of a merge gate and a merge.
PlainTargets(s) ==
    ({Graph[s].auto, Graph[s].timeout, Graph[s].exhausted}
       \cup {Graph[s].done[v] : v \in DOMAIN Graph[s].done}
       \cup {Graph[s].watch[v] : v \in DOMAIN Graph[s].watch \ {"pass"}}) \ {NoState}

\* A merge is only entered through merge gates that pass, and not by reconcile.
MergesByGates ==
    \A m \in State : Merging(m) /\ ~isSettled(m) =>
        /\ m # EntryState
        /\ \A s \in State : m \notin PlainTargets(s) \cup {Graph[s].merged}

\* Only a merge leads to where a task counts as merged, and there it is left alone.
MergedByMerge ==
    \A m \in MergedStates :
        /\ m # EntryState /\ ~isAlert(m)
        /\ \A s \in State :
             /\ m \notin PlainTargets(s)
             /\ \A v \in DOMAIN Graph[s].watch : m # Graph[s].watch[v]

\* Every state a task may go to from s, and those it may go to before an agent has
\* been spawned for it there.
Targets(s) ==
    PlainTargets(s) \cup {Graph[s].watch[v] : v \in DOMAIN Graph[s].watch}
      \cup ({Graph[s].merged} \ {NoState}) \cup {escalationTarget(s), Cancelled}

EarlyTargets(s) ==
    IF stateHasAgent(s)
      THEN ({Graph[s].exhausted} \ {NoState}) \cup {escalationTarget(s), Cancelled}
             \cup {Graph[s].done[v] : v \in IF s = "implementing"
                                             THEN DOMAIN Graph[s].done \cap {"pass"}
                                             ELSE {}}
      ELSE Targets(s)

\* The task can be in the states of R while its last agent is one of s.
Outlasts(s, R) ==
    /\ s \notin R
    /\ Targets(s) \subseteq R \cup {s}
    /\ \A p \in R \ {Cancelled} : EarlyTargets(p) \subseteq R

\* A task that left s comes back to s only after another state's agent was spawned.
SpawnsAnew(s) == \E R \in SUBSET (State \cup {Cancelled}) : Outlasts(s, R)

\* A decision is made by an agent, and another one each time the state is entered.
VerdictsAreAsked == \A s \in State : Graph[s].decides => stateHasAgent(s) /\ SpawnsAnew(s)

\* The rounds of a capped state are those of its agents.
RoundsAreSpawns ==
    \A s \in DOMAIN RetryCap :
        /\ Graph[s].entry = "resume" /\ SpawnsAnew(s)
        /\ s \notin {EntryState, "implementing", Graph[s].exhausted}
        /\ isSettled(escalationTarget(s))
        /\ \A p \in State : escalationTarget(p) # s

=============================================================================
