----------------------------- MODULE TaskRecord -----------------------------
(***************************************************************************)
(* What the engine promises about the one record of a task that outlives   *)
(* its drives, however many of them crash, fail or are cancelled in        *)
(* between: each write of it is a whole step of the workflow, made once.   *)
(***************************************************************************)
EXTENDS Workflow

VARIABLES
    task,   \* the record: its state, whether its PR is known, the state its agent
            \* was recorded for, the rounds counted, whether it is a dry run
    merged  \* GitHub says that the task's PR is merged

NoRounds == [s \in DOMAIN RetryCap |-> 0]

Init ==
    /\ task = [state |-> NoState, pr |-> FALSE, spawn |-> NoState,
               retries |-> NoRounds, dry |-> FALSE]
    /\ merged = FALSE

Open == task.state \in State /\ ~isSettled(task.state)
Declared == Graph[task.state]

\* The agent of this state has yet to be recorded, and its round to be counted.
NewRound ==
    /\ task.state \in DOMAIN RetryCap
    /\ Declared.entry = "resume"
    /\ task.spawn # task.state
OneMore == [task.retries EXCEPT ![task.state] = @ + 1]

MovesTo(s, retries) ==
    \E pr \in {task.pr, TRUE} :
        task' = [task EXCEPT !.state = s, !.pr = pr, !.retries = retries]

Create ==
    /\ task.state = NoState
    /\ \E dry \in BOOLEAN : task' = [task EXCEPT !.state = EntryState, !.dry = dry]

\* The round is counted in the write that records its agent.
AgentSpawned ==
    /\ Open
    /\ stateHasAgent(task.state)
    /\ NewRound => OneMore[task.state] <= RetryCap[task.state]
    /\ task' = [task EXCEPT !.spawn = task.state,
                            !.retries = IF NewRound THEN OneMore ELSE @]

PRFound ==
    /\ Open
    /\ task' = [task EXCEPT !.pr = TRUE]

\* A trigger the state declares; an agent's work passes its gates with a PR.
Follow ==
    /\ Open
    /\ \/ \E s \in {Declared.auto, Declared.timeout} \ {NoState} : MovesTo(s, task.retries)
       \/ "fail" \in DOMAIN Declared.watch /\ MovesTo(Declared.watch["fail"], task.retries)
       \/ \E v \in DOMAIN Declared.done :
             /\ MovesTo(Declared.done[v], task.retries)
             /\ v = "pass" /\ ~Declared.decides => task'.pr

Exhaust ==
    /\ Open
    /\ NewRound
    /\ OneMore[task.state] > RetryCap[task.state]
    /\ Declared.exhausted # NoState
    /\ MovesTo(Declared.exhausted, OneMore)

GatesPass ==
    /\ Open
    /\ task.pr
    /\ "pass" \in DOMAIN Declared.watch
    /\ MovesTo(Declared.watch["pass"], task.retries)

MergeConfirmed ==
    /\ Open
    /\ Merging(task.state)
    /\ merged /\ task.pr /\ ~task.dry
    /\ Declared.merged # NoState
    /\ MovesTo(Declared.merged, task.retries)

\* A person cancels the task, or it escalates.  A drive that is cancelled while it
\* goes to s escalates from there, and passes s over.
GiveUp ==
    /\ Open
    /\ \E s \in {task.state} \cup Targets(task.state) :
       \E t \in {Cancelled, escalationTarget(s)} :
       \E retries \in {task.retries} \cup IF NewRound THEN {OneMore} ELSE {} :
          MovesTo(t, retries)

\* Nothing of the attempt before is left.
StartOver ==
    /\ IsStopped(task.state)
    /\ task' = [task EXCEPT !.state = EntryState, !.pr = FALSE, !.spawn = NoState,
                            !.retries = NoRounds]

Write ==
    \/ Create \/ AgentSpawned \/ PRFound
    \/ Follow \/ Exhaust \/ GatesPass \/ MergeConfirmed \/ GiveUp \/ StartOver

Next ==
    \/ Write /\ UNCHANGED merged
    \/ merged' \in BOOLEAN /\ UNCHANGED task

Spec == Init /\ [][Next]_<<task, merged>>
=============================================================================
