----------------------------- MODULE Validation -----------------------------
(***************************************************************************)
(* What internal/config accepts as a workflow: semanticChecks, one step    *)
(* per pass over the whole workflow, one per step of the two graph         *)
(* searches (Tarjan's components for the cycles, a depth-first search for  *)
(* what the entry state reaches).                                          *)
(***************************************************************************)
EXTENDS Naturals, FiniteSets, SequencesExt

CONSTANTS
    Name,        \* names states are declared by or transitions lead to
    Workflows,   \* the workflows to validate, by family, well-formed for the schema
    None,        \* an absent name
    MinDeadline  \* minDriveDeadline, in the unit timeouts are given in

ASSUME MinDeadlineAssumption == MinDeadline \in Nat \ {0}
ASSUME NoneAssumption == None \notin Name

(***************************************************************************)
(* A workflow w declares                                                   *)
(*   w.entry       its entry_state, or None                                *)
(*   w.states      by name: entry (which of spawn, resume and merge its    *)
(*                 entry has), roles (those it names), transitions,        *)
(*                 terminal, alert, waitFor                                *)
(*   w.roles, w.gates (type and since, by name), w.decisions (verdicts, by *)
(*                 name), w.caps (the names retry_caps has)                *)
(*   w.noProgress  the window in effect, 0 for "0s"                        *)
(*   w.deadline    the explicit drive_deadline as a set, {} if absent      *)
(* and a transition t declares when (an event, or the kind of trigger),    *)
(* after (how long, for a timeout), the decision and the gates it refers   *)
(* to, and one of to, branch and an alert.  WellFormed is what the schema  *)
(* sees to before (workflow.schema.json), as far as it matters here.       *)
(***************************************************************************)
VARIABLES
    wf,      \* the workflow under validation
    pc,      \* the check that is next, then the verdict
    valid,   \* no check has failed so far
    graph,   \* buildGraph: by state, where its transitions lead
    index,   \* tarjanSCC: by visited state, when it was visited
    low,     \* and the lowest index it is known to lead back to
    stack,   \* and the states not yet in a component
    calls,   \* and the calls of strong: the state, its edges left to follow
    sccs,    \* and the components found
    seen,    \* checkReachability: the states reached
    todo     \* and its stack

tarjanVars == <<index, low, stack, calls, sccs>>
searchVars == <<seen, todo>>
configVars == <<wf, pc, valid, graph, tarjanVars, searchVars>>

AllTransitions(st) == ToSet(st.transitions)
Declared(w)        == DOMAIN w.states

\* What an undeclared name stands for in Go's map: a state without anything.
State(w, n) ==
    IF n \in Declared(w) THEN w.states[n]
    ELSE [entry |-> {}, roles |-> {}, transitions |-> <<>>, terminal |-> FALSE,
          alert |-> FALSE, waitFor |-> FALSE]

hasAgent(st)             == st.entry \cap {"spawn", "resume"} # {}
HasTimeoutTransition(st) == \E t \in AllTransitions(st) : t.when = "timeout"
sideEffecting(w)         == {n \in Declared(w) : "merge" \in w.states[n].entry}

Timeouts(w) ==
    {t.after : t \in {u \in UNION {AllTransitions(w.states[n]) : n \in Declared(w)} :
                        u.when = "timeout"}}

\* Mutant: the targets of a transition are where it leads without a verdict.
ToTargets(t) == {t.to} \ {None}

Targets(t) == IF t.to # None THEN {t.to} ELSE Range(t.branch)

\* A transition has finitely many targets, and one of to, branch and an alert; it
\* refers to a decision or to gates in its evaluate, not to both, unless it is one of
\* those in its trigger.
WellFormed(w) ==
    /\ Declared(w) \subseteq Name
    /\ \A n \in Declared(w) :
         /\ w.states[n].transitions \in Seq(AllTransitions(w.states[n]))
         /\ \A t \in AllTransitions(w.states[n]) :
              /\ Targets(t) \subseteq Name /\ IsFiniteSet(Targets(t))
              /\ t.to # None => DOMAIN t.branch = {} /\ ~t.alert
              /\ DOMAIN t.branch # {} => ~t.alert
              /\ t.when \notin {"decision", "gate"} => t.decision = None \/ t.gates = {}
    /\ Timeouts(w) \subseteq Nat /\ IsFiniteSet(Timeouts(w))
    /\ w.deadline \subseteq Nat

ASSUME WorkflowsAssumption ==
    \A family \in DOMAIN Workflows : \A w \in Workflows[family] : WellFormed(w)

\* An edge per target, undeclared ones included.
buildGraph(w) ==
    [n \in Name |->
       FlattenSeq([k \in DOMAIN State(w, n).transitions |->
                     SetToSeq(Targets(State(w, n).transitions[k]))])]

TypeOK ==
    /\ Declared(wf) \subseteq Name
    /\ pc \in {"shape", "cycles", "reach", "accepted", "rejected"}
    /\ valid \in BOOLEAN
    /\ graph \in [Name -> Seq(Name)]
    /\ DOMAIN index \subseteq Name /\ DOMAIN low = DOMAIN index
    /\ \A n \in DOMAIN index : low[n] <= index[n] /\ index[n] < Cardinality(DOMAIN index)
    /\ ToSet(stack) \subseteq DOMAIN index
    /\ \A k \in DOMAIN calls : calls[k].state \in ToSet(stack)
    /\ \A c \in sccs : c \subseteq DOMAIN index \ ToSet(stack)
    /\ seen \subseteq Name
    /\ ToSet(todo) \subseteq Name

Init ==
    /\ \E family \in DOMAIN Workflows : wf \in Workflows[family]
    /\ pc = "shape"
    /\ valid = TRUE
    /\ graph = [n \in Name |-> <<>>]
    /\ index = [n \in {} |-> 0] /\ low = index
    /\ stack = <<>> /\ calls = <<>> /\ sccs = {}
    /\ seen = {} /\ todo = <<>>

-----------------------------------------------------------------------------
(***************************************************************************)
(* The checks that take the transitions one by one.                        *)
(***************************************************************************)
checkRefs(w) ==
    \A n \in Declared(w) :
        /\ w.states[n].roles \subseteq w.roles
        /\ \A t \in AllTransitions(w.states[n]) :
             /\ t.decision \in DOMAIN w.decisions \cup {None}
             /\ t.gates \subseteq DOMAIN w.gates
             /\ Targets(t) \subseteq Declared(w)

\* A branch has exactly the verdicts of the decision, or else pass and fail of
\* the gates, and whoever refers to either has a branch or an alert.
checkBranches(w) ==
    \A n \in Declared(w) : \A t \in AllTransitions(w.states[n]) :
        LET keys == DOMAIN t.branch IN
        IF keys = {} THEN (t.decision # None \/ t.gates # {}) => t.alert
        ELSE \/ t.decision \in DOMAIN w.decisions /\ keys = w.decisions[t.decision]
             \/ t.decision = None /\ t.gates # {} /\ keys = {"pass", "fail"}

\* The schema already admits no other gate types.
checkSources(w) ==
    \A g \in Range(w.gates) :
        /\ g.type \in {"github_pr", "github_checks", "github_reviews",
                       "github_mergeable", "github_commits"}
        /\ g.type = "github_commits" => g.since = "state_entry"

\* Mutant: a merge may be entered on a verdict.
checkMergeByTo(w) ==
    \A n \in Declared(w) : \A t \in AllTransitions(w.states[n]) :
        t.gates = {} => ToTargets(t) \cap sideEffecting(w) = {}

checkMergeGated(w) ==
    \A n \in Declared(w) : \A t \in AllTransitions(w.states[n]) :
        t.gates = {} => Targets(t) \cap sideEffecting(w) = {}

CheckShape ==
    /\ pc = "shape"
    /\ valid' = (checkRefs(wf) /\ checkBranches(wf) /\ checkSources(wf) /\ checkMergeGated(wf))
    /\ pc' = "cycles"
    /\ graph' = buildGraph(wf)
    /\ UNCHANGED <<wf, tarjanVars, searchVars>>

-----------------------------------------------------------------------------
(***************************************************************************)
(* tarjanSCC: the calls of strong are kept on a stack of their own.        *)
(***************************************************************************)
Minimum(a, b) == IF a < b THEN a ELSE b

\* strong(v) begins.
Call(v, callers) ==
    /\ index' = [n \in DOMAIN index \cup {v} |->
                   IF n = v THEN Cardinality(DOMAIN index) ELSE index[n]]
    /\ low' = [n \in DOMAIN index' |-> IF n = v THEN index'[v] ELSE low[n]]
    /\ stack' = Append(stack, v)
    /\ calls' = Append(callers, [state |-> v, edges |-> graph[v]])
    /\ UNCHANGED <<wf, pc, valid, graph, sccs, searchVars>>

\* The order of the roots decides nothing; the code takes them sorted.
CallRoot ==
    LET left == Declared(wf) \ DOMAIN index IN
    /\ pc = "cycles"
    /\ calls = <<>>
    /\ left # {}
    /\ Call(CHOOSE n \in left : TRUE, <<>>)

\* Mutant: an edge back to a state that is in a component already counts.
BackToAny(v, u) == Minimum(low[v], index[u])

\* An edge to a visited state leads back only while that state is on the stack.
BackTo(v, u) == IF u \in ToSet(stack) THEN Minimum(low[v], index[u]) ELSE low[v]

FollowEdge ==
    /\ pc = "cycles"
    /\ calls # <<>>
    /\ Last(calls).edges # <<>>
    /\ LET v == Last(calls).state
           u == Head(Last(calls).edges)
           callers == [calls EXCEPT ![Len(calls)].edges = Tail(@)]
       IN  IF u \notin DOMAIN index
             THEN Call(u, callers)
             ELSE /\ low' = [low EXCEPT ![v] = BackTo(v, u)]
                  /\ calls' = callers
                  /\ UNCHANGED <<wf, pc, valid, graph, index, stack, sccs, searchVars>>

\* Mutant: a component is found but left on the stack.
ReturnKeepsStack ==
    /\ pc = "cycles"
    /\ calls # <<>>
    /\ Last(calls).edges = <<>>
    /\ LET v == Last(calls).state
           from == SelectInSeq(stack, LAMBDA n : n = v)
       IN  /\ sccs' = IF low[v] = index[v]
                        THEN sccs \cup {ToSet(SubSeq(stack, from, Len(stack)))} ELSE sccs
           /\ calls' = Front(calls)
           /\ low' = IF calls' = <<>> THEN low
                     ELSE [low EXCEPT ![Last(calls').state] = Minimum(@, low[v])]
    /\ UNCHANGED <<wf, pc, valid, graph, index, stack, searchVars>>

\* strong(v) ends: a root of a component takes it off the stack, and the caller
\* takes over what v leads back to.
Return ==
    /\ pc = "cycles"
    /\ calls # <<>>
    /\ Last(calls).edges = <<>>
    /\ LET v == Last(calls).state
           from == SelectInSeq(stack, LAMBDA n : n = v)
       IN  /\ IF low[v] = index[v]
                THEN /\ sccs' = sccs \cup {ToSet(SubSeq(stack, from, Len(stack)))}
                     /\ stack' = SubSeq(stack, 1, from - 1)
                ELSE UNCHANGED <<sccs, stack>>
           /\ calls' = Front(calls)
           /\ low' = IF calls' = <<>> THEN low
                     ELSE [low EXCEPT ![Last(calls').state] = Minimum(@, low[v])]
    /\ UNCHANGED <<wf, pc, valid, graph, index, searchVars>>

-----------------------------------------------------------------------------
\* Mutant: a state that leads to itself is not taken for a cycle.
CyclicIfMany(c) == Cardinality(c) > 1

\* A component is cyclic if it has several states, or one that leads to itself.
Cyclic(c) == Cardinality(c) > 1 \/ \E n \in c : n \in ToSet(graph[n])

Bounding(w, n) == n \in w.caps \/ HasTimeoutTransition(State(w, n))

checkLoopsTerminate(w, comps) ==
    \A c \in comps : Cyclic(c) => \E n \in c : Bounding(w, n)

checkExits(w) ==
    \A n \in Declared(w) :
        w.states[n].terminal \/ w.states[n].waitFor \/ w.states[n].transitions # <<>>

\* The cycles are judged once all components are known.  An absent entry_state
\* is only warned about, an undeclared one is an error.
CheckCycles ==
    /\ pc = "cycles"
    /\ calls = <<>>
    /\ Declared(wf) \subseteq DOMAIN index
    /\ valid' = (/\ valid
                 /\ checkLoopsTerminate(wf, sccs)
                 /\ checkExits(wf)
                 /\ wf.entry \in Declared(wf) \cup {None})
    /\ pc' = "reach"
    /\ todo' = IF wf.entry \in Declared(wf) THEN <<wf.entry>> ELSE <<>>
    /\ UNCHANGED <<wf, graph, tarjanVars, seen>>

\* Mutant: the search does not come back to the states it left for later.
ReachLast ==
    /\ pc = "reach"
    /\ todo # <<>>
    /\ seen' = seen \cup {Last(todo)}
    /\ todo' = IF Last(todo) \in seen THEN <<>> ELSE graph[Last(todo)]
    /\ UNCHANGED <<wf, pc, valid, graph, tarjanVars>>

Reach ==
    /\ pc = "reach"
    /\ todo # <<>>
    /\ seen' = seen \cup {Last(todo)}
    /\ todo' = IF Last(todo) \in seen THEN Front(todo)
               ELSE Front(todo) \o graph[Last(todo)]
    /\ UNCHANGED <<wf, pc, valid, graph, tarjanVars>>

-----------------------------------------------------------------------------
(***************************************************************************)
(* Bounds on time.                                                         *)
(***************************************************************************)
checkAgentStatesBounded(w) ==
    \/ w.noProgress > 0
    \/ \A n \in Declared(w) : hasAgent(w.states[n]) => HasTimeoutTransition(w.states[n])

LongestStateTimeout(w) ==
    CHOOSE d \in Timeouts(w) \cup {0} : \A e \in Timeouts(w) : e <= d

\* Mutant: a deadline that is as long as a timeout will do.
checkDeadlineNotBelow(w) == \A d \in w.deadline : d >= LongestStateTimeout(w)

checkDriveDeadline(w) ==
    \A d \in w.deadline : LongestStateTimeout(w) > 0 => d > LongestStateTimeout(w)

ResolveDriveDeadline(w) ==
    IF w.deadline # {} THEN CHOOSE d \in w.deadline : TRUE
    ELSE IF 2 * LongestStateTimeout(w) > MinDeadline THEN 2 * LongestStateTimeout(w)
    ELSE MinDeadline

Conclude ==
    /\ pc = "reach"
    /\ todo = <<>>
    /\ pc' = IF valid /\ checkAgentStatesBounded(wf) /\ checkDriveDeadline(wf)
               THEN "accepted" ELSE "rejected"
    /\ UNCHANGED <<wf, valid, graph, tarjanVars, searchVars>>

semanticChecks ==
    CheckShape \/ CallRoot \/ FollowEdge \/ Return \/ CheckCycles \/ Reach \/ Conclude

-----------------------------------------------------------------------------
(***************************************************************************)
(* Properties.                                                             *)
(***************************************************************************)

\* A path leads from n to m, be it of no transition at all: m is in every set of
\* states that holds n and that no transition leaves.
Leads(n, m) ==
    \A S \in SUBSET Name :
        n \in S /\ (\A k \in S : ToSet(graph[k]) \subseteq S) => m \in S

\* From every state on a cycle of an accepted workflow a task can come by a state
\* with a retry cap or a timeout and return.  (A bound for each component is what
\* is checked: a cycle inside a component that has its bound elsewhere passes.)
LoopsMeetABound ==
    pc = "accepted" =>
        \A n \in Declared(wf) :
            (\E k \in ToSet(graph[n]) : Leads(k, n)) =>
                \E m \in Name : Bounding(wf, m) /\ Leads(n, m) /\ Leads(m, n)

\* Both searches of the graph find what they are for: Tarjan's one pass finds
\* exactly the classes of states that lead to one another, which `plan` shows and
\* the check of the cycles relies on, and the states not seen, which the operator
\* is warned about, are those no path leads to from the entry state.
SearchesAreRight ==
    /\ pc = "reach" /\ seen = {} =>
         sccs = {{m \in Name : Leads(n, m) /\ Leads(m, n)} : n \in DOMAIN index}
    /\ pc \in {"accepted", "rejected"} /\ wf.entry \in Declared(wf) =>
         seen = {n \in Name : Leads(wf.entry, n)}

\* In a workflow that was accepted the reaper's deadline for a drive is longer
\* than every state's own timeout, and so never preempts one; and where there is
\* a timeout to wait for, the reaper is not disabled by a deadline of "0s".
DeadlineIsBackstop ==
    pc = "accepted" =>
        \A d \in Timeouts(wf) \ {0} : d < ResolveDriveDeadline(wf)

=============================================================================
