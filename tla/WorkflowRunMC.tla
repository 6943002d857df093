--------------------------- MODULE WorkflowRunMC ---------------------------
(***************************************************************************)
(* WorkflowRun on every workflow of three families: what two free states   *)
(* can declare before a merge and a terminal, the policies that bound      *)
(* time, and the graphs of four states with up to two edges each.          *)
(***************************************************************************)
EXTENDS WorkflowRun

Transition(when) ==
    [when |-> when, after |-> 0, decision |-> None, gates |-> {}, to |-> None,
     branch |-> [v \in {} |-> None], alert |-> FALSE]

To(when, n)       == [Transition(when) EXCEPT !.to = n]
After(d, n)       == [To("timeout", n) EXCEPT !.after = d]
AlertAfter(d)     == [Transition("timeout") EXCEPT !.after = d, !.alert = TRUE]
Gated(when, g, x, y) ==
    [Transition(when) EXCEPT !.gates = {g},
        !.branch = [v \in {"pass", "fail"} |-> IF v = "pass" THEN x ELSE y]]
Judged(when, x, y) ==
    [Transition(when) EXCEPT !.decision = "review",
        !.branch = [v \in {"pass", "rework"} |-> IF v = "pass" THEN x ELSE y]]

Plain == [entry |-> {}, roles |-> {}, transitions |-> <<>>, terminal |-> FALSE,
          alert |-> FALSE, waitFor |-> FALSE]
With(ts)     == [Plain EXCEPT !.transitions = ts]
Agent(e, ts) == [With(ts) EXCEPT !.entry = {e}, !.roles = {"coder"}]
Merging(n)   == [With(<<To("pr.merged", n)>>) EXCEPT !.entry = {"merge"}]
Alerting     == [Plain EXCEPT !.terminal = TRUE, !.alert = TRUE]

Declares(entry, states) ==
    [entry |-> entry, states |-> states, roles |-> {"coder"},
     gates |-> [g \in {"pr", "ci"} |->
                  [type |-> IF g = "pr" THEN "github_pr" ELSE "github_checks",
                   since |-> "none"]],
     decisions |-> [d \in {"review"} |-> {"pass", "rework"}],
     caps |-> {"review"}, noProgress |-> 1, deadline |-> {}]

\* What a state can wait for, and the bound it can have.
Waiting(X, Y) ==
    {Agent("spawn", <<Gated("agent.done", g, x, y)>>) : g \in {"pr", "ci"}, x \in X, y \in Y}
    \cup {Agent("spawn", <<Judged("agent.done", x, y)>>) : x \in X, y \in Y}
    \cup {Agent("resume", <<Gated("agent.done", "ci", x, y), To("retry_exhausted", y)>>) :
             x \in X, y \in Y}
    \cup {With(<<Gated("status.changed", "ci", x, y)>>) : x \in X, y \in Y}

Bounded(states, bounds) ==
    states \cup {[s EXCEPT !.transitions = Append(@, t)] : s \in states, t \in bounds}

Shapes ==
    LET free == {"implementing", "review", "merging", "end"}
        odd  == {With(<<To("scheduled", n)>>) : n \in free \cup {"ghost"}}
                \cup {With(<<Judged("status.changed", "merging", "end")>>),
                      [Plain EXCEPT !.waitFor = TRUE], Plain}
    IN  {Declares(e, [n \in free |-> CASE n = "implementing" -> a
                                       [] n = "review" -> b
                                       [] n = "merging" -> Merging("end")
                                       [] n = "end" -> Alerting]) :
           e \in {"implementing", "merging"},
           a \in odd \cup Bounded(Waiting({"review", "merging"}, {"implementing", "end"}),
                                  {AlertAfter(1)}),
           b \in odd \cup Bounded(Waiting({"implementing", "merging"}, {"review", "merging"}),
                                  {After(1, "end")})}

Policies ==
    {[Declares(e, [n \in {"implementing", "end"} |->
                     IF n = "end" THEN Alerting
                     ELSE Agent("spawn", <<Gated("agent.done", "pr", "end", n)>> \o ts)])
        EXCEPT !.caps = c, !.noProgress = p, !.deadline = d] :
       e \in {"implementing", "ghost", None},
       ts \in {<<>>, <<After(0, "end")>>, <<After(1, "end")>>, <<After(2, "end")>>, <<AlertAfter(2), After(1, "end")>>},
       c \in {{}, {"implementing"}}, p \in {0, 1},
       d \in {{}} \cup {{n} : n \in 0 .. 3}}

\* Every graph of four states with at most two edges each, up to renaming the
\* successor that the first state is sure to have.
Graphs ==
    LET four  == {"implementing", "review", "merging", "end"}
        pairs == {p \in SUBSET four : Cardinality(p) <= 2}
        edges(p) == IF p = {} THEN Plain
                    ELSE With(<<Gated("status.changed", "ci", CHOOSE x \in p : TRUE,
                                      CHOOSE y \in p : Cardinality(p) = 1 \/ y # CHOOSE x \in p : TRUE)>>)
    IN  {Declares("end", [n \in four |-> edges(g[n])]) :
           g \in {h \in [four -> pairs] : "review" \in h["implementing"]}}

AllWorkflows == <<Shapes, Policies, Graphs>>

=============================================================================
