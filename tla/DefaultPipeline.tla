-------------------------- MODULE DefaultPipeline --------------------------
(***************************************************************************)
(* The pipeline the repository ships, examples/default-pipeline.yaml, as   *)
(* values for the constants of Workflow.                                   *)
(***************************************************************************)
EXTENDS TLC

PipelineStates ==
    {"intake", "queued", "implementing", "pr_open", "changes_requested",
     "approved", "merging", "blocked_on_gate", "merged", "closed", "escalated"}

\* A state that declares nothing, to be overridden where one declares something.
Plain == [entry |-> "none", terminal |-> "no", auto |-> "none", done |-> <<>>,
          decides |-> FALSE, commits |-> FALSE, watch |-> <<>>,
          timeout |-> "none", exhausted |-> "none", merged |-> "none"]

Pipeline ==
    "intake" :> [Plain EXCEPT
        !.entry = "spawn", !.decides = TRUE, !.timeout = "escalated",
        !.done = "accept" :> "queued" @@ "reject" :> "closed"
                   @@ "needs_human" :> "escalated"]
 @@ "queued" :> [Plain EXCEPT !.auto = "implementing"]
 @@ "implementing" :> [Plain EXCEPT
        !.entry = "spawn", !.timeout = "escalated",
        !.done = "pass" :> "pr_open" @@ "fail" :> "escalated"]
 @@ "pr_open" :> [Plain EXCEPT
        !.entry = "spawn", !.decides = TRUE,
        !.done = "approve" :> "approved" @@ "request_changes" :> "changes_requested"
                   @@ "escalate" :> "escalated"]
 @@ "changes_requested" :> [Plain EXCEPT
        !.entry = "resume", !.commits = TRUE, !.exhausted = "escalated",
        !.done = "pass" :> "pr_open" @@ "fail" :> "escalated"]
 @@ "approved" :> [Plain EXCEPT
        !.watch = "pass" :> "merging" @@ "fail" :> "blocked_on_gate"]
 @@ "blocked_on_gate" :> [Plain EXCEPT
        !.timeout = "escalated",
        !.watch = "pass" :> "merging" @@ "fail" :> "blocked_on_gate"]
 @@ "merging" :> [Plain EXCEPT !.entry = "merge", !.merged = "merged"]
 @@ "merged" :> [Plain EXCEPT !.terminal = "success"]
 @@ "closed" :> [Plain EXCEPT !.terminal = "rejected"]
 @@ "escalated" :> [Plain EXCEPT !.terminal = "alert"]

PipelineCaps(cap) == "changes_requested" :> cap

=============================================================================
