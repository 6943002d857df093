------------------------------ MODULE ReworkMC ------------------------------
(***************************************************************************)
(* Engine on a small workflow that the validator accepts.                  *)
(***************************************************************************)
EXTENDS Engine, DefaultPipeline

\* A failing merge gate sends the task back to its implementer, and the cycle's
\* one agent state is capped.
ReworkStates == {"implementing", "approved", "rework", "merging", "merged", "escalated"}

Rework ==
    "implementing" :> [Plain EXCEPT
        !.entry = "spawn", !.done = "pass" :> "approved" @@ "fail" :> "escalated"]
 @@ "approved" :> [Plain EXCEPT
        !.watch = "pass" :> "merging" @@ "fail" :> "rework"]
 @@ "rework" :> [Plain EXCEPT
        !.entry = "resume", !.exhausted = "escalated",
        !.done = "pass" :> "approved" @@ "fail" :> "escalated"]
 @@ "merging" :> [Plain EXCEPT !.entry = "merge", !.merged = "merged"]
 @@ "merged" :> [Plain EXCEPT !.terminal = "success"]
 @@ "escalated" :> [Plain EXCEPT !.terminal = "alert"]

OneRework == "rework" :> 1

=============================================================================
