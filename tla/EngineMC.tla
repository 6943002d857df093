------------------------------ MODULE EngineMC ------------------------------
(***************************************************************************)
(* Engine on the pipeline the repository ships.                            *)
(***************************************************************************)
EXTENDS Engine, DefaultPipeline

OneRound == PipelineCaps(1)

\* The shipped pipeline has what the theorems of EngineProofs suppose.
ASSUME PipelineAssumption ==
    MergesByGates /\ MergedByMerge /\ VerdictsAreAsked /\ RoundsAreSpawns

=============================================================================
