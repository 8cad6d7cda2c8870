----------------------- MODULE MCApplicationPipeline -----------------------
(* Instances of ApplicationPipeline for TLC. *)
EXTENDS ApplicationTimeline, PipelineInvariants, TLC

\* Requests are interchangeable: no property of the symmetric runs names one.
RequestSymmetry == Permutations(Requests)
=============================================================================
