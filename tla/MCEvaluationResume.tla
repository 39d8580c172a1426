------------------------- MODULE MCEvaluationResume -------------------------
(* LiveEvaluation alone, for the run that resumes between two reports.      *)
EXTENDS LiveEvaluation
=============================================================================
