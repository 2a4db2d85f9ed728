\* The sentences and tasks of the module.
SPECIFICATION Spec
INVARIANTS
    StepsSurvivePosting
    BestCandidatesFirst
CHECK_DEADLOCK FALSE
