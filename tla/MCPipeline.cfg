\* Pipelines of four stages on two workers; one checkpointed stage, tried twice, one crash.
SPECIFICATION MCSpec
CONSTANTS
  Definitions <- MCDefinitions
  MaxStages = 4
  Stages = {1, 2, 3, 4}
  Graphs <- AscendingGraphs
  Workers = {w1, w2}
  Budgeted = TRUE
  CheckStages = {a}
  MaxAttempts = 2
  MaxCrashes = 1
INVARIANTS PipelineTypeOK VerdictIsRight LevelsAreDepths
INVARIANTS RunsAreSafe NeverStarved NoLevelBarrier ReportIsTrue
 
PROPERTIES RunReturns
