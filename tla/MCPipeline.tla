----------------------------- MODULE MCPipeline -----------------------------
(***************************************************************************)
(* The parts of a pipeline run on small instances: the analysis of the     *)
(* definition, the stage scheduler and the checkpoints.  They share no     *)
(* state; part says which of them moves, the others stay where they        *)
(* begin.                                                                  *)
(***************************************************************************)
EXTENDS PipelineGraph, StageScheduler, Checkpoint

VARIABLE part

Plain(id, dependsOn) ==
  [id |-> id, dependsOn |-> dependsOn, network |-> "none", artifacts |-> {}, inputs |-> {}]

Pipeline(stages) == [fields |-> TRUE, stages |-> stages, outputs |-> {}]

Malformed == [Pipeline(<<Plain(1, <<>>)>>) EXCEPT !.fields = FALSE]

(* Every dependency relation of four stages *)
Shapes ==
  LET n == 4
  IN  {Pipeline([i \in 1 .. n |-> Plain(n + 1 - i, Sorted(deps_[n + 1 - i]))]) :
         deps_ \in {d \in [1 .. n -> SUBSET (1 .. n)] : \A i \in 1 .. n : i \notin d[i]}}

(* Pairs of stages with all the fields that validate relates to each other *)
Pairs ==
  LET stage(ids, lists) ==
        [id : ids, dependsOn : lists, network : {"none", "full"}, artifacts : {{}, {"a"}},
         inputs : {{}} \cup {{[stage |-> i, name |-> "a"]} : i \in {1, 3}}]
  IN  {[fields |-> TRUE, stages |-> <<one, two>>, outputs |-> out] :
         one \in stage({1}, {<<>>, <<2>>}),
         two \in stage({1, 2}, {<<>>, <<1>>, <<2>>, <<3>>, <<1, 1>>}),
         out \in {{}, {[stage |-> 1, artifact |-> "a"]}}}

(* The definitions at and beyond the stage limit *)
Sizes == {Pipeline([i \in 1 .. n |-> Plain(i, <<>>)]) : n \in 0 .. MaxStages + 1}

MCDefinitions == {Malformed} \cup Shapes \cup Pairs \cup Sizes

(* The acyclic dependency relations, with the identifiers in one           *)
(* topological order                                                       *)
AscendingGraphs ==
  {d \in [Stages -> SUBSET Stages] : \A s \in Stages : \A t \in d[s] : t < s}

Independent == [s \in Stages |-> {}]

MCInit ==
  /\ part \in {"analysis", "stages", "checkpoints"}
  /\ part # "analysis" => definition = Malformed
  /\ part # "stages" => deps = Independent
  /\ GraphInit /\ SchedInit /\ CheckInit

MCNext ==
  /\ UNCHANGED part
  /\ \/ part = "analysis" /\ GraphNext /\ UNCHANGED <<schedVars, checkVars>>
     \/ part = "stages" /\ SchedNext /\ UNCHANGED <<graphVars, checkVars>>
     \/ part = "checkpoints" /\ CheckNext /\ UNCHANGED <<graphVars, schedVars>>
     \/ part = "checkpoints" /\ UNCHANGED <<graphVars, schedVars, checkVars>>

MCSpec == MCInit /\ [][MCNext]_<<part, graphVars, schedVars, checkVars>> /\ SchedFairness

(* The type invariant of the three parts. *)
PipelineTypeOK == GraphTypeOK /\ SchedTypeOK /\ CheckTypeOK
=============================================================================
