--------------------------- MODULE PipelineGraph ---------------------------
(***************************************************************************)
(* scheduler.Analyze (internal/scheduler/graph.go): a pipeline definition  *)
(* is validated, then sorted into levels by repeatedly taking the stages   *)
(* whose dependencies are all placed.  The answer is either a graph, which *)
(* the scheduler runs, or a validation error.                              *)
(*                                                                         *)
(* A definition is [fields, stages, outputs].  stages is a sequence of     *)
(* [id, dependsOn, network, artifacts, inputs]: identifiers are numbers,   *)
(* ordered as the strings they stand for; dependsOn is the sequence the    *)
(* user wrote, repetitions and unknown names included; artifacts is the    *)
(* set of declared output names; inputs is a set of [stage, name]; outputs *)
(* is the set of pipeline outputs [stage, artifact].  fields is FALSE when *)
(* some name, path, digest, limit, capability or mount of the definition   *)
(* fails its own syntactic check.                                          *)
(***************************************************************************)
EXTENDS Integers, FiniteSets, Sequences, SequencesExt

CONSTANTS Definitions,   \* the definitions users may submit
          MaxStages      \* the most stages a definition may have

ASSUME MaxStagesAssumption == MaxStages \in Nat

VARIABLES definition,    \* the argument of Analyze
          phase,         \* where the call is, or how it ended
          inDegree,      \* dependencies of each stage not placed yet
          ready,         \* the level being formed, sorted
          order,         \* Graph.Order
          levels         \* Graph.Levels

graphVars == <<definition, phase, inDegree, ready, order, levels>>

Ended == {"accepted", "invalid", "cycle"}

(* Parts of a definition *)
StageSet(def) == Range(def.stages)

Ids(def) == {stage.id : stage \in StageSet(def)}

Stage(def, id) == CHOOSE stage \in StageSet(def) : stage.id = id

DependsOn(def, id) == Range(Stage(def, id).dependsOn)

Sorted(ids) == SetToSortSeq(ids, <)

(***************************************************************************)
(* validate: a conjunct for each kind of issue that relates parts of the   *)
(* definition to each other.                                               *)
(***************************************************************************)
UniqueStages(def) ==
  \A i, j \in DOMAIN def.stages : def.stages[i].id = def.stages[j].id => i = j

GoodDependencies(def, stage) ==
  /\ Range(stage.dependsOn) \subseteq Ids(def) \ {stage.id}
  /\ IsInjective(stage.dependsOn)

GoodInputs(def, stage) ==
  \A input \in stage.inputs :
    /\ input.stage \in Ids(def)
    /\ input.name \in Stage(def, input.stage).artifacts
    /\ input.stage \in Range(stage.dependsOn)

GoodNetwork(stage) == stage.network # "none" => stage.dependsOn = <<>>

GoodOutputs(def) ==
  \A output \in def.outputs :
    /\ output.stage \in Ids(def)
    /\ output.artifact \in Stage(def, output.stage).artifacts

Valid(def) ==
  /\ def.fields
  /\ Len(def.stages) \in 1 .. MaxStages
  /\ UniqueStages(def)
  /\ \A stage \in StageSet(def) :
       GoodDependencies(def, stage) /\ GoodInputs(def, stage) /\ GoodNetwork(stage)
  /\ GoodOutputs(def)

----------------------------------------------------------------------------
(* How many entries of a stage's dependency list name a stage of the level *)
Placed(def, id, level) ==
  LET list == Stage(def, id).dependsOn
  IN  Cardinality({i \in DOMAIN list : list[i] \in Range(level)})

GraphInit ==
  /\ definition \in Definitions
  /\ phase = "validate"
  /\ inDegree = <<>>
  /\ ready = <<>>
  /\ order = <<>>
  /\ levels = <<>>

(* Analyze returns the issues validate found. *)
Reject ==
  /\ phase = "validate"
  /\ ~Valid(definition)
  /\ phase' = "invalid"
  /\ UNCHANGED <<definition, inDegree, ready, order, levels>>

(* The first lines of topological: in-degrees and the roots. *)
Begin ==
  /\ phase = "validate"
  /\ Valid(definition)
  /\ inDegree' = [id \in Ids(definition) |-> Len(Stage(definition, id).dependsOn)]
  /\ ready' = Sorted({id \in Ids(definition) : inDegree'[id] = 0})
  /\ phase' = "sort"
  /\ UNCHANGED <<definition, order, levels>>

PlaceOne ==
  /\ phase = "sort"
  /\ ready # <<>>
  /\ order' = Append(order, Head(ready))
  /\ levels' = Append(levels, <<Head(ready)>>)
  /\ inDegree' = [id \in DOMAIN inDegree |->
                     inDegree[id] - Placed(definition, id, <<Head(ready)>>)]
  /\ ready' = Sorted(Range(Tail(ready)) \cup
                       {id \in DOMAIN inDegree : inDegree[id] > 0 /\ inDegree'[id] = 0})
  /\ UNCHANGED <<definition, phase>>

(* One iteration of the loop of topological. *)
PlaceLevel ==
  /\ phase = "sort"
  /\ ready # <<>>
  /\ order' = order \o ready
  /\ levels' = Append(levels, ready)
  /\ inDegree' = [id \in DOMAIN inDegree |-> inDegree[id] - Placed(definition, id, ready)]
  /\ ready' = Sorted({id \in DOMAIN inDegree : inDegree[id] > 0 /\ inDegree'[id] = 0})
  /\ UNCHANGED <<definition, phase>>

ConcludeUnchecked ==
  /\ phase = "sort"
  /\ ready = <<>>
  /\ phase' = "accepted"
  /\ UNCHANGED <<definition, inDegree, ready, order, levels>>

(* The end of topological and of Analyze: what is left over is a cycle. *)
Conclude ==
  /\ phase = "sort"
  /\ ready = <<>>
  /\ phase' = IF \E id \in DOMAIN inDegree : inDegree[id] > 0 THEN "cycle" ELSE "accepted"
  /\ UNCHANGED <<definition, inDegree, ready, order, levels>>

(* The call has returned. *)
Analyzed == phase \in Ended /\ UNCHANGED graphVars

GraphNext == Reject \/ Begin \/ PlaceLevel \/ Conclude \/ Analyzed

GraphSpec == GraphInit /\ [][GraphNext]_graphVars

----------------------------------------------------------------------------
(* Type invariant *)
GraphTypeOK ==
  /\ phase \in {"validate", "sort"} \cup Ended
  /\ inDegree = <<>> \/ inDegree \in [Ids(definition) -> Nat]
  /\ Range(ready) \cup Range(order) \subseteq Ids(definition)
  /\ order = FlattenSeq(levels)

(***************************************************************************)
(* The verdict of Analyze is right both ways: the order of an accepted     *)
(* definition lists every stage once and after all its dependencies, and a *)
(* definition refused as cyclic really has stages that wait for each       *)
(* other.                                                                  *)
(***************************************************************************)
VerdictIsRight ==
  /\ phase = "accepted" =>
       /\ Range(order) = Ids(definition) /\ IsInjective(order)
       /\ \A i \in DOMAIN order :
            DependsOn(definition, order[i]) \subseteq {order[j] : j \in 1 .. i - 1}
  /\ phase = "cycle" =>
       \E knot \in SUBSET Ids(definition) \ {{}} :
         \A id \in knot : DependsOn(definition, id) \cap knot # {}

LevelOf(id) == CHOOSE n \in DOMAIN levels : id \in Range(levels[n])

(***************************************************************************)
(* "Stages within a level are independent and may be executed              *)
(* concurrently": a stage is exactly one level below its deepest           *)
(* dependency, so no level holds a stage and something it waits for, and   *)
(* no stage is placed later than it has to be.                             *)
(***************************************************************************)
LevelsAreDepths ==
  phase = "accepted" =>
    \A id \in Ids(definition) :
      LET above == {LevelOf(d) : d \in DependsOn(definition, id)}
      IN  LevelOf(id) = 1 + (IF above = {} THEN 0 ELSE Max(above))

=============================================================================
