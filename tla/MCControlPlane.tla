--------------------------- MODULE MCControlPlane ---------------------------
(***************************************************************************)
(* The lease scheduler on a small instance: two workers, one of them with  *)
(* a single slot, and leases that prefer content only one of them has.     *)
(*                                                                         *)
(* In the same run, the loop of placement.Select on every queue of up to   *)
(* three leases and every worker, over two platforms, one capability, one  *)
(* content and two priorities.  The two share no state: the first state    *)
(* picks one, and the other stays in its initial state.                    *)
(***************************************************************************)
EXTENDS ControlPlane, PlacementScan

CONSTANTS amd, arm, gpu, blob, Priorities

MCRegistrations ==
  {[platform |-> amd, capabilities |-> {gpu}, cached |-> {blob}, maxParallel |-> 2],
   [platform |-> arm, capabilities |-> {}, cached |-> {}, maxParallel |-> 1]}

MCSubmissions ==
  {[platform |-> AnyValue, capabilities |-> {}, preferred |-> blob, priority |-> p, tenant |-> AnyValue] :
     p \in Priorities}

Lifecycle ==
  INSTANCE LeaseLifecycle
    WITH Holders <- Workers, NoHolder <- Nobody, count <- nextID,
         life <- [l \in DOMAIN leases |->
                    [phase |-> leases[l].state, holder |-> leases[l].worker,
                     attempt |-> leases[l].attempt]]

(* Every step of the scheduler is a step of the lease lifecycle.           *)
ImplementsLifecycle == Lifecycle!LifeSpec

MCFleet == [platform : {amd, arm}, capabilities : SUBSET {gpu}, cached : SUBSET {blob}]
MCLeases == [platform : {AnyValue, amd}, capabilities : SUBSET {gpu},
             preferred : {AnyValue, blob}, priority : {0, 1}]

VARIABLE part

MCInit ==
  /\ part \in {"scheduler", "select"}
  /\ Init
  /\ ScanInit
  /\ part = "scheduler" => queue = <<>> /\ worker = CHOOSE w \in Fleet : TRUE

MCNext ==
  \/ part = "scheduler" /\ Next /\ UNCHANGED <<scanVars, part>>
  \/ part = "select" /\ (Scan \/ ScanReturned) /\ UNCHANGED <<planeVars, part>>

MCSpec == MCInit /\ [][MCNext]_<<planeVars, scanVars, part>>
=============================================================================
