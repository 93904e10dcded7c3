------------------------------ MODULE MCGraph ------------------------------
(***************************************************************************)
(* GraphqlLimits, DagExecutor and Idempotency for TLC. They do not meet: a *)
(* behaviour is one of calls at their limits, one of a pipeline, or one of *)
(* workers that claim a key.                                               *)
(***************************************************************************)
EXTENDS GraphqlLimits, DagExecutor, Idempotency, TLC

CONSTANT
    Missing     \* how many nodes may lack their service

VARIABLE part

AllGraphs == SUBSET {e \in Nodes \X Nodes : e[1] # e[2]}

MCInit ==
    /\ part \in {"limits", "pipeline", "claims"}
    /\ Init /\ DagInit /\ IdemInit
    /\ Cardinality(Nodes \ known) <= Missing
    /\ part # "pipeline" => edges = {} /\ known = Nodes
    /\ part # "limits" => strategy = "Sliding"

MCNext ==
    \/ part = "limits" /\ Next /\ UNCHANGED <<dag, idem, part>>
    \/ part = "pipeline" /\ DagNext /\ UNCHANGED <<vars, idem, part>>
    \/ part = "claims" /\ IdemNext /\ UNCHANGED <<vars, dag, part>>

MCSpec == MCInit /\ [][MCNext]_<<vars, dag, idem, part>>

\* The types of all three.
GraphTypeOK == TypeOK /\ DagTypeOK /\ IdemTypeOK

Symmetry == Permutations(Calls)

=============================================================================
