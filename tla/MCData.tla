------------------------------- MODULE MCData --------------------------------
(* The parts that keep the containers and the records of a project, checked *)
(* side by side: part says which of them a behaviour is about, the others    *)
(* rest in an initial state.                                                 *)
EXTENDS MCWorkflows, MCRecordWrites, MCReferences, MCArrays, MCContainers

VARIABLE part

DataInit ==
  /\ EngineInit /\ Init /\ RefInit /\ ArrayInit /\ ContainersInit
  /\ part \in {"engine", "writes", "references", "arrays", "containers"}
  /\ part # "writes" => \A r \in Records : docs[r].owner = ann
  /\ part # "arrays" => rows = RowsOf(<<1, 2>>)

DataNext ==
  /\ UNCHANGED part
  /\ \/ part = "engine" /\ EngineNext /\ UNCHANGED <<vars, refVars, arrayVars, containerVars>>
     \/ part = "writes" /\ Next /\ UNCHANGED <<engineVars, refVars, arrayVars, containerVars>>
     \/ part = "references" /\ RefNext /\ UNCHANGED <<engineVars, vars, arrayVars, containerVars>>
     \/ part = "arrays" /\ ArrayNext /\ UNCHANGED <<engineVars, vars, refVars, containerVars>>
     \/ part = "containers" /\ ContainersNext /\ UNCHANGED <<engineVars, vars, refVars, arrayVars>>

DataSym == Permutations(Processors)

DataSpec == DataInit /\ [][DataNext]_<<engineVars, vars, refVars, arrayVars, containerVars, part>>
=============================================================================
