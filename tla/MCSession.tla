----------------------------- MODULE MCSession ------------------------------
(* Two modules, of which the second vehicle has only one on its bus.        *)
EXTENDS Session

MCModules     == {"ecm", "tcm"}
MCVehicles    == {"truck", "car"}
MCBusModules  == [v \in MCVehicles |-> IF v = "truck" THEN MCModules ELSE {"ecm"}]
MCFaults      == {{"lost", "s3", "raw"}, {"swap"}, {"cancel"}}
=============================================================================
