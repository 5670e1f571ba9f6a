------------------------------ MODULE MCElm327 ------------------------------
(* Two modules, one service besides the probe's 0100, and the fault sets    *)
(* that stand on either side of the adapter's guarantees.                   *)
EXTENDS Elm327

MCHeaders  == {"7E0", "7E1"}
MCServices == {"0100", "010C"}
MCOrder    == <<"Can11Bit500", "J1850Vpw", "Iso9141">>
MCBuses    == {"none", "J1850Vpw", "Iso9141"}
MCFaults   == {{"write", "unknown"}, {"reset", "write"}, {"reset", "unknown"}, {"write", "lost"},
               {"late"}, {"partial", "reset", "fe"}, {"cancel"}}
MCTimeout  == {{"lost"}}
=============================================================================
