---------------------------- MODULE MCBmsDriver ----------------------------
(* BmsDriver with short periods in the order of those in the database:      *)
(* CST < CCS, BST < BCL.  A vehicle sends two or three kinds of packets:    *)
(* each of the seven kinds, and the pairs that act on the same stage.       *)
EXTENDS BmsDriver

MCPeriod == [CRM |-> 1, CTS |-> 1, CML |-> 1, CRO |-> 1, CCS |-> 2, CST |-> 1, CSD |-> 1]
MCTolerate == [BRM |-> 1, BCP |-> 1, BRO |-> 1, BCL |-> 2, BST |-> 1, BSD |-> 1]
MCVehicles == {{"BRM", "BCS"}, {"BCP", "BRO"}, {"BCP", "BCS"},
               {"BCL", "BCS", "BSD"}, {"BCL", "BCS", "BST"}, {"BST", "BSD"}}
=============================================================================
