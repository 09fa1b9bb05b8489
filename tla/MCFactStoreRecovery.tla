------------------------ MODULE MCFactStoreRecovery ------------------------
(* Instances of FactStoreRecovery.  Two facts; the coordinator's           *)
(* transactions and the local ones overwrite one another's.                *)
EXTENDS FactStoreRecovery

MCMaxId == [k \in Kind |-> 3]
MCWrites == [t \in TxnId |-> IF t % 2 = 0 THEN {1, 2} ELSE {1}]
=============================================================================
