-------------------------- MODULE MCTransactionQueue --------------------------
(***************************************************************************)
(* Four transactions for TransactionQueue: two prices, three amounts of    *)
(* gas; t1 and t2 share a price, t3 and t4 the other.                      *)
(***************************************************************************)
EXTENDS TransactionQueue

MCTx == {"t1", "t2", "t3", "t4"}
MCGasPrice == [t \in Tx |-> IF t \in {"t3", "t4"} THEN 2 ELSE 1]
MCStartGas == [t \in Tx |-> CASE t \in {"t1", "t3"} -> 3
                              [] t \in {"t2"} -> 2
                              [] OTHER -> 1]
MCPrioInfinity == -9
MCBlocks == {{}, {"t1"}, {"t3"}}
===============================================================================
