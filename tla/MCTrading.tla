------------------------------ MODULE MCTrading ------------------------------
(***************************************************************************)
(* Constants for model-checking Trading.  An amount is a tenth of a pool,  *)
(* so that trades move the price, and large enough that a base unit is     *)
(* less than the slippage: the builder works the slippage back from the    *)
(* rounded minimum, and for a few units that can pass the program's floor. *)
(* The user holds some of every token.                                     *)
(***************************************************************************)
EXTENDS Trading

MCPairs == {<<"SOL", "PROFIT">>, <<"PROFIT", "SOL">>, <<"SOL", "CRIME">>, <<"CRIME", "FRAUD">>}
MCAmounts == [t \in Token |-> IF t = "SOL" THEN {800, 1000} ELSE {1000}]
MCRivalTrades == {<<"CRIME", TRUE>>}
MCHoldings == [a \in Account |-> IF a = "WSOL" THEN 0 ELSE 5000]
MCPools == [t \in Faction |-> IF t = "CRIME" THEN [sol |-> 10000, token |-> 20000]
                                             ELSE [sol |-> 10000, token |-> 18000]]
MCVaultSeed == [t \in Token |-> 100000]
==============================================================================
