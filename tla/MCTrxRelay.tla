----------------------------- MODULE MCTrxRelay -----------------------------
(* TrxRelay for TLC: all transactions have one payer, which has enough. *)
EXTENDS TrxRelay

CONSTANTS a1

MCPayer == [t \in Trx |-> a1]

MCFunds == [a \in Account |-> 3]

MCExcluded == [s \in Seed |-> {}]

=============================================================================
