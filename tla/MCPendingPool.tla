---------------------------- MODULE MCPendingPool ----------------------------
(* PendingPool for TLC. *)
EXTENDS PendingPool, TLC

CONSTANTS a1, a2, t1, t2, t3

\* Two transactions of one account, one of another.
MCPayer == t1 :> a1 @@ t2 :> a1 @@ t3 :> a2

\* a1 cannot pay for both of its transactions, a2 could pay twice.
MCFunds == a1 :> 1 @@ a2 :> 2

\* One account, which can pay for two of its three transactions.
MCOnePayer == [t \in Trx |-> a1]

\* No seed excludes a transaction; or one seed excludes t3.
MCNoneExcluded == [s \in Seed |-> {}]

MCExcluded == [s \in Seed |-> IF s = CHOOSE p \in Seed : TRUE THEN {t3} ELSE {}]

MCTwoUnits == [a \in Account |-> 2]
=============================================================================
