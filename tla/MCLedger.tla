------------------------------ MODULE MCLedger ------------------------------
(* Ledger for TLC: one voter, one contract, one asset issued by a user.    *)
EXTENDS Ledger, TLC

CONSTANTS cash, vote, vault, token, alice, bob, d1, d2

MCAssetOf == cash :> 0 @@ vote :> 0 @@ vault :> 0 @@ token :> 1

MCSlateOf == cash :> {} @@ vote :> {d1} @@ vault :> {} @@ token :> {}

MCOwnerOf == cash :> alice @@ vote :> bob @@ vault :> bob @@ token :> bob

MCHeir == vault :> cash

MCGenesis == cash :> 3 @@ vote :> 0 @@ vault :> 0 @@ token :> 0

MCMaxSupply == 1 :> 1
=============================================================================
