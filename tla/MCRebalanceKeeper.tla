-------------------------- MODULE MCRebalanceKeeper --------------------------
(* Two vaults, and between them one that cannot be read. *)
EXTENDS RebalanceKeeper, TLC

MCVaults == <<"usdc", "broken", "xlm">>
=============================================================================
