-------------------------- MODULE MCPersistedTrading --------------------------
(***************************************************************************)
(* The values of MCGridTrading, for the trader with its database.          *)
(***************************************************************************)
EXTENDS PersistedTrading, MCGridTrading

=============================================================================
