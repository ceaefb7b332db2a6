------------------------------ MODULE MCScreens ------------------------------
(* Every view and every button, for a few moves and writes.                *)
EXTENDS Screens

MCViews == DOMAIN QueriesOf

=============================================================================
