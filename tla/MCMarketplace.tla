---------------------------- MODULE MCMarketplace ----------------------------
(* Small instances of Marketplace for TLC. *)
EXTENDS MarketplaceProperties
=============================================================================
