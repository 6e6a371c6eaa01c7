----------------------------- MODULE MCQueries -----------------------------
(* An instance of Queries for TLC: the default tenant and parcels, and      *)
(* reads of the default tenant and with the administration_id.              *)
EXTENDS Queries
MCScopes == {{Default}, Tenants}
=============================================================================
