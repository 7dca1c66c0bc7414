---------------------------- MODULE MCManagedAdd ----------------------------
(* One job with one page of metadata, two Central callers, one other       *)
(* publication of the Index and one crash or broken channel.  No symmetry: *)
(* the run checks liveness.                                                *)
EXTENDS ManagedAdd
=============================================================================
