------------------------ MODULE MCManagedCapability ------------------------
(* Instances of ManagedCapability: the registered cases by what they do.   *)
EXTENDS ManagedCapability

AllKinds == {"direct", "approval", "revoked", "codex"}
=============================================================================
