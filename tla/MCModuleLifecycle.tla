-------------------------- MODULE MCModuleLifecycle --------------------------
(* Small instances of ModuleLifecycle: one administrator, or two at a time. *)
EXTENDS ModuleLifecycle, TLC

Symmetry == Permutations(Admins)
=============================================================================
