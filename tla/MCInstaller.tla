---------------------------- MODULE MCInstaller ----------------------------
(* Installer for TLC: the leaves are interchangeable. *)
EXTENDS Installer, TLC

LeafSymmetry == Permutations(Systems)

============================================================================
