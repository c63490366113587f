----------------------------- MODULE MCInstaller -----------------------------
(* Two processes on one prefix, three releases of two binaries.              *)
EXTENDS Installer, TLC

Symmetry == Permutations(Installer) \cup Permutations(Release) \cup Permutations(Binary)
=============================================================================
