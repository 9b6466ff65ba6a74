-------------------------- MODULE MCLinuxInstaller --------------------------
(***************************************************************************)
(* Small instances of LinuxInstaller.  Releases are interchangeable.       *)
(***************************************************************************)
EXTENDS LinuxInstaller, TLC

Perms == Permutations(Digests)

=============================================================================
