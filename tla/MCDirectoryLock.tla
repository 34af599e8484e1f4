-------------------------- MODULE MCDirectoryLock --------------------------
(* Four processes share a state lock. *)
EXTENDS DirectoryLock
=============================================================================
