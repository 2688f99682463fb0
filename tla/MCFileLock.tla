---- MODULE MCFileLock ----
(* The file lock, with few processes. *)
EXTENDS FileLock

CONSTANTS p1, p2, p3
====
