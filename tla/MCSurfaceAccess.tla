--------------------------- MODULE MCSurfaceAccess ---------------------------
(* Small instances of SurfaceAccess for TLC.                               *)
EXTENDS SurfaceAccess, TLC

(* Applications that synchronise a surface before they lock or derive.     *)
CopiesOnly == {"sync", "get", "put", "export"}

(* Applications that lock or export a surface that is still decoded.      *)
LockOrExport == {"sync", "lock", "export"}

(* Applications that derive images from one.                               *)
DeriveUnsynced == {"sync", "derive"}

None == {}

Interchangeable == Permutations(Surfaces) \cup Permutations(Threads)
=============================================================================
