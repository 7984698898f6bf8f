-------------------------- MODULE MCSurfaceContents --------------------------
(* A small instance of SurfaceContents for TLC: two threads and a surface. *)
EXTENDS SurfaceContents, TLC

AllCalls == {"sync", "lock", "derive", "get", "put", "export"}

Interchangeable == Permutations(Threads)
=============================================================================
