---------------------------- MODULE MCDecodeSync ----------------------------
(* Small instances of DecodeSync for TLC.                                  *)
EXTENDS DecodeSyncInv, TLC

(* A context is created with no or with all of its render targets, and a   *)
(* picture names no other surface as a reference.                          *)
EmptyOrAll == {{}, Surfaces}
NoRefs == {{}}

Interchangeable ==
    UNION {Permutations(X) : X \in {Contexts, Surfaces, Threads, OutBufs}}
=============================================================================
