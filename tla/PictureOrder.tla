---------------------------- MODULE PictureOrder ----------------------------
(***************************************************************************)
(* What the decoder promises an application, without threads, buffers or   *)
(* the VPU: the pictures of a context are resolved once each, oldest       *)
(* first, and only the newest can be abandoned.                            *)
(***************************************************************************)
EXTENDS Naturals, Sequences

CONSTANTS Contexts, Surfaces

VARIABLES
    order,      \* surfaces whose pictures a context has yet to resolve, oldest first
    result      \* what a surface shows

orderVars == <<order, result>>

Results == {"none", "decoding", "failing", "shown", "failed"}

InitOrder ==
    /\ order = [c \in Contexts |-> << >>]
    /\ result = [s \in Surfaces |-> "none"]

InProgress(s) == result[s] \in {"decoding", "failing"}

BeginNew(c, s) ==
    /\ ~InProgress(s)
    /\ order' = [order EXCEPT ![c] = Append(@, s)]
    /\ result' = [result EXCEPT ![s] = "decoding"]

(* The oldest picture is shown, or it is corrupt.                          *)
Resolve(c) ==
    /\ order[c] # << >>
    /\ InProgress(Head(order[c]))
    /\ order' = [order EXCEPT ![c] = Tail(@)]
    /\ \E r \in {"shown", "failed"} :
          /\ r = "shown" => result[Head(order[c])] = "decoding"
          /\ result' = [result EXCEPT ![Head(order[c])] = r]

(* The newest picture is abandoned before it was complete.                 *)
Abandon(c) ==
    LET n == Len(order[c])
    IN  /\ n > 0
        /\ result[order[c][n]] = "decoding"
        /\ order' = [order EXCEPT ![c] = SubSeq(@, 1, n - 1)]
        /\ result' = [result EXCEPT ![order[c][n]] = "failed"]

(* The decoder broke down: pictures it has yet to resolve will not be.     *)
BreakDown(c) ==
    \E F \in SUBSET {order[c][i] : i \in 1 .. Len(order[c])} :
        /\ result' = [s \in Surfaces |-> IF s \in F /\ InProgress(s) THEN "failing"
                                         ELSE result[s]]
        /\ UNCHANGED order

(* A context goes, with what it has yet to resolve.                        *)
Close(c) ==
    \E F \in SUBSET Surfaces :
        /\ order' = [order EXCEPT ![c] = << >>]
        /\ result' = [s \in Surfaces |->
              IF \E i \in 1 .. Len(order[c]) : order[c][i] = s THEN "failed"
              ELSE IF s \in F /\ result[s] = "shown" THEN "none" ELSE result[s]]

(* Surfaces with nothing in progress are reused, uploaded to or destroyed. *)
Replace ==
    \E F \in SUBSET {s \in Surfaces : ~InProgress(s)} :
        /\ \E r \in [F -> {"none", "failed"}] :
              result' = [s \in Surfaces |-> IF s \in F THEN r[s] ELSE result[s]]
        /\ UNCHANGED order

NextOrder ==
    \/ \E c \in Contexts :
          \/ \E s \in Surfaces : BeginNew(c, s)
          \/ Resolve(c) \/ Abandon(c) \/ BreakDown(c) \/ Close(c)
    \/ Replace

OrderSpec == InitOrder /\ [][NextOrder]_orderVars

=============================================================================
