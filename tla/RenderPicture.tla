---------------------------- MODULE RenderPicture ----------------------------
(***************************************************************************)
(* vaRenderPicture and the calls around it for one context, which is an    *)
(* encoder (RateControl) or a decoder (ParameterSets): is_encoder is       *)
(* chosen by vaCreateContext and decides in every call which half of       *)
(* HobotContext is used.                                                   *)
(***************************************************************************)
EXTENDS RateControl, ParameterSets

VARIABLE is_encoder

vars == <<is_encoder, rateVars, setsVars>>

Init == RateInit /\ SetsInit /\ codec = profile /\ is_encoder \in BOOLEAN

EncoderStep == is_encoder /\ RateNext /\ UNCHANGED <<is_encoder, setsVars>>
DecoderStep == ~is_encoder /\ SetsNext /\ UNCHANGED <<is_encoder, rateVars>>

Next == EncoderStep \/ DecoderStep

Spec == Init /\ [][Next]_vars

-----------------------------------------------------------------------------
(* Every variable keeps its type: no request, in whatever order and with   *)
(* whatever failures, leaves a rate, a QP or a set of headers that does    *)
(* not exist.                                                              *)
TypeOK == is_encoder \in BOOLEAN /\ RateTypeOK /\ SetsTypeOK
=============================================================================
