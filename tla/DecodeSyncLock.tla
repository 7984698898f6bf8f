--------------------------- MODULE DecodeSyncLock ---------------------------
(***************************************************************************)
(* Proofs of two invariants of DecodeSync.  First Spec => []TypeOK, by the *)
(* inductive invariant TypeInv.  Then SyncInv: sync_active works as a      *)
(* lock.  Every step falls under one of four lemmas: it does not touch     *)
(* who synchronises (QuietStep), or a thread starts (StartStep), goes on   *)
(* (StayStep) or finishes (FinishStep).                                    *)
(***************************************************************************)
EXTENDS DecodeSyncInv, TLAPS

-----------------------------------------------------------------------------
(* The types.                                                              *)

LEMMA Untouched ==
    /\ CtxTypes /\ UNCHANGED ctxVars => CtxTypes'
    /\ SurfTypes /\ UNCHANGED surfVars => SurfTypes'
    /\ VpuTypes /\ UNCHANGED vpuVars => VpuTypes'
    /\ ThrTypes /\ UNCHANGED thrVars => ThrTypes'
    /\ CallShape /\ UNCHANGED <<pc, call, hand>> => CallShape'
    /\ PictureShape /\ UNCHANGED <<decode_picture_active, current_render_target>>
          => PictureShape'
  BY DEF CtxTypes, SurfTypes, VpuTypes, ThrTypes, CallShape, PictureShape,
         ctxVars, surfVars, vpuVars, thrVars

LEMMA GiveBackTypes ==
    ASSUME VpuTypes, NEW c, NEW out \in Outputs, GiveBack(c, out)
    PROVE  vpu_bufs' \in [Contexts -> SUBSET OutBufs]
  <1>1. out.buf \in OutBufs
    BY DEF Outputs
  <1> QED
    BY <1>1 DEF VpuTypes, GiveBack

LEMMA CallUpdates ==
    ASSUME NEW k \in Calls
    PROVE  /\ \A c \in Contexts \cup {NoContext} : [k EXCEPT !.cid = c] \in Calls
           /\ [k EXCEPT !.op = "retry"] \in Calls
           /\ \A s \in Surfaces \cup {NoSurface}, n \in 0 .. MaxAttempts :
                 [[k EXCEPT !.target = s] EXCEPT !.tries = n] \in Calls
           /\ \A c \in Contexts \cup {NoContext}, n \in 0 .. MaxAttempts :
                 [[k EXCEPT !.cid = c] EXCEPT !.tries = n] \in Calls
  BY DEF Calls

LEMMA FreshCalls ==
    /\ NoCall \in Calls
    /\ \A s \in Surfaces, b \in BOOLEAN :
          [NoCall EXCEPT !.op = "sync", !.surf = s, !.timed = b] \in Calls
    /\ \A o \in {"begin", "retry"}, c \in Contexts, s \in Surfaces :
          [NoCall EXCEPT !.op = o, !.ctx = c, !.surf = s] \in Calls
  <1>1. 0 \in 0 .. MaxAttempts
    BY ConstantsAssumption
  <1>2. NoCall \in Calls
    BY <1>1 DEF Calls, NoCall
  <1>3. ASSUME NEW s \in Surfaces, NEW b \in BOOLEAN
        PROVE  [NoCall EXCEPT !.op = "sync", !.surf = s, !.timed = b] \in Calls
    BY <1>2 DEF Calls
  <1>4. ASSUME NEW o \in {"begin", "retry"}, NEW c \in Contexts, NEW s \in Surfaces
        PROVE  [NoCall EXCEPT !.op = o, !.ctx = c, !.surf = s] \in Calls
    BY <1>2 DEF Calls
  <1> QED
    BY <1>2, <1>3, <1>4

LEMMA NoHandTypes == NoHand \in Hands
  BY DEF NoHand, Hands, Replies

LEMMA SyncReturnTypes ==
    ASSUME TypeInv, NEW t \in Threads, NEW ok, SyncReturn(t, ok), pc[t] # "idle",
           waiters' \in SUBSET Threads
    PROVE  ThrTypes' /\ CallShape'
  <1>1. /\ call[t].op = "retry" => call[t].ctx \in Contexts
        /\ call[t].surf \in Surfaces
    BY DEF TypeInv, CallShape, LocalsSet
  <1>2. NoCall \in Calls /\ NoHand \in Hands
    BY FreshCalls, NoHandTypes
  <1>3. PICK p \in {"idle", "begin"}, k \in Calls :
          /\ pc' = [pc EXCEPT ![t] = p]
          /\ call' = [call EXCEPT ![t] = k]
          /\ LocalsSet(p, k, NoHand)
    <2>1. CASE ok /\ call[t].op = "retry"
      <3> DEFINE k == [NoCall EXCEPT !.op = "retry", !.ctx = call[t].ctx, !.surf = call[t].surf]
      <3>1. k \in Calls /\ LocalsSet("begin", k, NoHand)
        BY <1>1, <2>1, FreshCalls DEF LocalsSet, NoHand, NoCall
      <3> QED
        BY <2>1, <3>1 DEF SyncReturn
    <2>2. CASE ~(ok /\ call[t].op = "retry")
      BY <1>2, <2>2 DEF SyncReturn, Return, LocalsSet, NoCall, NoHand
    <2> QED
      BY <2>1, <2>2
  <1>4. ThrTypes'
    BY <1>2, <1>3 DEF TypeInv, TypeOK, ThrTypes, SyncReturn, Pcs
  <1>5. CallShape'
    BY <1>3 DEF TypeInv, TypeOK, ThrTypes, SyncReturn, CallShape
  <1> QED
    BY <1>4, <1>5
LEMMA ThreadMoves ==
    ASSUME TypeInv, NEW t \in Threads,
           NEW p \in Pcs, NEW k \in Calls, NEW h \in Hands, LocalsSet(p, k, h),
           pc' = [pc EXCEPT ![t] = p], call' = [call EXCEPT ![t] = k],
           hand' = [hand EXCEPT ![t] = h],
           waiters' \in SUBSET Threads, mutex' \in Threads \cup {NoThread}
    PROVE  ThrTypes' /\ CallShape'
  BY DEF TypeInv, TypeOK, ThrTypes, CallShape

LEMMA AbortTypes ==
    ASSUME TypeInv, NEW c \in Contexts, AbortPicture(c)
    PROVE  /\ decode_pending' \in [Surfaces -> BOOLEAN]
           /\ decode_error' \in [Surfaces -> BOOLEAN]
           /\ submitted' \in [Contexts -> Seq(Surfaces)]
           /\ current_render_target' \in [Contexts -> Surfaces \cup {NoSurface}]
           /\ decode_picture_active' \in [Contexts -> BOOLEAN]
           /\ waiters' \in SUBSET Threads
           /\ PictureShape'
  <1> USE DEF TypeInv, TypeOK, CtxTypes, SurfTypes
  <1>1. submitted' \in [Contexts -> Seq(Surfaces)]
    BY DEF AbortPicture, DropLast
  <1>2. /\ decode_pending' \in [Surfaces -> BOOLEAN]
        /\ decode_error' \in [Surfaces -> BOOLEAN]
    BY DEF AbortPicture
  <1>3. /\ current_render_target' \in [Contexts -> Surfaces \cup {NoSurface}]
        /\ decode_picture_active' \in [Contexts -> BOOLEAN]
        /\ PictureShape'
    BY DEF AbortPicture, PictureShape
  <1> QED
    BY <1>1, <1>2, <1>3 DEF AbortPicture, WakeAll

LEMMA RecycleInputTypes ==
    ASSUME CtxTypes, NEW c \in Contexts, RecycleInput(c)
    PROVE  /\ dec_in_buf' \in [Contexts -> {"none", "open", "whole"}]
           /\ decode_failed' \in [Contexts -> BOOLEAN]
  BY DEF CtxTypes, RecycleInput

LEMMA RecycleOutputTypes ==
    ASSUME TypeInv, NEW t \in Threads, NEW c \in Contexts, NEW out \in Outputs,
           pc[t] # "idle", RecycleOutput(t, c, out)
    PROVE  /\ vpu_bufs' \in [Contexts -> SUBSET OutBufs]
           /\ decode_failed' \in [Contexts -> BOOLEAN]
           /\ sync_active' \in [Contexts -> BOOLEAN]
           /\ dec_out_buf' \in [Contexts -> Outputs \cup {NoOutput}]
           /\ ThrTypes' /\ (call[t].cid \in Contexts => CallShape')
  <1>1. PICK q \in QueueResults(call[t].timed) : RecycleOutput(t, c, out)!(q)
    BY DEF RecycleOutput
  <1>2. CASE q = "ok"
    <2>1. vpu_bufs' \in [Contexts -> SUBSET OutBufs]
      BY <1>1, <1>2, GiveBackTypes DEF TypeInv, TypeOK
    <2>2. call[t] \in Calls /\ NoHand \in Hands /\ LocalsSet(pc[t], call[t], hand[t])
      BY NoHandTypes DEF TypeInv, TypeOK, ThrTypes, CallShape
    <2>3. LocalsSet("loop", call[t], NoHand) \/ call[t].cid \notin Contexts
      BY <2>2 DEF LocalsSet, NoHand
    <2>4. ThrTypes'
      BY <1>1, <1>2, <2>2 DEF TypeInv, TypeOK, ThrTypes, Pcs
    <2>5. call[t].cid \in Contexts => CallShape'
      BY <1>1, <1>2, <2>2, <2>3 DEF TypeInv, TypeOK, ThrTypes, CallShape
    <2> QED
      BY <1>1, <1>2, <2>1, <2>4, <2>5 DEF TypeInv, TypeOK, CtxTypes
  <1>3. CASE q # "ok"
    <2>1. ThrTypes' /\ CallShape'
      BY <1>1, <1>3, SyncReturnTypes DEF FinishSync, WakeAll
    <2>2. dec_out_buf' \in [Contexts -> Outputs \cup {NoOutput}]
      BY <1>1, <1>3 DEF TypeInv, TypeOK, CtxTypes
    <2>3. decode_failed' = [decode_failed EXCEPT ![c] = decode_failed[c] \/ dec_out_buf[c] # NoOutput \/ q = "fail"]
      BY <1>1, <1>3
    <2>4. decode_failed' \in [Contexts -> BOOLEAN]
      BY <2>3, Zenon DEF TypeInv, TypeOK, CtxTypes
    <2> QED
      BY <1>1, <1>3, <2>1, <2>2, <2>4 DEF TypeInv, TypeOK, CtxTypes, VpuTypes, FinishSync
  <1> QED
    BY <1>2, <1>3

-----------------------------------------------------------------------------
(* Calls that never drop the mutex.                                        *)

LEMMA SurfaceCallTypes ==
    ASSUME TypeInv, NEW s \in Surfaces, SurfaceCall(s)
    PROVE  TypeInv'
  <1>1. CASE CreateSurface(s)
    <2>1. CtxTypes' /\ VpuTypes' /\ ThrTypes' /\ CallShape' /\ PictureShape'
      BY <1>1, Untouched DEF CreateSurface, TypeInv, TypeOK, ctxVars, thrVars
    <2>2. SurfTypes'
      BY <1>1, ConstantsAssumption DEF CreateSurface, TypeInv, TypeOK,
         SurfTypes, surfVars
    <2> QED
      BY <2>1, <2>2 DEF TypeInv, TypeOK
  <1>2. CASE LockSurface(s)
    <2>1. CtxTypes' /\ VpuTypes' /\ ThrTypes' /\ CallShape' /\ PictureShape'
      BY <1>2, Untouched DEF LockSurface, TypeInv, TypeOK, ctxVars, thrVars
    <2>2. SurfTypes'
      BY <1>2, ConstantsAssumption DEF LockSurface, TypeInv, TypeOK,
         SurfTypes, surfVars
    <2> QED
      BY <2>1, <2>2 DEF TypeInv, TypeOK
  <1>3. CASE UnlockSurface(s)
    <2>1. CtxTypes' /\ VpuTypes' /\ ThrTypes' /\ CallShape' /\ PictureShape'
      BY <1>3, Untouched DEF UnlockSurface, TypeInv, TypeOK, ctxVars, thrVars
    <2>2. SurfTypes'
      BY <1>3, ConstantsAssumption DEF UnlockSurface, TypeInv, TypeOK,
         SurfTypes, surfVars
    <2> QED
      BY <2>1, <2>2 DEF TypeInv, TypeOK
  <1>4. CASE EncoderTakes(s)
    <2>1. CtxTypes' /\ VpuTypes' /\ ThrTypes' /\ CallShape' /\ PictureShape'
      BY <1>4, Untouched DEF EncoderTakes, TypeInv, TypeOK, ctxVars, thrVars
    <2>2. SurfTypes'
      BY <1>4, ConstantsAssumption DEF EncoderTakes, TypeInv, TypeOK,
         SurfTypes, surfVars
    <2> QED
      BY <2>1, <2>2 DEF TypeInv, TypeOK
  <1>5. CASE PutImage(s)
    <2>1. ThrTypes' /\ CallShape' /\ PictureShape'
      BY <1>5, Untouched DEF PutImage, TypeInv, TypeOK, thrVars
    <2>2. CtxTypes'
      BY <1>5, ConstantsAssumption DEF PutImage, GiveBack, Owner, TypeInv,
         TypeOK, CtxTypes, ctxVars
    <2>3. SurfTypes'
      BY <1>5, ConstantsAssumption DEF PutImage, GiveBack, Owner, TypeInv,
         TypeOK, SurfTypes, surfVars
    <2>4. VpuTypes'
      <3>1. frame[s] \in Outputs
        BY <1>5 DEF PutImage, HasFrame, TypeInv, TypeOK, SurfTypes
      <3> QED
        BY <1>5, <3>1, GiveBackTypes DEF PutImage, TypeInv, TypeOK, VpuTypes
    <2> QED
      BY <2>1, <2>2, <2>3, <2>4 DEF TypeInv, TypeOK
  <1> QED
    BY <1>1, <1>2, <1>3, <1>4, <1>5 DEF SurfaceCall

LEMMA ContextCallTypes ==
    ASSUME TypeInv, NEW c \in Contexts, ContextCall(c)
    PROVE  TypeInv'
  <1>1. CASE DestroyContext(c)
    <2>1. ThrTypes' /\ CallShape' /\ PictureShape'
      BY <1>1, Untouched DEF DestroyContext, TypeInv, TypeOK, thrVars
    <2>2. CtxTypes'
      BY <1>1 DEF DestroyContext, TypeInv, TypeOK, CtxTypes, CtxStates
    <2>3. SurfTypes'
      BY <1>1, ConstantsAssumption DEF DestroyContext, Detach, FramesOf,
         TypeInv, TypeOK, SurfTypes, surfVars
    <2>4. VpuTypes'
      BY <1>1, ConstantsAssumption DEF DestroyContext, Detach, FramesOf,
         TypeInv, TypeOK, VpuTypes, vpuVars
    <2> QED
      BY <2>1, <2>2, <2>3, <2>4 DEF TypeInv, TypeOK
  <1>2. CASE DestroyContextFails(c)
    <2>1. ThrTypes' /\ CallShape' /\ PictureShape'
      BY <1>2, Untouched DEF DestroyContextFails, TypeInv, TypeOK, thrVars
    <2>2. PICK outOk \in BOOLEAN, inOk \in BOOLEAN, kept \in SUBSET FramesOf(c) :
             DestroyContextFails(c)!4!(outOk, inOk, kept)
      BY <1>2 DEF DestroyContextFails
    <2>3. CtxTypes'
      <3>1. /\ ctx_state' \in [Contexts -> CtxStates]
            /\ dec_out_buf' \in [Contexts -> Outputs \cup {NoOutput}]
            /\ dec_in_buf' \in [Contexts -> {"none", "open", "whole"}]
        BY <2>2 DEF TypeInv, TypeOK, CtxTypes, CtxStates
      <3> QED
        BY <1>2, <3>1 DEF DestroyContextFails, TypeInv, TypeOK, CtxTypes
    <2>4. SurfTypes'
      BY <1>2 DEF DestroyContextFails, TypeInv, TypeOK, SurfTypes
    <2>5. VpuTypes'
      <3>1. {frame[s].buf : s \in FramesOf(c) \ kept} \subseteq OutBufs
        BY DEF FramesOf, HasFrame, TypeInv, TypeOK, SurfTypes, Outputs
      <3>2. dec_out_buf[c] # NoOutput => dec_out_buf[c].buf \in OutBufs
        BY DEF TypeInv, TypeOK, CtxTypes, Outputs
      <3> DEFINE back == {frame[s].buf : s \in FramesOf(c) \ kept}
                            \cup IF outOk /\ dec_out_buf[c] # NoOutput
                                 THEN {dec_out_buf[c].buf} ELSE {}
      <3>3. back \subseteq OutBufs
        BY <3>1, <3>2
      <3>4. vpu_bufs' = [vpu_bufs EXCEPT ![c] = vpu_bufs[c] \cup back]
        BY <2>2, Zenon DEF TypeInv, TypeOK, VpuTypes
      <3> HIDE DEF back
      <3> QED
        BY <1>2, <3>3, <3>4 DEF DestroyContextFails, TypeInv, TypeOK, VpuTypes
    <2> QED
      BY <2>1, <2>3, <2>4, <2>5 DEF TypeInv, TypeOK
  <1>3. CASE RenderPicture(c)
    <2>1. VpuTypes' /\ ThrTypes' /\ CallShape' /\ PictureShape'
      BY <1>3, Untouched DEF RenderPicture, TypeInv, TypeOK, thrVars
    <2>2. CtxTypes'
      BY <1>3 DEF RenderPicture, TypeInv, TypeOK, CtxTypes, CtxStates
    <2>3. SurfTypes'
      BY <1>3, ConstantsAssumption DEF RenderPicture, RetainUsage, TypeInv,
         TypeOK, SurfTypes, surfVars
    <2> QED
      BY <2>1, <2>2, <2>3 DEF TypeInv, TypeOK
  <1>4. CASE RenderPictureAborts(c)
    <2>1. VpuTypes'
      BY <1>4, Untouched DEF RenderPictureAborts, TypeInv, TypeOK
    <2>2. AbortPicture(c)
      BY <1>4 DEF RenderPictureAborts
    <2>3. CtxTypes'
      <3>1. /\ ctx_state' \in [Contexts -> CtxStates]
            /\ decode_failed' \in [Contexts -> BOOLEAN]
            /\ dec_in_buf' \in [Contexts -> {"none", "open", "whole"}]
        BY <1>4 DEF RenderPictureAborts, TypeInv, TypeOK, CtxTypes, CtxStates
      <3> QED
        BY <1>4, <2>2, <3>1, AbortTypes
        DEF RenderPictureAborts, TypeInv, TypeOK, CtxTypes
    <2>4. SurfTypes'
      BY <1>4, <2>2, AbortTypes
      DEF RenderPictureAborts, RetainUsage, TypeInv, TypeOK, SurfTypes
    <2>5. ThrTypes' /\ CallShape'
      BY <1>4, <2>2, AbortTypes
      DEF RenderPictureAborts, TypeInv, TypeOK, ThrTypes, CallShape
    <2> QED
      BY <2>1, <2>2, <2>3, <2>4, <2>5, AbortTypes DEF TypeInv, TypeOK
  <1>5. CASE EndPicture(c)
    <2>1. SurfTypes'
      BY <1>5, Untouched DEF EndPicture, TypeInv, TypeOK
    <2>2. CtxTypes'
      BY <1>5, ConstantsAssumption DEF EndPicture, WakeAll, TypeInv, TypeOK,
         CtxTypes, ctxVars
    <2>3. VpuTypes'
      BY <1>5 DEF EndPicture, PictureOpen, PictureShape, TypeInv, TypeOK, VpuTypes
    <2>4. ThrTypes'
      BY <1>5, ConstantsAssumption DEF EndPicture, WakeAll, TypeInv, TypeOK,
         ThrTypes, Pcs, thrVars
    <2>5. CallShape'
      BY <1>5 DEF EndPicture, WakeAll, TypeInv, TypeOK, ThrTypes, CallShape,
         LocalsSet, thrVars
    <2>6. PictureShape'
      BY <1>5 DEF EndPicture, WakeAll, TypeInv, TypeOK, CtxTypes, PictureShape
    <2> QED
      BY <2>1, <2>2, <2>3, <2>4, <2>5, <2>6 DEF TypeInv, TypeOK
  <1>6. CASE EndPictureAborts(c)
    <2>1. VpuTypes'
      BY <1>6, Untouched DEF EndPictureAborts, TypeInv, TypeOK
    <2>2. AbortPicture(c)
      BY <1>6 DEF EndPictureAborts
    <2>3. CtxTypes'
      <3>1. /\ decode_failed' \in [Contexts -> BOOLEAN]
            /\ dec_in_buf' \in [Contexts -> {"none", "open", "whole"}]
        BY <1>6, RecycleInputTypes DEF EndPictureAborts, TypeInv, TypeOK, CtxTypes
      <3> QED
        BY <1>6, <2>2, <3>1, AbortTypes
        DEF EndPictureAborts, TypeInv, TypeOK, CtxTypes
    <2>4. SurfTypes'
      BY <1>6, <2>2, AbortTypes DEF EndPictureAborts, TypeInv, TypeOK, SurfTypes
    <2>5. ThrTypes' /\ CallShape'
      BY <1>6, <2>2, AbortTypes
      DEF EndPictureAborts, TypeInv, TypeOK, ThrTypes, CallShape
    <2> QED
      BY <2>1, <2>2, <2>3, <2>4, <2>5, AbortTypes DEF TypeInv, TypeOK
  <1>7. ASSUME NEW X \in TargetSets, CreateContext(c, X)
        PROVE  TypeInv'
    <2>1. ThrTypes' /\ CallShape'
      BY <1>7, Untouched DEF CreateContext, TypeInv, TypeOK, thrVars
    <2>2. CtxTypes'
      BY <1>7 DEF CreateContext, TypeInv, TypeOK, CtxTypes, CtxStates
    <2>3. SurfTypes'
      BY <1>7 DEF CreateContext, RetainUsage, TypeInv, TypeOK, SurfTypes
    <2>4. VpuTypes'
      BY <1>7 DEF CreateContext, TypeInv, TypeOK, VpuTypes
    <2>5. PictureShape'
      BY <1>7 DEF CreateContext, TypeInv, TypeOK, CtxTypes, PictureShape
    <2> QED
      BY <2>1, <2>2, <2>3, <2>4, <2>5 DEF TypeInv, TypeOK
  <1> QED
    BY <1>1, <1>2, <1>3, <1>4, <1>5, <1>6, <1>7 DEF ContextCall

LEMMA DestroySurfacesTypes ==
    ASSUME TypeInv, NEW X \in SUBSET Surfaces, DestroySurfaces(X)
    PROVE  TypeInv'
  <1>1. CtxTypes' /\ ThrTypes' /\ CallShape' /\ PictureShape'
    BY Untouched DEF DestroySurfaces, TypeInv, TypeOK, ctxVars, thrVars
  <1>2. PICK freed \in SUBSET {s \in X : ~decode_pending[s]} :
        \E stuck \in SUBSET {s \in X \ freed : HasFrame(s) /\ IsRunning(Owner(s))} :
           DestroySurfaces(X)!3!(freed)!(stuck)
    BY DEF DestroySurfaces
  <1>3. PICK stuck \in SUBSET {s \in X \ freed : HasFrame(s) /\ IsRunning(Owner(s))} :
           DestroySurfaces(X)!3!(freed)!(stuck)
    BY <1>2
  <1>4. SurfTypes'
    <2>1. /\ allocated' \in [Surfaces -> BOOLEAN]
          /\ decode_pending' \in [Surfaces -> BOOLEAN]
          /\ decode_error' \in [Surfaces -> BOOLEAN]
      BY <1>3 DEF TypeInv, TypeOK, SurfTypes
    <2>2. /\ frame' \in [Surfaces -> Outputs \cup {NoOutput}]
          /\ context_id' \in [Surfaces -> Contexts \cup {NoContext}]
      BY <1>3 DEF TypeInv, TypeOK, SurfTypes
    <2> QED
      BY <2>1, <2>2 DEF DestroySurfaces, TypeInv, TypeOK, SurfTypes
  <1>5. VpuTypes'
    <2>1. \A s \in Surfaces : HasFrame(s) => frame[s].buf \in OutBufs
      BY DEF HasFrame, TypeInv, TypeOK, SurfTypes, Outputs
    <2>2. vpu_bufs' \in [Contexts -> SUBSET OutBufs]
      BY <1>3, <2>1 DEF TypeInv, TypeOK, VpuTypes
    <2> QED
      BY <2>2 DEF DestroySurfaces, TypeInv, TypeOK, VpuTypes
  <1> QED
    BY <1>1, <1>4, <1>5 DEF TypeInv, TypeOK

-----------------------------------------------------------------------------
(* Threads.                                                                *)

LEMMA ThreadFacts ==
    ASSUME TypeInv, NEW t \in Threads
    PROVE  /\ pc[t] \in Pcs /\ call[t] \in Calls /\ hand[t] \in Hands
           /\ LocalsSet(pc[t], call[t], hand[t])
           /\ pc = [pc EXCEPT ![t] = pc[t]]
           /\ call = [call EXCEPT ![t] = call[t]]
           /\ hand = [hand EXCEPT ![t] = hand[t]]
           /\ mutex \in Threads \cup {NoThread} /\ waiters \in SUBSET Threads
  BY DEF TypeInv, TypeOK, ThrTypes, CallShape

LEMMA ReturnTypes ==
    ASSUME TypeInv, NEW t \in Threads, Return(t), hand' = hand, mutex' = mutex,
           waiters' = waiters
    PROVE  ThrTypes' /\ CallShape'
  <1>1. NoCall \in Calls /\ LocalsSet("idle", NoCall, hand[t])
    BY FreshCalls, ThreadFacts DEF LocalsSet, NoCall
  <1> QED
    BY <1>1, ThreadFacts, ThreadMoves DEF Return, Pcs

LEMMA CallTypes ==
    ASSUME TypeInv, NEW t \in Threads, NEW s \in Surfaces,
           \/ \E timed \in BOOLEAN : CallSyncSurface(t, s, timed)
           \/ \E c \in Contexts : CallBeginPicture(t, c, s)
    PROVE  TypeInv'
  <1>1. CtxTypes' /\ SurfTypes' /\ VpuTypes' /\ PictureShape'
    BY Untouched DEF CallSyncSurface, CallBeginPicture, TypeInv, TypeOK, ctxVars
  <1>2. ASSUME NEW timed \in BOOLEAN, CallSyncSurface(t, s, timed)
        PROVE  ThrTypes' /\ CallShape'
    <2> DEFINE k == [NoCall EXCEPT !.op = "sync", !.surf = s, !.timed = timed]
    <2>1. k \in Calls /\ LocalsSet("enter", k, hand[t])
      BY FreshCalls, ThreadFacts DEF LocalsSet, NoCall
    <2>2. /\ pc' = [pc EXCEPT ![t] = "enter"] /\ call' = [call EXCEPT ![t] = k]
          /\ hand' = hand /\ mutex' = mutex /\ waiters' = waiters
      BY <1>2 DEF CallSyncSurface
    <2> HIDE DEF k
    <2> QED
      BY <2>1, <2>2, ThreadFacts, ThreadMoves DEF Pcs
  <1>3. ASSUME NEW c \in Contexts, CallBeginPicture(t, c, s)
        PROVE  ThrTypes' /\ CallShape'
    <2> DEFINE k == [NoCall EXCEPT !.op = "begin", !.ctx = c, !.surf = s]
    <2>1. k \in Calls /\ LocalsSet("begin", k, hand[t])
      BY FreshCalls, ThreadFacts DEF LocalsSet, NoCall
    <2>2. /\ pc' = [pc EXCEPT ![t] = "begin"] /\ call' = [call EXCEPT ![t] = k]
          /\ hand' = hand /\ mutex' = mutex /\ waiters' = waiters
      BY <1>3 DEF CallBeginPicture
    <2> HIDE DEF k
    <2> QED
      BY <2>1, <2>2, ThreadFacts, ThreadMoves DEF Pcs
  <1> QED
    BY <1>1, <1>2, <1>3 DEF TypeInv, TypeOK

LEMMA BeginTypes ==
    ASSUME TypeInv, NEW t \in Threads, BeginPicture(t)
    PROVE  TypeInv'
  <1>1. CASE BeginSleeps(t)
    <2>1. CtxTypes' /\ SurfTypes' /\ VpuTypes' /\ PictureShape'
      BY <1>1, Untouched DEF BeginSleeps, TypeInv, TypeOK, ctxVars
    <2>2. ThrTypes' /\ CallShape'
      BY <1>1 DEF BeginSleeps, TypeInv, TypeOK, ThrTypes, CallShape
    <2> QED
      BY <2>1, <2>2 DEF TypeInv, TypeOK
  <1>2. CASE BeginFails(t)
    <2>1. CtxTypes' /\ SurfTypes' /\ VpuTypes' /\ PictureShape'
      BY <1>2, Untouched DEF BeginFails, TypeInv, TypeOK, ctxVars
    <2>2. ThrTypes' /\ CallShape'
      BY <1>2, ReturnTypes DEF BeginFails
    <2> QED
      BY <2>1, <2>2 DEF TypeInv, TypeOK
  <1>3. CASE BeginSyncs(t)
    <2>1. CtxTypes' /\ SurfTypes' /\ VpuTypes' /\ PictureShape'
      BY <1>3, Untouched DEF BeginSyncs, TypeInv, TypeOK, ctxVars
    <2> DEFINE k == [call[t] EXCEPT !.op = "retry"]
    <2>2. k \in Calls /\ LocalsSet("enter", k, hand[t])
      BY <1>3, ThreadFacts DEF BeginSyncs, AtBegin, LocalsSet, Calls
    <2>3. /\ pc' = [pc EXCEPT ![t] = "enter"] /\ call' = [call EXCEPT ![t] = k]
          /\ hand' = hand /\ mutex' = mutex /\ waiters' = waiters
      BY <1>3 DEF BeginSyncs
    <2> HIDE DEF k
    <2>4. ThrTypes' /\ CallShape'
      BY <2>2, <2>3, ThreadFacts, ThreadMoves DEF Pcs
    <2> QED
      BY <2>1, <2>4 DEF TypeInv, TypeOK
  <1>4. CASE BeginRefused(t)
    <2>1. SurfTypes' /\ VpuTypes' /\ PictureShape'
      BY <1>4, Untouched DEF BeginRefused, TypeInv, TypeOK
    <2>2. CtxTypes'
      BY <1>4 DEF BeginRefused, TypeInv, TypeOK, CtxTypes
    <2>3. ThrTypes' /\ CallShape'
      BY <1>4, ReturnTypes DEF BeginRefused
    <2> QED
      BY <2>1, <2>2, <2>3 DEF TypeInv, TypeOK
  <1>5. CASE BeginAccepts(t)
    <2>1. call[t].ctx \in Contexts /\ call[t].surf \in Surfaces
      BY <1>5, ThreadFacts DEF BeginAccepts, AtBegin, LocalsSet
    <2>2. CtxTypes'
      BY <1>5, <2>1 DEF BeginAccepts, TypeInv, TypeOK, CtxTypes
    <2>3. SurfTypes'
      BY <1>5, <2>1 DEF BeginAccepts, RetainUsage, TypeInv, TypeOK, SurfTypes
    <2>4. VpuTypes'
      <3>1. HasFrame(call[t].surf) => frame[call[t].surf] \in Outputs
        BY <2>1 DEF HasFrame, TypeInv, TypeOK, SurfTypes
      <3> QED
        BY <1>5, <3>1, GiveBackTypes DEF BeginAccepts, TypeInv, TypeOK, VpuTypes
    <2>5. ThrTypes' /\ CallShape'
      BY <1>5, ReturnTypes DEF BeginAccepts
    <2>6. PictureShape'
      BY <1>5, <2>1 DEF BeginAccepts, TypeInv, TypeOK, CtxTypes, PictureShape
    <2> QED
      BY <2>2, <2>3, <2>4, <2>5, <2>6 DEF TypeInv, TypeOK
  <1> QED
    BY <1>1, <1>2, <1>3, <1>4, <1>5 DEF BeginPicture

LEMMA SyncChecksTypes ==
    ASSUME TypeInv, NEW t \in Threads, SyncChecks(t)
    PROVE  TypeInv'
  <1>1. CASE SyncEnter(t)
    <2>1. CtxTypes' /\ SurfTypes' /\ VpuTypes' /\ PictureShape'
      BY <1>1, Untouched DEF SyncEnter, TypeInv, TypeOK, ctxVars
    <2>2. CASE SyncReturn(t, FALSE) /\ UNCHANGED waiters
      BY <1>1, <2>1, <2>2, SyncReturnTypes, ThreadFacts
      DEF SyncEnter, TypeInv, TypeOK
    <2>3. CASE mutex' = t /\ pc' = [pc EXCEPT ![t] = "check"]
               /\ UNCHANGED <<waiters, call, hand>>
      <3>1. LocalsSet("check", call[t], hand[t])
        BY <1>1, ThreadFacts DEF SyncEnter, LocalsSet
      <3>2. ThrTypes'
        BY <2>3 DEF TypeInv, TypeOK, ThrTypes, Pcs
      <3>3. CallShape'
        BY <2>3, <3>1 DEF TypeInv, TypeOK, ThrTypes, CallShape
      <3> QED
        BY <2>1, <3>2, <3>3 DEF TypeInv, TypeOK
    <2> QED
      BY <1>1, <2>2, <2>3 DEF SyncEnter
  <1>2. CASE SyncGivesUp(t)
    <2>1. CtxTypes' /\ SurfTypes' /\ VpuTypes' /\ PictureShape'
      BY <1>2, Untouched DEF SyncGivesUp, TypeInv, TypeOK, ctxVars
    <2>2. pc[t] # "idle" /\ waiters' \in SUBSET Threads
      BY <1>2, ThreadFacts DEF SyncGivesUp, AtCheck
    <2>3. PICK ok : SyncReturn(t, ok)
      BY <1>2 DEF SyncGivesUp
    <2> QED
      BY <2>1, <2>2, <2>3, SyncReturnTypes DEF TypeInv, TypeOK
  <1>3. CASE SyncSleeps(t)
    <2>1. CtxTypes' /\ SurfTypes' /\ VpuTypes' /\ PictureShape'
      BY <1>3, Untouched DEF SyncSleeps, TypeInv, TypeOK, ctxVars
    <2> DEFINE c == context_id[call[t].surf]
               k == [call[t] EXCEPT !.cid = c]
    <2>2. c \in Contexts /\ pc[t] = "check"
      BY <1>3 DEF SyncSleeps, OwnerLive, AtCheck, IsRunning
    <2>3. k \in Calls /\ LocalsSet("check", k, hand[t])
      BY <2>2, ThreadFacts DEF LocalsSet, Calls
    <2>4. /\ pc' = [pc EXCEPT ![t] = "check"] /\ call' = [call EXCEPT ![t] = k]
          /\ hand' = hand /\ mutex' = NoThread
          /\ waiters' \in SUBSET Threads
      BY <1>3, <2>2, ThreadFacts DEF SyncSleeps
    <2> HIDE DEF k, c
    <2>5. ThrTypes' /\ CallShape'
      BY <2>3, <2>4, ThreadFacts, ThreadMoves DEF Pcs
    <2> QED
      BY <2>1, <2>5 DEF TypeInv, TypeOK
  <1>4. CASE SyncRetriesOutput(t)
    <2>1. SurfTypes' /\ PictureShape'
      BY <1>4, Untouched DEF SyncRetriesOutput, TypeInv, TypeOK
    <2> DEFINE c == context_id[call[t].surf]
    <2>2. /\ c \in Contexts /\ pc[t] = "check" /\ dec_out_buf[c] \in Outputs
          /\ waiters' \in SUBSET Threads
      BY <1>4, ThreadFacts
      DEF SyncRetriesOutput, OwnerLive, AtCheck, IsRunning, TypeInv, TypeOK, CtxTypes
    <2>3. PICK q \in QueueResults(call[t].timed) : SyncRetriesOutput(t)!1!4!(q)
      BY <1>4 DEF SyncRetriesOutput
    <2>4. CASE q = "ok"
      <3>1. VpuTypes' /\ CtxTypes'
        BY <1>4, <2>2, <2>3, <2>4, GiveBackTypes
        DEF SyncRetriesOutput, TypeInv, TypeOK, VpuTypes, CtxTypes
      <3>2. ThrTypes' /\ CallShape'
        BY <1>4, <2>3, <2>4, ThreadFacts
        DEF SyncRetriesOutput, TypeInv, TypeOK, ThrTypes, CallShape
      <3> QED
        BY <2>1, <3>1, <3>2 DEF TypeInv, TypeOK
    <2>5. CASE q # "ok"
      <3>1. VpuTypes'
        BY <1>4, <2>3, <2>5 DEF SyncRetriesOutput, TypeInv, TypeOK, VpuTypes
      <3>2. decode_failed' \in [Contexts -> BOOLEAN]
        <4>1. decode_failed' = [decode_failed EXCEPT ![c] = decode_failed[c] \/ q = "fail"]
          BY <2>3, <2>5
        <4> QED
          BY <4>1, Zenon DEF TypeInv, TypeOK, CtxTypes
      <3>3. CtxTypes'
        BY <1>4, <2>3, <2>5, <3>2 DEF SyncRetriesOutput, TypeInv, TypeOK, CtxTypes
      <3>4. ThrTypes' /\ CallShape'
        BY <2>2, <2>3, <2>5, SyncReturnTypes
      <3> QED
        BY <2>1, <3>1, <3>3, <3>4 DEF TypeInv, TypeOK
    <2> QED
      BY <2>4, <2>5
  <1>5. CASE SyncStarts(t)
    <2>1. SurfTypes' /\ VpuTypes' /\ PictureShape'
      BY <1>5, Untouched DEF SyncStarts, TypeInv, TypeOK
    <2> DEFINE c == context_id[call[t].surf]
               k == [call[t] EXCEPT !.cid = c, !.tries = MaxAttempts]
    <2>2. c \in Contexts /\ pc[t] = "check" /\ MaxAttempts \in 0 .. MaxAttempts
      BY <1>5, ConstantsAssumption DEF SyncStarts, OwnerLive, AtCheck, IsRunning
    <2>3. CtxTypes'
      BY <1>5, <2>2 DEF SyncStarts, TypeInv, TypeOK, CtxTypes
    <2>4. k \in Calls /\ LocalsSet("loop", k, hand[t])
      BY <2>2, ThreadFacts DEF LocalsSet, Calls
    <2>5. /\ pc' = [pc EXCEPT ![t] = "loop"] /\ call' = [call EXCEPT ![t] = k]
          /\ hand' = hand /\ mutex' = t /\ waiters' = waiters
      BY <1>5 DEF SyncStarts
    <2> HIDE DEF k, c
    <2>6. ThrTypes' /\ CallShape'
      BY <2>4, <2>5, ThreadFacts, ThreadMoves DEF Pcs
    <2> QED
      BY <2>1, <2>3, <2>6 DEF TypeInv, TypeOK
  <1>6. CASE SyncTooLate(t)
    <2>1. CtxTypes' /\ SurfTypes' /\ VpuTypes' /\ PictureShape'
      BY <1>6, Untouched DEF SyncTooLate, TypeInv, TypeOK, ctxVars
    <2>2. ThrTypes' /\ CallShape'
      BY <1>6, SyncReturnTypes, ThreadFacts DEF SyncTooLate, OwnerLive, AtCheck
    <2> QED
      BY <2>1, <2>2 DEF TypeInv, TypeOK
  <1>7. CASE SleepTimesOut(t)
    <2>1. CtxTypes' /\ SurfTypes' /\ VpuTypes' /\ PictureShape'
      BY <1>7, Untouched DEF SleepTimesOut, TypeInv, TypeOK, ctxVars
    <2>2. waiters' \in SUBSET Threads /\ pc[t] = "check"
      BY <1>7, ThreadFacts DEF SleepTimesOut
    <2>3. CASE SyncReturn(t, FALSE)
      BY <2>1, <2>2, <2>3, SyncReturnTypes DEF TypeInv, TypeOK
    <2>4. CASE mutex' = t /\ UNCHANGED <<pc, call, hand>>
      BY <2>1, <2>2, <2>4 DEF TypeInv, TypeOK, ThrTypes, CallShape
    <2> QED
      BY <1>7, <2>3, <2>4 DEF SleepTimesOut
  <1> QED
    BY <1>1, <1>2, <1>3, <1>4, <1>5, <1>6, <1>7 DEF SyncChecks

LEMMA SyncLoopsTypes ==
    ASSUME TypeInv, NEW t \in Threads, SyncLoops(t)
    PROVE  TypeInv'
  <1>1. pc[t] = "loop" /\ LocalsSet("loop", call[t], hand[t])
    BY ThreadFacts DEF SyncLoops, SyncDone, SyncBreaks, SyncUnlocks, AtLoop
  <1>2. CASE SyncDone(t)
    <2>1. SurfTypes' /\ VpuTypes' /\ PictureShape'
      BY <1>2, Untouched DEF SyncDone, TypeInv, TypeOK
    <2>2. CtxTypes'
      BY <1>2 DEF SyncDone, FinishSync, TypeInv, TypeOK, CtxTypes
    <2>3. PICK ok : SyncReturn(t, ok) /\ waiters' = {}
      BY <1>2 DEF SyncDone, FinishSync, WakeAll
    <2>4. ThrTypes' /\ CallShape'
      BY <1>1, <2>3, SyncReturnTypes
    <2> QED
      BY <2>1, <2>2, <2>4 DEF TypeInv, TypeOK
  <1>3. CASE SyncBreaks(t)
    <2>1. SurfTypes' /\ VpuTypes' /\ PictureShape'
      BY <1>3, Untouched DEF SyncBreaks, TypeInv, TypeOK
    <2>2. CtxTypes'
      BY <1>3 DEF SyncBreaks, FinishSync, TypeInv, TypeOK, CtxTypes
    <2>3. SyncReturn(t, FALSE) /\ waiters' = {}
      BY <1>3 DEF SyncBreaks, FinishSync, WakeAll
    <2>4. ThrTypes' /\ CallShape'
      BY <1>1, <2>3, SyncReturnTypes
    <2> QED
      BY <2>1, <2>2, <2>4 DEF TypeInv, TypeOK
  <1>4. CASE SyncUnlocks(t)
    <2> DEFINE s == NextTarget(t)
               n == TriesLeft(t)
               k == [call[t] EXCEPT !.target = s, !.tries = n]
    <2>1. CtxTypes' /\ PictureShape'
      BY <1>4, Untouched DEF SyncUnlocks, TypeInv, TypeOK, ctxVars
    <2>2. s \in Surfaces
      BY <1>1 DEF NextTarget, LocalsSet, TypeInv, TypeOK, CtxTypes
    <2>3. n \in 0 .. MaxAttempts
      BY <1>4, ThreadFacts, ConstantsAssumption
      DEF SyncUnlocks, LoopDone, AttemptsSpent, TriesLeft, Calls
    <2>4. SurfTypes'
      BY <1>4, <2>2 DEF SyncUnlocks, TypeInv, TypeOK, SurfTypes
    <2>5. VpuTypes'
      <3>1. HasFrame(s) => frame[s] \in Outputs
        BY <2>2 DEF HasFrame, TypeInv, TypeOK, SurfTypes
      <3> QED
        BY <1>4, <3>1, GiveBackTypes DEF SyncUnlocks, TypeInv, TypeOK, VpuTypes
    <2>6. /\ pc' = [pc EXCEPT ![t] = "dequeue"] /\ call' = [call EXCEPT ![t] = k]
          /\ hand' = hand /\ mutex' = NoThread /\ waiters' = waiters
      BY <1>4 DEF SyncUnlocks
    <2> HIDE DEF s, n
    <2>7. k \in Calls /\ LocalsSet("dequeue", k, hand[t])
      BY <1>1, <2>2, <2>3, ThreadFacts DEF LocalsSet, Calls
    <2> HIDE DEF k
    <2>8. ThrTypes' /\ CallShape'
      BY <2>6, <2>7, ThreadFacts, ThreadMoves DEF Pcs
    <2> QED
      BY <2>1, <2>4, <2>5, <2>8 DEF TypeInv, TypeOK
  <1> QED
    BY <1>2, <1>3, <1>4 DEF SyncLoops

LEMMA VpuAnswersTypes ==
    ASSUME TypeInv, NEW t \in Threads, VpuAnswers(t)
    PROVE  TypeInv'
  <1>1. /\ pc[t] = "dequeue" /\ LocalsSet("dequeue", call[t], hand[t])
        /\ CtxTypes' /\ SurfTypes' /\ PictureShape'
    BY ThreadFacts, Untouched
    DEF VpuAnswers, VpuSilent, VpuHollow, VpuOutputs, TypeInv, TypeOK, ctxVars
  <1>2. /\ pc' = [pc EXCEPT ![t] = "resume"] /\ call' = call
        /\ mutex' = mutex /\ waiters' = waiters
    BY DEF VpuAnswers, VpuSilent, VpuHollow, VpuOutputs
  <1>3. \A h \in Hands : /\ hand' = [hand EXCEPT ![t] = h]
                         /\ h.reply \in {"hollow", "bad", "frame"} => h.out \in Outputs
                         => ThrTypes' /\ CallShape'
    <2> SUFFICES ASSUME NEW h \in Hands, hand' = [hand EXCEPT ![t] = h],
                        h.reply \in {"hollow", "bad", "frame"} => h.out \in Outputs
                 PROVE  ThrTypes' /\ CallShape'
      OBVIOUS
    <2>1. LocalsSet("resume", call[t], h)
      BY <1>1 DEF LocalsSet
    <2> QED
      BY <1>2, <2>1, ThreadFacts, ThreadMoves DEF Pcs
  <1>4. CASE VpuSilent(t)
    <2>1. PICK r \in {"timeout", "error", "empty"} :
             hand' = [hand EXCEPT ![t] = [reply |-> r, out |-> NoOutput]]
      BY <1>4 DEF VpuSilent
    <2>2. [reply |-> r, out |-> NoOutput] \in Hands
      BY DEF Hands, Replies
    <2>3. ThrTypes' /\ CallShape'
      BY <1>3, <2>1, <2>2
    <2> QED
      BY <1>1, <1>4, <2>3, Untouched DEF VpuSilent, TypeInv, TypeOK
  <1>5. CASE VpuHollow(t)
    <2>1. PICK b \in vpu_bufs[call[t].cid], s \in Surfaces :
             /\ hand' = [hand EXCEPT ![t] =
                   [reply |-> "hollow", out |-> [buf |-> b, pic |-> s, ctx |-> call[t].cid]]]
             /\ vpu_bufs' = [vpu_bufs EXCEPT ![call[t].cid] = @ \ {b}]
      BY <1>5 DEF VpuHollow
    <2>2. VpuTypes'
      BY <1>5, <2>1 DEF VpuHollow, TypeInv, TypeOK, VpuTypes
    <2>3. [buf |-> b, pic |-> s, ctx |-> call[t].cid] \in Outputs
      BY <1>1 DEF LocalsSet, Outputs, TypeInv, TypeOK, VpuTypes
    <2>4. ThrTypes' /\ CallShape'
      BY <1>3, <2>1, <2>3 DEF Hands, Replies
    <2> QED
      BY <1>1, <2>2, <2>4 DEF TypeInv, TypeOK
  <1>6. CASE VpuOutputs(t)
    <2> DEFINE q == vpu_queue[call[t].cid]
    <2>1. PICK b \in vpu_bufs[call[t].cid], r \in {"bad", "frame"} :
             /\ hand' = [hand EXCEPT ![t] =
                   [reply |-> r, out |-> [buf |-> b, pic |-> Head(q), ctx |-> call[t].cid]]]
             /\ vpu_bufs' = [vpu_bufs EXCEPT ![call[t].cid] = @ \ {b}]
      BY <1>6 DEF VpuOutputs
    <2>2. call[t].cid \in Contexts /\ q \in Seq(Surfaces) /\ q # << >>
      BY <1>1, <1>6 DEF VpuOutputs, LocalsSet, TypeInv, TypeOK, VpuTypes
    <2>3. VpuTypes'
      BY <1>6, <2>1, <2>2 DEF VpuOutputs, TypeInv, TypeOK, VpuTypes
    <2>4. [buf |-> b, pic |-> Head(q), ctx |-> call[t].cid] \in Outputs
      BY <2>2 DEF Outputs, TypeInv, TypeOK, VpuTypes
    <2> HIDE DEF q
    <2>5. ThrTypes' /\ CallShape'
      BY <1>3, <2>1, <2>4 DEF Hands, Replies
    <2> QED
      BY <1>1, <2>3, <2>5 DEF TypeInv, TypeOK
  <1> QED
    BY <1>4, <1>5, <1>6 DEF VpuAnswers

LEMMA SyncResumesTypes ==
    ASSUME TypeInv, NEW t \in Threads, SyncResumes(t)
    PROVE  TypeInv'
  <1> DEFINE c == call[t].cid
             s == call[t].target
  <1>1. /\ pc[t] = "resume" /\ LocalsSet("resume", call[t], hand[t])
        /\ c \in Contexts /\ s \in Surfaces
    BY ThreadFacts
    DEF SyncResumes, SyncLost, SyncRepeats, SyncDropsHollow, SyncDropsBad,
        SyncKeepsFrame, AtResume, LocalsSet
  <1>2. LocalsSet("loop", call[t], NoHand) /\ NoHand \in Hands
    BY <1>1, NoHandTypes DEF LocalsSet, NoHand
  <1>3. CASE SyncLost(t)
    <2>1. VpuTypes' /\ PictureShape'
      BY <1>3, Untouched DEF SyncLost, TypeInv, TypeOK
    <2>2. CtxTypes'
      BY <1>3 DEF SyncLost, FinishSync, TypeInv, TypeOK, CtxTypes
    <2>3. SurfTypes'
      BY <1>3 DEF SyncLost, TypeInv, TypeOK, SurfTypes
    <2>4. SyncReturn(t, FALSE) /\ waiters' = {}
      BY <1>3 DEF SyncLost, FinishSync, WakeAll
    <2>5. ThrTypes' /\ CallShape'
      BY <1>1, <2>4, SyncReturnTypes
    <2> QED
      BY <2>1, <2>2, <2>3, <2>5 DEF TypeInv, TypeOK
  <1>4. CASE SyncRepeats(t)
    <2>1. CtxTypes' /\ SurfTypes' /\ VpuTypes' /\ PictureShape'
      BY <1>4, Untouched DEF SyncRepeats, TypeInv, TypeOK, ctxVars
    <2>2. ThrTypes' /\ CallShape'
      BY <1>2, <1>4, ThreadFacts, ThreadMoves DEF SyncRepeats, Pcs
    <2> QED
      BY <2>1, <2>2 DEF TypeInv, TypeOK
  <1>5. CASE SyncDropsHollow(t)
    <2>1. SurfTypes' /\ PictureShape'
      BY <1>5, Untouched DEF SyncDropsHollow, TypeInv, TypeOK
    <2>2. hand[t].out \in Outputs /\ RecycleOutput(t, c, hand[t].out)
      BY <1>1, <1>5 DEF SyncDropsHollow, LocalsSet
    <2>3. CtxTypes' /\ VpuTypes'
      BY <1>1, <1>5, <2>2, RecycleOutputTypes
      DEF SyncDropsHollow, TypeInv, TypeOK, CtxTypes, VpuTypes
    <2> QED
      BY <1>1, <2>1, <2>2, <2>3, RecycleOutputTypes DEF TypeInv, TypeOK
  <1>6. CASE SyncDropsBad(t)
    <2>1. PictureShape'
      BY <1>6, Untouched DEF SyncDropsBad, TypeInv
    <2>2. hand[t].out \in Outputs /\ RecycleOutput(t, c, hand[t].out)
      BY <1>1, <1>6 DEF SyncDropsBad, LocalsSet
    <2>3. submitted' \in [Contexts -> Seq(Surfaces)]
      BY <1>1, <1>6 DEF SyncDropsBad, PopSubmitted, TypeInv, TypeOK, CtxTypes
    <2>4. CtxTypes' /\ VpuTypes'
      BY <1>1, <1>6, <2>2, <2>3, RecycleOutputTypes
      DEF SyncDropsBad, TypeInv, TypeOK, CtxTypes, VpuTypes
    <2>5. SurfTypes'
      BY <1>1, <1>6 DEF SyncDropsBad, TypeInv, TypeOK, SurfTypes
    <2> QED
      BY <1>1, <2>1, <2>2, <2>4, <2>5, RecycleOutputTypes DEF TypeInv, TypeOK
  <1>7. CASE SyncKeepsFrame(t)
    <2>1. VpuTypes' /\ PictureShape'
      BY <1>7, Untouched DEF SyncKeepsFrame, TypeInv, TypeOK
    <2>2. submitted' \in [Contexts -> Seq(Surfaces)]
      BY <1>1, <1>7 DEF SyncKeepsFrame, PopSubmitted, TypeInv, TypeOK, CtxTypes
    <2>3. CtxTypes'
      BY <1>7, <2>2 DEF SyncKeepsFrame, TypeInv, TypeOK, CtxTypes
    <2>4. SurfTypes'
      BY <1>1, <1>7 DEF SyncKeepsFrame, LocalsSet, TypeInv, TypeOK, SurfTypes
    <2>5. ThrTypes' /\ CallShape'
      BY <1>2, <1>7, ThreadFacts, ThreadMoves DEF SyncKeepsFrame, Pcs
    <2> QED
      BY <2>1, <2>3, <2>4, <2>5 DEF TypeInv, TypeOK
  <1> QED
    BY <1>3, <1>4, <1>5, <1>6, <1>7 DEF SyncResumes

-----------------------------------------------------------------------------
LEMMA TypeInit == Init => TypeInv
  <1> SUFFICES ASSUME Init
               PROVE  TypeInv
    OBVIOUS
  <1>1. CtxTypes /\ SurfTypes /\ VpuTypes /\ PictureShape
    BY ConstantsAssumption
    DEF Init, CtxTypes, SurfTypes, VpuTypes, CtxStates, PictureShape
  <1>2. ThrTypes
    BY FreshCalls, NoHandTypes DEF Init, ThrTypes, Pcs
  <1>3. CallShape
    BY DEF Init, CallShape, LocalsSet, NoCall, NoHand
  <1> QED
    BY <1>1, <1>2, <1>3 DEF TypeInv, TypeOK

LEMMA TypeStep == TypeInv /\ [Next]_vars => TypeInv'
  <1> SUFFICES ASSUME TypeInv, [Next]_vars
               PROVE  TypeInv'
    OBVIOUS
  <1>1. ASSUME NEW t \in Threads, ThreadStep(t)
        PROVE  TypeInv'
    BY <1>1, BeginTypes, SyncChecksTypes, SyncLoopsTypes, VpuAnswersTypes,
       SyncResumesTypes DEF ThreadStep
  <1>2. ASSUME NEW t \in Threads, NEW s \in Surfaces,
               \/ \E timed \in BOOLEAN : CallSyncSurface(t, s, timed)
               \/ \E c \in Contexts : CallBeginPicture(t, c, s)
        PROVE  TypeInv'
    BY <1>2, CallTypes
  <1>3. ASSUME NEW c \in Contexts, ContextCall(c)
        PROVE  TypeInv'
    BY <1>3, ContextCallTypes
  <1>4. ASSUME NEW s \in Surfaces, SurfaceCall(s)
        PROVE  TypeInv'
    BY <1>4, SurfaceCallTypes
  <1>5. ASSUME NEW X \in SUBSET Surfaces, DestroySurfaces(X)
        PROVE  TypeInv'
    BY <1>5, DestroySurfacesTypes
  <1>6. CASE UNCHANGED vars
    BY <1>6, Untouched DEF vars, ctxVars, thrVars, TypeInv, TypeOK
  <1> QED
    BY <1>1, <1>2, <1>3, <1>4, <1>5, <1>6 DEF Next

(* Every step the code can take, on any number of contexts, surfaces,      *)
(* threads and buffers, reads its locals after they are set and leaves     *)
(* every variable with its type; TypeInv is the fact the other proofs use. *)
THEOREM TypesHold == Spec => []TypeInv
  BY TypeInit, TypeStep, PTL DEF Spec

THEOREM TypeCorrect == Spec => []TypeOK
  <1>1. TypeInv => TypeOK
    BY DEF TypeInv
  <1> QED
    BY <1>1, TypesHold, PTL

-----------------------------------------------------------------------------
(* The lock.                                                               *)

LEMMA SyncFacts ==
    ASSUME TypeInv, SyncInv, NEW t \in Threads, AtVpu(pc[t])
    PROVE  /\ call[t].cid \in Contexts
           /\ sync_active[call[t].cid]
           /\ ctx_state[call[t].cid] = "running"
           /\ ~decode_picture_active[call[t].cid]
           /\ dec_out_buf[call[t].cid] = NoOutput
           /\ pc[t] # "loop" => call[t].target = NextTarget(t)
           /\ pc[t] = "loop" => mutex = t
  <1>1. call[t].cid \in Contexts
    BY ThreadFacts DEF AtVpu, LocalsSet
  <1>2. Syncing(t, call[t].cid)
    BY DEF AtVpu, Syncing
  <1>3. sync_active[call[t].cid]
    BY <1>1, <1>2 DEF SyncInv, OneSyncer
  <1> QED
    BY <1>1, <1>2, <1>3
    DEF SyncInv, SyncRuns, SyncExcludesPicture, RetainedSlotFree, LoopHoldsMutex

(* A step of no syncing thread, on decoders that are not synchronised.     *)
LEMMA QuietStep ==
    ASSUME TypeInv, SyncInv,
           UNCHANGED sync_active,
           \A c \in Contexts : sync_active[c] =>
              /\ ctx_state'[c] = ctx_state[c]
              /\ decode_picture_active'[c] = decode_picture_active[c]
              /\ submitted'[c] = submitted[c]
              /\ dec_out_buf'[c] = dec_out_buf[c],
           \A u \in Threads :
              \/ pc'[u] = pc[u] /\ call'[u] = call[u]
              \/ ~AtVpu(pc[u]) /\ ~AtVpu(pc'[u]),
           \A u \in Threads : pc[u] = "loop" => mutex' = mutex
    PROVE  SyncInv'
  <1>1. \A u \in Threads, c \in Contexts : Syncing(u, c)' <=> Syncing(u, c)
    BY DEF Syncing, AtVpu
  <1>2. OneSyncer'
    BY <1>1 DEF SyncInv, OneSyncer
  <1>3. LoopHoldsMutex'
    BY DEF SyncInv, LoopHoldsMutex, AtVpu
  <1>4. SyncRuns'
    BY DEF SyncInv, SyncRuns
  <1>5. RetainedSlotFree'
    BY <1>1 DEF SyncInv, OneSyncer, RetainedSlotFree
  <1>6. SyncExcludesPicture'
    <2> SUFFICES ASSUME NEW c \in Contexts, sync_active[c]
                 PROVE  /\ ~decode_picture_active'[c]
                        /\ \A u \in Threads : Syncing(u, c)' /\ pc'[u] # "loop" =>
                              call'[u].target = NextTarget(u)'
      BY DEF SyncExcludesPicture
    <2>1. ~decode_picture_active'[c]
      BY DEF SyncInv, SyncExcludesPicture
    <2>2. ASSUME NEW u \in Threads, Syncing(u, c)', pc'[u] # "loop"
          PROVE  call'[u].target = NextTarget(u)'
      <3>1. Syncing(u, c) /\ call'[u] = call[u] /\ pc[u] # "loop"
        BY <1>1, <2>2 DEF Syncing, AtVpu
      <3>2. call[u].target = NextTarget(u)
        BY <3>1 DEF SyncInv, SyncExcludesPicture
      <3> QED
        BY <3>1, <3>2 DEF NextTarget, Syncing
    <2> QED
      BY <2>1, <2>2
  <1> QED
    BY <1>2, <1>3, <1>4, <1>5, <1>6 DEF SyncInv

LEMMA StartStep ==
    ASSUME TypeInv, SyncInv, NEW t \in Threads, SyncStarts(t)
    PROVE  SyncInv'
  <1> DEFINE c == context_id[call[t].surf]
  <1>1. /\ c \in Contexts /\ ctx_state[c] = "running" /\ ~sync_active[c]
        /\ ~decode_picture_active[c] /\ dec_out_buf[c] = NoOutput
        /\ pc[t] = "check" /\ (mutex = t \/ mutex = NoThread)
    BY DEF SyncStarts, OwnerLive, AtCheck, MayRun, Free, IsRunning, MayStartSync
  <1>2. /\ pc' = [pc EXCEPT ![t] = "loop"]
        /\ sync_active' = [sync_active EXCEPT ![c] = TRUE]
        /\ UNCHANGED <<ctx_state, decode_picture_active, submitted, dec_out_buf>>
        /\ mutex' = t
    BY DEF SyncStarts
  <1>3. call'[t].cid = c /\ \A u \in Threads \ {t} : call'[u] = call[u]
    <2>1. call' = [call EXCEPT ![t] = [call[t] EXCEPT !.cid = c, !.tries = MaxAttempts]]
      BY DEF SyncStarts
    <2>2. /\ call'[t] = [call[t] EXCEPT !.cid = c, !.tries = MaxAttempts]
          /\ \A u \in Threads \ {t} : call'[u] = call[u]
      BY <2>1 DEF TypeInv, TypeOK, ThrTypes
    <2> QED
      BY <2>2, ThreadFacts DEF Calls
  <1> HIDE DEF c
  <1>4. pc'[t] = "loop" /\ \A u \in Threads \ {t} : pc'[u] = pc[u]
    BY <1>2 DEF TypeInv, TypeOK, ThrTypes
  <1>5. \A u \in Threads, d \in Contexts :
           Syncing(u, d)' <=> Syncing(u, d) \/ (u = t /\ d = c)
    BY <1>1, <1>3, <1>4 DEF Syncing
  <1>6. OneSyncer'
    <2>1. \A d \in Contexts : sync_active'[d] <=> sync_active[d] \/ d = c
      BY <1>1, <1>2 DEF TypeInv, TypeOK, CtxTypes
    <2> QED
      BY <1>1, <1>5, <2>1 DEF SyncInv, OneSyncer
  <1>7. LoopHoldsMutex'
    BY <1>1, <1>2, <1>4, ConstantsAssumption DEF SyncInv, LoopHoldsMutex
  <1>8. SyncRuns'
    BY <1>1, <1>2 DEF SyncInv, SyncRuns, TypeInv, TypeOK, CtxTypes
  <1>9. RetainedSlotFree'
    BY <1>1, <1>2, <1>5 DEF SyncInv, RetainedSlotFree
  <1>10. SyncExcludesPicture'
    <2>1. \A d \in Contexts : sync_active'[d] => ~decode_picture_active'[d]
      BY <1>1, <1>2 DEF SyncInv, SyncExcludesPicture, TypeInv, TypeOK, CtxTypes
    <2>2. ASSUME NEW d \in Contexts, NEW u \in Threads, Syncing(u, d)', pc'[u] # "loop"
          PROVE  call'[u].target = NextTarget(u)'
      <3>1. u # t /\ Syncing(u, d) /\ pc[u] # "loop" /\ call'[u] = call[u]
        BY <1>3, <1>4, <1>5, <2>2
      <3>2. call[u].target = NextTarget(u)
        BY <3>1 DEF SyncInv, OneSyncer, SyncExcludesPicture
      <3> QED
        BY <1>2, <3>1, <3>2 DEF NextTarget
    <2> QED
      BY <2>1, <2>2 DEF SyncExcludesPicture
  <1> QED
    BY <1>6, <1>7, <1>8, <1>9, <1>10 DEF SyncInv

(* The syncing thread goes on: it holds the mutex if it is in the loop, and *)
(* the FIFO's head is its target if it has one.                            *)
LEMMA StayStep ==
    ASSUME TypeInv, SyncInv, NEW t \in Threads, AtVpu(pc[t]), AtVpu(pc'[t]),
           call'[t].cid = call[t].cid,
           UNCHANGED <<ctx_state, sync_active, decode_picture_active, dec_out_buf>>,
           \A d \in Contexts \ {call[t].cid} : submitted'[d] = submitted[d],
           \A u \in Threads \ {t} : pc'[u] = pc[u] /\ call'[u] = call[u],
           pc'[t] = "loop" => mutex' = t,
           pc'[t] # "loop" => call'[t].target = NextTarget(t)',
           \A u \in Threads \ {t} : pc[u] = "loop" => mutex' = mutex
    PROVE  SyncInv'
  <1>1. \A u \in Threads, c \in Contexts : Syncing(u, c)' <=> Syncing(u, c)
    BY DEF Syncing, AtVpu
  <1>2. OneSyncer'
    BY <1>1 DEF SyncInv, OneSyncer
  <1>3. LoopHoldsMutex'
    BY DEF SyncInv, LoopHoldsMutex
  <1>4. SyncRuns' /\ RetainedSlotFree'
    BY <1>1 DEF SyncInv, SyncRuns, RetainedSlotFree
  <1>5. SyncExcludesPicture'
    <2>1. \A d \in Contexts : sync_active'[d] => ~decode_picture_active'[d]
      BY DEF SyncInv, SyncExcludesPicture
    <2>2. ASSUME NEW d \in Contexts, NEW u \in Threads, Syncing(u, d)', pc'[u] # "loop"
          PROVE  call'[u].target = NextTarget(u)'
      <3>1. CASE u = t
        BY <2>2, <3>1
      <3>2. CASE u # t
        <4>1. Syncing(u, d) /\ pc[u] # "loop" /\ call'[u] = call[u]
          BY <1>1, <2>2, <3>2
        <4>2. d # call[t].cid
          BY <3>2, <4>1, SyncFacts DEF SyncInv, OneSyncer, Syncing, AtVpu
        <4>3. call[u].target = NextTarget(u)
          BY <4>1 DEF SyncInv, OneSyncer, SyncExcludesPicture
        <4> QED
          BY <4>1, <4>2, <4>3 DEF NextTarget, Syncing
      <3> QED
        BY <3>1, <3>2
    <2> QED
      BY <2>1, <2>2 DEF SyncExcludesPicture
  <1> QED
    BY <1>2, <1>3, <1>4, <1>5 DEF SyncInv

(* The syncing thread finishes.                                            *)
LEMMA FinishStep ==
    ASSUME TypeInv, SyncInv, NEW t \in Threads, AtVpu(pc[t]), ~AtVpu(pc'[t]),
           sync_active' = [sync_active EXCEPT ![call[t].cid] = FALSE],
           UNCHANGED <<ctx_state, decode_picture_active>>,
           \A d \in Contexts \ {call[t].cid} :
              submitted'[d] = submitted[d] /\ dec_out_buf'[d] = dec_out_buf[d],
           \A u \in Threads \ {t} : pc'[u] = pc[u] /\ call'[u] = call[u],
           mutex = t \/ mutex = NoThread
    PROVE  SyncInv'
  <1> DEFINE c == call[t].cid
  <1>1. c \in Contexts /\ Syncing(t, c)
    BY SyncFacts DEF Syncing, AtVpu
  <1>2. \A u \in Threads, d \in Contexts : Syncing(u, d)' <=> Syncing(u, d) /\ u # t
    BY DEF Syncing, AtVpu
  <1>3. \A d \in Contexts : sync_active'[d] <=> sync_active[d] /\ d # c
    BY <1>1 DEF TypeInv, TypeOK, CtxTypes
  <1>4. \A u \in Threads, d \in Contexts : Syncing(u, d)' => d # c
    BY <1>1, <1>2 DEF SyncInv, OneSyncer
  <1>5. OneSyncer'
    <2>1. ASSUME NEW d \in Contexts
          PROVE  sync_active'[d] <=> \E u \in Threads : Syncing(u, d)'
      <3>1. CASE d = c
        BY <1>3, <1>4, <3>1
      <3>2. CASE d # c
        <4>1. ~Syncing(t, d)
          BY <3>2 DEF Syncing
        <4> QED
          BY <1>2, <1>3, <3>2, <4>1 DEF SyncInv, OneSyncer
      <3> QED
        BY <3>1, <3>2
    <2>2. \A d \in Contexts, u, v \in Threads : Syncing(u, d)' /\ Syncing(v, d)' => u = v
      BY <1>2 DEF SyncInv, OneSyncer
    <2> QED
      BY <2>1, <2>2 DEF OneSyncer
  <1>6. LoopHoldsMutex'
    BY ConstantsAssumption DEF SyncInv, LoopHoldsMutex, AtVpu
  <1>7. SyncRuns'
    BY <1>3 DEF SyncInv, SyncRuns
  <1>8. RetainedSlotFree'
    BY <1>2, <1>4 DEF SyncInv, RetainedSlotFree
  <1>9. SyncExcludesPicture'
    <2>1. \A d \in Contexts : sync_active'[d] => ~decode_picture_active'[d]
      BY <1>3 DEF SyncInv, SyncExcludesPicture
    <2>2. ASSUME NEW d \in Contexts, NEW u \in Threads, Syncing(u, d)', pc'[u] # "loop"
          PROVE  call'[u].target = NextTarget(u)'
      <3>1. /\ u # t /\ d # c /\ Syncing(u, d) /\ pc[u] # "loop"
            /\ call'[u] = call[u]
        BY <1>2, <1>4, <2>2
      <3>2. call[u].target = NextTarget(u)
        BY <3>1 DEF SyncInv, OneSyncer, SyncExcludesPicture
      <3> QED
        BY <3>1, <3>2 DEF NextTarget, Syncing
    <2> QED
      BY <2>1, <2>2 DEF SyncExcludesPicture
  <1> QED
    BY <1>5, <1>6, <1>7, <1>8, <1>9 DEF SyncInv
LEMMA SyncReturnMoves ==
    ASSUME TypeInv, NEW t \in Threads, NEW ok, SyncReturn(t, ok)
    PROVE  /\ ~AtVpu(pc'[t]) /\ mutex' = NoThread
           /\ \A u \in Threads \ {t} : pc'[u] = pc[u] /\ call'[u] = call[u]
  BY DEF SyncReturn, Return, AtVpu, TypeInv, TypeOK, ThrTypes

(* The thread that may run holds the mutex or nobody does, so no other     *)
(* thread is in the loop.                                                  *)
LEMMA NobodyElseLoops ==
    ASSUME TypeInv, SyncInv, NEW t \in Threads, mutex = t \/ mutex = NoThread
    PROVE  \A u \in Threads \ {t} : pc[u] # "loop"
  BY ConstantsAssumption DEF SyncInv, LoopHoldsMutex

LEMMA ApplicationCallSync ==
    ASSUME TypeInv, SyncInv,
           \/ \E c \in Contexts : ContextCall(c)
           \/ \E s \in Surfaces : SurfaceCall(s)
           \/ \E X \in SUBSET Surfaces : DestroySurfaces(X)
    PROVE  SyncInv'
  <1> SUFFICES /\ UNCHANGED <<sync_active, mutex, pc, call>>
               /\ \A c \in Contexts : sync_active[c] =>
                     /\ ctx_state'[c] = ctx_state[c]
                     /\ decode_picture_active'[c] = decode_picture_active[c]
                     /\ submitted'[c] = submitted[c]
                     /\ dec_out_buf'[c] = dec_out_buf[c]
    BY QuietStep
  <1>1. ASSUME NEW s \in Surfaces, SurfaceCall(s)
        PROVE  UNCHANGED <<ctx_state, sync_active, decode_picture_active, submitted,
                           dec_out_buf, mutex, pc, call>>
    BY <1>1
    DEF SurfaceCall, CreateSurface, LockSurface, UnlockSurface, EncoderTakes, PutImage,
        ctxVars, thrVars
  <1>2. ASSUME NEW X \in SUBSET Surfaces, DestroySurfaces(X)
        PROVE  UNCHANGED <<ctx_state, sync_active, decode_picture_active, submitted,
                           dec_out_buf, mutex, pc, call>>
    BY <1>2 DEF DestroySurfaces, ctxVars, thrVars
  <1> DEFINE Only(c) ==
               /\ UNCHANGED <<sync_active, mutex, pc, call>>
               /\ ~sync_active[c]
               /\ \A d \in Contexts \ {c} :
                     /\ ctx_state'[d] = ctx_state[d]
                     /\ decode_picture_active'[d] = decode_picture_active[d]
                     /\ submitted'[d] = submitted[d]
                     /\ dec_out_buf'[d] = dec_out_buf[d]
  <1>3. ASSUME NEW c \in Contexts, ContextCall(c)
        PROVE  Only(c)
    <2> USE DEF TypeInv, TypeOK, CtxTypes
    <2>1. ASSUME NEW T \in TargetSets, CreateContext(c, T)
          PROVE  Only(c)
      <3>1. ~sync_active[c]
        BY <2>1 DEF CreateContext, SyncInv, SyncRuns
      <3>2. UNCHANGED <<sync_active, mutex, pc, call>>
        BY <2>1, <3>1 DEF CreateContext, thrVars
      <3> QED
        BY <2>1, <3>1, <3>2 DEF CreateContext
    <2>2. CASE DestroyContext(c)
      BY <2>2 DEF DestroyContext, MayDestroyContext, thrVars
    <2>3. CASE DestroyContextFails(c)
      BY <2>3 DEF DestroyContextFails, MayDestroyContext, thrVars
    <2>4. CASE RenderPicture(c)
      BY <2>4 DEF RenderPicture, PictureOpen, thrVars
    <2>5. CASE RenderPictureAborts(c)
      BY <2>5 DEF RenderPictureAborts, PictureOpen, AbortPicture, DropLast
    <2>6. CASE EndPicture(c)
      BY <2>6 DEF EndPicture, PictureOpen
    <2>7. CASE EndPictureAborts(c)
      BY <2>7 DEF EndPictureAborts, PictureOpen, AbortPicture, DropLast
    <2> QED
      BY <1>3, <2>1, <2>2, <2>3, <2>4, <2>5, <2>6, <2>7 DEF ContextCall
  <1> QED
    BY <1>1, <1>2, <1>3

LEMMA CallStepSync ==
    ASSUME TypeInv, SyncInv, NEW t \in Threads, NEW s \in Surfaces,
           \/ \E timed \in BOOLEAN : CallSyncSurface(t, s, timed)
           \/ \E c \in Contexts : CallBeginPicture(t, c, s)
    PROVE  SyncInv'
  <1>1. UNCHANGED <<ctx_state, sync_active, decode_picture_active, submitted,
                    dec_out_buf, mutex>>
    BY DEF CallSyncSurface, CallBeginPicture, ctxVars
  <1>2. /\ ~AtVpu(pc[t]) /\ ~AtVpu(pc'[t])
        /\ \A u \in Threads \ {t} : pc'[u] = pc[u] /\ call'[u] = call[u]
    BY DEF CallSyncSurface, CallBeginPicture, AtVpu, TypeInv, TypeOK, ThrTypes
  <1> QED
    BY <1>1, <1>2, QuietStep

LEMMA BeginSync ==
    ASSUME TypeInv, SyncInv, NEW t \in Threads, BeginPicture(t)
    PROVE  SyncInv'
  <1>1. /\ UNCHANGED <<ctx_state, sync_active, dec_out_buf, mutex>>
        /\ pc[t] = "begin" /\ ~AtVpu(pc'[t])
        /\ \A u \in Threads \ {t} : pc'[u] = pc[u] /\ call'[u] = call[u]
    BY DEF BeginPicture, BeginSleeps, BeginFails, BeginSyncs, BeginRefused, BeginAccepts,
           AtBegin, AtVpu, Return, ctxVars, TypeInv, TypeOK, ThrTypes
  <1>2. \A c \in Contexts : sync_active[c] =>
           /\ decode_picture_active'[c] = decode_picture_active[c]
           /\ submitted'[c] = submitted[c]
    <2>1. CASE BeginAccepts(t)
      BY <2>1 DEF BeginAccepts, TypeInv, TypeOK, CtxTypes
    <2>2. CASE ~BeginAccepts(t)
      BY <2>2 DEF BeginPicture, BeginSleeps, BeginFails, BeginSyncs, BeginRefused, ctxVars
    <2> QED
      BY <2>1, <2>2
  <1>3. \A u \in Threads : \/ pc'[u] = pc[u] /\ call'[u] = call[u]
                           \/ ~AtVpu(pc[u]) /\ ~AtVpu(pc'[u])
    BY <1>1 DEF AtVpu
  <1> QED
    BY <1>1, <1>2, <1>3, QuietStep

LEMMA SyncChecksSync ==
    ASSUME TypeInv, SyncInv, NEW t \in Threads, SyncChecks(t)
    PROVE  SyncInv'
  <1>1. CASE SyncStarts(t)
    BY <1>1, StartStep
  <1>2. CASE ~SyncStarts(t)
    <2>1. /\ pc[t] \in {"enter", "check"} /\ (mutex = t \/ mutex = NoThread)
          /\ UNCHANGED <<ctx_state, sync_active, decode_picture_active, submitted>>
      BY <1>2
      DEF SyncChecks, SyncEnter, SyncGivesUp, SyncSleeps, SyncRetriesOutput, SyncTooLate,
          SleepTimesOut, OwnerLive, AtCheck, MayRun, Free, ctxVars
    <2>2. /\ ~AtVpu(pc'[t])
          /\ \A u \in Threads \ {t} : pc'[u] = pc[u] /\ call'[u] = call[u]
      <3>1. ASSUME NEW ok, SyncReturn(t, ok) PROVE <2>2
        BY <3>1, SyncReturnMoves
      <3>2. CASE SyncEnter(t)
        BY <2>1, <3>1, <3>2 DEF SyncEnter, AtVpu, TypeInv, TypeOK, ThrTypes
      <3>3. CASE SyncGivesUp(t)
        BY <3>1, <3>3 DEF SyncGivesUp
      <3>4. CASE SyncSleeps(t)
        BY <2>1, <3>4 DEF SyncSleeps, AtVpu, TypeInv, TypeOK, ThrTypes
      <3>5. CASE SyncRetriesOutput(t)
        BY <2>1, <3>1, <3>5 DEF SyncRetriesOutput, AtVpu
      <3>6. CASE SyncTooLate(t)
        BY <3>1, <3>6 DEF SyncTooLate
      <3>7. CASE SleepTimesOut(t)
        BY <2>1, <3>1, <3>7 DEF SleepTimesOut, AtVpu
      <3> QED
        BY <1>2, <3>2, <3>3, <3>4, <3>5, <3>6, <3>7 DEF SyncChecks
    <2>3. \A c \in Contexts : sync_active[c] => dec_out_buf'[c] = dec_out_buf[c]
      <3>1. CASE SyncRetriesOutput(t)
        BY <3>1 DEF SyncRetriesOutput, TypeInv, TypeOK, CtxTypes
      <3>2. CASE ~SyncRetriesOutput(t)
        BY <1>2, <3>2
        DEF SyncChecks, SyncEnter, SyncGivesUp, SyncSleeps, SyncTooLate, SleepTimesOut,
            ctxVars
      <3> QED
        BY <3>1, <3>2
    <2>4. \A u \in Threads : pc[u] # "loop"
      BY <2>1, NobodyElseLoops
    <2>5. \A u \in Threads : \/ pc'[u] = pc[u] /\ call'[u] = call[u]
                             \/ ~AtVpu(pc[u]) /\ ~AtVpu(pc'[u])
      BY <2>1, <2>2 DEF AtVpu
    <2> QED
      BY <2>1, <2>3, <2>4, <2>5, QuietStep
  <1> QED
    BY <1>1, <1>2

LEMMA SyncLoopsSync ==
    ASSUME TypeInv, SyncInv, NEW t \in Threads, SyncLoops(t)
    PROVE  SyncInv'
  <1>1. pc[t] = "loop" /\ mutex = t /\ AtVpu(pc[t])
    BY DEF SyncLoops, SyncDone, SyncBreaks, SyncUnlocks, AtLoop, AtVpu
  <1>2. CASE SyncDone(t) \/ SyncBreaks(t)
    <2>1. PICK ok : FinishSync(t, call[t].cid, ok)
      BY <1>2 DEF SyncDone, SyncBreaks
    <2>2. UNCHANGED <<ctx_state, decode_picture_active, submitted, dec_out_buf>>
      BY <1>2 DEF SyncDone, SyncBreaks
    <2> QED
      BY <1>1, <2>1, <2>2, SyncReturnMoves, FinishStep DEF FinishSync
  <1>3. CASE SyncUnlocks(t)
    <2> DEFINE s == NextTarget(t)
               n == TriesLeft(t)
    <2>1. /\ pc' = [pc EXCEPT ![t] = "dequeue"]
          /\ call' = [call EXCEPT ![t] = [call[t] EXCEPT !.target = s, !.tries = n]]
          /\ UNCHANGED <<ctx_state, sync_active, decode_picture_active, dec_out_buf,
                         submitted>>
      BY <1>3 DEF SyncUnlocks, ctxVars
    <2> HIDE DEF n
    <2>2. /\ pc'[t] = "dequeue"
          /\ call'[t] = [call[t] EXCEPT !.target = s, !.tries = n]
          /\ \A u \in Threads \ {t} : pc'[u] = pc[u] /\ call'[u] = call[u]
      BY <2>1 DEF TypeInv, TypeOK, ThrTypes
    <2>3. /\ call'[t].cid = call[t].cid /\ call'[t].surf = call[t].surf
          /\ call'[t].target = s
      BY <2>2, ThreadFacts DEF Calls
    <2>4. NextTarget(t)' = s
      BY <2>1, <2>3 DEF NextTarget
    <2>5. AtVpu(pc'[t]) /\ \A u \in Threads \ {t} : pc[u] # "loop"
      BY <1>1, <2>2, NobodyElseLoops DEF AtVpu
    <2> HIDE DEF s
    <2> QED
      BY <1>1, <2>1, <2>2, <2>3, <2>4, <2>5, StayStep
  <1> QED
    BY <1>2, <1>3 DEF SyncLoops

LEMMA VpuAnswersSync ==
    ASSUME TypeInv, SyncInv, NEW t \in Threads, VpuAnswers(t)
    PROVE  SyncInv'
  <1>1. /\ pc[t] = "dequeue" /\ pc' = [pc EXCEPT ![t] = "resume"]
        /\ UNCHANGED <<ctx_state, sync_active, decode_picture_active, dec_out_buf,
                       submitted, mutex, call>>
    BY DEF VpuAnswers, VpuSilent, VpuHollow, VpuOutputs, ctxVars
  <1>2. pc'[t] = "resume" /\ \A u \in Threads \ {t} : pc'[u] = pc[u]
    BY <1>1 DEF TypeInv, TypeOK, ThrTypes
  <1>3. AtVpu(pc[t]) /\ AtVpu(pc'[t])
    BY <1>1, <1>2 DEF AtVpu
  <1>4. call'[t].target = NextTarget(t)'
    BY <1>1, <1>3, SyncFacts DEF NextTarget
  <1> QED
    BY <1>1, <1>2, <1>3, <1>4, StayStep

LEMMA SyncResumesSync ==
    ASSUME TypeInv, SyncInv, NEW t \in Threads, SyncResumes(t)
    PROVE  SyncInv'
  <1> DEFINE c == call[t].cid
  <1>1. /\ pc[t] = "resume" /\ AtVpu(pc[t]) /\ mutex = NoThread
        /\ UNCHANGED <<ctx_state, decode_picture_active>>
        /\ \A u \in Threads \ {t} : pc[u] # "loop"
    BY NobodyElseLoops
    DEF SyncResumes, SyncLost, SyncRepeats, SyncDropsHollow, SyncDropsBad,
        SyncKeepsFrame, AtResume, AtVpu, Free, ctxVars
  <1>2. \A d \in Contexts \ {c} : submitted'[d] = submitted[d]
    BY DEF SyncResumes, SyncLost, SyncRepeats, SyncDropsHollow, SyncDropsBad,
           SyncKeepsFrame, PopSubmitted, ctxVars, TypeInv, TypeOK, CtxTypes
  <1>3. ASSUME NEW ok, FinishSync(t, c, ok),
               \A d \in Contexts \ {c} : dec_out_buf'[d] = dec_out_buf[d]
        PROVE  SyncInv'
    BY <1>1, <1>2, <1>3, SyncReturnMoves, FinishStep DEF FinishSync
  <1>4. ASSUME UNCHANGED <<sync_active, dec_out_buf, call>>, mutex' = t,
               pc' = [pc EXCEPT ![t] = "loop"]
        PROVE  SyncInv'
    <2>1. /\ pc'[t] = "loop" /\ AtVpu(pc'[t])
          /\ \A u \in Threads \ {t} : pc'[u] = pc[u]
      BY <1>4 DEF AtVpu, TypeInv, TypeOK, ThrTypes
    <2> QED
      BY <1>1, <1>2, <1>4, <2>1, StayStep
  <1>5. ASSUME NEW out, RecycleOutput(t, c, out) PROVE SyncInv'
    <2>1. PICK q \in QueueResults(call[t].timed) : RecycleOutput(t, c, out)!(q)
      BY <1>5 DEF RecycleOutput
    <2>2. CASE q = "ok"
      BY <1>4, <2>1, <2>2
    <2>3. CASE q # "ok"
      <3>1. \A d \in Contexts \ {c} : dec_out_buf'[d] = dec_out_buf[d]
        BY <2>1, <2>3 DEF TypeInv, TypeOK, CtxTypes
      <3> QED
        BY <1>3, <2>1, <2>3, <3>1
    <2> QED
      BY <2>2, <2>3
  <1>6. CASE SyncLost(t)
    BY <1>3, <1>6 DEF SyncLost
  <1>7. CASE SyncRepeats(t)
    BY <1>4, <1>7 DEF SyncRepeats, ctxVars
  <1>8. CASE SyncDropsHollow(t)
    BY <1>5, <1>8 DEF SyncDropsHollow
  <1>9. CASE SyncDropsBad(t)
    BY <1>5, <1>9 DEF SyncDropsBad
  <1>10. CASE SyncKeepsFrame(t)
    BY <1>4, <1>10 DEF SyncKeepsFrame
  <1> QED
    BY <1>6, <1>7, <1>8, <1>9, <1>10 DEF SyncResumes

LEMMA SyncInit == Init => SyncInv
  BY DEF Init, SyncInv, OneSyncer, Syncing, LoopHoldsMutex, SyncRuns,
         SyncExcludesPicture, RetainedSlotFree

LEMMA SyncStep == TypeInv /\ SyncInv /\ [Next]_vars => SyncInv'
  <1> SUFFICES ASSUME TypeInv, SyncInv, [Next]_vars
               PROVE  SyncInv'
    OBVIOUS
  <1>1. ASSUME NEW t \in Threads, ThreadStep(t)
        PROVE  SyncInv'
    BY <1>1, BeginSync, SyncChecksSync, SyncLoopsSync, VpuAnswersSync, SyncResumesSync
    DEF ThreadStep
  <1>2. CASE UNCHANGED vars
    BY <1>2, QuietStep DEF vars, ctxVars, thrVars
  <1> QED
    BY <1>1, <1>2, ApplicationCallSync, CallStepSync DEF Next

(* On any number of decoders and threads, sync_active is the lock its      *)
(* users take it for: see the three theorems below for its parts.          *)
THEOREM SyncSafe == Spec => []SyncInv
  BY TypesHold, SyncInit, SyncStep, PTL DEF Spec

(* The flag sync_active is set exactly while one thread is between setting *)
(* it and hobot_finish_surface_sync; two never dequeue from one instance.  *)
THEOREM OneSyncerHolds == Spec => []OneSyncer
  BY SyncSafe, PTL DEF SyncInv

(* While a decoder is synchronised no picture is begun in it, and the      *)
(* syncing thread's target stays the head of submitted_surfaces.           *)
THEOREM SyncExclusion == Spec => []SyncExcludesPicture
  BY SyncSafe, PTL DEF SyncInv

(* hobot_recycle_decoder_output_until always finds room for the output it  *)
(* must keep: the ownership message is never printed.                      *)
THEOREM RetainedSlotIsFree == Spec => []RetainedSlotFree
  BY SyncSafe, PTL DEF SyncInv
=============================================================================
