------------------------- MODULE DecodeSyncPromise -------------------------
(***************************************************************************)
(* Proof that VpuInv is an invariant of DecodeSync, given PairingInv: what *)
(* the VPU still decodes, what a thread has in hand and the picture being  *)
(* assembled make up the FIFO of a healthy decoder, and every output       *)
(* buffer is in one place.  From the two together, what an application     *)
(* relies on: a surface shows its own picture, no buffer is lost, and the  *)
(* protocol implements PictureOrder.                                       *)
(***************************************************************************)
EXTENDS DecodeSyncFifo, FiniteSetTheorems

LEMMA Parts ==
    ASSUME Inductive
    PROVE  TypeInv /\ SyncInv /\ FifoInv /\ VpuInv
  BY DEF Inductive, PairingInv

(* A thread's step starts or stops no decoder, heals none, fills no input  *)
(* buffer and closes no picture.                                           *)
LEMMA ThreadKeepsContexts ==
    ASSUME TypeInv, NEW t \in Threads, ThreadStep(t)
    PROVE  /\ UNCHANGED ctx_state
           /\ \A c \in Contexts :
                 /\ decode_failed[c] => decode_failed'[c]
                 /\ dec_in_buf'[c] \in {dec_in_buf[c], "none"}
                 /\ decode_picture_active[c] => decode_picture_active'[c]
  <1> USE DEF TypeInv, TypeOK, CtxTypes
  <1>1. CASE BeginPicture(t)
    <2>1. CASE BeginRefused(t)
      BY <2>1 DEF BeginRefused
    <2>2. CASE BeginAccepts(t)
      BY <2>2 DEF BeginAccepts
    <2> QED
      BY <1>1, <2>1, <2>2 DEF BeginPicture, BeginSleeps, BeginFails, BeginSyncs, ctxVars
  <1>2. CASE SyncChecks(t)
    BY <1>2 DEF SyncChecks, SyncEnter, SyncGivesUp, SyncSleeps, SyncRetriesOutput,
       SyncStarts, SyncTooLate, SleepTimesOut, ctxVars
  <1>3. CASE SyncLoops(t)
    BY <1>3 DEF SyncLoops, SyncDone, SyncBreaks, SyncUnlocks, ctxVars
  <1>4. CASE VpuAnswers(t)
    BY <1>4 DEF VpuAnswers, VpuSilent, VpuHollow, VpuOutputs, ctxVars
  <1>5. CASE SyncResumes(t)
    <2>1. ASSUME NEW c, NEW out, RecycleOutput(t, c, out)
          PROVE  \A d \in Contexts : decode_failed[d] => decode_failed'[d]
      BY <2>1 DEF RecycleOutput
    <2> QED
      BY <1>5, <2>1 DEF SyncResumes, SyncLost, SyncRepeats, SyncDropsHollow, SyncDropsBad,
         SyncKeepsFrame, ctxVars
  <1> QED
    BY <1>1, <1>2, <1>3, <1>4, <1>5 DEF ThreadStep

(* What a thread does outside its call leaves the decoders alone.          *)
LEMMA CallKeepsAll ==
    ASSUME NEW t \in Threads, NEW s \in Surfaces,
           \/ \E timed \in BOOLEAN : CallSyncSurface(t, s, timed)
           \/ \E c \in Contexts : CallBeginPicture(t, c, s)
    PROVE  UNCHANGED <<ctxVars, surfVars, vpuVars, hand>>
  BY DEF CallSyncSurface, CallBeginPicture

LEMMA SurfaceCallKeeps ==
    ASSUME TypeInv, NEW s \in Surfaces, SurfaceCall(s)
    PROVE  /\ UNCHANGED <<ctx_state, sync_active, decode_picture_active,
                          current_render_target, submitted, dec_out_buf, dec_in_buf,
                          vpu_queue, thrVars>>
           /\ \A c \in Contexts : decode_failed[c] => decode_failed'[c]
  BY DEF SurfaceCall, CreateSurface, LockSurface, UnlockSurface, EncoderTakes, PutImage,
         ctxVars, vpuVars, TypeInv, TypeOK, CtxTypes

-----------------------------------------------------------------------------
(* The input buffer.                                                       *)

InputInv == NoLeftoverInput /\ DeferredIsFresh

LEMMA InputStep ==
    ASSUME TypeInv, InputInv, [Next]_vars
    PROVE  InputInv'
  <1> USE DEF InputInv, NoLeftoverInput, DeferredIsFresh
  <1>1. ASSUME NEW t \in Threads, ThreadStep(t) PROVE InputInv'
    BY <1>1, ThreadKeepsContexts DEF TypeInv, TypeOK, CtxTypes
  <1>2. ASSUME NEW s \in Surfaces, SurfaceCall(s) PROVE InputInv'
    BY <1>2, SurfaceCallKeeps
  <1>3. ASSUME NEW c \in Contexts, ContextCall(c) PROVE InputInv'
    <2> USE DEF TypeInv, TypeOK, CtxTypes
    <2>1. ASSUME NEW T \in TargetSets, CreateContext(c, T) PROVE InputInv'
      BY <2>1 DEF CreateContext
    <2>2. CASE DestroyContext(c)
      BY <2>2 DEF DestroyContext
    <2>3. CASE DestroyContextFails(c)
      BY <2>3 DEF DestroyContextFails
    <2>4. CASE RenderPicture(c)
      BY <2>4 DEF RenderPicture, PictureOpen
    <2>5. CASE RenderPictureAborts(c)
      BY <2>5 DEF RenderPictureAborts, PictureOpen, AbortPicture
    <2>6. CASE EndPicture(c)
      BY <2>6 DEF EndPicture
    <2>7. CASE EndPictureAborts(c)
      BY <2>7 DEF EndPictureAborts, PictureOpen, RecycleInput, AbortPicture
    <2> QED
      BY <1>3, <2>1, <2>2, <2>3, <2>4, <2>5, <2>6, <2>7 DEF ContextCall
  <1>4. ASSUME NEW X \in SUBSET Surfaces, DestroySurfaces(X) PROVE InputInv'
    BY <1>4 DEF DestroySurfaces, ctxVars
  <1>5. CASE UNCHANGED vars
    BY <1>5 DEF vars, ctxVars
  <1>6. ASSUME NEW t \in Threads, NEW s \in Surfaces,
               \/ \E timed \in BOOLEAN : CallSyncSurface(t, s, timed)
               \/ \E c \in Contexts : CallBeginPicture(t, c, s)
        PROVE  InputInv'
    BY <1>6, CallKeepsAll DEF ctxVars
  <1> QED
    BY <1>1, <1>2, <1>3, <1>4, <1>5, <1>6 DEF Next

-----------------------------------------------------------------------------
(* Poisoned decoders.                                                      *)

(* A step that heals no decoder, poisons none that is synchronised and     *)
(* puts no picture in progress in error.                                   *)
LEMMA PoisonStays ==
    ASSUME TypeInv, FifoInv, PoisonedIsQuiet,
           \A c \in Contexts : sync_active'[c] => ~decode_failed'[c],
           \A c \in Contexts : decode_failed[c] => decode_failed'[c],
           \A s \in Surfaces : decode_pending'[s] /\ decode_error'[s] =>
              decode_pending[s] /\ decode_error[s] /\ context_id'[s] = context_id[s]
    PROVE  PoisonedIsQuiet'
  BY DEF PoisonedIsQuiet, FifoInv, PendingIsClean

LEMMA PoisonStep ==
    ASSUME TypeInv, SyncInv, FifoInv, PoisonedIsQuiet, [Next]_vars
    PROVE  PoisonedIsQuiet'
  <1> USE DEF PoisonedIsQuiet, TypeInv, TypeOK, CtxTypes, SurfTypes
  <1>0. \A s \in Surfaces : decode_pending[s] =>
           /\ allocated[s] /\ frame[s] = NoOutput
           /\ context_id[s] \in Contexts /\ ctx_state[context_id[s]] # "free"
    BY DEF FifoInv, PendingIsClean
  <1>1. ASSUME NEW t \in Threads, BeginPicture(t) PROVE PoisonedIsQuiet'
    <2>1. CASE BeginAccepts(t)
      BY <1>0, <2>1 DEF BeginAccepts, MaySubmit, MayBegin
    <2>2. CASE ~BeginAccepts(t)
      BY <1>0, <1>1, <2>2
      DEF BeginPicture, BeginSleeps, BeginFails, BeginSyncs, BeginRefused, ctxVars, surfVars
    <2> QED
      BY <2>1, <2>2
  <1>2. ASSUME NEW t \in Threads, SyncChecks(t) PROVE PoisonedIsQuiet'
    <2>1. CASE SyncStarts(t)
      BY <1>0, <2>1 DEF SyncStarts, OwnerLive, MayStartSync, surfVars
    <2>2. CASE SyncRetriesOutput(t)
      <3> DEFINE c == context_id[call[t].surf]
      <3>1. /\ ~sync_active[c] /\ UNCHANGED sync_active /\ UNCHANGED surfVars
            /\ \A d \in Contexts \ {c} : decode_failed'[d] = decode_failed[d]
            /\ \A d \in Contexts : decode_failed[d] => decode_failed'[d]
        <4>1. /\ ~sync_active[c] /\ UNCHANGED sync_active /\ UNCHANGED surfVars
              /\ \/ UNCHANGED decode_failed
                 \/ \E q : decode_failed' = [decode_failed EXCEPT ![c] = @ \/ q = "fail"]
          BY <2>2 DEF SyncRetriesOutput
        <4>2. ASSUME NEW q, decode_failed' = [decode_failed EXCEPT ![c] = @ \/ q = "fail"]
              PROVE  /\ \A d \in Contexts \ {c} : decode_failed'[d] = decode_failed[d]
                     /\ \A d \in Contexts : decode_failed[d] => decode_failed'[d]
          BY <4>2
        <4> QED
          BY <4>1, <4>2
      <3>2. \A d \in Contexts : sync_active'[d] => ~decode_failed'[d]
        BY <3>1
      <3> QED
        BY <3>1, <3>2, PoisonStays DEF surfVars
    <2>3. CASE ~(SyncStarts(t) \/ SyncRetriesOutput(t))
      <3>1. UNCHANGED <<ctxVars, surfVars>>
        BY <1>2, <2>3
        DEF SyncChecks, SyncEnter, SyncGivesUp, SyncSleeps, SyncTooLate, SleepTimesOut
      <3> QED
        BY <3>1 DEF ctxVars, surfVars
    <2> QED
      BY <2>1, <2>2, <2>3
  <1>3. ASSUME NEW t \in Threads, SyncLoops(t) PROVE PoisonedIsQuiet'
    <2>1. CASE SyncDone(t)
      BY <1>0, <2>1 DEF SyncDone, FinishSync, surfVars
    <2>2. CASE SyncBreaks(t)
      <3> DEFINE c == call[t].cid
      <3>1. /\ sync_active' = [sync_active EXCEPT ![c] = FALSE] /\ UNCHANGED surfVars
            /\ \A d \in Contexts \ {c} : decode_failed'[d] = decode_failed[d]
            /\ \A d \in Contexts : decode_failed[d] => decode_failed'[d]
        BY <2>2 DEF SyncBreaks, FinishSync
      <3>2. \A d \in Contexts : sync_active'[d] => ~decode_failed'[d]
        BY <3>1
      <3> QED
        BY <3>1, <3>2, PoisonStays DEF surfVars
    <2>3. CASE SyncUnlocks(t)
      BY <1>0, <2>3 DEF SyncUnlocks, ctxVars
    <2> QED
      BY <1>3, <2>1, <2>2, <2>3 DEF SyncLoops
  <1>4. ASSUME NEW t \in Threads, VpuAnswers(t) PROVE PoisonedIsQuiet'
    BY <1>4 DEF VpuAnswers, VpuSilent, VpuHollow, VpuOutputs, ctxVars, surfVars
  <1>5. ASSUME NEW t \in Threads, SyncResumes(t) PROVE PoisonedIsQuiet'
    <2>1. ASSUME NEW c \in Contexts, NEW out, RecycleOutput(t, c, out)
          PROVE  /\ \A d \in Contexts : sync_active'[d] => ~decode_failed'[d]
                 /\ \A d \in Contexts : decode_failed[d] => decode_failed'[d]
      <3>1. PICK q \in QueueResults(call[t].timed) : RecycleOutput(t, c, out)!(q)
        BY <2>1 DEF RecycleOutput
      <3>2. CASE q = "ok"
        BY <3>1, <3>2
      <3>3. CASE q # "ok"
        <4>1. /\ sync_active' = [sync_active EXCEPT ![c] = FALSE]
              /\ \A d \in Contexts \ {c} : decode_failed'[d] = decode_failed[d]
              /\ decode_failed[c] => decode_failed'[c]
          BY <3>1, <3>3 DEF FinishSync
        <4> QED
          BY <4>1
      <3> QED
        BY <3>2, <3>3
    <2>2. AtResume(t)
      BY <1>5
      DEF SyncResumes, SyncLost, SyncRepeats, SyncDropsHollow, SyncDropsBad, SyncKeepsFrame
    <2>3. /\ StillMine(t) /\ call[t].cid \in Contexts
          /\ call[t].target \in Surfaces /\ allocated[call[t].target]
          /\ decode_pending[call[t].target]
      BY <2>2, ResumeFacts DEF Waiting
    <2>4. CASE SyncLost(t)
      <3> DEFINE c == call[t].cid
      <3>1. /\ sync_active' = [sync_active EXCEPT ![c] = FALSE]
            /\ decode_failed' = [decode_failed EXCEPT ![c] = TRUE]
            /\ UNCHANGED <<decode_pending, context_id>>
        BY <2>4 DEF SyncLost, FinishSync
      <3>2. \A s \in Surfaces : context_id[s] # c => decode_error'[s] = decode_error[s]
        BY <2>3, <2>4 DEF SyncLost, StillMine
      <3> QED
        BY <1>0, <2>3, <3>1, <3>2
    <2>5. CASE SyncRepeats(t)
      BY <1>0, <2>5 DEF SyncRepeats, ctxVars, surfVars
    <2>6. CASE SyncDropsHollow(t)
      BY <1>0, <2>1, <2>3, <2>6 DEF SyncDropsHollow, surfVars
    <2>7. CASE SyncDropsBad(t)
      BY <1>0, <2>1, <2>3, <2>7 DEF SyncDropsBad
    <2>8. CASE SyncKeepsFrame(t)
      BY <1>0, <2>3, <2>8 DEF SyncKeepsFrame
    <2> QED
      BY <1>5, <2>4, <2>5, <2>6, <2>7, <2>8 DEF SyncResumes
  <1>6. ASSUME NEW s \in Surfaces, SurfaceCall(s) PROVE PoisonedIsQuiet'
    <2>1. CASE CreateSurface(s)
      BY <2>1 DEF CreateSurface, ctxVars
    <2>2. CASE LockSurface(s) \/ UnlockSurface(s)
      BY <2>2 DEF LockSurface, UnlockSurface, ctxVars
    <2>3. CASE EncoderTakes(s)
      BY <2>3 DEF EncoderTakes, ctxVars
    <2>4. CASE PutImage(s)
      <3>1. /\ ~sync_active[Owner(s)]
            /\ UNCHANGED <<sync_active, decode_pending, decode_error, context_id>>
            /\ \/ UNCHANGED decode_failed
               \/ decode_failed' = [decode_failed EXCEPT ![Owner(s)] = TRUE]
        BY <2>4 DEF PutImage, OwnerQuiet
      <3>2. ASSUME NEW c \in Contexts
            PROVE  /\ sync_active'[c] => ~decode_failed'[c]
                   /\ decode_failed[c] => decode_failed'[c]
        <4>1. sync_active'[c] = sync_active[c]
          BY <3>1
        <4>2. CASE c = Owner(s)
          BY <3>1, <4>1, <4>2
        <4>3. CASE c # Owner(s)
          BY <3>1, <4>1, <4>3
        <4> QED
          BY <4>2, <4>3
      <3> QED
        BY <3>1, <3>2, PoisonStays
    <2> QED
      BY <1>6, <2>1, <2>2, <2>3, <2>4 DEF SurfaceCall
  <1>7. ASSUME NEW c \in Contexts, ContextCall(c) PROVE PoisonedIsQuiet'
    <2>1. ASSUME NEW T \in TargetSets, CreateContext(c, T) PROVE PoisonedIsQuiet'
      BY <1>0, <2>1 DEF CreateContext
    <2>2. CASE DestroyContext(c)
      BY <1>0, <2>2 DEF DestroyContext, Detach
    <2>3. CASE DestroyContextFails(c)
      BY <1>0, <2>3 DEF DestroyContextFails, FramesOf, HasFrame
    <2>4. CASE RenderPicture(c)
      BY <1>0, <2>4 DEF RenderPicture
    <2>5. CASE RenderPictureAborts(c)
      <3>1. /\ ~sync_active[c] /\ UNCHANGED <<sync_active, context_id>>
            /\ \A d \in Contexts \ {c} : decode_failed'[d] = decode_failed[d]
            /\ \A d \in Contexts : decode_failed[d] => decode_failed'[d]
        BY <2>5 DEF RenderPictureAborts, PictureOpen
      <3>2. \A s \in Surfaces : decode_pending'[s] =>
               decode_pending[s] /\ decode_error'[s] = decode_error[s]
        BY <2>5 DEF RenderPictureAborts, AbortPicture
      <3> QED
        BY <1>0, <3>1, <3>2
    <2>6. CASE EndPicture(c)
      BY <1>0, <2>6 DEF EndPicture, surfVars
    <2>7. CASE EndPictureAborts(c)
      <3>1. /\ ~sync_active[c] /\ UNCHANGED <<sync_active, context_id>>
            /\ \A d \in Contexts \ {c} : decode_failed'[d] = decode_failed[d]
            /\ \A d \in Contexts : decode_failed[d] => decode_failed'[d]
        BY <2>7 DEF EndPictureAborts, RecycleInput, PictureOpen
      <3>2. \A s \in Surfaces : decode_pending'[s] =>
               decode_pending[s] /\ decode_error'[s] = decode_error[s]
        BY <2>7 DEF EndPictureAborts, AbortPicture
      <3> QED
        BY <1>0, <3>1, <3>2
    <2> QED
      BY <1>7, <2>1, <2>2, <2>3, <2>4, <2>5, <2>6, <2>7 DEF ContextCall
  <1>8. ASSUME NEW X \in SUBSET Surfaces, DestroySurfaces(X) PROVE PoisonedIsQuiet'
    BY <1>0, <1>8 DEF DestroySurfaces, ctxVars, HasFrame
  <1>9. CASE UNCHANGED vars
    BY <1>9 DEF vars, ctxVars, surfVars
  <1>10. ASSUME NEW t \in Threads, NEW s \in Surfaces,
                \/ \E timed \in BOOLEAN : CallSyncSurface(t, s, timed)
                \/ \E c \in Contexts : CallBeginPicture(t, c, s)
         PROVE  PoisonedIsQuiet'
    BY <1>10, CallKeepsAll DEF ctxVars, surfVars
  <1> QED
    BY <1>1, <1>2, <1>3, <1>4, <1>5, <1>6, <1>7, <1>8, <1>9, <1>10 DEF Next, ThreadStep

-----------------------------------------------------------------------------
(* What threads hold, and what a decoder keeps.                            *)

LEMMA SyncReturnHand ==
    ASSUME TypeInv, NEW t \in Threads, NEW ok, SyncReturn(t, ok)
    PROVE  /\ hand'[t] = NoHand /\ pc'[t] # "resume" /\ ~AtVpu(pc'[t])
           /\ \A u \in Threads \ {t} :
                 pc'[u] = pc[u] /\ call'[u] = call[u] /\ hand'[u] = hand[u]
  BY DEF SyncReturn, Return, AtVpu, TypeInv, TypeOK, ThrTypes

(* A thread's step leaves the other threads alone, and unless the VPU      *)
(* answers its hand is empty afterwards.                                   *)
LEMMA HandMoves ==
    ASSUME TypeInv, HandIsMine, NEW t \in Threads, ThreadStep(t)
    PROVE  /\ \A u \in Threads \ {t} :
                 pc'[u] = pc[u] /\ call'[u] = call[u] /\ hand'[u] = hand[u]
           /\ (hand'[t] = NoHand /\ pc'[t] # "resume") \/ VpuAnswers(t)
  <1> DEFINE Others == \A u \in Threads \ {t} :
                 pc'[u] = pc[u] /\ call'[u] = call[u] /\ hand'[u] = hand[u]
  <1> USE DEF TypeInv, TypeOK, ThrTypes
  <1>1. pc[t] # "resume" => hand[t] = NoHand
    BY DEF HandIsMine
  <1>2. CASE BeginPicture(t)
    <2>1. pc[t] = "begin" /\ UNCHANGED hand
      BY <1>2 DEF BeginPicture, BeginSleeps, BeginFails, BeginSyncs, BeginRefused,
         BeginAccepts, AtBegin
    <2>2. Others /\ pc'[t] # "resume"
      BY <1>2, <2>1 DEF BeginPicture, BeginSleeps, BeginFails, BeginSyncs, BeginRefused,
         BeginAccepts, Return
    <2> QED
      BY <1>1, <2>1, <2>2
  <1>3. CASE SyncChecks(t)
    <2>1. pc[t] \in {"enter", "check"}
      BY <1>3 DEF SyncChecks, SyncEnter, SyncGivesUp, SyncSleeps, SyncRetriesOutput,
         SyncStarts, SyncTooLate, SleepTimesOut, OwnerLive, AtCheck
    <2>2. \/ SyncReturn(t, FALSE)
          \/ SyncReturn(t, allocated[call[t].surf] /\ ~decode_error[call[t].surf]
                              /\ ~decode_pending[call[t].surf])
          \/ /\ UNCHANGED hand
             /\ UNCHANGED pc \/ pc' = [pc EXCEPT ![t] = "check"]
                   \/ pc' = [pc EXCEPT ![t] = "loop"]
             /\ \A u \in Threads \ {t} : call'[u] = call[u]
      BY <1>3 DEF SyncChecks, SyncEnter, SyncGivesUp, SyncSleeps, SyncRetriesOutput,
         SyncStarts, SyncTooLate, SleepTimesOut
    <2> QED
      BY <1>1, <2>1, <2>2, SyncReturnHand
  <1>4. CASE SyncLoops(t)
    <2>1. CASE SyncDone(t) \/ SyncBreaks(t)
      BY <2>1, SyncReturnHand DEF SyncDone, SyncBreaks, FinishSync
    <2>2. CASE SyncUnlocks(t)
      BY <1>1, <2>2 DEF SyncUnlocks, AtLoop
    <2> QED
      BY <1>4, <2>1, <2>2 DEF SyncLoops
  <1>5. CASE VpuAnswers(t)
    BY <1>5 DEF VpuAnswers, VpuSilent, VpuHollow, VpuOutputs
  <1>6. CASE SyncResumes(t)
    <2>1. ASSUME pc' = [pc EXCEPT ![t] = "loop"], hand' = [hand EXCEPT ![t] = NoHand],
                 UNCHANGED call
          PROVE  Others /\ hand'[t] = NoHand /\ pc'[t] # "resume"
      BY <2>1
    <2>2. ASSUME NEW c, NEW out, RecycleOutput(t, c, out)
          PROVE  Others /\ hand'[t] = NoHand /\ pc'[t] # "resume"
      BY <2>1, <2>2, SyncReturnHand DEF RecycleOutput, FinishSync
    <2>3. CASE SyncLost(t)
      BY <2>3, SyncReturnHand DEF SyncLost, FinishSync
    <2>4. CASE SyncRepeats(t) \/ SyncKeepsFrame(t)
      BY <2>1, <2>4 DEF SyncRepeats, SyncKeepsFrame
    <2>5. CASE SyncDropsHollow(t) \/ SyncDropsBad(t)
      BY <2>2, <2>5 DEF SyncDropsHollow, SyncDropsBad
    <2> QED
      BY <1>6, <2>3, <2>4, <2>5 DEF SyncResumes
  <1> QED
    BY <1>2, <1>3, <1>4, <1>5, <1>6 DEF ThreadStep

LEMMA HandStep ==
    ASSUME TypeInv, HandIsMine, [Next]_vars
    PROVE  HandIsMine'
  <1> USE DEF HandIsMine
  <1>1. ASSUME NEW t \in Threads, ThreadStep(t) PROVE HandIsMine'
    <2>1. CASE ~VpuAnswers(t)
      BY <1>1, <2>1, HandMoves DEF NoHand
    <2>2. CASE VpuAnswers(t)
      <3>1. /\ pc'[t] = "resume" /\ UNCHANGED call
            /\ IF hand'[t].reply \in {"hollow", "bad", "frame"}
               THEN hand'[t].out.ctx = call[t].cid
               ELSE hand'[t].out = NoOutput
        BY <2>2 DEF VpuAnswers, VpuSilent, VpuHollow, VpuOutputs, TypeInv, TypeOK, ThrTypes
      <3> QED
        BY <1>1, <3>1, HandMoves
    <2> QED
      BY <2>1, <2>2
  <1>2. CASE UNCHANGED <<pc, call, hand>>
    BY <1>2
  <1>3. ASSUME NEW t \in Threads, NEW s \in Surfaces,
               \/ \E timed \in BOOLEAN : CallSyncSurface(t, s, timed)
               \/ \E c \in Contexts : CallBeginPicture(t, c, s)
        PROVE  HandIsMine'
    <2>1. /\ pc[t] = "idle" /\ pc'[t] # "resume" /\ UNCHANGED hand
          /\ \A u \in Threads \ {t} : pc'[u] = pc[u] /\ call'[u] = call[u]
      BY <1>3 DEF CallSyncSurface, CallBeginPicture, TypeInv, TypeOK, ThrTypes
    <2>2. hand'[t] = NoHand
      BY <2>1
    <2> QED
      BY <2>1, <2>2 DEF NoHand
  <1>4. ASSUME \/ \E c \in Contexts : ContextCall(c)
               \/ \E s \in Surfaces : SurfaceCall(s)
               \/ \E X \in SUBSET Surfaces : DestroySurfaces(X)
        PROVE  UNCHANGED <<pc, call, hand>>
    BY <1>4 DEF ContextCall, CreateContext, DestroyContext, DestroyContextFails,
       RenderPicture, RenderPictureAborts, EndPicture, EndPictureAborts, SurfaceCall,
       CreateSurface, LockSurface, UnlockSurface, EncoderTakes, PutImage,
       DestroySurfaces, thrVars
  <1> QED
    BY <1>1, <1>2, <1>3, <1>4 DEF Next, vars, thrVars

LEMMA KeptStep ==
    ASSUME TypeInv, SyncInv, FifoInv, HandIsMine, KeptIsOwn, [Next]_vars
    PROVE  KeptIsOwn'
  <1> USE DEF KeptIsOwn, TypeInv, TypeOK, CtxTypes
  <1>1. ASSUME NEW t \in Threads, ThreadStep(t) PROVE KeptIsOwn'
    <2>0. UNCHANGED ctx_state
      BY <1>1, ThreadKeepsContexts
    <2>1. ASSUME NEW c \in Contexts, NEW out, RecycleOutput(t, c, out),
                 out.ctx = c, ctx_state[c] = "running"
          PROVE  KeptIsOwn'
      <3>1. PICK q \in QueueResults(call[t].timed) : RecycleOutput(t, c, out)!(q)
        BY <2>1 DEF RecycleOutput
      <3>2. UNCHANGED dec_out_buf \/ dec_out_buf' = [dec_out_buf EXCEPT ![c] = out]
        BY <3>1
      <3> QED
        BY <2>0, <2>1, <3>2
    <2>2. CASE SyncDropsHollow(t) \/ SyncDropsBad(t)
      <3>1. /\ AtVpu(pc[t]) /\ RecycleOutput(t, call[t].cid, hand[t].out)
            /\ hand[t].reply \in {"hollow", "bad"}
        BY <2>2 DEF SyncDropsHollow, SyncDropsBad, AtResume, AtVpu
      <3>2. /\ call[t].cid \in Contexts /\ ctx_state[call[t].cid] = "running"
            /\ hand[t].out.ctx = call[t].cid
        BY <3>1, SyncFacts DEF HandIsMine
      <3> QED
        BY <2>1, <3>1, <3>2
    <2>3. CASE SyncRetriesOutput(t)
      BY <2>0, <2>3 DEF SyncRetriesOutput
    <2>4. CASE ~(SyncDropsHollow(t) \/ SyncDropsBad(t) \/ SyncRetriesOutput(t))
      <3>1. UNCHANGED dec_out_buf
        BY <1>1, <2>4
        DEF ThreadStep, BeginPicture, BeginSleeps, BeginFails, BeginSyncs, BeginRefused,
            BeginAccepts, SyncChecks, SyncEnter, SyncGivesUp, SyncSleeps, SyncStarts,
            SyncTooLate, SleepTimesOut, SyncLoops, SyncDone, SyncBreaks, SyncUnlocks,
            VpuAnswers, VpuSilent, VpuHollow, VpuOutputs, SyncResumes, SyncLost,
            SyncRepeats, SyncKeepsFrame, ctxVars
      <3> QED
        BY <2>0, <3>1
    <2> QED
      BY <2>2, <2>3, <2>4
  <1>2. ASSUME NEW s \in Surfaces, SurfaceCall(s) PROVE KeptIsOwn'
    BY <1>2, SurfaceCallKeeps
  <1>3. ASSUME NEW c \in Contexts, ContextCall(c) PROVE KeptIsOwn'
    <2>1. ASSUME NEW T \in TargetSets, CreateContext(c, T) PROVE KeptIsOwn'
      BY <2>1 DEF CreateContext
    <2>2. CASE DestroyContext(c)
      BY <2>2 DEF DestroyContext
    <2>3. CASE DestroyContextFails(c)
      BY <2>3 DEF DestroyContextFails
    <2>4. CASE RenderPicture(c)
      BY <2>4 DEF RenderPicture
    <2>5. CASE RenderPictureAborts(c)
      BY <2>5 DEF RenderPictureAborts
    <2>6. CASE EndPicture(c) \/ EndPictureAborts(c)
      BY <2>6 DEF EndPicture, EndPictureAborts
    <2> QED
      BY <1>3, <2>1, <2>2, <2>3, <2>4, <2>5, <2>6 DEF ContextCall
  <1>4. ASSUME NEW X \in SUBSET Surfaces, DestroySurfaces(X) PROVE KeptIsOwn'
    BY <1>4 DEF DestroySurfaces, ctxVars
  <1>5. CASE UNCHANGED vars
    BY <1>5 DEF vars, ctxVars
  <1>6. ASSUME NEW t \in Threads, NEW s \in Surfaces,
               \/ \E timed \in BOOLEAN : CallSyncSurface(t, s, timed)
               \/ \E c \in Contexts : CallBeginPicture(t, c, s)
        PROVE  KeptIsOwn'
    BY <1>6, CallKeepsAll DEF ctxVars
  <1> QED
    BY <1>1, <1>2, <1>3, <1>4, <1>5, <1>6 DEF Next

-----------------------------------------------------------------------------
(* Frames and the decoders that made them.                                 *)

LEMMA OwnerStep ==
    ASSUME TypeInv, SyncInv, FifoInv, HandIsMine, FrameOwnerRuns, [Next]_vars
    PROVE  FrameOwnerRuns'
  <1> USE DEF FrameOwnerRuns, TypeInv, TypeOK, CtxTypes, SurfTypes
  <1>a. NoOutput \notin Outputs /\ \A o \in Outputs : o.ctx \in Contexts
    BY ConstantsAssumption DEF Outputs
  <1>1. ASSUME NEW t \in Threads, ThreadStep(t) PROVE FrameOwnerRuns'
    <2>0. UNCHANGED ctx_state
      BY <1>1, ThreadKeepsContexts
    <2>1. CASE BeginAccepts(t)
      <3>1. /\ UNCHANGED allocated
            /\ \A s \in Surfaces : frame'[s] \in {frame[s], NoOutput}
            /\ \A s \in Surfaces : context_usage_mask[s] \subseteq context_usage_mask'[s]
        BY <2>1 DEF BeginAccepts, RetainUsage
      <3> QED
        BY <2>0, <3>1
    <2>2. CASE SyncUnlocks(t)
      BY <2>0, <2>2 DEF SyncUnlocks
    <2>3. CASE SyncKeepsFrame(t)
      <3> DEFINE c == call[t].cid
                 s == call[t].target
      <3>1. /\ s \in Surfaces /\ context_id[s] = c /\ allocated[s] /\ decode_pending[s]
            /\ ctx_state[c] = "running"
        <4>1. AtResume(t)
          BY <2>3 DEF SyncKeepsFrame
        <4>2. StillMine(t) /\ s \in Waiting(c) /\ allocated[s]
          BY <4>1, ResumeFacts
        <4> QED
          BY <4>2 DEF StillMine, Waiting
      <3>2. c \in context_usage_mask[s]
        BY <3>1 DEF FifoInv, PendingIsClean
      <3>3. hand[t].out.ctx = c
        BY <2>3 DEF HandIsMine, SyncKeepsFrame
      <3>4. /\ UNCHANGED <<allocated, context_usage_mask>>
            /\ frame' = [frame EXCEPT ![s] = hand[t].out]
        BY <2>3, <3>1 DEF SyncKeepsFrame
      <3> HIDE DEF c, s
      <3> QED
        BY <2>0, <3>1, <3>2, <3>3, <3>4
    <2>4. CASE ~(BeginAccepts(t) \/ SyncUnlocks(t) \/ SyncKeepsFrame(t))
      <3>1. UNCHANGED <<allocated, frame, context_usage_mask>>
        BY <1>1, <2>4
        DEF ThreadStep, BeginPicture, BeginSleeps, BeginFails, BeginSyncs, BeginRefused,
            SyncChecks, SyncEnter, SyncGivesUp, SyncSleeps, SyncRetriesOutput,
            SyncStarts, SyncTooLate, SleepTimesOut, SyncLoops, SyncDone, SyncBreaks,
            VpuAnswers, VpuSilent, VpuHollow, VpuOutputs, SyncResumes, SyncLost,
            SyncRepeats, SyncDropsHollow, SyncDropsBad, surfVars
      <3> QED
        BY <2>0, <3>1
    <2> QED
      BY <2>1, <2>2, <2>3, <2>4
  <1>2. ASSUME NEW s \in Surfaces, SurfaceCall(s) PROVE FrameOwnerRuns'
    <2>0. UNCHANGED ctx_state
      BY <1>2, SurfaceCallKeeps
    <2> QED
      <3>1. CASE CreateSurface(s)
        BY <2>0, <3>1 DEF CreateSurface
      <3>2. CASE PutImage(s)
        BY <2>0, <3>2 DEF PutImage
      <3>3. CASE LockSurface(s) \/ UnlockSurface(s) \/ EncoderTakes(s)
        BY <2>0, <3>3 DEF LockSurface, UnlockSurface, EncoderTakes
      <3> QED
        BY <1>2, <3>1, <3>2, <3>3 DEF SurfaceCall
  <1>3. ASSUME NEW c \in Contexts, ContextCall(c) PROVE FrameOwnerRuns'
    <2>1. ASSUME NEW T \in TargetSets, CreateContext(c, T) PROVE FrameOwnerRuns'
      BY <2>1 DEF CreateContext, RetainUsage
    <2>2. CASE DestroyContext(c)
      BY <2>2 DEF DestroyContext, Detach, FramesOf, HasFrame, Owner
    <2>3. CASE DestroyContextFails(c)
      <3>1. PICK outOk \in BOOLEAN, inOk \in BOOLEAN, kept \in SUBSET FramesOf(c) :
               DestroyContextFails(c)!4!(outOk, inOk, kept)
        BY <2>3 DEF DestroyContextFails
      <3>2. UNCHANGED <<allocated, context_usage_mask>>
        BY <2>3 DEF DestroyContextFails
      <3> QED
        BY <3>1, <3>2 DEF FramesOf, HasFrame, Owner
    <2>4. CASE RenderPicture(c)
      BY <2>4 DEF RenderPicture, RetainUsage
    <2>5. CASE RenderPictureAborts(c)
      <3>1. /\ UNCHANGED <<allocated, frame>>
            /\ \A d \in Contexts : ctx_state[d] = "running" => ctx_state'[d] = "running"
            /\ \A s \in Surfaces : context_usage_mask[s] \subseteq context_usage_mask'[s]
        BY <2>5 DEF RenderPictureAborts, RetainUsage
      <3> QED
        BY <1>a, <3>1
    <2>6. CASE EndPicture(c) \/ EndPictureAborts(c)
      BY <2>6 DEF EndPicture, EndPictureAborts, surfVars
    <2> QED
      BY <1>3, <2>1, <2>2, <2>3, <2>4, <2>5, <2>6 DEF ContextCall
  <1>4. ASSUME NEW X \in SUBSET Surfaces, DestroySurfaces(X) PROVE FrameOwnerRuns'
    <2>1. \A s \in X : frame[s] = NoOutput
      BY <1>4 DEF DestroySurfaces, Destroyable
    <2> QED
      BY <1>4, <2>1 DEF DestroySurfaces, ctxVars
  <1>5. CASE UNCHANGED vars
    BY <1>5 DEF vars, ctxVars, surfVars
  <1>6. ASSUME NEW t \in Threads, NEW s \in Surfaces,
               \/ \E timed \in BOOLEAN : CallSyncSurface(t, s, timed)
               \/ \E c \in Contexts : CallBeginPicture(t, c, s)
        PROVE  FrameOwnerRuns'
    BY <1>6, CallKeepsAll DEF ctxVars, surfVars
  <1> QED
    BY <1>1, <1>2, <1>3, <1>4, <1>5, <1>6 DEF Next

-----------------------------------------------------------------------------
(* The pipeline of a decoder: what is in hand, what the VPU decodes, what  *)
(* is being assembled.  Its five moves, as facts about sequences.          *)

LEMMA PipelineBegins ==
    ASSUME NEW h \in Seq(Surfaces), NEW q \in Seq(Surfaces), NEW s \in Surfaces
    PROVE  Append(h \o q \o << >>, s) = h \o q \o <<s>>
  <1>1. h \o q \in Seq(Surfaces)
    BY ConcatProperties
  <1>2. h \o q \o << >> = h \o q
    BY <1>1, ConcatEmptySeq
  <1> QED
    BY <1>1, <1>2, AppendIsConcat

LEMMA PipelineAborts ==
    ASSUME NEW h \in Seq(Surfaces), NEW q \in Seq(Surfaces), NEW s \in Surfaces,
           NEW r, r = h \o q \o <<s>>
    PROVE  r # << >> /\ SubSeq(r, 1, Len(r) - 1) = h \o q \o << >>
  <1> DEFINE x == h \o q
  <1>1. x \in Seq(Surfaces) /\ x \o << >> = x
    BY ConcatProperties, ConcatEmptySeq
  <1>2. r = Append(x, s)
    BY <1>1, AppendIsConcat
  <1> HIDE DEF x
  <1>3. r \in Seq(Surfaces) /\ Len(r) = Len(x) + 1 /\ Len(x) \in Nat /\ r # << >>
    BY <1>1, <1>2, AppendGrows
  <1>4. SubSeq(r, 1, Len(x)) = x
    <2>1. CASE x = << >>
      <3>1. Len(x) \in Int /\ 1 \in Int /\ Len(x) < 1
        BY <2>1
      <3> QED
        BY <2>1, <3>1, SubSeqEmpty
    <2>2. CASE x # << >>
      <3>1. 1 \in 1 .. Len(x) /\ Len(x) \in 1 .. Len(x) /\ <<s>> \in Seq(Surfaces)
        BY <1>1, <2>2, EmptySeq
      <3>2. r = x \o <<s>>
        BY <1>1, <1>2, AppendIsConcat
      <3>3. SubSeq(r, 1, Len(x)) = SubSeq(x, 1, Len(x))
        BY <1>1, <3>1, <3>2, SubSeqOfConcat1
      <3> QED
        BY <1>1, <3>3, SubSeqFull
    <2> QED
      BY <2>1, <2>2
  <1> QED
    BY <1>1, <1>3, <1>4 DEF x

LEMMA PipelineSubmits ==
    ASSUME NEW h \in Seq(Surfaces), NEW q \in Seq(Surfaces), NEW s \in Surfaces
    PROVE  h \o q \o <<s>> = h \o Append(q, s) \o << >>
  <1>1. <<s>> \in Seq(Surfaces) /\ Append(q, s) = q \o <<s>>
    BY AppendIsConcat
  <1>2. Append(q, s) \in Seq(Surfaces)
    OBVIOUS
  <1>3. h \o Append(q, s) \in Seq(Surfaces)
    BY <1>2, ConcatProperties
  <1>4. h \o Append(q, s) \o << >> = h \o Append(q, s)
    BY <1>3, ConcatEmptySeq
  <1>5. (h \o q) \o <<s>> = h \o (q \o <<s>>)
    BY <1>1, ConcatAssociative
  <1> QED
    BY <1>1, <1>4, <1>5

LEMMA PipelineAnswers ==
    ASSUME NEW q \in Seq(Surfaces), q # << >>, NEW p
    PROVE  << >> \o q \o p = << Head(q) >> \o Tail(q) \o p
  <1>1. << >> \o q = q
    BY ConcatEmptySeq
  <1>2. << Head(q) >> \o Tail(q) = q
    <2>1. /\ Head(q) = q[1] /\ Head(q) \in Surfaces /\ Tail(q) \in Seq(Surfaces)
          /\ Len(q) \in Nat \ {0} /\ Len(Tail(q)) = Len(q) - 1
          /\ \A i \in 1 .. Len(Tail(q)) : Tail(q)[i] = q[i + 1]
      BY HeadTailProperties, TailShrinks
    <2> DEFINE r == << Head(q) >> \o Tail(q)
    <2>2. /\ << Head(q) >> \in Seq(Surfaces) /\ Len(<< Head(q) >>) = 1
          /\ << Head(q) >>[1] = Head(q)
      BY <2>1
    <2>3. /\ r \in Seq(Surfaces) /\ Len(r) = 1 + Len(Tail(q))
          /\ \A i \in 1 .. 1 + Len(Tail(q)) :
                r[i] = IF i <= 1 THEN << Head(q) >>[i] ELSE Tail(q)[i - 1]
      BY <2>1, <2>2, ConcatProperties
    <2> HIDE DEF r
    <2>4. Len(r) = Len(q)
      BY <2>1, <2>3
    <2>5. ASSUME NEW i \in 1 .. Len(r) PROVE r[i] = q[i]
      <3>1. CASE i = 1
        BY <2>1, <2>2, <2>3, <3>1
      <3>2. CASE i # 1
        <4>1. i - 1 \in 1 .. Len(Tail(q)) /\ ~(i <= 1) /\ i \in 1 .. 1 + Len(Tail(q))
          BY <2>1, <2>4, <3>2
        <4>2. r[i] = Tail(q)[i - 1] /\ Tail(q)[i - 1] = q[(i - 1) + 1]
          BY <2>1, <2>3, <4>1
        <4>3. (i - 1) + 1 = i
          BY <2>1, <2>4
        <4> QED
          BY <4>2, <4>3
      <3> QED
        BY <3>1, <3>2
    <2>6. r = q
      BY <2>3, <2>4, <2>5, SeqEqual
    <2> QED
      BY <2>6 DEF r
  <1> QED
    BY <1>1, <1>2

LEMMA PipelineSettles ==
    ASSUME NEW q \in Seq(Surfaces), NEW s \in Surfaces, NEW r, r = <<s>> \o q \o << >>
    PROVE  r # << >> /\ Head(r) = s /\ Tail(r) = << >> \o q \o << >>
  <1>1. << >> \o q = q /\ q \o << >> = q
    BY ConcatEmptySeq
  <1>2. <<s>> \in Seq(Surfaces) /\ Len(<<s>>) = 1 /\ <<s>>[1] = s
    OBVIOUS
  <1>3. <<s>> \o q \in Seq(Surfaces)
    BY <1>2, ConcatProperties
  <1>4. r = <<s>> \o q
    BY <1>3, ConcatEmptySeq
  <1>5. /\ Len(r) = 1 + Len(q) /\ Len(q) \in Nat
        /\ \A i \in 1 .. 1 + Len(q) : r[i] = IF i <= 1 THEN <<s>>[i] ELSE q[i - 1]
    BY <1>2, <1>4, ConcatProperties
  <1>6. r # << >> /\ Head(r) = r[1] /\ r[1] = s
    <2>1. Len(r) # 0 /\ 1 \in 1 .. 1 + Len(q)
      BY <1>5
    <2>2. r # << >>
      BY <2>1
    <2> QED
      BY <1>2, <1>3, <1>4, <1>5, <2>1, <2>2
  <1>7. /\ Tail(r) \in Seq(Surfaces) /\ Len(Tail(r)) = Len(r) - 1
        /\ \A i \in 1 .. Len(Tail(r)) : Tail(r)[i] = r[i + 1]
    BY <1>3, <1>4, <1>6, HeadTailProperties
  <1>8. Len(Tail(r)) = Len(q)
    BY <1>5, <1>7
  <1>9. ASSUME NEW i \in 1 .. Len(Tail(r)) PROVE Tail(r)[i] = q[i]
    <2>1. i + 1 \in 1 .. 1 + Len(q) /\ ~(i + 1 <= 1) /\ (i + 1) - 1 = i
      BY <1>5, <1>8
    <2> QED
      BY <1>5, <1>7, <2>1
  <1>10. Tail(r) = q
    BY <1>7, <1>8, <1>9, SeqEqual
  <1> QED
    BY <1>1, <1>6, <1>10

(* Thread t holds a picture of decoder c.                                  *)
Holding(t, c) == Syncing(t, c) /\ hand[t].reply \in {"bad", "frame"}

(* InHand(c) is what the one thread that synchronises c holds.             *)
InHandFacts ==
    \A c \in Contexts :
        /\ InHand(c) \in Seq(Surfaces)
        /\ (\A t \in Threads : ~Holding(t, c)) => InHand(c) = << >>
        /\ \A t \in Threads : Holding(t, c) =>
              InHand(c) = << hand[t].out.pic >> /\ hand[t].out.pic \in Surfaces

LEMMA InHandIs == TypeInv /\ SyncInv => InHandFacts
  <1> SUFFICES ASSUME TypeInv, SyncInv, NEW c \in Contexts
               PROVE  /\ InHand(c) \in Seq(Surfaces)
                      /\ (\A t \in Threads : ~Holding(t, c)) => InHand(c) = << >>
                      /\ \A t \in Threads : Holding(t, c) =>
                           InHand(c) = << hand[t].out.pic >> /\ hand[t].out.pic \in Surfaces
    BY DEF InHandFacts
  <1> DEFINE T == {t \in Threads : Syncing(t, c) /\ hand[t].reply \in {"bad", "frame"}}
  <1>1. \A t \in Threads : Holding(t, c) <=> t \in T
    BY DEF Holding
  <1>2. InHand(c) = IF T = {} THEN << >> ELSE << hand[CHOOSE t \in T : TRUE].out.pic >>
    BY DEF InHand
  <1>3. \A t, u \in T : t = u
    BY DEF SyncInv, OneSyncer
  <1>4. \A t \in T : t \in Threads /\ hand[t].out.pic \in Surfaces
    BY ThreadFacts DEF LocalsSet, Outputs
  <1> HIDE DEF T
  <1>5. CASE T = {}
    BY <1>1, <1>2, <1>5
  <1>6. ASSUME NEW t \in T
        PROVE  /\ InHand(c) = << hand[t].out.pic >>
               /\ InHand(c) \in Seq(Surfaces)
    <2>1. (CHOOSE u \in T : TRUE) = t
      BY <1>3
    <2>2. InHand(c) = << hand[t].out.pic >>
      BY <1>2, <2>1
    <2> QED
      BY <1>4, <2>2
  <1> QED
    BY <1>1, <1>4, <1>5, <1>6

LEMMA HandStays ==
    ASSUME NEW c \in Contexts,
           \A t \in Threads : Holding(t, c)' <=> Holding(t, c),
           \A t \in Threads : Holding(t, c) => hand'[t] = hand[t]
    PROVE  InHand(c)' = InHand(c)
  <1> DEFINE T == {t \in Threads : Holding(t, c)}
             U == {t \in Threads : Holding(t, c)'}
  <1>1. T = U
    OBVIOUS
  <1>2. InHand(c) = IF T = {} THEN << >> ELSE << hand[CHOOSE t \in T : TRUE].out.pic >>
    BY DEF InHand, Holding
  <1>3. InHand(c)' = IF U = {} THEN << >> ELSE << hand'[CHOOSE t \in U : TRUE].out.pic >>
    BY DEF InHand, Holding
  <1>4. CASE T = {}
    BY <1>1, <1>2, <1>3, <1>4
  <1>5. CASE T # {}
    <2>1. (CHOOSE t \in T : TRUE) \in T
      BY <1>5
    <2>2. hand'[CHOOSE t \in T : TRUE] = hand[CHOOSE t \in T : TRUE]
      BY <2>1
    <2> HIDE DEF T, U
    <2> QED
      BY <1>1, <1>2, <1>3, <1>5, <2>2
  <1> QED
    BY <1>4, <1>5

LEMMA PipelineStays ==
    ASSUME FifoIsPipeline, NEW c \in Contexts,
           HasInstance(c)' => HasInstance(c),
           decode_failed[c] => decode_failed'[c],
           submitted'[c] = submitted[c], vpu_queue'[c] = vpu_queue[c],
           decode_picture_active'[c] = decode_picture_active[c],
           current_render_target'[c] = current_render_target[c],
           InHand(c)' = InHand(c)
    PROVE  HasInstance(c)' /\ ~decode_failed'[c] => submitted'[c] = Pipeline(c)'
  BY DEF FifoIsPipeline, Pipeline

(* Nothing is taken from or put into a hand that holds a picture.          *)
LEMMA OtherHands ==
    ASSUME TypeInv, HandIsMine, NEW t \in Threads, ThreadStep(t), NEW c \in Contexts,
           ~Holding(t, c), ~VpuOutputs(t) \/ call[t].cid # c
    PROVE  InHand(c)' = InHand(c)
  <1>1. \A u \in Threads \ {t} :
           pc'[u] = pc[u] /\ call'[u] = call[u] /\ hand'[u] = hand[u]
    BY HandMoves
  <1>2. ~Holding(t, c)'
    <2>1. CASE hand'[t] = NoHand
      BY <2>1 DEF Holding, NoHand
    <2>2. CASE VpuSilent(t) \/ VpuHollow(t)
      <3>1. hand'[t].reply \in {"timeout", "error", "empty", "hollow"}
        BY <2>2 DEF VpuSilent, VpuHollow, TypeInv, TypeOK, ThrTypes
      <3> QED
        BY <3>1 DEF Holding
    <2>3. CASE VpuOutputs(t)
      BY <2>3 DEF VpuOutputs, Holding, Syncing
    <2> QED
      BY <2>1, <2>2, <2>3, HandMoves DEF VpuAnswers
  <1>3. \A u \in Threads : Holding(u, c)' <=> Holding(u, c)
    BY <1>1, <1>2 DEF Holding, Syncing
  <1>4. \A u \in Threads : Holding(u, c) => hand'[u] = hand[u]
    BY <1>1
  <1> QED
    BY <1>3, <1>4, HandStays

LEMMA PipelineThread ==
    ASSUME TypeInv, SyncInv, FifoInv, HandIsMine, FifoIsPipeline, TypeInv', SyncInv',
           NEW t \in Threads, ThreadStep(t)
    PROVE  FifoIsPipeline'
  <1> SUFFICES ASSUME NEW c \in Contexts, HasInstance(c)', ~decode_failed'[c]
               PROVE  submitted'[c] = Pipeline(c)'
    BY DEF FifoIsPipeline
  <1>1. /\ HasInstance(c) /\ ~decode_failed[c] /\ submitted[c] = Pipeline(c)
        /\ UNCHANGED ctx_state
    BY ThreadKeepsContexts DEF FifoIsPipeline, HasInstance
  <1> DEFINE q == vpu_queue[c]
             p == IF decode_picture_active[c] THEN << current_render_target[c] >> ELSE << >>
  <1>2. /\ q \in Seq(Surfaces) /\ submitted[c] \in Seq(Surfaces)
        /\ InHand(c) \in Seq(Surfaces)
        /\ submitted[c] = InHand(c) \o q \o p
    BY <1>1, InHandIs DEF TypeInv, TypeOK, CtxTypes, VpuTypes, Pipeline, InHandFacts
  <1>3. \A u \in Threads \ {t} :
           pc'[u] = pc[u] /\ call'[u] = call[u] /\ hand'[u] = hand[u]
    BY HandMoves
  <1>4. /\ (\A u \in Threads : ~Holding(u, c)) => InHand(c) = << >>
        /\ \A u \in Threads : Holding(u, c) =>
              InHand(c) = << hand[u].out.pic >> /\ hand[u].out.pic \in Surfaces
    BY InHandIs DEF InHandFacts
  <1>5. /\ (\A u \in Threads : ~Holding(u, c)') => InHand(c)' = << >>
        /\ \A u \in Threads : Holding(u, c)' => InHand(c)' = << hand'[u].out.pic >>
    <2>1. InHandFacts'
      BY InHandIs, PTL
    <2> QED
      BY <2>1 DEF InHandFacts
  <1>6. ASSUME Syncing(t, c)
        PROVE  \A u \in Threads \ {t} : ~Syncing(u, c) /\ ~Holding(u, c) /\ ~Holding(u, c)'
    BY <1>3, <1>6 DEF SyncInv, OneSyncer, Holding, Syncing
  <1>7. CASE VpuOutputs(t) /\ call[t].cid = c
    <2>1. /\ pc[t] = "dequeue" /\ q # << >> /\ vpu_queue'[c] = Tail(q)
          /\ pc'[t] = "resume" /\ call'[t] = call[t]
          /\ hand'[t].reply \in {"bad", "frame"} /\ hand'[t].out.pic = Head(q)
          /\ UNCHANGED <<submitted, decode_picture_active, current_render_target>>
      BY <1>7 DEF VpuOutputs, TypeInv, TypeOK, VpuTypes, ThrTypes, ctxVars
    <2>2. Syncing(t, c) /\ ~Holding(t, c) /\ Holding(t, c)'
      BY <1>7, <2>1 DEF Syncing, Holding, HandIsMine, NoHand
    <2>3. InHand(c) = << >> /\ InHand(c)' = << Head(q) >>
      BY <1>4, <1>5, <1>6, <2>1, <2>2
    <2>4. Pipeline(c)' = << Head(q) >> \o Tail(q) \o p
      BY <2>1, <2>3 DEF Pipeline
    <2>5. << >> \o q \o p = << Head(q) >> \o Tail(q) \o p
      BY <1>2, <2>1, PipelineAnswers
    <2> QED
      BY <1>2, <2>1, <2>3, <2>4, <2>5
  <1>8. CASE (SyncDropsBad(t) \/ SyncKeepsFrame(t)) /\ call[t].cid = c
    <2>1. /\ AtResume(t) /\ hand[t].reply \in {"bad", "frame"} /\ PopSubmitted(c)
          /\ UNCHANGED <<vpu_queue, decode_picture_active, current_render_target>>
      BY <1>8 DEF SyncDropsBad, SyncKeepsFrame, vpuVars
    <2>2. ~decode_picture_active[c]
      BY <1>8, <2>1, ResumeFacts
    <2>3. Syncing(t, c) /\ Holding(t, c)
      BY <1>8, <2>1 DEF Syncing, Holding, AtResume
    <2>4. hand'[t] = NoHand
      BY <2>1, HandMoves DEF VpuAnswers, VpuSilent, VpuHollow, VpuOutputs, AtResume
    <2>5. ~Holding(t, c)'
      BY <2>4 DEF Holding, NoHand
    <2>6. InHand(c)' = << >>
      BY <1>5, <1>6, <2>3, <2>5
    <2> DEFINE s == hand[t].out.pic
    <2>7. InHand(c) = <<s>> /\ s \in Surfaces
      BY <1>4, <2>3
    <2>8. submitted[c] = <<s>> \o q \o << >>
      BY <1>2, <2>2, <2>7
    <2>9. submitted[c] # << >> /\ Tail(submitted[c]) = << >> \o q \o << >>
      <3> HIDE DEF s, q
      <3> QED
        BY <1>2, <2>7, <2>8, PipelineSettles
    <2>10. submitted'[c] = Tail(submitted[c])
      BY <2>1, <2>9 DEF PopSubmitted, TypeInv, TypeOK, CtxTypes
    <2>11. Pipeline(c)' = << >> \o q \o << >>
      BY <2>1, <2>2, <2>6 DEF Pipeline
    <2> QED
      BY <2>9, <2>10, <2>11
  <1>9. CASE /\ ~(VpuOutputs(t) /\ call[t].cid = c)
             /\ ~((SyncDropsBad(t) \/ SyncKeepsFrame(t)) /\ call[t].cid = c)
    <2>1. ~Holding(t, c)
      <3> SUFFICES ASSUME Holding(t, c) PROVE FALSE
        OBVIOUS
      <3>1. pc[t] = "resume" /\ call[t].cid = c /\ hand[t].reply \in {"bad", "frame"}
        BY DEF Holding, Syncing, HandIsMine, NoHand
      <3>2. SyncResumes(t)
        BY <3>1 DEF ThreadStep, BeginPicture, BeginSleeps, BeginFails, BeginSyncs,
           BeginRefused, BeginAccepts, AtBegin, SyncChecks, SyncEnter, SyncGivesUp,
           SyncSleeps, SyncRetriesOutput, SyncStarts, SyncTooLate, SleepTimesOut,
           OwnerLive, AtCheck, SyncLoops, SyncDone, SyncBreaks, SyncUnlocks, AtLoop,
           VpuAnswers, VpuSilent, VpuHollow, VpuOutputs
      <3>3. SyncLost(t)
        BY <1>9, <3>1, <3>2 DEF SyncResumes, SyncRepeats, SyncDropsHollow
      <3>4. StillMine(t)
        BY <3>3, ResumeFacts DEF SyncLost
      <3> QED
        BY <3>1, <3>3, <3>4 DEF SyncLost
    <2>2. InHand(c)' = InHand(c)
      BY <1>9, <2>1, OtherHands
    <2>3. CASE BeginAccepts(t) /\ call[t].ctx = c
      <3> DEFINE s == call[t].surf
      <3>1. /\ ~decode_picture_active[c] /\ UNCHANGED vpu_queue
            /\ submitted'[c] = Append(submitted[c], s)
            /\ decode_picture_active'[c] /\ current_render_target'[c] = s
        BY <2>3 DEF BeginAccepts, MaySubmit, MayBegin, TypeInv, TypeOK, CtxTypes
      <3>2. s \in Surfaces
        BY <2>3, ThreadFacts DEF BeginAccepts, AtBegin, LocalsSet
      <3>3. submitted[c] = InHand(c) \o q \o << >>
        BY <1>2, <3>1
      <3>4. submitted'[c] = InHand(c) \o q \o <<s>>
        <4> HIDE DEF s, q
        <4> QED
          BY <1>2, <3>1, <3>2, <3>3, PipelineBegins
      <3> QED
        BY <2>2, <3>1, <3>4 DEF Pipeline
    <2>4. CASE ~(BeginAccepts(t) /\ call[t].ctx = c)
      <3>1. /\ submitted'[c] = submitted[c] /\ vpu_queue'[c] = vpu_queue[c]
            /\ decode_picture_active'[c] = decode_picture_active[c]
            /\ current_render_target'[c] = current_render_target[c]
        <4> USE DEF TypeInv, TypeOK, CtxTypes, VpuTypes
        <4>1. CASE BeginPicture(t)
          <5>1. CASE BeginAccepts(t)
            BY <2>4, <5>1 DEF BeginAccepts
          <5> QED
            BY <4>1, <5>1 DEF BeginPicture, BeginSleeps, BeginFails, BeginSyncs,
               BeginRefused, ctxVars, vpuVars
        <4>2. CASE SyncChecks(t) \/ SyncLoops(t)
          BY <4>2 DEF SyncChecks, SyncEnter, SyncGivesUp, SyncSleeps,
             SyncRetriesOutput, SyncStarts, SyncTooLate, SleepTimesOut, SyncLoops,
             SyncDone, SyncBreaks, SyncUnlocks, ctxVars, vpuVars
        <4>3. CASE VpuAnswers(t)
          BY <1>9, <4>3 DEF VpuAnswers, VpuSilent, VpuHollow, VpuOutputs, ctxVars, vpuVars
        <4>4. CASE SyncResumes(t)
          <5>1. CASE SyncDropsBad(t) \/ SyncKeepsFrame(t)
            BY <1>9, <5>1 DEF SyncDropsBad, SyncKeepsFrame, PopSubmitted, vpuVars
          <5> QED
            BY <4>4, <5>1 DEF SyncResumes, SyncLost, SyncRepeats, SyncDropsHollow,
               ctxVars, vpuVars
        <4> QED
          BY <4>1, <4>2, <4>3, <4>4 DEF ThreadStep
      <3> QED
        BY <1>1, <2>2, <3>1, PipelineStays
    <2> QED
      BY <2>3, <2>4
  <1> QED
    BY <1>7, <1>8, <1>9

LEMMA IdleHands ==
    ASSUME UNCHANGED <<pc, call, hand>>, NEW c \in Contexts
    PROVE  InHand(c)' = InHand(c)
  BY DEF InHand, Syncing

(* An abandoned picture leaves the FIFO it entered last.                   *)
LEMMA AbortPipeline ==
    ASSUME TypeInv, SyncInv, FifoInv, FifoIsPipeline, NEW c \in Contexts,
           HasInstance(c), ~decode_failed[c], decode_picture_active[c], AbortPicture(c),
           UNCHANGED <<vpu_queue, pc, call, hand>>
    PROVE  submitted'[c] = Pipeline(c)'
  <1> DEFINE q == vpu_queue[c]
             s == current_render_target[c]
             r == submitted[c]
  <1>1. q \in Seq(Surfaces) /\ s \in Surfaces /\ r \in Seq(Surfaces)
    BY DEF TypeInv, TypeOK, CtxTypes, VpuTypes, PictureShape
  <1>2. r # << >> /\ r[Len(r)] = s
    BY DEF FifoInv, PictureIsLast
  <1>3. InHand(c) \in Seq(Surfaces)
    BY InHandIs DEF InHandFacts
  <1>4. r = InHand(c) \o q \o <<s>>
    BY DEF FifoIsPipeline, Pipeline
  <1>5. SubSeq(r, 1, Len(r) - 1) = InHand(c) \o q \o << >>
    <2> HIDE DEF q, s, r
    <2> QED
      BY <1>1, <1>3, <1>4, PipelineAborts
  <1>6. submitted'[c] = SubSeq(r, 1, Len(r) - 1)
    <2>1. Len(r) > 0
      BY <1>1, <1>2
    <2> QED
      BY <1>2, <2>1 DEF AbortPicture, DropLast, TypeInv, TypeOK, CtxTypes
  <1>7. ~decode_picture_active'[c]
    BY DEF AbortPicture, TypeInv, TypeOK, CtxTypes
  <1>8. InHand(c)' = InHand(c)
    BY IdleHands
  <1> QED
    BY <1>5, <1>6, <1>7, <1>8 DEF Pipeline

LEMMA PipelineContext ==
    ASSUME TypeInv, SyncInv, FifoInv, FifoIsPipeline, NEW c \in Contexts, ContextCall(c)
    PROVE  FifoIsPipeline'
  <1> SUFFICES ASSUME NEW d \in Contexts, HasInstance(d)', ~decode_failed'[d]
               PROVE  submitted'[d] = Pipeline(d)'
    BY DEF FifoIsPipeline
  <1> USE DEF TypeInv, TypeOK, CtxTypes, VpuTypes, HasInstance
  <1>1. InHand(d)' = InHand(d)
    <2>1. UNCHANGED <<pc, call, hand>>
      BY DEF ContextCall, CreateContext, DestroyContext, DestroyContextFails,
         RenderPicture, RenderPictureAborts, EndPicture, EndPictureAborts, thrVars
    <2> QED
      BY <2>1, IdleHands
  <1>2. ASSUME NEW T \in TargetSets, CreateContext(c, T)
        PROVE  submitted'[d] = Pipeline(d)'
    <2>1. CASE d = c
      <3>1. \A t \in Threads : ~Holding(t, c)
        BY <1>2 DEF CreateContext, Holding, SyncInv, OneSyncer, SyncRuns
      <3>2. InHand(c) = << >>
        BY <3>1, InHandIs DEF InHandFacts
      <3>3. /\ submitted'[c] = << >> /\ vpu_queue'[c] = << >>
            /\ ~decode_picture_active'[c]
        BY <1>2 DEF CreateContext
      <3>4. << >> \o << >> \o << >> = << >>
        BY ConcatEmptySeq, EmptySeq
      <3> QED
        BY <1>1, <2>1, <3>2, <3>3, <3>4 DEF Pipeline
    <2>2. CASE d # c
      BY <1>1, <1>2, <2>2, PipelineStays DEF CreateContext
    <2> QED
      BY <2>1, <2>2
  <1>3. CASE DestroyContext(c)
    BY <1>1, <1>3, PipelineStays DEF DestroyContext
  <1>4. CASE DestroyContextFails(c)
    <2>1. /\ \A e \in Contexts : ctx_state'[e] = ctx_state[e] \/ ctx_state'[e] = "stopped"
          /\ UNCHANGED <<submitted, vpu_queue, decode_picture_active,
                         current_render_target, decode_failed>>
      BY <1>4 DEF DestroyContextFails
    <2> QED
      BY <1>1, <2>1, PipelineStays
  <1>5. CASE RenderPicture(c)
    BY <1>1, <1>5, PipelineStays DEF RenderPicture, vpuVars
  <1>6. CASE RenderPictureAborts(c) \/ EndPictureAborts(c)
    <2>1. /\ AbortPicture(c) /\ UNCHANGED <<vpu_queue, pc, call, hand>>
          /\ decode_picture_active[c] /\ ~decode_failed[c]
          /\ \A e \in Contexts \ {c} :
                decode_failed'[e] = decode_failed[e] /\ ctx_state'[e] = ctx_state[e]
      BY <1>6 DEF RenderPictureAborts, EndPictureAborts, RecycleInput, PictureOpen, vpuVars
    <2>2. HasInstance(c)' => HasInstance(c)
      BY <1>6 DEF RenderPictureAborts, EndPictureAborts
    <2>3. CASE d = c
      BY <2>1, <2>2, <2>3, AbortPipeline
    <2>4. CASE d # c
      BY <1>1, <2>1, <2>4, PipelineStays DEF AbortPicture, DropLast
    <2> QED
      BY <2>3, <2>4
  <1>7. CASE EndPicture(c)
    <2>1. CASE d = c
      <3> DEFINE q == vpu_queue[c]
                 s == current_render_target[c]
      <3>1. /\ decode_picture_active[c] /\ ~decode_failed[c] /\ ~decode_picture_active'[c]
            /\ vpu_queue'[c] = Append(q, s)
            /\ submitted'[c] = submitted[c] /\ HasInstance(c)
        BY <1>7, <2>1 DEF EndPicture, PictureOpen
      <3>2. q \in Seq(Surfaces) /\ s \in Surfaces /\ InHand(c) \in Seq(Surfaces)
        BY <3>1, InHandIs DEF InHandFacts, PictureShape
      <3>3. submitted[c] = InHand(c) \o q \o <<s>>
        BY <3>1 DEF FifoIsPipeline, Pipeline
      <3>4. InHand(c) \o q \o <<s>> = InHand(c) \o Append(q, s) \o << >>
        <4> HIDE DEF q, s
        <4> QED
          BY <3>2, PipelineSubmits
      <3> QED
        BY <1>1, <2>1, <3>1, <3>3, <3>4 DEF Pipeline
    <2>2. CASE d # c
      BY <1>1, <1>7, <2>2, PipelineStays DEF EndPicture
    <2> QED
      BY <2>1, <2>2
  <1> QED
    BY <1>2, <1>3, <1>4, <1>5, <1>6, <1>7 DEF ContextCall

LEMMA PipelineStep ==
    ASSUME TypeInv, SyncInv, FifoInv, HandIsMine, FifoIsPipeline, TypeInv', SyncInv',
           [Next]_vars
    PROVE  FifoIsPipeline'
  <1>1. ASSUME UNCHANGED <<ctx_state, submitted, vpu_queue, decode_picture_active,
                           current_render_target>>,
               \A c \in Contexts : InHand(c)' = InHand(c),
               \A c \in Contexts : decode_failed[c] => decode_failed'[c]
        PROVE  FifoIsPipeline'
    BY <1>1, PipelineStays DEF FifoIsPipeline, HasInstance
  <1>2. ASSUME NEW t \in Threads, NEW s \in Surfaces,
               \/ \E timed \in BOOLEAN : CallSyncSurface(t, s, timed)
               \/ \E c \in Contexts : CallBeginPicture(t, c, s)
        PROVE  FifoIsPipeline'
    <2>1. ASSUME NEW c \in Contexts PROVE InHand(c)' = InHand(c)
      <3>1. /\ pc[t] = "idle" /\ pc'[t] \in {"enter", "begin"} /\ UNCHANGED hand
            /\ \A u \in Threads \ {t} : pc'[u] = pc[u] /\ call'[u] = call[u]
        BY <1>2 DEF CallSyncSurface, CallBeginPicture, TypeInv, TypeOK, ThrTypes
      <3>2. \A u \in Threads : Holding(u, c)' <=> Holding(u, c)
        BY <3>1 DEF Holding, Syncing
      <3> QED
        BY <3>1, <3>2, HandStays
    <2> QED
      BY <1>1, <1>2, <2>1, CallKeepsAll DEF ctxVars, vpuVars
  <1>3. ASSUME NEW s \in Surfaces, SurfaceCall(s) PROVE FifoIsPipeline'
    BY <1>1, <1>3, SurfaceCallKeeps, IdleHands DEF thrVars
  <1>4. ASSUME NEW X \in SUBSET Surfaces, DestroySurfaces(X) PROVE FifoIsPipeline'
    BY <1>1, <1>4, IdleHands DEF DestroySurfaces, ctxVars, thrVars
  <1>5. CASE UNCHANGED vars
    BY <1>1, <1>5, IdleHands DEF vars, ctxVars, vpuVars, thrVars
  <1> QED
    BY <1>2, <1>3, <1>4, <1>5, PipelineThread, PipelineContext DEF Next

LEMMA FramesStep ==
    ASSUME TypeInv, SyncInv, FifoInv, PoisonedIsQuiet, HandIsMine, FifoIsPipeline,
           FramesAreOwn, [Next]_vars
    PROVE  FramesAreOwn'
  <1> USE DEF FramesAreOwn, TypeInv, TypeOK, SurfTypes
  <1>1. ASSUME NEW t \in Threads, SyncKeepsFrame(t) PROVE FramesAreOwn'
    <2> DEFINE c == call[t].cid
               s == call[t].target
               x == hand[t].out.pic
    <2>1. AtResume(t) /\ hand[t].reply = "frame" /\ pc[t] = "resume"
      BY <1>1 DEF SyncKeepsFrame, AtResume
    <2>2. /\ StillMine(t) /\ c \in Contexts /\ ~decode_picture_active[c]
          /\ s = Head(submitted[c]) /\ s \in Waiting(c) /\ allocated[s]
      BY <2>1, ResumeFacts
    <2>3. ctx_state[c] = "running" /\ sync_active[c] /\ ~decode_failed[c]
      BY <2>2 DEF StillMine, PoisonedIsQuiet
    <2>4. InHand(c) = <<x>> /\ x \in Surfaces
      BY <2>1, <2>2, InHandIs DEF InHandFacts, Holding, Syncing
    <2>5. submitted[c] = <<x>> \o vpu_queue[c] \o << >>
      BY <2>2, <2>3, <2>4 DEF FifoIsPipeline, HasInstance, Pipeline
    <2>6. Head(submitted[c]) = x
      <3> HIDE DEF x
      <3>1. vpu_queue[c] \in Seq(Surfaces)
        BY <2>2 DEF VpuTypes
      <3> QED
        BY <2>4, <2>5, <3>1, PipelineSettles
    <2>7. frame' = [frame EXCEPT ![s] = hand[t].out] /\ hand[t].out.pic = s
      BY <1>1, <2>2, <2>6 DEF SyncKeepsFrame
    <2>8. s \in Surfaces
      BY <2>2 DEF Waiting
    <2> QED
      BY <2>7, <2>8
  <1>2. ASSUME \A s \in Surfaces : frame'[s] \in {frame[s], NoOutput}
        PROVE  FramesAreOwn'
    BY <1>2
  <1>3. ASSUME NEW t \in Threads, ThreadStep(t), ~SyncKeepsFrame(t) PROVE FramesAreOwn'
    <2>1. CASE BeginAccepts(t)
      BY <1>2, <2>1 DEF BeginAccepts
    <2>2. CASE SyncUnlocks(t)
      BY <1>2, <2>2 DEF SyncUnlocks
    <2>3. CASE ~(BeginAccepts(t) \/ SyncUnlocks(t))
      <3>1. UNCHANGED frame
        BY <1>3, <2>3
        DEF ThreadStep, BeginPicture, BeginSleeps, BeginFails, BeginSyncs, BeginRefused,
            SyncChecks, SyncEnter, SyncGivesUp, SyncSleeps, SyncRetriesOutput,
            SyncStarts, SyncTooLate, SleepTimesOut, SyncLoops, SyncDone, SyncBreaks,
            VpuAnswers, VpuSilent, VpuHollow, VpuOutputs, SyncResumes, SyncLost,
            SyncRepeats, SyncDropsHollow, SyncDropsBad, surfVars
      <3> QED
        BY <3>1
    <2> QED
      BY <2>1, <2>2, <2>3
  <1>4. ASSUME NEW s \in Surfaces, SurfaceCall(s) PROVE FramesAreOwn'
    <2>1. \A x \in Surfaces : frame'[x] \in {frame[x], NoOutput}
      BY <1>4
      DEF SurfaceCall, CreateSurface, LockSurface, UnlockSurface, EncoderTakes, PutImage
    <2> QED
      BY <1>2, <2>1
  <1>5. ASSUME NEW c \in Contexts, ContextCall(c) PROVE FramesAreOwn'
    <2>1. CASE DestroyContext(c)
      BY <1>2, <2>1 DEF DestroyContext, Detach
    <2>2. CASE DestroyContextFails(c)
      BY <1>2, <2>2 DEF DestroyContextFails
    <2>3. CASE ~(DestroyContext(c) \/ DestroyContextFails(c))
      <3>1. UNCHANGED frame
        BY <1>5, <2>3
        DEF ContextCall, CreateContext, RenderPicture, RenderPictureAborts, EndPicture,
            EndPictureAborts, surfVars
      <3> QED
        BY <3>1
    <2> QED
      BY <2>1, <2>2, <2>3
  <1>6. ASSUME NEW X \in SUBSET Surfaces, DestroySurfaces(X) PROVE FramesAreOwn'
    BY <1>2, <1>6 DEF DestroySurfaces
  <1>7. CASE UNCHANGED vars
    BY <1>7 DEF vars, surfVars
  <1>8. ASSUME NEW t \in Threads, NEW s \in Surfaces,
               \/ \E timed \in BOOLEAN : CallSyncSurface(t, s, timed)
               \/ \E c \in Contexts : CallBeginPicture(t, c, s)
        PROVE  FramesAreOwn'
    BY <1>8, CallKeepsAll DEF surfVars
  <1> QED
    BY <1>1, <1>3, <1>4, <1>5, <1>6, <1>7, <1>8 DEF Next

-----------------------------------------------------------------------------
(* Where a buffer is.                                                      *)

(* The VPU takes back what a surface, a thread or the decoder itself gives *)
(* up, and nothing else changes hands.                                     *)
LEMMA Returned ==
    ASSUME NEW b, NEW c, OneHolder(b, c),
           HeldBy(dec_out_buf'[c], b, c) => HeldBy(dec_out_buf[c], b, c),
           \A t \in Threads : HeldBy(hand'[t].out, b, c) => HeldBy(hand[t].out, b, c),
           \A s \in Surfaces : HeldBy(frame'[s], b, c) => HeldBy(frame[s], b, c),
           b \in vpu_bufs'[c] <=>
              \/ b \in vpu_bufs[c]
              \/ HeldBy(dec_out_buf[c], b, c) /\ ~HeldBy(dec_out_buf'[c], b, c)
              \/ \E t \in Threads : HeldBy(hand[t].out, b, c) /\ ~HeldBy(hand'[t].out, b, c)
              \/ \E s \in Surfaces : HeldBy(frame[s], b, c) /\ ~HeldBy(frame'[s], b, c)
    PROVE  OneHolder(b, c)'
  <1> DEFINE vpu  == b \in vpu_bufs[c]
             vpu1 == b \in vpu_bufs'[c]
             kept == HeldBy(dec_out_buf[c], b, c)
             kept1 == HeldBy(dec_out_buf'[c], b, c)
             inHand(t)  == HeldBy(hand[t].out, b, c)
             inHand1(t) == HeldBy(hand'[t].out, b, c)
             shownBy(s)  == HeldBy(frame[s], b, c)
             shownBy1(s) == HeldBy(frame'[s], b, c)
  <1>1. /\ vpu \/ kept \/ (\E t \in Threads : inHand(t)) \/ (\E s \in Surfaces : shownBy(s))
        /\ vpu => ~kept
        /\ vpu \/ kept => \A t \in Threads : ~inHand(t)
        /\ vpu \/ kept => \A s \in Surfaces : ~shownBy(s)
        /\ \A t \in Threads, s \in Surfaces : ~(inHand(t) /\ shownBy(s))
        /\ \A t, u \in Threads : inHand(t) /\ inHand(u) => t = u
        /\ \A s, x \in Surfaces : shownBy(s) /\ shownBy(x) => s = x
    BY DEF OneHolder
  <1>2. /\ kept1 => kept
        /\ \A t \in Threads : inHand1(t) => inHand(t)
        /\ \A s \in Surfaces : shownBy1(s) => shownBy(s)
        /\ vpu1 <=> \/ vpu \/ (kept /\ ~kept1)
                    \/ \E t \in Threads : inHand(t) /\ ~inHand1(t)
                    \/ \E s \in Surfaces : shownBy(s) /\ ~shownBy1(s)
    BY DEF HeldBy
  <1> HIDE DEF vpu, vpu1, kept, kept1, inHand, inHand1, shownBy, shownBy1
  <1>3. /\ vpu1 \/ kept1 \/ (\E t \in Threads : inHand1(t))
              \/ (\E s \in Surfaces : shownBy1(s))
        /\ vpu1 => ~kept1
        /\ vpu1 \/ kept1 => \A t \in Threads : ~inHand1(t)
        /\ vpu1 \/ kept1 => \A s \in Surfaces : ~shownBy1(s)
        /\ \A t \in Threads, s \in Surfaces : ~(inHand1(t) /\ shownBy1(s))
        /\ \A t, u \in Threads : inHand1(t) /\ inHand1(u) => t = u
        /\ \A s, x \in Surfaces : shownBy1(s) /\ shownBy1(x) => s = x
    BY <1>1, <1>2
  <1> QED
    BY <1>3 DEF OneHolder, HeldBy, vpu1, kept1, inHand1, shownBy1

(* Only the VPU's answers put an output in a hand, and only the steps that *)
(* drop or keep it take it from there.                                     *)
LEMMA EmptyHands ==
    ASSUME TypeInv, SyncInv, FifoInv, HandIsMine, NEW t \in Threads, ThreadStep(t),
           ~VpuHollow(t), ~VpuOutputs(t),
           ~SyncDropsHollow(t), ~SyncDropsBad(t), ~SyncKeepsFrame(t)
    PROVE  \A u \in Threads : hand'[u].out = hand[u].out
  <1>1. \A u \in Threads \ {t} : hand'[u] = hand[u]
    BY HandMoves
  <1>2. hand'[t].out = NoOutput
    <2>1. CASE VpuSilent(t)
      BY <2>1 DEF VpuSilent, TypeInv, TypeOK, ThrTypes
    <2>2. CASE ~VpuSilent(t)
      BY <2>2, HandMoves DEF VpuAnswers, NoHand
    <2> QED
      BY <2>1, <2>2
  <1>3. hand[t].out = NoOutput
    <2>1. CASE pc[t] # "resume"
      BY <2>1 DEF HandIsMine, NoHand
    <2>2. CASE pc[t] = "resume"
      <3>1. SyncResumes(t)
        BY <2>2 DEF ThreadStep, BeginPicture, BeginSleeps, BeginFails, BeginSyncs,
           BeginRefused, BeginAccepts, AtBegin, SyncChecks, SyncEnter, SyncGivesUp,
           SyncSleeps, SyncRetriesOutput, SyncStarts, SyncTooLate, SleepTimesOut,
           OwnerLive, AtCheck, SyncLoops, SyncDone, SyncBreaks, SyncUnlocks, AtLoop,
           VpuAnswers, VpuSilent, VpuHollow, VpuOutputs
      <3>2. CASE SyncLost(t)
        BY <3>2, ResumeFacts DEF SyncLost, HandIsMine
      <3>3. CASE SyncRepeats(t)
        BY <3>3 DEF SyncRepeats, HandIsMine
      <3> QED
        BY <3>1, <3>2, <3>3 DEF SyncResumes
    <2> QED
      BY <2>1, <2>2
  <1> QED
    BY <1>1, <1>2, <1>3

(* A surface gives its frame back to the decoder that made it.             *)
LEMMA FrameReturned ==
    ASSUME TypeInv, NEW x \in Surfaces, NEW b \in OutBufs, NEW c \in Contexts,
           OneHolder(b, c),
           frame' = [frame EXCEPT ![x] = NoOutput],
           IF HasFrame(x) THEN GiveBack(Owner(x), frame[x]) ELSE UNCHANGED vpu_bufs,
           UNCHANGED dec_out_buf,
           \A u \in Threads : hand'[u].out = hand[u].out
    PROVE  OneHolder(b, c)'
  <1> USE DEF TypeInv, TypeOK, SurfTypes, VpuTypes
  <1>1. \A s \in Surfaces : HeldBy(frame'[s], b, c) <=> s # x /\ HeldBy(frame[s], b, c)
    BY DEF HeldBy
  <1>2. b \in vpu_bufs'[c] <=> b \in vpu_bufs[c] \/ HeldBy(frame[x], b, c)
    BY ConstantsAssumption DEF HeldBy, HasFrame, GiveBack, Owner, Outputs
  <1> QED
    BY <1>1, <1>2, Returned

LEMMA BuffersThread ==
    ASSUME TypeInv, SyncInv, FifoInv, HandIsMine, KeptIsOwn, EachHeldOnce,
           NEW t \in Threads, ThreadStep(t), NEW c \in Contexts, NEW b \in OutBufs,
           HasInstance(c)'
    PROVE  OneHolder(b, c)'
  <1> USE DEF TypeInv, TypeOK, CtxTypes, SurfTypes, VpuTypes, ThrTypes
  <1>1. OneHolder(b, c)
    BY ThreadKeepsContexts DEF HasInstance, EachHeldOnce
  <1>2. \A u \in Threads \ {t} : hand'[u] = hand[u]
    BY HandMoves
  <1>3. CASE VpuHollow(t) \/ VpuOutputs(t)
    <2> DEFINE d == call[t].cid
    <2>1. PICK o \in Outputs : /\ o.ctx = d /\ d \in Contexts /\ o.buf \in vpu_bufs[d]
                               /\ hand'[t].out = o
                               /\ vpu_bufs' = [vpu_bufs EXCEPT ![d] = @ \ {o.buf}]
      BY <1>3, ThreadFacts DEF VpuHollow, VpuOutputs, LocalsSet, Outputs
    <2>2. hand[t].out = NoOutput /\ UNCHANGED <<dec_out_buf, frame>>
      BY <1>3 DEF VpuHollow, VpuOutputs, HandIsMine, NoHand, ctxVars, surfVars
    <2>3. o # NoOutput
      BY ConstantsAssumption DEF Outputs
    <2>4. CASE o.buf = b /\ d = c
      <3>1. b \in vpu_bufs[c] /\ b \notin vpu_bufs'[c]
        BY <2>1, <2>4
      <3>2. HeldBy(hand'[t].out, b, c)
        BY <2>1, <2>3, <2>4 DEF HeldBy
      <3>3. \A u \in Threads \ {t} : ~HeldBy(hand'[u].out, b, c)
        BY <1>1, <1>2, <3>1 DEF OneHolder
      <3> QED
        BY <1>1, <2>2, <3>1, <3>2, <3>3 DEF OneHolder
    <2>5. CASE ~(o.buf = b /\ d = c)
      <3>1. \A u \in Threads : HeldBy(hand'[u].out, b, c) <=> HeldBy(hand[u].out, b, c)
        BY <1>2, <2>1, <2>2, <2>5 DEF HeldBy
      <3>2. b \in vpu_bufs'[c] <=> b \in vpu_bufs[c]
        BY <2>1, <2>5
      <3> QED
        BY <1>1, <2>2, <3>1, <3>2, Returned
    <2> QED
      BY <2>4, <2>5
  <1>4. ASSUME RecycleOutput(t, call[t].cid, hand[t].out),
               AtResume(t), hand[t].reply \in {"hollow", "bad"}, UNCHANGED frame
        PROVE  OneHolder(b, c)'
    <2> DEFINE d == call[t].cid
               o == hand[t].out
    <2>1. d \in Contexts /\ o \in Outputs /\ o # NoOutput /\ o.ctx = d
      <3>1. d \in Contexts
        BY <1>4, ResumeFacts
      <3>2. o \in Outputs
        BY <1>4, ThreadFacts DEF LocalsSet
      <3>3. o.ctx = d
        BY <1>4 DEF HandIsMine
      <3> QED
        BY <3>1, <3>2, <3>3, ConstantsAssumption DEF Outputs
    <2>2. dec_out_buf[d] = NoOutput
      BY <1>4, SyncFacts DEF AtResume, AtVpu
    <2>3. hand'[t].out = NoOutput
      <3>1. ~VpuAnswers(t)
        BY <1>4 DEF AtResume, VpuAnswers, VpuSilent, VpuHollow, VpuOutputs
      <3> QED
        BY <3>1, HandMoves DEF NoHand
    <2>4. PICK q \in QueueResults(call[t].timed) : RecycleOutput(t, d, o)!(q)
      BY <1>4 DEF RecycleOutput
    <2>5. CASE q = "ok"
      <3>1. UNCHANGED dec_out_buf /\ GiveBack(d, o)
        BY <2>4, <2>5
      <3>2. b \in vpu_bufs'[c] <=> b \in vpu_bufs[c] \/ HeldBy(hand[t].out, b, c)
        BY <2>1, <3>1 DEF GiveBack, HeldBy
      <3>3. \A u \in Threads :
               HeldBy(hand'[u].out, b, c) <=> u # t /\ HeldBy(hand[u].out, b, c)
        BY <1>2, <2>3 DEF HeldBy
      <3> QED
        BY <1>1, <1>4, <3>1, <3>2, <3>3, Returned
    <2>6. CASE q # "ok"
      <3>1. UNCHANGED vpu_bufs /\ dec_out_buf' = [dec_out_buf EXCEPT ![d] = o]
        BY <2>2, <2>4, <2>6
      <3>2. HeldBy(dec_out_buf'[c], b, c) <=>
               HeldBy(dec_out_buf[c], b, c) \/ HeldBy(hand[t].out, b, c)
        BY <2>1, <2>2, <3>1 DEF HeldBy
      <3>3. \A u \in Threads :
               HeldBy(hand'[u].out, b, c) <=> u # t /\ HeldBy(hand[u].out, b, c)
        BY <1>2, <2>3 DEF HeldBy
      <3>4. UNCHANGED vpu_bufs /\ UNCHANGED frame
        BY <1>4, <3>1
      <3> HIDE DEF d, o
      <3> QED
        BY <1>1, <3>2, <3>3, <3>4 DEF OneHolder
    <2> QED
      BY <2>5, <2>6
  <1>5. CASE SyncDropsHollow(t) \/ SyncDropsBad(t)
    BY <1>4, <1>5, ThreadFacts DEF SyncDropsHollow, SyncDropsBad, surfVars, LocalsSet, AtResume
  <1>6. CASE SyncKeepsFrame(t)
    <2> DEFINE d == call[t].cid
               s == call[t].target
               o == hand[t].out
    <2>1. AtResume(t) /\ hand[t].reply = "frame"
      BY <1>6 DEF SyncKeepsFrame
    <2>2. s \in Waiting(d) /\ allocated[s]
      BY <2>1, ResumeFacts
    <2>3. s \in Surfaces /\ frame[s] = NoOutput
      BY <2>2 DEF Waiting, FifoInv, PendingIsClean
    <2>4. /\ frame' = [frame EXCEPT ![s] = o] /\ UNCHANGED <<dec_out_buf, vpu_bufs>>
          /\ hand'[t].out = NoOutput
      BY <1>6, <2>2 DEF SyncKeepsFrame, NoHand, vpuVars
    <2>5. HeldBy(frame'[s], b, c) <=> HeldBy(hand[t].out, b, c)
      BY <2>3, <2>4 DEF HeldBy
    <2>6. \A x \in Surfaces \ {s} : frame'[x] = frame[x]
      BY <2>4
    <2>7. ~HeldBy(frame[s], b, c) /\ ~HeldBy(hand'[t].out, b, c)
      BY <2>3, <2>4 DEF HeldBy
    <2> HIDE DEF d, s, o
    <2> QED
      BY <1>1, <1>2, <2>3, <2>4, <2>5, <2>6, <2>7 DEF OneHolder
  <1>7. CASE /\ ~VpuHollow(t) /\ ~VpuOutputs(t)
             /\ ~SyncDropsHollow(t) /\ ~SyncDropsBad(t) /\ ~SyncKeepsFrame(t)
    <2>1. \A u \in Threads : hand'[u].out = hand[u].out
      BY <1>7, EmptyHands
    <2>2. CASE BeginAccepts(t)
      <3>1. call[t].surf \in Surfaces
        BY <2>2, ThreadFacts DEF BeginAccepts, AtBegin, LocalsSet
      <3> QED
        BY <1>1, <2>1, <2>2, <3>1, FrameReturned DEF BeginAccepts
    <2>3. CASE SyncUnlocks(t)
      <3>1. NextTarget(t) \in Surfaces
        BY <2>3, ThreadFacts DEF SyncUnlocks, AtLoop, LocalsSet, NextTarget
      <3> QED
        BY <1>1, <2>1, <2>3, <3>1, FrameReturned DEF SyncUnlocks, ctxVars
    <2>4. CASE SyncRetriesOutput(t)
      <3> DEFINE d == context_id[call[t].surf]
      <3>1. /\ d \in Contexts /\ dec_out_buf[d] # NoOutput /\ UNCHANGED frame
            /\ \/ UNCHANGED <<vpu_bufs, dec_out_buf>>
               \/ /\ GiveBack(d, dec_out_buf[d])
                  /\ dec_out_buf' = [dec_out_buf EXCEPT ![d] = NoOutput]
        BY <2>4 DEF SyncRetriesOutput, OwnerLive, IsRunning, surfVars
      <3>2. CASE UNCHANGED <<vpu_bufs, dec_out_buf>>
        BY <1>1, <2>1, <3>1, <3>2, Returned
      <3>3. CASE /\ GiveBack(d, dec_out_buf[d])
                 /\ dec_out_buf' = [dec_out_buf EXCEPT ![d] = NoOutput]
        <4>1. /\ HeldBy(dec_out_buf'[c], b, c) <=> d # c /\ HeldBy(dec_out_buf[c], b, c)
              /\ b \in vpu_bufs'[c] <=>
                    b \in vpu_bufs[c] \/ (d = c /\ HeldBy(dec_out_buf[c], b, c))
          <5>1. CASE d = c
            <6>1. dec_out_buf'[c] = NoOutput /\ dec_out_buf[c].ctx = c
              BY <3>1, <3>3, <5>1 DEF KeptIsOwn
            <6>2. b \in vpu_bufs'[c] <=> b \in vpu_bufs[c] \/ b = dec_out_buf[c].buf
              BY <3>1, <3>3, <5>1 DEF GiveBack
            <6>3. HeldBy(dec_out_buf[c], b, c) <=> b = dec_out_buf[c].buf
              BY <3>1, <5>1, <6>1 DEF HeldBy
            <6>4. ~HeldBy(dec_out_buf'[c], b, c)
              BY <6>1 DEF HeldBy
            <6> QED
              BY <5>1, <6>2, <6>3, <6>4
          <5>2. CASE d # c
            <6>1. dec_out_buf'[c] = dec_out_buf[c] /\ vpu_bufs'[c] = vpu_bufs[c]
              BY <3>1, <3>3, <5>2 DEF GiveBack
            <6>2. HeldBy(dec_out_buf'[c], b, c) <=> HeldBy(dec_out_buf[c], b, c)
              BY <6>1
            <6> HIDE DEF d
            <6> QED
              BY <5>2, <6>1, <6>2
          <5> QED
            BY <5>1, <5>2
        <4>2. \A s \in Surfaces : HeldBy(frame'[s], b, c) <=> HeldBy(frame[s], b, c)
          BY <3>1
        <4>3. \A u \in Threads : HeldBy(hand'[u].out, b, c) <=> HeldBy(hand[u].out, b, c)
          BY <2>1
        <4> HIDE DEF d
        <4> QED
          BY <1>1, <4>1, <4>2, <4>3, Returned
      <3> QED
        BY <3>1, <3>2, <3>3
    <2>5. CASE ~BeginAccepts(t) /\ ~SyncUnlocks(t) /\ ~SyncRetriesOutput(t)
      <3>1. UNCHANGED <<frame, dec_out_buf, vpu_bufs>>
        BY <1>7, <2>5
        DEF ThreadStep, BeginPicture, BeginSleeps, BeginFails, BeginSyncs, BeginRefused,
            SyncChecks, SyncEnter, SyncGivesUp, SyncSleeps, SyncStarts, SyncTooLate,
            SleepTimesOut, SyncLoops, SyncDone, SyncBreaks, VpuAnswers, VpuSilent,
            SyncResumes, SyncLost, SyncRepeats, ctxVars, surfVars, vpuVars
      <3>2. /\ HeldBy(dec_out_buf'[c], b, c) <=> HeldBy(dec_out_buf[c], b, c)
            /\ b \in vpu_bufs'[c] <=> b \in vpu_bufs[c]
        BY <3>1
      <3>3. \A s \in Surfaces : HeldBy(frame'[s], b, c) <=> HeldBy(frame[s], b, c)
        BY <3>1
      <3>4. \A u \in Threads : HeldBy(hand'[u].out, b, c) <=> HeldBy(hand[u].out, b, c)
        BY <2>1
      <3> QED
        BY <1>1, <3>2, <3>3, <3>4, Returned
    <2> QED
      BY <2>2, <2>3, <2>4, <2>5
  <1> QED
    BY <1>3, <1>5, <1>6, <1>7

LEMMA BuffersStay ==
    ASSUME UNCHANGED <<vpu_bufs, dec_out_buf, hand, frame>>, NEW b, NEW c, OneHolder(b, c)
    PROVE  OneHolder(b, c)'
  BY DEF OneHolder

(* What a thread holds belongs to a decoder being synchronised.            *)
LEMMA HeldHand ==
    ASSUME TypeInv, SyncInv, HandIsMine, NEW t \in Threads, NEW b, NEW c,
           HeldBy(hand[t].out, b, c)
    PROVE  sync_active[c] /\ ctx_state[c] = "running"
  <1>1. hand[t].out # NoOutput /\ hand[t].out.ctx = c
    BY DEF HeldBy
  <1>2. pc[t] = "resume" /\ call[t].cid = c
    BY <1>1 DEF HandIsMine, NoHand
  <1> QED
    BY <1>2, SyncFacts DEF AtVpu

(* vaDestroyContext that stops half way returns some frames and perhaps    *)
(* the kept output.                                                        *)
LEMMA BuffersDestroyFails ==
    ASSUME TypeInv, KeptIsOwn, EachHeldOnce, NEW d \in Contexts, DestroyContextFails(d),
           NEW c \in Contexts, NEW b \in OutBufs, HasInstance(c)'
    PROVE  OneHolder(b, c)'
  <1> USE DEF TypeInv, TypeOK, CtxTypes, SurfTypes, VpuTypes
  <1>1. PICK outOk \in BOOLEAN, inOk \in BOOLEAN, kept \in SUBSET FramesOf(d) :
               DestroyContextFails(d)!4!(outOk, inOk, kept)
    BY DEF DestroyContextFails
  <1> DEFINE back == FramesOf(d) \ kept
  <1>2. UNCHANGED hand /\ ctx_state[d] = "running"
    BY DEF DestroyContextFails, IsRunning, thrVars
  <1>3. OneHolder(b, c)
    BY <1>1, <1>2 DEF HasInstance, EachHeldOnce
  <1>4. /\ dec_out_buf' = IF outOk THEN [dec_out_buf EXCEPT ![d] = NoOutput] ELSE dec_out_buf
        /\ frame' = [s \in Surfaces |-> IF s \in back THEN NoOutput ELSE frame[s]]
        /\ vpu_bufs' = [vpu_bufs EXCEPT ![d] = @ \cup {frame[s].buf : s \in back}
                                \cup IF outOk /\ dec_out_buf[d] # NoOutput
                                     THEN {dec_out_buf[d].buf} ELSE {}]
    BY <1>1
  <1>5. \A s \in back : s \in Surfaces /\ frame[s] # NoOutput /\ frame[s].ctx = d
    BY DEF FramesOf, HasFrame, Owner
  <1> HIDE DEF back
  <1>6. \A s \in Surfaces : HeldBy(frame'[s], b, c) <=> s \notin back /\ HeldBy(frame[s], b, c)
    BY <1>4 DEF HeldBy
  <1>7. CASE c # d
    <2>1. /\ dec_out_buf'[c] = dec_out_buf[c] /\ vpu_bufs'[c] = vpu_bufs[c]
      BY <1>4, <1>7
    <2>2. \A s \in Surfaces : HeldBy(frame'[s], b, c) <=> HeldBy(frame[s], b, c)
      BY <1>5, <1>6, <1>7 DEF HeldBy
    <2>3. /\ HeldBy(dec_out_buf'[c], b, c) <=> HeldBy(dec_out_buf[c], b, c)
          /\ b \in vpu_bufs'[c] <=> b \in vpu_bufs[c]
      BY <2>1
    <2>4. \A u \in Threads : HeldBy(hand'[u].out, b, c) <=> HeldBy(hand[u].out, b, c)
      BY <1>2
    <2> QED
      BY <1>3, <2>2, <2>3, <2>4, Returned
  <1>8. CASE c = d
    <2>1. HeldBy(dec_out_buf'[c], b, c) <=> ~outOk /\ HeldBy(dec_out_buf[c], b, c)
      BY <1>4, <1>8 DEF HeldBy
    <2>2. HeldBy(dec_out_buf[c], b, c) <=>
             dec_out_buf[c] # NoOutput /\ b = dec_out_buf[c].buf
      BY DEF HeldBy, KeptIsOwn
    <2>3. \A s \in back : HeldBy(frame[s], b, c) <=> b = frame[s].buf
      BY <1>5, <1>8 DEF HeldBy
    <2>4. b \in vpu_bufs'[c] <=>
             \/ b \in vpu_bufs[c]
             \/ \E s \in back : b = frame[s].buf
             \/ outOk /\ dec_out_buf[c] # NoOutput /\ b = dec_out_buf[c].buf
      BY <1>4, <1>8
    <2>5. b \in vpu_bufs'[c] <=>
             \/ b \in vpu_bufs[c]
             \/ HeldBy(dec_out_buf[c], b, c) /\ ~HeldBy(dec_out_buf'[c], b, c)
             \/ \E s \in Surfaces : HeldBy(frame[s], b, c) /\ ~HeldBy(frame'[s], b, c)
      BY <1>5, <1>6, <2>1, <2>2, <2>3, <2>4
    <2>6. \A u \in Threads : HeldBy(hand'[u].out, b, c) <=> HeldBy(hand[u].out, b, c)
      BY <1>2
    <2> QED
      BY <1>3, <1>6, <2>1, <2>5, <2>6, Returned
  <1> QED
    BY <1>7, <1>8

LEMMA BuffersContext ==
    ASSUME TypeInv, SyncInv, HandIsMine, KeptIsOwn, FrameOwnerRuns, EachHeldOnce,
           NEW d \in Contexts, ContextCall(d), NEW c \in Contexts, NEW b \in OutBufs,
           HasInstance(c)'
    PROVE  OneHolder(b, c)'
  <1> USE DEF TypeInv, TypeOK, CtxTypes, SurfTypes, VpuTypes
  <1>1. ASSUME NEW T \in TargetSets, CreateContext(d, T) PROVE OneHolder(b, c)'
    <2>1. UNCHANGED <<hand, frame>> /\ ctx_state[d] = "free"
      BY <1>1 DEF CreateContext, thrVars
    <2>2. CASE c = d
      <3>1. \A t \in Threads : ~HeldBy(hand'[t].out, b, c)
        BY <2>1, <2>2, HeldHand
      <3>2. \A s \in Surfaces : ~HeldBy(frame'[s], b, c)
        BY <2>1, <2>2 DEF FrameOwnerRuns, HeldBy
      <3>3. b \in vpu_bufs'[c] /\ dec_out_buf'[c] = NoOutput
        BY <1>1, <2>2 DEF CreateContext
      <3>4. ~HeldBy(dec_out_buf'[c], b, c)
        BY <3>3 DEF HeldBy
      <3> QED
        BY <3>1, <3>2, <3>3, <3>4 DEF OneHolder
    <2>3. CASE c # d
      <3>1. /\ vpu_bufs'[c] = vpu_bufs[c] /\ dec_out_buf'[c] = dec_out_buf[c]
            /\ OneHolder(b, c)
        BY <1>1, <2>3 DEF CreateContext, HasInstance, EachHeldOnce
      <3> QED
        BY <2>1, <3>1 DEF OneHolder
    <2> QED
      BY <2>2, <2>3
  <1>2. CASE DestroyContext(d)
    <2>1. /\ c # d /\ UNCHANGED hand
          /\ vpu_bufs'[c] = vpu_bufs[c] /\ dec_out_buf'[c] = dec_out_buf[c]
          /\ OneHolder(b, c)
      BY <1>2 DEF DestroyContext, HasInstance, EachHeldOnce, thrVars
    <2>2. \A s \in Surfaces : HeldBy(frame'[s], b, c) <=> HeldBy(frame[s], b, c)
      BY <1>2, <2>1 DEF DestroyContext, Detach, FramesOf, HasFrame, Owner, HeldBy
    <2> QED
      BY <2>1, <2>2 DEF OneHolder
  <1>3. CASE DestroyContextFails(d)
    BY <1>3, BuffersDestroyFails
  <1>4. CASE RenderPicture(d) \/ RenderPictureAborts(d) \/ EndPicture(d) \/ EndPictureAborts(d)
    <2>1. UNCHANGED <<vpu_bufs, dec_out_buf, hand, frame>>
      BY <1>4 DEF RenderPicture, RenderPictureAborts, EndPicture, EndPictureAborts,
         vpuVars, surfVars, thrVars
    <2>2. HasInstance(c)
      BY <1>4 DEF RenderPicture, RenderPictureAborts, EndPicture, EndPictureAborts,
         HasInstance
    <2> QED
      BY <2>1, <2>2, BuffersStay DEF EachHeldOnce
  <1> QED
    BY <1>1, <1>2, <1>3, <1>4 DEF ContextCall

LEMMA BuffersStep ==
    ASSUME TypeInv, SyncInv, FifoInv, HandIsMine, KeptIsOwn, FrameOwnerRuns,
           EachHeldOnce, [Next]_vars
    PROVE  EachHeldOnce'
  <1> SUFFICES ASSUME NEW c \in Contexts, NEW b \in OutBufs, HasInstance(c)'
               PROVE  OneHolder(b, c)'
    BY DEF EachHeldOnce
  <1> USE DEF TypeInv, TypeOK, CtxTypes, SurfTypes, VpuTypes
  <1>1. ASSUME UNCHANGED <<ctx_state, vpu_bufs, dec_out_buf, hand, frame>>
        PROVE  OneHolder(b, c)'
    BY <1>1, BuffersStay DEF EachHeldOnce, HasInstance
  <1>2. ASSUME NEW s \in Surfaces, SurfaceCall(s) PROVE OneHolder(b, c)'
    <2>0. UNCHANGED <<ctx_state, dec_out_buf, hand>> /\ OneHolder(b, c)
      BY <1>2, SurfaceCallKeeps DEF thrVars, EachHeldOnce, HasInstance
    <2>1. CASE CreateSurface(s)
      <3>1. frame' = frame
        BY <2>1 DEF CreateSurface, FifoInv, UnallocatedEmpty
      <3> QED
        BY <1>1, <2>0, <2>1, <3>1 DEF CreateSurface, vpuVars
    <2>2. CASE PutImage(s)
      <3>1. CASE UNCHANGED <<frame, vpu_bufs>>
        BY <1>1, <2>0, <3>1
      <3>2. CASE GiveBack(Owner(s), frame[s]) /\ frame' = [frame EXCEPT ![s] = NoOutput]
        BY <2>0, <2>2, <3>2, FrameReturned DEF PutImage
      <3> QED
        BY <2>2, <3>1, <3>2 DEF PutImage
    <2>3. CASE LockSurface(s) \/ UnlockSurface(s) \/ EncoderTakes(s)
      BY <1>1, <2>0, <2>3 DEF LockSurface, UnlockSurface, EncoderTakes, vpuVars
    <2> QED
      BY <1>2, <2>1, <2>2, <2>3 DEF SurfaceCall
  <1>3. ASSUME NEW X \in SUBSET Surfaces, DestroySurfaces(X) PROVE OneHolder(b, c)'
    <2>1. \A s \in X : frame[s] = NoOutput
      BY <1>3 DEF DestroySurfaces, Destroyable, FrameOwnerRuns
    <2>2. PICK freed \in SUBSET {s \in X : ~decode_pending[s]} :
            \E stuck \in SUBSET {s \in X \ freed : HasFrame(s) /\ IsRunning(Owner(s))} :
               DestroySurfaces(X)!3!(freed)!(stuck)
      BY <1>3 DEF DestroySurfaces
    <2>3. PICK stuck \in SUBSET {s \in X \ freed : HasFrame(s) /\ IsRunning(Owner(s))} :
               DestroySurfaces(X)!3!(freed)!(stuck)
      BY <2>2
    <2> DEFINE emptied == {s \in X : HasFrame(s) /\ ~decode_pending[s]} \ stuck
    <2>4. emptied = {}
      BY <2>1 DEF HasFrame
    <2> HIDE DEF emptied
    <2>5. /\ frame' = [s \in Surfaces |-> IF s \in emptied THEN NoOutput ELSE frame[s]]
          /\ vpu_bufs' = [e \in Contexts |-> vpu_bufs[e] \cup
                             IF IsRunning(e)
                             THEN {frame[s].buf : s \in {x \in emptied : Owner(x) = e}}
                             ELSE {}]
      BY <2>3 DEF emptied
    <2>6. frame' = frame /\ vpu_bufs' = vpu_bufs
      BY <2>4, <2>5
    <2> QED
      BY <1>1, <1>3, <2>6 DEF DestroySurfaces, ctxVars, thrVars
  <1>4. CASE UNCHANGED vars
    BY <1>1, <1>4 DEF vars, ctxVars, surfVars, vpuVars, thrVars
  <1>5. ASSUME NEW t \in Threads, NEW s \in Surfaces,
               \/ \E timed \in BOOLEAN : CallSyncSurface(t, s, timed)
               \/ \E e \in Contexts : CallBeginPicture(t, e, s)
        PROVE  OneHolder(b, c)'
    BY <1>1, <1>5, CallKeepsAll DEF ctxVars, surfVars, vpuVars
  <1> QED
    BY <1>2, <1>3, <1>4, <1>5, BuffersThread, BuffersContext DEF Next

-----------------------------------------------------------------------------
(* The inductive invariant.                                                *)

LEMMA VpuInit == Init => VpuInv
  <1> SUFFICES ASSUME Init PROVE VpuInv
    OBVIOUS
  <1>1. NoLeftoverInput /\ DeferredIsFresh /\ PoisonedIsQuiet /\ KeptIsOwn /\ FrameOwnerRuns
    BY DEF Init, NoLeftoverInput, DeferredIsFresh, PoisonedIsQuiet, KeptIsOwn, FrameOwnerRuns
  <1>2. HandIsMine
    BY DEF Init, HandIsMine, NoHand
  <1>3. FifoIsPipeline /\ EachHeldOnce
    BY DEF Init, FifoIsPipeline, EachHeldOnce, HasInstance
  <1>4. FramesAreOwn
    BY DEF Init, FramesAreOwn
  <1> QED
    BY <1>1, <1>2, <1>3, <1>4 DEF VpuInv

LEMMA VpuStep == Inductive /\ PairingInv' /\ [Next]_vars => VpuInv'
  <1> SUFFICES ASSUME TypeInv, SyncInv, FifoInv, VpuInv, TypeInv', SyncInv', [Next]_vars
               PROVE  VpuInv'
    BY DEF Inductive, PairingInv
  <1>1. NoLeftoverInput' /\ DeferredIsFresh'
    BY InputStep DEF VpuInv, InputInv
  <1>2. PoisonedIsQuiet'
    BY PoisonStep DEF VpuInv
  <1>3. HandIsMine' /\ KeptIsOwn'
    BY HandStep, KeptStep DEF VpuInv
  <1>4. FrameOwnerRuns'
    BY OwnerStep DEF VpuInv
  <1>5. FifoIsPipeline' /\ FramesAreOwn'
    BY PipelineStep, FramesStep DEF VpuInv
  <1>6. EachHeldOnce'
    BY BuffersStep DEF VpuInv
  <1> QED
    BY <1>1, <1>2, <1>3, <1>4, <1>5, <1>6 DEF VpuInv

THEOREM InductiveHolds == Spec => []Inductive
  <1>1. Init /\ PairingInv => Inductive
    BY VpuInit DEF Inductive
  <1>2. Inductive /\ PairingInv' /\ [Next]_vars => Inductive'
    BY VpuStep DEF Inductive
  <1> QED
    BY PairingHolds, <1>1, <1>2, PTL DEF Spec

-----------------------------------------------------------------------------
(* What the application relies on.                                         *)

(* No input assembled for one picture is ever submitted with a later one:  *)
(* what hobot_recycle_decoder_input could not return stays in a decoder    *)
(* that takes no picture any more.                                         *)
THEOREM InputsAreOwn == Spec => []NoLeftoverInput
  BY InductiveHolds, PTL DEF Inductive, VpuInv

(* Wherever a frame is shown, its decoder runs and the surface is retained *)
(* by it, so a buffer never goes back to an instance that was stopped.     *)
THEOREM FramesHaveOwners == Spec => []FrameOwnerRuns
  BY InductiveHolds, PTL DEF Inductive, VpuInv

(* The pairing by position in the FIFO is right: in a healthy decoder the  *)
(* n-th output is the n-th surface submitted, through every abort, drop    *)
(* and timeout.                                                            *)
THEOREM PairingByPosition == Spec => []FifoMatchesVpu
  <1>1. Inductive => FifoMatchesVpu
    BY DEF Inductive, VpuInv, FifoIsPipeline, Pipeline, FifoMatchesVpu, IsRunning, HasInstance
  <1> QED
    BY InductiveHolds, <1>1, PTL

(* A surface shows the picture that was decoded for it, and no other.      *)
THEOREM FramesBelong == Spec => []FramesAreOwn
  BY InductiveHolds, PTL DEF Inductive, VpuInv

LEMMA OnePlace ==
    ASSUME NEW b \in OutBufs, NEW c \in Contexts, OneHolder(b, c), KeptIsOwn
    PROVE  Cardinality(Places(b, c)) = 1
  <1>1. \E p : Places(b, c) = {p}
    <2>1. CASE b \in vpu_bufs[c]
      <3>1. Places(b, c) = {<<"vpu", c>>}
        BY <2>1 DEF OneHolder, Places, HeldBy, KeptIsOwn
      <3> QED
        BY <3>1
    <2>2. CASE HeldBy(dec_out_buf[c], b, c)
      <3>1. Places(b, c) = {<<"kept", c>>}
        BY <2>2 DEF OneHolder, Places, HeldBy, KeptIsOwn
      <3> QED
        BY <3>1
    <2>3. ASSUME NEW t \in Threads, HeldBy(hand[t].out, b, c)
          PROVE  \E p : Places(b, c) = {p}
      <3>1. Places(b, c) = {<<"hand", t>>}
        BY <2>3 DEF OneHolder, Places, HeldBy, KeptIsOwn
      <3> QED
        BY <3>1
    <2>4. ASSUME NEW s \in Surfaces, HeldBy(frame[s], b, c)
          PROVE  \E p : Places(b, c) = {p}
      <3>1. Places(b, c) = {<<"surface", s>>}
        BY <2>4 DEF OneHolder, Places, HeldBy, KeptIsOwn
      <3> QED
        BY <3>1
    <2> QED
      BY <2>1, <2>2, <2>3, <2>4 DEF OneHolder
  <1> QED
    BY <1>1, FS_Singleton

(* Every output buffer of a running decoder is in one place: with the VPU, *)
(* in a thread's hand, kept by the driver, or shown by one surface.  The   *)
(* recycles, refusals and timeouts of hobot_recycle_decoder_output_until   *)
(* lose none and return none twice.                                        *)
THEOREM BuffersStayConserved == Spec => []BuffersConserved
  <1>1. Inductive => BuffersConserved
    BY OnePlace DEF Inductive, VpuInv, EachHeldOnce, HasInstance, BuffersConserved
  <1> QED
    BY InductiveHolds, <1>1, PTL

-----------------------------------------------------------------------------
(* The protocol implements PictureOrder.  First what a step of the         *)
(* abstract specification needs, surface by surface and context by context. *)

OrderOf(c) == IF ctx_state[c] = "free" THEN << >> ELSE submitted[c]

Open(s) == Shown(s) \in {"decoding", "failing"}

ShownIs ==
    \A s \in Surfaces :
        Shown(s) = IF decode_pending[s]
                   THEN IF decode_error[s] THEN "failing" ELSE "decoding"
                   ELSE IF decode_error[s] THEN "failed"
                   ELSE IF HasFrame(s) THEN "shown" ELSE "none"

LEMMA ShownByCases == TypeInv => ShownIs
  <1> SUFFICES ASSUME TypeInv, NEW s \in Surfaces
               PROVE  Shown(s) = IF decode_pending[s]
                        THEN IF decode_error[s] THEN "failing" ELSE "decoding"
                        ELSE IF decode_error[s] THEN "failed"
                        ELSE IF HasFrame(s) THEN "shown" ELSE "none"
    BY DEF ShownIs
  <1>1. decode_pending[s] \in BOOLEAN /\ decode_error[s] \in BOOLEAN
    BY DEF TypeInv, TypeOK, SurfTypes
  <1> QED
    BY <1>1 DEF Shown

LEMMA MapsStutter ==
    ASSUME \A d \in Contexts : OrderOf(d)' = OrderOf(d),
           \A x \in Surfaces : Shown(x)' = Shown(x)
    PROVE  UNCHANGED Promise!orderVars
  BY DEF Promise!orderVars, OrderOf

LEMMA MapsBegin ==
    ASSUME NEW c \in Contexts, NEW s \in Surfaces, ~Open(s),
           OrderOf(c)' = Append(OrderOf(c), s),
           \A d \in Contexts \ {c} : OrderOf(d)' = OrderOf(d),
           Shown(s)' = "decoding",
           \A x \in Surfaces \ {s} : Shown(x)' = Shown(x)
    PROVE  Promise!BeginNew(c, s)
  BY DEF Promise!BeginNew, Promise!InProgress, Open, OrderOf

LEMMA MapsResolve ==
    ASSUME NEW c \in Contexts, OrderOf(c) # << >>,
           NEW s \in Surfaces, s = Head(OrderOf(c)), Open(s),
           OrderOf(c)' = Tail(OrderOf(c)),
           \A d \in Contexts \ {c} : OrderOf(d)' = OrderOf(d),
           \/ Shown(s)' = "failed"
           \/ Shown(s)' = "shown" /\ Shown(s) = "decoding",
           \A x \in Surfaces \ {s} : Shown(x)' = Shown(x)
    PROVE  Promise!Resolve(c)
  BY DEF Promise!Resolve, Promise!InProgress, Open, OrderOf

LEMMA MapsAbandon ==
    ASSUME NEW c \in Contexts, NEW n \in Nat, n = Len(OrderOf(c)), n > 0,
           NEW s \in Surfaces, s = OrderOf(c)[n], Shown(s) = "decoding",
           OrderOf(c)' = SubSeq(OrderOf(c), 1, n - 1),
           \A d \in Contexts \ {c} : OrderOf(d)' = OrderOf(d),
           Shown(s)' = "failed",
           \A x \in Surfaces \ {s} : Shown(x)' = Shown(x)
    PROVE  Promise!Abandon(c)
  BY DEF Promise!Abandon, OrderOf

LEMMA MapsBreakDown ==
    ASSUME NEW c \in Contexts, \A d \in Contexts : OrderOf(d)' = OrderOf(d),
           NEW F, F = {OrderOf(c)[i] : i \in 1 .. Len(OrderOf(c))},
           \A x \in Surfaces : Shown(x)' = IF x \in F /\ Open(x) THEN "failing" ELSE Shown(x)
    PROVE  Promise!BreakDown(c)
  <1> DEFINE ord == [d \in Contexts |-> OrderOf(d)]
             res == [x \in Surfaces |-> Shown(x)]
  <1>1. ord' = ord
    OBVIOUS
  <1>2. F \in SUBSET {ord[c][i] : i \in 1 .. Len(ord[c])}
    OBVIOUS
  <1>3. res' = [x \in Surfaces |-> IF x \in F /\ res[x] \in {"decoding", "failing"}
                                  THEN "failing" ELSE res[x]]
    BY DEF Open
  <1>4. \E G \in SUBSET {ord[c][i] : i \in 1 .. Len(ord[c])} :
           /\ res' = [x \in Surfaces |-> IF x \in G /\ res[x] \in {"decoding", "failing"}
                                         THEN "failing" ELSE res[x]]
           /\ ord' = ord
    <2> HIDE DEF ord, res
    <2> QED
      BY <1>1, <1>2, <1>3
  <1> QED
    BY <1>4 DEF Promise!BreakDown, Promise!InProgress, OrderOf

LEMMA MapsClose ==
    ASSUME NEW c \in Contexts, OrderOf(c)' = << >>,
           \A d \in Contexts \ {c} : OrderOf(d)' = OrderOf(d),
           NEW F \in SUBSET Surfaces,
           \A x \in Surfaces : Shown(x)' =
              IF \E i \in 1 .. Len(OrderOf(c)) : OrderOf(c)[i] = x THEN "failed"
              ELSE IF x \in F /\ Shown(x) = "shown" THEN "none" ELSE Shown(x)
    PROVE  Promise!Close(c)
  <1> DEFINE ord == [d \in Contexts |-> OrderOf(d)]
             res == [x \in Surfaces |-> Shown(x)]
  <1>1. ord' = [ord EXCEPT ![c] = << >>]
    OBVIOUS
  <1>2. res' = [x \in Surfaces |->
           IF \E i \in 1 .. Len(ord[c]) : ord[c][i] = x THEN "failed"
           ELSE IF x \in F /\ res[x] = "shown" THEN "none" ELSE res[x]]
    OBVIOUS
  <1>3. \E G \in SUBSET Surfaces :
           /\ ord' = [ord EXCEPT ![c] = << >>]
           /\ res' = [x \in Surfaces |->
                 IF \E i \in 1 .. Len(ord[c]) : ord[c][i] = x THEN "failed"
                 ELSE IF x \in G /\ res[x] = "shown" THEN "none" ELSE res[x]]
    <2> HIDE DEF ord, res
    <2> QED
      BY <1>1, <1>2
  <1> QED
    BY <1>3 DEF Promise!Close, OrderOf

LEMMA MapsReplace ==
    ASSUME \A d \in Contexts : OrderOf(d)' = OrderOf(d),
           \A x \in Surfaces :
              \/ Shown(x)' = Shown(x)
              \/ ~Open(x) /\ Shown(x)' \in {"none", "failed"}
    PROVE  Promise!Replace
  <1> DEFINE F == {x \in Surfaces : ~Open(x) /\ Shown(x)' \in {"none", "failed"}}
             r == [x \in F |-> Shown(x)']
  <1>1. r \in [F -> {"none", "failed"}]
    OBVIOUS
  <1>2. \A x \in Surfaces : Shown(x)' = IF x \in F THEN r[x] ELSE Shown(x)
    OBVIOUS
  <1>3. F \in SUBSET {x \in Surfaces : ~Open(x)}
    OBVIOUS
  <1> HIDE DEF F, r
  <1> QED
    BY <1>1, <1>2, <1>3 DEF Promise!Replace, Promise!InProgress, Open, OrderOf

(* A step of the protocol is a step of the promise, or none.               *)
PromiseStep == [Promise!NextOrder]_(Promise!orderVars)

LEMMA QuietMaps ==
    ASSUME \A d \in Contexts : OrderOf(d)' = OrderOf(d),
           UNCHANGED <<decode_pending, decode_error, frame>>
    PROVE  PromiseStep
  <1>1. \A x \in Surfaces : Shown(x)' = Shown(x)
    BY DEF Shown, HasFrame
  <1> QED
    BY <1>1, MapsStutter DEF PromiseStep

LEMMA StepOf ==
    ASSUME \/ \E c \in Contexts :
                 \/ \E s \in Surfaces : Promise!BeginNew(c, s)
                 \/ Promise!Resolve(c) \/ Promise!Abandon(c)
                 \/ Promise!BreakDown(c) \/ Promise!Close(c)
           \/ Promise!Replace
    PROVE  PromiseStep
  BY DEF PromiseStep, Promise!NextOrder

LEMMA SameShown ==
    ASSUME NEW x \in Surfaces, decode_pending'[x] = decode_pending[x],
           decode_error'[x] = decode_error[x], frame'[x] = frame[x]
    PROVE  Shown(x)' = Shown(x)
  BY DEF Shown, HasFrame

(* vaBeginPicture: a picture joins the end of its context's order.         *)
LEMMA BeginMaps ==
    ASSUME TypeInv, ShownIs, ShownIs', NEW t \in Threads, BeginPicture(t)
    PROVE  PromiseStep
  <1>1. CASE UNCHANGED <<ctxVars, surfVars>>
    BY <1>1, QuietMaps DEF ctxVars, surfVars, OrderOf
  <1>2. CASE BeginRefused(t)
    BY <1>2, QuietMaps DEF BeginRefused, surfVars, OrderOf
  <1>3. CASE BeginAccepts(t)
    <2>1. PICK c \in Contexts, s \in Surfaces : c = call[t].ctx /\ s = call[t].surf
      BY <1>3 DEF BeginAccepts, AtBegin, TypeInv, CallShape, LocalsSet
    <2>2. /\ ctx_state[c] # "free" /\ ctx_state' = ctx_state /\ ~decode_pending[s]
          /\ submitted' = [submitted EXCEPT ![c] = Append(@, s)]
          /\ decode_pending' = [decode_pending EXCEPT ![s] = TRUE]
          /\ decode_error' = [decode_error EXCEPT ![s] = FALSE]
          /\ frame' = [frame EXCEPT ![s] = NoOutput]
      BY <1>3, <2>1 DEF BeginAccepts, MaySubmit, MayBegin
    <2>3. /\ submitted \in [Contexts -> Seq(Surfaces)]
          /\ decode_pending \in [Surfaces -> BOOLEAN]
          /\ decode_error \in [Surfaces -> BOOLEAN]
          /\ frame \in [Surfaces -> Outputs \cup {NoOutput}]
      BY DEF TypeInv, TypeOK, CtxTypes, SurfTypes
    <2>4. ~Open(s)
      BY <2>1, <2>2 DEF ShownIs, Open
    <2>5. OrderOf(c)' = Append(OrderOf(c), s)
      BY <2>1, <2>2, <2>3 DEF OrderOf
    <2>6. \A d \in Contexts \ {c} : OrderOf(d)' = OrderOf(d)
      BY <2>1, <2>2, <2>3 DEF OrderOf
    <2>7. Shown(s)' = "decoding"
      BY <2>1, <2>2, <2>3 DEF ShownIs
    <2>8. \A x \in Surfaces \ {s} : Shown(x)' = Shown(x)
      BY <2>1, <2>2, <2>3, SameShown
    <2>9. Promise!BeginNew(c, s)
      BY <2>1, <2>4, <2>5, <2>6, <2>7, <2>8, MapsBegin
    <2> QED
      BY <2>1, <2>9, StepOf
  <1> QED
    BY <1>1, <1>2, <1>3 DEF BeginPicture, BeginSleeps, BeginFails, BeginSyncs

(* The loop changes nothing the application sees: the surface the next     *)
(* output is for shows no frame.                                           *)
LEMMA LoopMaps ==
    ASSUME TypeInv, SyncInv, FifoInv, NEW t \in Threads, SyncLoops(t)
    PROVE  PromiseStep
  <1>1. CASE SyncDone(t)
    BY <1>1, QuietMaps DEF SyncDone, surfVars, OrderOf
  <1>2. CASE SyncBreaks(t)
    BY <1>2, QuietMaps DEF SyncBreaks, surfVars, OrderOf
  <1>3. CASE SyncUnlocks(t)
    <2> DEFINE c == call[t].cid
               s == NextTarget(t)
    <2>1. AtVpu(pc[t]) /\ ~LoopDone(t)
      BY <1>3 DEF SyncUnlocks, AtLoop, AtVpu
    <2>2. c \in Contexts /\ ctx_state[c] = "running"
      BY <2>1, SyncFacts
    <2>3. frame[s] = NoOutput
      <3>1. CASE submitted[c] # << >>
        <4>1. submitted[c] \in Seq(Surfaces) /\ IsFifo(submitted[c], Waiting(c))
          BY <2>2, FifoUse DEF FifoInv
        <4>2. Head(submitted[c]) \in {submitted[c][i] : i \in 1 .. Len(submitted[c])}
          BY <3>1, <4>1
        <4>3. Head(submitted[c]) \in Waiting(c)
          BY <4>1, <4>2 DEF IsFifo
        <4> QED
          BY <3>1, <4>3 DEF NextTarget, Waiting, FifoInv, PendingIsClean
      <3>2. CASE submitted[c] = << >>
        BY <2>1, <3>2 DEF NextTarget, LoopDone, HasFrame
      <3> QED
        BY <3>1, <3>2
    <2>4. frame \in [Surfaces -> Outputs \cup {NoOutput}]
      BY DEF TypeInv, TypeOK, SurfTypes
    <2>5. frame' = frame
      BY <1>3, <2>3, <2>4 DEF SyncUnlocks
    <2> QED
      BY <1>3, <2>5, QuietMaps DEF SyncUnlocks, ctxVars, OrderOf
  <1> QED
    BY <1>1, <1>2, <1>3 DEF SyncLoops

(* An output settles the picture at the head of the order.                 *)
LEMMA SettleMaps ==
    ASSUME TypeInv, SyncInv, FifoInv, PoisonedIsQuiet, ShownIs, ShownIs',
           NEW t \in Threads, AtResume(t),
           NEW c, c = call[t].cid, NEW s, s = call[t].target,
           PopSubmitted(c), UNCHANGED ctx_state,
           decode_pending' = [decode_pending EXCEPT ![s] = FALSE],
           \A x \in Surfaces \ {s} :
              decode_error'[x] = decode_error[x] /\ frame'[x] = frame[x],
           decode_error'[s] \/ HasFrame(s)'
    PROVE  PromiseStep
  <1>1. /\ StillMine(t) /\ c \in Contexts
        /\ submitted[c] \in Seq(Surfaces) /\ submitted[c] # << >>
        /\ s = Head(submitted[c]) /\ s \in Waiting(c)
    BY ResumeFacts
  <1>2. s \in Surfaces /\ decode_pending[s] /\ context_id[s] = c
    BY <1>1 DEF Waiting
  <1>3. ctx_state[c] = "running" /\ sync_active[c]
    BY <1>1 DEF StillMine
  <1>4. ~decode_error[s]
    BY <1>1, <1>2, <1>3 DEF PoisonedIsQuiet
  <1>5. /\ submitted \in [Contexts -> Seq(Surfaces)]
        /\ decode_pending \in [Surfaces -> BOOLEAN]
    BY DEF TypeInv, TypeOK, CtxTypes, SurfTypes
  <1>6. submitted' = [submitted EXCEPT ![c] = Tail(@)]
    BY <1>1 DEF PopSubmitted
  <1>7. OrderOf(c) = submitted[c] /\ OrderOf(c)' = Tail(submitted[c])
    BY <1>1, <1>3, <1>5, <1>6 DEF OrderOf
  <1>8. \A d \in Contexts \ {c} : OrderOf(d)' = OrderOf(d)
    BY <1>5, <1>6 DEF OrderOf
  <1>9. Shown(s) = "decoding" /\ Open(s)
    BY <1>2, <1>4 DEF ShownIs, Open
  <1>10. Shown(s)' \in {"failed", "shown"}
    BY <1>2, <1>5 DEF ShownIs
  <1>11. \A x \in Surfaces \ {s} : Shown(x)' = Shown(x)
    BY <1>5, SameShown
  <1>12. Promise!Resolve(c)
    BY <1>1, <1>2, <1>7, <1>8, <1>9, <1>10, <1>11, MapsResolve
  <1> QED
    BY <1>1, <1>12, StepOf

LEMMA LostMaps ==
    ASSUME TypeInv, SyncInv, FifoInv, ShownIs, ShownIs', NEW t \in Threads, SyncLost(t)
    PROVE  PromiseStep
  <1> DEFINE c == call[t].cid
             s == call[t].surf
  <1>0. AtResume(t)
    BY DEF SyncLost
  <1>1. /\ StillMine(t) /\ c \in Contexts
        /\ submitted[c] \in Seq(Surfaces) /\ IsFifo(submitted[c], Waiting(c))
    BY <1>0, ResumeFacts
  <1>2. ctx_state[c] # "free" /\ decode_pending[s] /\ context_id[s] = c
    BY <1>1 DEF StillMine
  <1> DEFINE mine == {x \in Surfaces : /\ allocated[x] /\ decode_pending[x]
                                       /\ context_id[x] = c
                                       /\ \E i \in 1 .. Len(submitted[c]) : submitted[c][i] = x}
  <1>3. /\ decode_error' = [x \in Surfaces |->
              \/ decode_error[x]
              \/ x = s /\ allocated[s] /\ decode_pending[s]
              \/ x \in mine /\ StillMine(t)]
        /\ UNCHANGED <<ctx_state, submitted, decode_pending, frame>>
    BY DEF SyncLost
  <1>4. {submitted[c][i] : i \in 1 .. Len(submitted[c])} = Waiting(c)
    <2>1. Waiting(c) \in SUBSET Surfaces
      BY DEF Waiting
    <2> QED
      BY <1>1, <2>1, FifoForm
  <1>5. \A x \in Surfaces : x \in mine <=> x \in Waiting(c)
    BY <1>4 DEF Waiting, FifoInv, PendingIsClean
  <1>6. \A x \in Surfaces : decode_error'[x] <=> decode_error[x] \/ x \in Waiting(c)
    <2>1. \A x \in Surfaces : x = s => x \in Waiting(c)
      BY <1>2 DEF Waiting
    <2> HIDE DEF mine, s, c
    <2> QED
      BY <1>1, <1>3, <1>5, <2>1
  <1>7. OrderOf(c) = submitted[c] /\ \A d \in Contexts : OrderOf(d)' = OrderOf(d)
    BY <1>2, <1>3 DEF OrderOf
  <1>8. ASSUME NEW x \in Surfaces
        PROVE  Shown(x)' = IF x \in Waiting(c) /\ Open(x) THEN "failing" ELSE Shown(x)
    <2>1. CASE x \in Waiting(c)
      BY <1>3, <1>6, <2>1 DEF ShownIs, Open, Waiting
    <2>2. CASE x \notin Waiting(c)
      <3>1. decode_error'[x] <=> decode_error[x]
        BY <1>6, <2>2
      <3> QED
        BY <1>3, <2>2, <3>1 DEF ShownIs, HasFrame
    <2> QED
      BY <2>1, <2>2
  <1> HIDE DEF c
  <1>9. Promise!BreakDown(c)
    BY <1>1, <1>4, <1>7, <1>8, MapsBreakDown
  <1> QED
    BY <1>1, <1>9, StepOf

LEMMA ResumeMaps ==
    ASSUME TypeInv, SyncInv, FifoInv, PoisonedIsQuiet, ShownIs, ShownIs',
           NEW t \in Threads, SyncResumes(t)
    PROVE  PromiseStep
  <1>1. CASE SyncLost(t)
    BY <1>1, LostMaps
  <1>2. CASE SyncRepeats(t)
    BY <1>2, QuietMaps DEF SyncRepeats, ctxVars, surfVars, OrderOf
  <1>3. CASE SyncDropsHollow(t)
    BY <1>3, QuietMaps DEF SyncDropsHollow, surfVars, OrderOf
  <1>0. PICK c, s : c = call[t].cid /\ s = call[t].target
    OBVIOUS
  <1>4. CASE SyncDropsBad(t)
    <2>1. AtResume(t)
      BY <1>4 DEF SyncDropsBad
    <2>2. s \in Waiting(c) /\ allocated[s]
      BY <1>0, <2>1, ResumeFacts
    <2>3. decode_pending[s] /\ s \in Surfaces
      BY <2>2 DEF Waiting
    <2>4. /\ PopSubmitted(c) /\ UNCHANGED ctx_state
          /\ decode_pending' = [decode_pending EXCEPT ![s] = FALSE]
          /\ decode_error' = [decode_error EXCEPT ![s] = TRUE]
          /\ frame' = frame
      BY <1>0, <1>4, <2>2, <2>3 DEF SyncDropsBad
    <2>5. decode_error \in [Surfaces -> BOOLEAN]
      BY DEF TypeInv, TypeOK, SurfTypes
    <2>6. /\ \A x \in Surfaces \ {s} :
                decode_error'[x] = decode_error[x] /\ frame'[x] = frame[x]
          /\ decode_error'[s] \/ HasFrame(s)'
      BY <2>3, <2>4, <2>5
    <2> QED
      BY <1>0, <2>1, <2>4, <2>6, SettleMaps
  <1>5. CASE SyncKeepsFrame(t)
    <2>1. AtResume(t)
      BY <1>5 DEF SyncKeepsFrame
    <2>2. s \in Waiting(c) /\ allocated[s]
      BY <1>0, <2>1, ResumeFacts
    <2>3. s \in Surfaces
      BY <2>2 DEF Waiting
    <2>4. /\ PopSubmitted(c) /\ UNCHANGED ctx_state
          /\ decode_pending' = [decode_pending EXCEPT ![s] = FALSE]
          /\ decode_error' = [decode_error EXCEPT ![s] = FALSE]
          /\ frame' = [frame EXCEPT ![s] = hand[t].out]
      BY <1>0, <1>5, <2>2 DEF SyncKeepsFrame
    <2>5. hand[t].out # NoOutput
      BY <1>5, ConstantsAssumption
         DEF SyncKeepsFrame, TypeInv, CallShape, LocalsSet, Outputs
    <2>6. /\ decode_error \in [Surfaces -> BOOLEAN]
          /\ frame \in [Surfaces -> Outputs \cup {NoOutput}]
      BY DEF TypeInv, TypeOK, SurfTypes
    <2>7. /\ \A x \in Surfaces \ {s} :
                decode_error'[x] = decode_error[x] /\ frame'[x] = frame[x]
          /\ decode_error'[s] \/ HasFrame(s)'
      BY <2>3, <2>4, <2>5, <2>6 DEF HasFrame
    <2> QED
      BY <1>0, <2>1, <2>4, <2>7, SettleMaps
  <1> QED
    BY <1>1, <1>2, <1>3, <1>4, <1>5 DEF SyncResumes

LEMMA ThreadMaps ==
    ASSUME TypeInv, SyncInv, FifoInv, PoisonedIsQuiet, ShownIs, ShownIs',
           NEW t \in Threads, ThreadStep(t)
    PROVE  PromiseStep
  <1>1. CASE SyncChecks(t)
    <2>1. UNCHANGED <<ctx_state, submitted, surfVars>>
      BY <1>1 DEF SyncChecks, SyncEnter, SyncGivesUp, SyncSleeps, SyncRetriesOutput,
         SyncStarts, SyncTooLate, SleepTimesOut, ctxVars
    <2> QED
      BY <2>1, QuietMaps DEF surfVars, OrderOf
  <1>2. CASE VpuAnswers(t)
    <2>1. UNCHANGED <<ctxVars, surfVars>>
      BY <1>2 DEF VpuAnswers, VpuSilent, VpuHollow, VpuOutputs
    <2> QED
      BY <2>1, QuietMaps DEF ctxVars, surfVars, OrderOf
  <1> QED
    BY <1>1, <1>2, BeginMaps, LoopMaps, ResumeMaps DEF ThreadStep

(* Giving up the picture being assembled abandons the newest.              *)
LEMMA AbortMaps ==
    ASSUME TypeInv, FifoInv, PoisonedIsQuiet, ShownIs, ShownIs', NEW c \in Contexts,
           PictureOpen(c), AbortPicture(c), frame' = frame,
           \A d \in Contexts : ctx_state'[d] = "free" <=> ctx_state[d] = "free"
    PROVE  PromiseStep
  <1>0. PICK s, q, n : s = current_render_target[c] /\ q = submitted[c] /\ n = Len(q)
    OBVIOUS
  <1>1. ctx_state[c] # "free" /\ ~decode_failed[c] /\ decode_picture_active[c]
    BY DEF PictureOpen
  <1>2. s \in Surfaces /\ q # << >> /\ q[n] = s
    BY <1>0, <1>1 DEF TypeInv, PictureShape, FifoInv, PictureIsLast
  <1>3. q \in Seq(Surfaces) /\ IsFifo(q, Waiting(c))
    BY <1>0, <1>1, FifoUse DEF FifoInv
  <1>4. n \in Nat /\ n > 0
    BY <1>0, <1>2, <1>3
  <1>5. s \in Waiting(c)
    BY <1>0, <1>2, <1>3, <1>4 DEF IsFifo
  <1>6. decode_pending[s] /\ allocated[s] /\ ~decode_error[s]
    BY <1>1, <1>2, <1>5 DEF Waiting, FifoInv, PendingIsClean, PoisonedIsQuiet
  <1>7. /\ submitted' = [submitted EXCEPT ![c] = SubSeq(q, 1, n - 1)]
        /\ decode_pending' = [decode_pending EXCEPT ![s] = FALSE]
        /\ decode_error' = [decode_error EXCEPT ![s] = TRUE]
    BY <1>0, <1>2, <1>4, <1>6 DEF AbortPicture, DropLast
  <1>8. /\ submitted \in [Contexts -> Seq(Surfaces)]
        /\ decode_pending \in [Surfaces -> BOOLEAN]
        /\ decode_error \in [Surfaces -> BOOLEAN]
    BY DEF TypeInv, TypeOK, CtxTypes, SurfTypes
  <1>9. OrderOf(c) = q /\ OrderOf(c)' = SubSeq(q, 1, n - 1)
    BY <1>0, <1>1, <1>7, <1>8 DEF OrderOf
  <1>10. \A d \in Contexts \ {c} : OrderOf(d)' = OrderOf(d)
    BY <1>7, <1>8 DEF OrderOf
  <1>11. Shown(s) = "decoding"
    BY <1>2, <1>6 DEF ShownIs
  <1>12. Shown(s)' = "failed"
    BY <1>2, <1>7, <1>8 DEF ShownIs
  <1>13. \A x \in Surfaces \ {s} : Shown(x)' = Shown(x)
    BY <1>7, <1>8, SameShown
  <1>14. s = OrderOf(c)[n] /\ n = Len(OrderOf(c)) /\ OrderOf(c)' = SubSeq(OrderOf(c), 1, n - 1)
    BY <1>0, <1>2, <1>9
  <1>15. Promise!Abandon(c)
    BY <1>2, <1>4, <1>10, <1>11, <1>12, <1>13, <1>14, MapsAbandon
  <1> QED
    BY <1>15, StepOf

LEMMA DestroyMaps ==
    ASSUME TypeInv, FifoInv, ShownIs, ShownIs', NEW c \in Contexts, DestroyContext(c)
    PROVE  PromiseStep
  <1>1. ctx_state[c] # "free"
    BY DEF DestroyContext, MayDestroyContext
  <1>2. submitted[c] \in Seq(Surfaces) /\ IsFifo(submitted[c], Waiting(c))
    BY <1>1, FifoUse DEF FifoInv
  <1> DEFINE lost == {s \in Surfaces : allocated[s] /\ context_id[s] = c}
  <1>3. /\ decode_error' = [s \in Surfaces |->
                               decode_error[s] \/ (s \in lost /\ decode_pending[s])]
        /\ decode_pending' = [s \in Surfaces |-> decode_pending[s] /\ s \notin lost]
        /\ frame' = [s \in Surfaces |-> IF s \in FramesOf(c) THEN NoOutput ELSE frame[s]]
        /\ ctx_state' = [ctx_state EXCEPT ![c] = "free"] /\ submitted' = submitted
    BY DEF DestroyContext, Detach
  <1>4. ctx_state \in [Contexts -> CtxStates]
    BY DEF TypeInv, TypeOK, CtxTypes
  <1>5. OrderOf(c) = submitted[c] /\ OrderOf(c)' = << >>
    BY <1>1, <1>3, <1>4 DEF OrderOf
  <1>6. \A d \in Contexts \ {c} : OrderOf(d)' = OrderOf(d)
    BY <1>3, <1>4 DEF OrderOf
  <1>7. FramesOf(c) \in SUBSET Surfaces
    BY DEF FramesOf
  <1>8. ASSUME NEW x \in Surfaces
        PROVE  Shown(x)' = IF \E i \in 1 .. Len(OrderOf(c)) : OrderOf(c)[i] = x
                           THEN "failed"
                           ELSE IF x \in FramesOf(c) /\ Shown(x) = "shown"
                           THEN "none" ELSE Shown(x)
    <2>1. (\E i \in 1 .. Len(OrderOf(c)) : OrderOf(c)[i] = x) <=> x \in Waiting(c)
      BY <1>2, <1>5 DEF IsFifo
    <2>2. decode_pending[x] => allocated[x]
      BY DEF FifoInv, PendingIsClean
    <2>3. CASE x \in Waiting(c)
      <3>1. decode_error'[x] /\ ~decode_pending'[x]
        BY <1>3, <2>2, <2>3 DEF Waiting
      <3> QED
        BY <2>1, <2>3, <3>1 DEF ShownIs
    <2>4. CASE x \notin Waiting(c)
      <3>1. /\ decode_error'[x] <=> decode_error[x]
            /\ decode_pending'[x] <=> decode_pending[x]
        <4>1. ~(x \in lost /\ decode_pending[x])
          BY <2>4 DEF Waiting
        <4>2. decode_error'[x] <=> (decode_error[x] \/ (x \in lost /\ decode_pending[x]))
          BY <1>3
        <4>3. decode_pending'[x] <=> (decode_pending[x] /\ x \notin lost)
          BY <1>3
        <4> QED
          BY <4>1, <4>2, <4>3
      <3>2. HasFrame(x)' <=> HasFrame(x) /\ x \notin FramesOf(c)
        BY <1>3 DEF HasFrame
      <3> QED
        BY <2>1, <2>4, <3>1, <3>2 DEF ShownIs
    <2> QED
      BY <2>3, <2>4
  <1>9. Promise!Close(c)
    BY <1>5, <1>6, <1>7, <1>8, MapsClose
  <1> QED
    BY <1>9, StepOf

LEMMA ContextMaps ==
    ASSUME TypeInv, FifoInv, PoisonedIsQuiet, ShownIs, ShownIs',
           NEW c \in Contexts, ContextCall(c)
    PROVE  PromiseStep
  <1>0. ctx_state \in [Contexts -> CtxStates] /\ submitted \in [Contexts -> Seq(Surfaces)]
    BY DEF TypeInv, TypeOK, CtxTypes
  <1>1. ASSUME NEW T \in TargetSets, CreateContext(c, T)
        PROVE  PromiseStep
    <2>1. /\ ctx_state[c] = "free" /\ submitted' = [submitted EXCEPT ![c] = << >>]
          /\ \E st \in {"running", "deferred"} : ctx_state' = [ctx_state EXCEPT ![c] = st]
      BY <1>1 DEF CreateContext
    <2>2. \A d \in Contexts : OrderOf(d)' = OrderOf(d)
      BY <1>0, <2>1 DEF OrderOf
    <2> QED
      BY <1>1, <2>2, QuietMaps DEF CreateContext
  <1>2. CASE DestroyContext(c)
    BY <1>2, DestroyMaps
  <1>3. CASE DestroyContextFails(c)
    <2>1. PICK kept \in SUBSET FramesOf(c) :
             /\ frame' = [s \in Surfaces |-> IF s \in FramesOf(c) \ kept THEN NoOutput
                                             ELSE frame[s]]
             /\ decode_error' = [s \in Surfaces |-> decode_error[s] \/ s \in kept]
      BY <1>3 DEF DestroyContextFails
    <2>2. /\ UNCHANGED <<submitted, decode_pending>> /\ ctx_state[c] # "free"
          /\ ctx_state' \in {ctx_state, [ctx_state EXCEPT ![c] = "stopped"]}
      BY <1>3 DEF DestroyContextFails, MayDestroyContext
    <2>3. \A d \in Contexts : OrderOf(d)' = OrderOf(d)
      BY <1>0, <2>2 DEF OrderOf
    <2>4. ASSUME NEW x \in Surfaces
          PROVE  \/ Shown(x)' = Shown(x)
                 \/ ~Open(x) /\ Shown(x)' \in {"none", "failed"}
      <3>1. CASE x \in FramesOf(c)
        <4>1. ~decode_pending[x] /\ ~decode_pending'[x]
          BY <2>2, <3>1 DEF FramesOf, HasFrame, FifoInv, PendingIsClean
        <4>2. ~Open(x)
          BY <4>1 DEF ShownIs, Open
        <4>3. decode_error'[x] \/ ~HasFrame(x)'
          BY <2>1, <3>1 DEF HasFrame
        <4>4. Shown(x)' \in {"none", "failed"}
          BY <4>1, <4>3 DEF ShownIs
        <4> QED
          BY <4>2, <4>4
      <3>2. CASE x \notin FramesOf(c)
        <4>1. decode_error'[x] <=> decode_error[x]
          BY <2>1, <3>2
        <4>2. frame'[x] = frame[x]
          BY <2>1, <3>2
        <4> QED
          BY <2>2, <4>1, <4>2 DEF ShownIs, HasFrame
      <3> QED
        BY <3>1, <3>2
    <2> QED
      BY <2>3, <2>4, MapsReplace, StepOf
  <1>4. CASE RenderPicture(c)
    <2>1. /\ ctx_state[c] # "free" /\ submitted' = submitted
          /\ ctx_state' = [ctx_state EXCEPT ![c] = "running"]
      BY <1>4 DEF RenderPicture, PictureOpen
    <2>2. \A d \in Contexts : OrderOf(d)' = OrderOf(d)
      BY <1>0, <2>1 DEF OrderOf
    <2> QED
      BY <1>4, <2>2, QuietMaps DEF RenderPicture
  <1>5. CASE RenderPictureAborts(c)
    <2>1. PictureOpen(c) /\ AbortPicture(c) /\ frame' = frame
      BY <1>5 DEF RenderPictureAborts
    <2>2. ctx_state' \in {ctx_state, [ctx_state EXCEPT ![c] = "stopped"],
                          [ctx_state EXCEPT ![c] = "running"]}
      BY <1>5 DEF RenderPictureAborts
    <2>3. \A d \in Contexts : ctx_state'[d] = "free" <=> ctx_state[d] = "free"
      BY <1>0, <2>1, <2>2 DEF PictureOpen
    <2> QED
      BY <2>1, <2>3, AbortMaps
  <1>6. CASE EndPicture(c)
    BY <1>6, QuietMaps DEF EndPicture, surfVars, OrderOf
  <1>7. CASE EndPictureAborts(c)
    BY <1>7, AbortMaps DEF EndPictureAborts
  <1> QED
    BY <1>1, <1>2, <1>3, <1>4, <1>5, <1>6, <1>7 DEF ContextCall

LEMMA SurfaceMaps ==
    ASSUME TypeInv, FifoInv, ShownIs, ShownIs', NEW s \in Surfaces, SurfaceCall(s)
    PROVE  PromiseStep
  <1>0. /\ decode_pending \in [Surfaces -> BOOLEAN]
        /\ decode_error \in [Surfaces -> BOOLEAN]
        /\ frame \in [Surfaces -> Outputs \cup {NoOutput}]
    BY DEF TypeInv, TypeOK, SurfTypes
  <1>1. ASSUME ~decode_pending[s], UNCHANGED <<ctx_state, submitted>>,
               decode_pending' = [decode_pending EXCEPT ![s] = FALSE],
               frame' = [frame EXCEPT ![s] = NoOutput],
               \A x \in Surfaces \ {s} : decode_error'[x] = decode_error[x]
        PROVE  PromiseStep
    <2>1. \A d \in Contexts : OrderOf(d)' = OrderOf(d)
      BY <1>1 DEF OrderOf
    <2>2. ~Open(s)
      BY <1>1 DEF ShownIs, Open
    <2>3. Shown(s)' \in {"none", "failed"}
      BY <1>0, <1>1 DEF ShownIs, HasFrame
    <2>4. \A x \in Surfaces \ {s} : Shown(x)' = Shown(x)
      BY <1>0, <1>1, SameShown
    <2> QED
      BY <2>1, <2>2, <2>3, <2>4, MapsReplace, StepOf
  <1>2. CASE CreateSurface(s)
    <2>1. ~decode_pending[s]
      BY <1>2 DEF CreateSurface, FifoInv, PendingIsClean
    <2>2. \A x \in Surfaces \ {s} : decode_error'[x] = decode_error[x]
      BY <1>0, <1>2 DEF CreateSurface
    <2> QED
      BY <1>1, <1>2, <2>1, <2>2 DEF CreateSurface, ctxVars
  <1>3. CASE LockSurface(s) \/ UnlockSurface(s) \/ EncoderTakes(s)
    BY <1>3, QuietMaps DEF LockSurface, UnlockSurface, EncoderTakes, ctxVars, OrderOf
  <1>4. CASE PutImage(s)
    <2>1. ~decode_pending[s] /\ UNCHANGED <<ctx_state, submitted, decode_pending, decode_error>>
      BY <1>4 DEF PutImage
    <2>2. CASE frame' = frame
      BY <2>1, <2>2, QuietMaps DEF OrderOf
    <2>3. CASE frame' = [frame EXCEPT ![s] = NoOutput]
      <3>1. decode_pending' = [decode_pending EXCEPT ![s] = FALSE]
        BY <1>0, <2>1
      <3> QED
        BY <1>1, <2>1, <2>3, <3>1
    <2> QED
      BY <1>4, <2>2, <2>3 DEF PutImage
  <1> QED
    BY <1>2, <1>3, <1>4 DEF SurfaceCall

(* A surface that shows a frame is retained by its decoder, so what        *)
(* vaDestroySurfaces may touch has nothing in progress and shows nothing.  *)
LEMMA DestroySurfacesMaps ==
    ASSUME TypeInv, FrameOwnerRuns, ShownIs, ShownIs',
           NEW X \in SUBSET Surfaces, DestroySurfaces(X)
    PROVE  PromiseStep
  <1>1. \A x \in X : ~HasFrame(x)
    BY DEF DestroySurfaces, Destroyable, FrameOwnerRuns, HasFrame
  <1>0. PICK freed \in SUBSET {x \in X : ~decode_pending[x]} :
           \E stuck \in SUBSET {x \in X \ freed : HasFrame(x) /\ IsRunning(Owner(x))} :
              DestroySurfaces(X)!3!(freed)!(stuck)
    BY DEF DestroySurfaces
  <1>2. PICK stuck \in SUBSET {x \in X \ freed : HasFrame(x) /\ IsRunning(Owner(x))} :
           DestroySurfaces(X)!3!(freed)!(stuck)
    BY <1>0
  <1>3. stuck = {}
    BY <1>1
  <1>4. /\ frame' = [x \in Surfaces |-> frame[x]]
        /\ decode_pending' = [x \in Surfaces |-> decode_pending[x] /\ x \notin freed]
        /\ decode_error' = [x \in Surfaces |-> IF x \in freed THEN FALSE ELSE decode_error[x]]
    <2> DEFINE emptied == {x \in X : HasFrame(x) /\ ~decode_pending[x]} \ stuck
    <2>1. emptied = {}
      BY <1>1
    <2>2. decode_error \in [Surfaces -> BOOLEAN]
      BY DEF TypeInv, TypeOK, SurfTypes
    <2>3. \A x \in Surfaces : (decode_error[x] \/ x \in stuck) = decode_error[x]
      BY <1>3, <2>2
    <2>4. /\ frame' = [x \in Surfaces |-> IF x \in emptied THEN NoOutput ELSE frame[x]]
          /\ decode_pending' = [x \in Surfaces |-> decode_pending[x] /\ x \notin freed]
          /\ decode_error' = [x \in Surfaces |-> IF x \in freed THEN FALSE
                                 ELSE decode_error[x] \/ x \in stuck]
      BY <1>2
    <2> HIDE DEF emptied
    <2> QED
      BY <2>1, <2>3, <2>4
  <1>5. \A d \in Contexts : OrderOf(d)' = OrderOf(d)
    BY DEF DestroySurfaces, ctxVars, OrderOf
  <1>6. ASSUME NEW x \in Surfaces
        PROVE  \/ Shown(x)' = Shown(x)
               \/ ~Open(x) /\ Shown(x)' \in {"none", "failed"}
    <2>1. CASE x \in freed
      <3>1. ~decode_pending[x] /\ ~decode_pending'[x]
        BY <1>2, <1>4, <2>1
      <3>2. ~HasFrame(x)'
        BY <1>1, <1>2, <1>4, <2>1 DEF HasFrame
      <3> QED
        BY <3>1, <3>2 DEF ShownIs, Open
    <2>2. CASE x \notin freed
      <3>1. /\ decode_pending'[x] <=> decode_pending[x]
            /\ decode_error'[x] <=> decode_error[x]
            /\ frame'[x] = frame[x]
        BY <1>4, <2>2
      <3> QED
        BY <3>1 DEF ShownIs, HasFrame
    <2> QED
      BY <2>1, <2>2
  <1> QED
    BY <1>5, <1>6, MapsReplace, StepOf

LEMMA NextMaps ==
    ASSUME TypeInv, SyncInv, FifoInv, PoisonedIsQuiet, FrameOwnerRuns, ShownIs, ShownIs', Next
    PROVE  PromiseStep
  <1>1. ASSUME NEW t \in Threads, NEW s \in Surfaces,
               \/ \E timed \in BOOLEAN : CallSyncSurface(t, s, timed)
               \/ \E c \in Contexts : CallBeginPicture(t, c, s)
        PROVE  PromiseStep
    <2>1. UNCHANGED <<ctxVars, surfVars, vpuVars, hand>>
      BY <1>1, CallKeepsAll
    <2> QED
      BY <2>1, QuietMaps DEF ctxVars, surfVars, OrderOf
  <1>2. ASSUME NEW X \in SUBSET Surfaces, DestroySurfaces(X)
        PROVE  PromiseStep
    BY <1>2, DestroySurfacesMaps
  <1> QED
    BY <1>1, <1>2, ThreadMaps, ContextMaps, SurfaceMaps DEF Next

(* The decoder keeps its promise to the application: whichever thread gets *)
(* an output, and whatever is retried, dropped, refused, abandoned or torn *)
(* down in between, the pictures of a context are resolved once each and   *)
(* oldest first, and only the newest is ever abandoned.                    *)
THEOREM PicturesInOrder == Spec => ResolvedInOrder
  <1>1. Init => Promise!InitOrder
    BY DEF Init, Promise!InitOrder, Shown, HasFrame
  <1>2. Inductive /\ Inductive' /\ [Next]_vars => PromiseStep
    <2> SUFFICES ASSUME Inductive, Inductive', [Next]_vars PROVE PromiseStep
      OBVIOUS
    <2>1. ShownIs /\ ShownIs'
      <3>1. TypeInv /\ TypeInv'
        BY DEF Inductive, PairingInv
      <3> QED
        BY <3>1, ShownByCases, PTL
    <2>2. CASE Next
      BY <2>1, <2>2, NextMaps DEF Inductive, PairingInv, VpuInv
    <2>3. CASE UNCHANGED vars
      BY <2>3, QuietMaps DEF vars, ctxVars, surfVars, OrderOf
    <2> QED
      BY <2>2, <2>3
  <1> QED
    BY InductiveHolds, <1>1, <1>2, PTL DEF Spec, ResolvedInOrder, Promise!OrderSpec, PromiseStep
=============================================================================
