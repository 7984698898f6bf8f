----------------------------- MODULE DecodeSync -----------------------------
(***************************************************************************)
(* The decode submit / synchronise protocol of hobot_drv_video.c.          *)
(*                                                                         *)
(* Application threads call vaBeginPicture, vaRenderPicture, vaEndPicture  *)
(* and vaSyncSurface on decoder contexts that share one driver mutex and   *)
(* one condition variable (drv->sync_cond).  A thread that synchronises a  *)
(* surface drops the mutex while it waits for the VPU, and the surface a   *)
(* VPU output belongs to is known only by its place in the context's FIFO  *)
(* of submitted surfaces.                                                  *)
(*                                                                         *)
(* Everything between taking and dropping the mutex is one action, or a    *)
(* run of actions during which `mutex' names the thread that holds it.     *)
(* Calls that never drop the mutex need no thread.                         *)
(***************************************************************************)
EXTENDS Naturals, Sequences, FiniteSets

CONSTANTS
    Contexts,     \* decoder contexts (slots of drv->contexts)
    Surfaces,     \* surfaces (slots of drv->surfaces)
    Threads,      \* threads inside the two calls that can sleep
    OutBufs,      \* output frame buffers of one VPU instance
    TargetSets,   \* render-target lists vaCreateContext may be given
    RefSets,      \* reference-surface lists a picture may name
    RingSize,     \* capacity of submitted_surfaces (128 in the code)
    MaxAttempts,  \* dequeue attempts of a sync without deadline (30)
    MaxLocks,     \* bound on lock_count
    NoContext, NoSurface, NoThread, NoOutput

ASSUME ConstantsAssumption ==
    /\ NoContext \notin Contexts
    /\ NoSurface \notin Surfaces
    /\ NoThread \notin Threads
    /\ NoOutput \notin [buf : OutBufs, pic : Surfaces, ctx : Contexts]
    /\ RingSize \in Nat \ {0}
    /\ MaxAttempts \in Nat
    /\ MaxLocks \in Nat
    /\ \A T \in TargetSets : T \subseteq Surfaces
    /\ \A R \in RefSets : R \subseteq Surfaces

VARIABLES
    (* HobotContext *)
    ctx_state,              \* allocated, jpeg_init_deferred and vpu_running
    decode_failed,
    sync_active,
    decode_picture_active,
    current_render_target,
    submitted,              \* submitted_surfaces from sub_head to sub_tail
    dec_out_buf,            \* output the driver could not give back (dec_out_buf_valid)
    dec_in_buf,             \* input being assembled (dec_in_buf_valid, fragment open)
    (* HobotSurface *)
    allocated,
    decode_pending,
    decode_error,
    frame,                  \* vpu_out_buf and output_context_id, if has_decoded_frame
    context_id,             \* the decoder that used it last, or NoContext
    context_usage_mask,
    lock_count,
    (* the VPU instance behind each context *)
    vpu_queue,              \* pictures accepted and not yet output, oldest first
    vpu_bufs,               \* output buffers the VPU holds
    (* the driver mutex, its condition variable and the threads *)
    mutex,
    waiters,                \* threads asleep on sync_cond
    pc,
    call,                   \* arguments and locals of a thread's call
    hand                    \* what hb_mm_mc_dequeue_output_buffer gave a thread

ctxVars  == <<ctx_state, decode_failed, sync_active, decode_picture_active,
              current_render_target, submitted, dec_out_buf, dec_in_buf>>
surfVars == <<allocated, decode_pending, decode_error, frame, context_id,
              context_usage_mask, lock_count>>
vpuVars  == <<vpu_queue, vpu_bufs>>
thrVars  == <<mutex, waiters, pc, call, hand>>
vars     == <<ctxVars, surfVars, vpuVars, thrVars>>

(* A VPU output: its buffer, the surface whose picture it shows, and the   *)
(* instance that owns the buffer.                                          *)
Outputs == [buf : OutBufs, pic : Surfaces, ctx : Contexts]

CtxStates == {"free", "deferred", "running", "stopped"}

Pcs == {"idle", "begin", "enter", "check", "loop", "dequeue", "resume"}

Replies == {"none", "timeout", "error", "empty", "hollow", "bad", "frame"}

Hands == [reply : Replies, out : Outputs \cup {NoOutput}]

NoHand == [reply |-> "none", out |-> NoOutput]

Calls == [op     : {"none", "sync", "begin", "retry"},
          ctx    : Contexts \cup {NoContext},
          surf   : Surfaces \cup {NoSurface},
          cid    : Contexts \cup {NoContext},
          target : Surfaces \cup {NoSurface},
          timed  : BOOLEAN,
          tries  : 0 .. MaxAttempts]

NoCall == [op |-> "none", ctx |-> NoContext, surf |-> NoSurface,
           cid |-> NoContext, target |-> NoSurface,
           timed |-> FALSE, tries |-> 0]

CtxTypes ==
    /\ ctx_state \in [Contexts -> CtxStates]
    /\ decode_failed \in [Contexts -> BOOLEAN]
    /\ sync_active \in [Contexts -> BOOLEAN]
    /\ decode_picture_active \in [Contexts -> BOOLEAN]
    /\ current_render_target \in [Contexts -> Surfaces \cup {NoSurface}]
    /\ submitted \in [Contexts -> Seq(Surfaces)]
    /\ dec_out_buf \in [Contexts -> Outputs \cup {NoOutput}]
    /\ dec_in_buf \in [Contexts -> {"none", "open", "whole"}]

SurfTypes ==
    /\ allocated \in [Surfaces -> BOOLEAN]
    /\ decode_pending \in [Surfaces -> BOOLEAN]
    /\ decode_error \in [Surfaces -> BOOLEAN]
    /\ frame \in [Surfaces -> Outputs \cup {NoOutput}]
    /\ context_id \in [Surfaces -> Contexts \cup {NoContext}]
    /\ context_usage_mask \in [Surfaces -> SUBSET Contexts]
    /\ lock_count \in [Surfaces -> 0 .. MaxLocks]

VpuTypes ==
    /\ vpu_queue \in [Contexts -> Seq(Surfaces)]
    /\ vpu_bufs \in [Contexts -> SUBSET OutBufs]

ThrTypes ==
    /\ mutex \in Threads \cup {NoThread}
    /\ waiters \in SUBSET Threads
    /\ pc \in [Threads -> Pcs]
    /\ call \in [Threads -> Calls]
    /\ hand \in [Threads -> Hands]

TypeOK == CtxTypes /\ SurfTypes /\ VpuTypes /\ ThrTypes

Init ==
    /\ ctx_state = [c \in Contexts |-> "free"]
    /\ decode_failed = [c \in Contexts |-> FALSE]
    /\ sync_active = [c \in Contexts |-> FALSE]
    /\ decode_picture_active = [c \in Contexts |-> FALSE]
    /\ current_render_target = [c \in Contexts |-> NoSurface]
    /\ submitted = [c \in Contexts |-> << >>]
    /\ dec_out_buf = [c \in Contexts |-> NoOutput]
    /\ dec_in_buf = [c \in Contexts |-> "none"]
    /\ allocated = [s \in Surfaces |-> FALSE]
    /\ decode_pending = [s \in Surfaces |-> FALSE]
    /\ decode_error = [s \in Surfaces |-> FALSE]
    /\ frame = [s \in Surfaces |-> NoOutput]
    /\ context_id = [s \in Surfaces |-> NoContext]
    /\ context_usage_mask = [s \in Surfaces |-> {}]
    /\ lock_count = [s \in Surfaces |-> 0]
    /\ vpu_queue = [c \in Contexts |-> << >>]
    /\ vpu_bufs = [c \in Contexts |-> {}]
    /\ mutex = NoThread
    /\ waiters = {}
    /\ pc = [t \in Threads |-> "idle"]
    /\ call = [t \in Threads |-> NoCall]
    /\ hand = [t \in Threads |-> NoHand]

-----------------------------------------------------------------------------
(* Helpers.                                                                *)

Free == mutex = NoThread

(* Thread t can take the mutex, or is already holding it.                  *)
MayRun(t) == mutex = t \/ (Free /\ t \notin waiters)

(* The outcomes of giving a buffer back to the VPU: accepted, refused, and *)
(* for a call with a deadline, out of time.                                *)
QueueResults(timed) == {"ok", "fail"} \cup (IF timed THEN {"timeout"} ELSE {})

(* hb_mm_mc_queue_output_buffer took `out' back into the instance that     *)
(* context c drives.                                                       *)
GiveBack(c, out) == vpu_bufs' = [vpu_bufs EXCEPT ![c] = @ \cup {out.buf}]

IsRunning(c) == c \in Contexts /\ ctx_state[c] = "running"

(* A slip: the context that used the surface last is taken for the one     *)
(* that made its frame.                                                    *)
LastUser(s) == context_id[s]

(* output_context_id: the decoder whose buffer the surface shows.          *)
Owner(s) == frame[s].ctx

HasFrame(s) == frame[s] # NoOutput

(* The decoder that made a frame can be handed its buffer now.             *)
OwnerQuiet(c) == IsRunning(c) /\ ~sync_active[c] /\ ~decode_picture_active[c]

(* hobot_retain_context_surface_usage on each surface of S.                *)
RetainUsage(c, S) ==
    [s \in Surfaces |->
        IF s \in S /\ allocated[s] THEN context_usage_mask[s] \cup {c}
                                   ELSE context_usage_mask[s]]

(* A slip: nobody is woken.                                                *)
WakeNobody == UNCHANGED waiters

(* hobot_signal_sync_waiters.                                              *)
WakeAll == waiters' = {}

(* A slip: the abandoned picture keeps its place.                          *)
KeepLast(c) == UNCHANGED submitted

(* The abandoned render target leaves the FIFO if it is its last entry.    *)
DropLast(c) ==
    LET q == submitted[c]
        n == Len(q)
    IN  submitted' = IF n > 0 /\ q[n] = current_render_target[c]
                     THEN [submitted EXCEPT ![c] = SubSeq(q, 1, n - 1)]
                     ELSE submitted

(* hobot_abort_pending_decode_picture: the render target fails, leaves the *)
(* FIFO if it is still its last entry, and every sleeper is woken.         *)
AbortPicture(c) ==
    LET s == current_render_target[c]
        named == s \in Surfaces /\ allocated[s]
    IN  /\ decode_pending' = IF named THEN [decode_pending EXCEPT ![s] = FALSE]
                                      ELSE decode_pending
        /\ decode_error' = IF named THEN [decode_error EXCEPT ![s] = TRUE]
                                    ELSE decode_error
        /\ DropLast(c)
        /\ current_render_target' = [current_render_target EXCEPT ![c] = NoSurface]
        /\ decode_picture_active' = [decode_picture_active EXCEPT ![c] = FALSE]
        /\ WakeAll

(* A slip: the refused input is kept and nothing says so.                  *)
RecycleInputQuietly(c) ==
    /\ \E refused \in BOOLEAN :
          dec_in_buf' = [dec_in_buf EXCEPT ![c] = IF refused THEN @ ELSE "none"]
    /\ UNCHANGED decode_failed

(* hobot_recycle_decoder_input: an assembled input goes back to the VPU,   *)
(* or is kept and the decoder is poisoned.                                 *)
RecycleInput(c) ==
    \/ /\ dec_in_buf' = [dec_in_buf EXCEPT ![c] = "none"]
       /\ UNCHANGED decode_failed
    \/ /\ dec_in_buf[c] # "none"
       /\ decode_failed' = [decode_failed EXCEPT ![c] = TRUE]
       /\ UNCHANGED dec_in_buf

-----------------------------------------------------------------------------
(* Surfaces and contexts.                                                  *)

(* vaCreateSurfaces2 hands out a cleared slot.                             *)
CreateSurface(s) ==
    /\ Free
    /\ ~allocated[s]
    /\ allocated' = [allocated EXCEPT ![s] = TRUE]
    /\ decode_pending' = [decode_pending EXCEPT ![s] = FALSE]
    /\ decode_error' = [decode_error EXCEPT ![s] = FALSE]
    /\ frame' = [frame EXCEPT ![s] = NoOutput]
    /\ context_id' = [context_id EXCEPT ![s] = NoContext]
    /\ context_usage_mask' = [context_usage_mask EXCEPT ![s] = {}]
    /\ lock_count' = [lock_count EXCEPT ![s] = 0]
    /\ UNCHANGED <<ctxVars, vpuVars, thrVars>>

(* What vaDestroySurfaces requires of every surface of its list before it  *)
(* touches any.                                                            *)
Destroyable(s) ==
    /\ allocated[s]
    /\ context_usage_mask[s] = {}
    /\ lock_count[s] = 0
    /\ \A c \in Contexts :
          (c = context_id[s] \/ (HasFrame(s) /\ c = Owner(s)))
             => ~sync_active[c] /\ ~decode_picture_active[c]

(* vaDestroySurfaces on the list S.  Freed are the surfaces whose buffers  *)
(* could be released: a pending one is kept, a frame goes back to a        *)
(* running owner first, and a failed release (the surfaces of S \ freed)   *)
(* keeps the slot.  `stuck' are those whose frame the owner refused.       *)
DestroySurfaces(S) ==
    /\ Free
    /\ \A s \in S : Destroyable(s)
    /\ \E freed \in SUBSET {s \in S : ~decode_pending[s]} :
       \E stuck \in SUBSET {s \in S \ freed : HasFrame(s) /\ IsRunning(Owner(s))} :
          LET emptied == {s \in S : HasFrame(s) /\ ~decode_pending[s]} \ stuck
          IN  /\ allocated' = [s \in Surfaces |-> allocated[s] /\ s \notin freed]
              /\ frame' = [s \in Surfaces |->
                             IF s \in emptied THEN NoOutput ELSE frame[s]]
              /\ decode_pending' = [s \in Surfaces |-> decode_pending[s] /\ s \notin freed]
              /\ decode_error' = [s \in Surfaces |->
                             IF s \in freed THEN FALSE
                             ELSE decode_error[s] \/ s \in stuck]
              /\ context_id' = [s \in Surfaces |->
                             IF s \in freed THEN NoContext ELSE context_id[s]]
              /\ vpu_bufs' = [c \in Contexts |-> vpu_bufs[c] \cup
                             IF IsRunning(c)
                             THEN {frame[s].buf : s \in {x \in emptied : Owner(x) = c}}
                             ELSE {}]
    /\ UNCHANGED <<ctxVars, context_usage_mask, lock_count, vpu_queue, thrVars>>

(* vaCreateContext: the slot is cleared, its render targets are retained   *)
(* and the VPU instance is started, except that a JPEG decoder is started  *)
(* by its first picture.                                                   *)
CreateContext(c, T) ==
    /\ Free
    /\ ctx_state[c] = "free"
    /\ \A s \in T : allocated[s]
    /\ \E started \in {"running", "deferred"} :
          ctx_state' = [ctx_state EXCEPT ![c] = started]
    /\ decode_failed' = [decode_failed EXCEPT ![c] = FALSE]
    /\ sync_active' = [sync_active EXCEPT ![c] = FALSE]
    /\ decode_picture_active' = [decode_picture_active EXCEPT ![c] = FALSE]
    /\ current_render_target' = [current_render_target EXCEPT ![c] = NoSurface]
    /\ submitted' = [submitted EXCEPT ![c] = << >>]
    /\ dec_out_buf' = [dec_out_buf EXCEPT ![c] = NoOutput]
    /\ dec_in_buf' = [dec_in_buf EXCEPT ![c] = "none"]
    /\ context_usage_mask' = RetainUsage(c, T)
    /\ vpu_queue' = [vpu_queue EXCEPT ![c] = << >>]
    /\ vpu_bufs' = [vpu_bufs EXCEPT ![c] = OutBufs]
    /\ UNCHANGED <<allocated, decode_pending, decode_error, frame, context_id,
                   lock_count, thrVars>>

(* A slip: locks count only on the surfaces the context used last.         *)
HasLockedTargets(c) ==
    \E s \in Surfaces : allocated[s] /\ lock_count[s] > 0 /\ context_id[s] = c

(* hobot_context_has_locked_surfaces.                                      *)
HasLockedSurfaces(c) ==
    \E s \in Surfaces :
        /\ allocated[s] /\ lock_count[s] > 0
        /\ context_id[s] = c \/ (HasFrame(s) /\ Owner(s) = c)

(* A slip: the sync in progress is not looked at.                          *)
DestroysDuringSync(c) ==
    ctx_state[c] # "free" /\ ~decode_picture_active[c] /\ ~HasLockedSurfaces(c)

MayDestroyContext(c) ==
    /\ ctx_state[c] # "free"
    /\ ~sync_active[c] /\ ~decode_picture_active[c]
    /\ ~HasLockedSurfaces(c)

(* A slip: the frames are looked for by the context that used them last.   *)
FramesLastUsedBy(c) == {s \in Surfaces : allocated[s] /\ HasFrame(s) /\ context_id[s] = c}

FramesOf(c) == {s \in Surfaces : allocated[s] /\ HasFrame(s) /\ Owner(s) = c}

(* hobot_detach_context_surfaces, after the frames have gone.              *)
Detach(c) ==
    LET lost == {s \in Surfaces : allocated[s] /\ context_id[s] = c}
    IN  /\ context_usage_mask' = [s \in Surfaces |-> context_usage_mask[s] \ {c}]
        /\ decode_error' = [s \in Surfaces |->
                              decode_error[s] \/ (s \in lost /\ decode_pending[s])]
        /\ decode_pending' = [s \in Surfaces |-> decode_pending[s] /\ s \notin lost]
        /\ context_id' = [s \in Surfaces |->
                              IF s \in lost THEN NoContext ELSE context_id[s]]
        /\ frame' = [s \in Surfaces |->
                              IF s \in FramesOf(c) THEN NoOutput ELSE frame[s]]

(* vaDestroyContext when every buffer could be returned, the instance      *)
(* stopped and was released.                                               *)
DestroyContext(c) ==
    /\ Free
    /\ MayDestroyContext(c)
    /\ Detach(c)
    /\ ctx_state' = [ctx_state EXCEPT ![c] = "free"]
    /\ dec_out_buf' = [dec_out_buf EXCEPT ![c] = NoOutput]
    /\ dec_in_buf' = [dec_in_buf EXCEPT ![c] = "none"]
    /\ vpu_queue' = [vpu_queue EXCEPT ![c] = << >>]
    /\ vpu_bufs' = [vpu_bufs EXCEPT ![c] = {}]
    /\ UNCHANGED <<decode_failed, sync_active, decode_picture_active,
                   current_render_target, submitted, allocated, lock_count, thrVars>>

(* vaDestroyContext on a running decoder that stops half way: the buffers  *)
(* the VPU took back are gone from the driver, a surface whose frame was   *)
(* refused is in error, and the context stays, running, or stopped when    *)
(* only the release failed.                                                *)
DestroyContextFails(c) ==
    /\ Free
    /\ MayDestroyContext(c)
    /\ IsRunning(c)
    /\ \E outOk, inOk \in BOOLEAN, kept \in SUBSET FramesOf(c) :
          LET back == FramesOf(c) \ kept
              all  == outOk /\ inOk /\ kept = {}
          IN  /\ dec_out_buf' = IF outOk THEN [dec_out_buf EXCEPT ![c] = NoOutput]
                                         ELSE dec_out_buf
              /\ dec_in_buf' = IF inOk THEN [dec_in_buf EXCEPT ![c] = "none"]
                                       ELSE dec_in_buf
              /\ frame' = [s \in Surfaces |-> IF s \in back THEN NoOutput ELSE frame[s]]
              /\ decode_error' = [s \in Surfaces |-> decode_error[s] \/ s \in kept]
              /\ vpu_bufs' = [vpu_bufs EXCEPT ![c] = @ \cup {frame[s].buf : s \in back}
                                \cup IF outOk /\ dec_out_buf[c] # NoOutput
                                     THEN {dec_out_buf[c].buf} ELSE {}]
              /\ \/ UNCHANGED ctx_state
                 \/ all /\ ctx_state' = [ctx_state EXCEPT ![c] = "stopped"]
    /\ UNCHANGED <<decode_failed, sync_active, decode_picture_active,
                   current_render_target, submitted, allocated, decode_pending,
                   context_id, context_usage_mask, lock_count, vpu_queue, thrVars>>

-----------------------------------------------------------------------------
(* CPU access, as far as the decoder can see it.                           *)

(* vaLockSurface and vaDeriveImage on a surface that needs no sync: the    *)
(* frame the CPU now reads must stay.                                      *)
LockSurface(s) ==
    /\ Free
    /\ allocated[s] /\ ~decode_pending[s] /\ ~decode_error[s]
    /\ lock_count[s] < MaxLocks
    /\ lock_count' = [lock_count EXCEPT ![s] = @ + 1]
    /\ UNCHANGED <<ctxVars, allocated, decode_pending, decode_error, frame,
                   context_id, context_usage_mask, vpuVars, thrVars>>

(* vaUnlockSurface and vaDestroyImage of a derived image.                  *)
UnlockSurface(s) ==
    /\ Free
    /\ allocated[s] /\ lock_count[s] > 0
    /\ lock_count' = [lock_count EXCEPT ![s] = @ - 1]
    /\ UNCHANGED <<ctxVars, allocated, decode_pending, decode_error, frame,
                   context_id, context_usage_mask, vpuVars, thrVars>>

(* vaBeginPicture of an encoder on surface s: a decoder's frame stays,     *)
(* while context_id now names an encoder, so none of Contexts.             *)
EncoderTakes(s) ==
    /\ Free
    /\ allocated[s] /\ lock_count[s] = 0 /\ ~decode_pending[s]
    /\ context_id' = [context_id EXCEPT ![s] = NoContext]
    /\ UNCHANGED <<ctxVars, allocated, decode_pending, decode_error, frame,
                   context_usage_mask, lock_count, vpuVars, thrVars>>

(* vaPutImage replaces a decoded frame by uploaded pixels, so the VPU gets *)
(* its buffer back; if it refuses the decoder is poisoned.                 *)
PutImage(s) ==
    /\ Free
    /\ allocated[s] /\ lock_count[s] = 0 /\ ~decode_pending[s] /\ ~decode_error[s]
    /\ HasFrame(s)
    /\ OwnerQuiet(Owner(s))
    /\ \/ /\ GiveBack(Owner(s), frame[s])
          /\ frame' = [frame EXCEPT ![s] = NoOutput]
          /\ UNCHANGED decode_failed
       \/ /\ decode_failed' = [decode_failed EXCEPT ![Owner(s)] = TRUE]
          /\ UNCHANGED <<frame, vpu_bufs>>
    /\ UNCHANGED <<ctx_state, sync_active, decode_picture_active,
                   current_render_target, submitted, dec_out_buf, dec_in_buf,
                   allocated, decode_pending, decode_error, context_id,
                   context_usage_mask, lock_count, vpu_queue, thrVars>>

-----------------------------------------------------------------------------
(* vaRenderPicture and vaEndPicture of a decoder.                          *)

(* The checks vaRenderPicture and vaEndPicture share.                      *)
PictureOpen(c) ==
    /\ ctx_state[c] # "free"
    /\ ~sync_active[c]
    /\ ~decode_failed[c]
    /\ decode_picture_active[c]

(* vaRenderPicture: the picture's surfaces are retained, a JPEG decoder is *)
(* started, an input buffer is obtained if there is none, and slices are   *)
(* appended; the last one may be a fragment still open.                    *)
RenderPicture(c) ==
    /\ Free
    /\ PictureOpen(c)
    /\ ctx_state[c] \in {"running", "deferred"}
    /\ \E R \in RefSets : context_usage_mask' = RetainUsage(c, R)
    /\ ctx_state' = [ctx_state EXCEPT ![c] = "running"]
    /\ \E filled \in {"open", "whole"} :
          dec_in_buf' = [dec_in_buf EXCEPT ![c] = filled]
    /\ UNCHANGED <<decode_failed, sync_active, decode_picture_active,
                   current_render_target, submitted, dec_out_buf, allocated,
                   decode_pending, decode_error, frame, context_id, lock_count,
                   vpuVars, thrVars>>

(* vaRenderPicture gives up the picture: the decoder does not start, no    *)
(* input buffer comes, or the slices do not fit the one that came, which   *)
(* is then returned to the VPU or, when that fails too, kept.              *)
RenderPictureAborts(c) ==
    /\ Free
    /\ PictureOpen(c)
    /\ ctx_state[c] \in {"running", "deferred"}
    /\ \E R \in RefSets : context_usage_mask' = RetainUsage(c, R)
    /\ \/ /\ ctx_state[c] = "deferred"
          /\ \/ /\ ctx_state' = [ctx_state EXCEPT ![c] = "stopped"]
                /\ decode_failed' = [decode_failed EXCEPT ![c] = TRUE]
             \/ UNCHANGED <<ctx_state, decode_failed>>
          /\ UNCHANGED dec_in_buf
       \/ /\ ctx_state' = [ctx_state EXCEPT ![c] = "running"]
          /\ \/ /\ dec_in_buf' = [dec_in_buf EXCEPT ![c] = "none"]
                /\ UNCHANGED decode_failed
             \/ /\ \E filled \in {"open", "whole"} :
                      dec_in_buf' = [dec_in_buf EXCEPT ![c] = filled]
                /\ decode_failed' = [decode_failed EXCEPT ![c] = TRUE]
    /\ AbortPicture(c)
    /\ UNCHANGED <<sync_active, dec_out_buf, allocated, frame, context_id,
                   lock_count, vpuVars, mutex, pc, call, hand>>

(* The VPU takes the assembled picture and every sleeper is woken.         *)
EndPicture(c) ==
    /\ Free
    /\ PictureOpen(c)
    /\ dec_in_buf[c] = "whole"
    /\ dec_in_buf' = [dec_in_buf EXCEPT ![c] = "none"]
    /\ vpu_queue' = [vpu_queue EXCEPT ![c] = Append(@, current_render_target[c])]
    /\ current_render_target' = [current_render_target EXCEPT ![c] = NoSurface]
    /\ decode_picture_active' = [decode_picture_active EXCEPT ![c] = FALSE]
    /\ WakeAll
    /\ UNCHANGED <<ctx_state, decode_failed, sync_active, submitted, dec_out_buf,
                   surfVars, vpu_bufs, mutex, pc, call, hand>>

(* vaEndPicture gives up the picture: nothing was assembled, a fragment is *)
(* open, a JPEG has no room for its end marker, or the VPU refuses the     *)
(* input; a refused input is kept and the decoder poisoned.                *)
EndPictureAborts(c) ==
    /\ Free
    /\ PictureOpen(c)
    /\ \/ RecycleInput(c)
       \/ /\ dec_in_buf[c] = "whole"
          /\ decode_failed' = [decode_failed EXCEPT ![c] = TRUE]
          /\ UNCHANGED dec_in_buf
    /\ AbortPicture(c)
    /\ UNCHANGED <<ctx_state, sync_active, dec_out_buf, allocated, frame,
                   context_id, context_usage_mask, lock_count, vpuVars,
                   mutex, pc, call, hand>>

-----------------------------------------------------------------------------
(* vaBeginPicture.  It sleeps while its context synchronises, and once it  *)
(* may synchronise the surface itself, with the mutex dropped around it.   *)

CallBeginPicture(t, c, s) ==
    /\ pc[t] = "idle"
    /\ pc' = [pc EXCEPT ![t] = "begin"]
    /\ call' = [call EXCEPT ![t] = [NoCall EXCEPT !.op = "begin", !.ctx = c, !.surf = s]]
    /\ UNCHANGED <<ctxVars, surfVars, vpuVars, mutex, waiters, hand>>

Return(t) ==
    /\ pc' = [pc EXCEPT ![t] = "idle"]
    /\ call' = [call EXCEPT ![t] = NoCall]

AtBegin(t) == pc[t] = "begin" /\ Free /\ t \notin waiters

BeginSleeps(t) ==
    /\ AtBegin(t)
    /\ ctx_state[call[t].ctx] # "free"
    /\ sync_active[call[t].ctx]
    /\ waiters' = waiters \cup {t}
    /\ UNCHANGED <<ctxVars, surfVars, vpuVars, mutex, pc, call, hand>>

(* A slip: the CPU's locks are not looked at.                              *)
BeginsLocked(c, s) ==
    /\ ctx_state[c] \in {"running", "deferred"}
    /\ ~decode_failed[c] /\ ~decode_picture_active[c]
    /\ allocated[s]

(* The state checks before the surface's own decode state matters.         *)
MayBegin(c, s) ==
    /\ ctx_state[c] \in {"running", "deferred"}
    /\ ~decode_failed[c]
    /\ ~decode_picture_active[c]
    /\ allocated[s]
    /\ lock_count[s] = 0

(* A slip: one entry more than the ring holds.                             *)
SubmitsPastRing(c, s) ==
    /\ MayBegin(c, s)
    /\ ~decode_pending[s]
    /\ Len(submitted[c]) <= RingSize
    /\ HasFrame(s) => OwnerQuiet(Owner(s))

(* A new picture fits the FIFO and the old frame's owner can take it back. *)
MaySubmit(c, s) ==
    /\ MayBegin(c, s)
    /\ ~decode_pending[s]
    /\ Len(submitted[c]) < RingSize
    /\ HasFrame(s) => OwnerQuiet(Owner(s))

SyncFirst(t) ==
    LET c == call[t].ctx
        s == call[t].surf
    IN  /\ MayBegin(c, s)
        /\ decode_pending[s]
        /\ context_id[s] = c
        /\ call[t].op = "begin"

BeginFails(t) ==
    /\ AtBegin(t)
    /\ LET c == call[t].ctx
       IN  ctx_state[c] # "free" => ~sync_active[c]
    /\ ~MaySubmit(call[t].ctx, call[t].surf)
    /\ ~SyncFirst(t)
    /\ Return(t)
    /\ UNCHANGED <<ctxVars, surfVars, vpuVars, mutex, waiters, hand>>

(* The surface still decodes in this context: leave the mutex, synchronise *)
(* it once and start over.                                                 *)
BeginSyncs(t) ==
    /\ AtBegin(t)
    /\ ~sync_active[call[t].ctx]
    /\ SyncFirst(t)
    /\ pc' = [pc EXCEPT ![t] = "enter"]
    /\ call' = [call EXCEPT ![t].op = "retry"]
    /\ UNCHANGED <<ctxVars, surfVars, vpuVars, mutex, waiters, hand>>

(* Giving the leftover input or the old frame back fails.                  *)
BeginRefused(t) ==
    LET c == call[t].ctx
        s == call[t].surf
    IN  /\ AtBegin(t)
        /\ ~sync_active[c]
        /\ MaySubmit(c, s)
        /\ \/ dec_in_buf[c] # "none" /\ UNCHANGED dec_in_buf
           \/ /\ HasFrame(s)
              /\ dec_in_buf' = [dec_in_buf EXCEPT ![c] = "none"]
        /\ Return(t)
        /\ UNCHANGED <<ctx_state, decode_failed, sync_active, decode_picture_active,
                       current_render_target, submitted, dec_out_buf, surfVars,
                       vpuVars, mutex, waiters, hand>>

(* A leftover input is queued, the old frame goes back to the decoder that *)
(* made it, and the surface becomes this picture's render target and the   *)
(* last entry of the FIFO.                                                 *)
BeginAccepts(t) ==
    LET c == call[t].ctx
        s == call[t].surf
    IN  /\ AtBegin(t)
        /\ ~sync_active[c]
        /\ MaySubmit(c, s)
        /\ dec_in_buf' = [dec_in_buf EXCEPT ![c] = "none"]
        /\ frame' = [frame EXCEPT ![s] = NoOutput]
        /\ IF HasFrame(s) THEN GiveBack(Owner(s), frame[s])
                          ELSE UNCHANGED vpu_bufs
        /\ context_usage_mask' = RetainUsage(c, {s})
        /\ context_id' = [context_id EXCEPT ![s] = c]
        /\ current_render_target' = [current_render_target EXCEPT ![c] = s]
        /\ decode_pending' = [decode_pending EXCEPT ![s] = TRUE]
        /\ decode_error' = [decode_error EXCEPT ![s] = FALSE]
        /\ submitted' = [submitted EXCEPT ![c] = Append(@, s)]
        /\ decode_picture_active' = [decode_picture_active EXCEPT ![c] = TRUE]
        /\ Return(t)
        /\ UNCHANGED <<ctx_state, decode_failed, sync_active, dec_out_buf, allocated,
                       lock_count, vpu_queue, mutex, waiters, hand>>

BeginPicture(t) ==
    \/ BeginSleeps(t)
    \/ BeginFails(t)
    \/ BeginSyncs(t)
    \/ BeginRefused(t)
    \/ BeginAccepts(t)

-----------------------------------------------------------------------------
(* vaSyncSurface (no deadline) and vaSyncSurface2 (deadline).              *)

CallSyncSurface(t, s, timed) ==
    /\ pc[t] = "idle"
    /\ pc' = [pc EXCEPT ![t] = "enter"]
    /\ call' = [call EXCEPT ![t] = [NoCall EXCEPT !.op = "sync", !.surf = s, !.timed = timed]]
    /\ UNCHANGED <<ctxVars, surfVars, vpuVars, mutex, waiters, hand>>

(* The sync of thread t is over; inside vaBeginPicture a success leads     *)
(* back to its start.                                                      *)
SyncReturn(t, ok) ==
    /\ mutex' = NoThread
    /\ hand' = [hand EXCEPT ![t] = NoHand]
    /\ IF ok /\ call[t].op = "retry"
       THEN /\ pc' = [pc EXCEPT ![t] = "begin"]
            /\ call' = [call EXCEPT ![t] = [NoCall EXCEPT !.op = "retry",
                                              !.ctx = call[t].ctx,
                                              !.surf = call[t].surf]]
       ELSE Return(t)

(* hobot_finish_surface_sync.                                              *)
FinishSync(t, c, ok) ==
    /\ sync_active' = [sync_active EXCEPT ![c] = FALSE]
    /\ WakeAll
    /\ SyncReturn(t, ok)

(* The checks made once, on entry.                                         *)
SyncEnter(t) ==
    LET s == call[t].surf
    IN  /\ pc[t] = "enter" /\ Free
        /\ IF ~allocated[s] \/ (lock_count[s] > 0 /\ decode_pending[s])
           THEN /\ SyncReturn(t, FALSE)
                /\ UNCHANGED waiters
           ELSE /\ mutex' = t
                /\ pc' = [pc EXCEPT ![t] = "check"]
                /\ UNCHANGED <<waiters, call, hand>>
        /\ UNCHANGED <<ctxVars, surfVars, vpuVars>>

AtCheck(t) == pc[t] = "check" /\ MayRun(t)

Unsettled(s) == allocated[s] /\ decode_pending[s] /\ ~decode_error[s]

(* The surface is settled, or nothing can settle it.                       *)
SyncGivesUp(t) ==
    LET s == call[t].surf
        c == context_id[s]
    IN  /\ AtCheck(t)
        /\ \/ ~Unsettled(s)
           \/ Unsettled(s) /\ ~IsRunning(c)
           \/ Unsettled(s) /\ IsRunning(c) /\ ~sync_active[c] /\ decode_failed[c]
        /\ SyncReturn(t, allocated[s] /\ ~decode_error[s] /\ ~decode_pending[s])
        /\ UNCHANGED <<ctxVars, surfVars, vpuVars, waiters>>

(* The surface is unsettled and its decoder can be looked at.              *)
OwnerLive(t) ==
    LET s == call[t].surf
        c == context_id[s]
    IN  /\ AtCheck(t)
        /\ Unsettled(s)
        /\ IsRunning(c)
        /\ sync_active[c] \/ ~decode_failed[c]

(* Another thread synchronises this decoder, or a picture is being built.  *)
SyncSleeps(t) ==
    LET c == context_id[call[t].surf]
    IN  /\ OwnerLive(t)
        /\ \/ sync_active[c]
           \/ decode_picture_active[c] /\ dec_out_buf[c] = NoOutput
        /\ mutex' = NoThread
        /\ waiters' = waiters \cup {t}
        /\ call' = [call EXCEPT ![t].cid = c]
        /\ UNCHANGED <<ctxVars, surfVars, vpuVars, pc, hand>>

(* hobot_retry_decoder_output_until: an output kept from an earlier sync   *)
(* is offered again.  On success the checks go on under the same mutex.    *)
SyncRetriesOutput(t) ==
    LET c == context_id[call[t].surf]
    IN  /\ OwnerLive(t)
        /\ ~sync_active[c]
        /\ dec_out_buf[c] # NoOutput
        /\ \E q \in QueueResults(call[t].timed) :
              IF q = "ok"
              THEN /\ GiveBack(c, dec_out_buf[c])
                   /\ dec_out_buf' = [dec_out_buf EXCEPT ![c] = NoOutput]
                   /\ mutex' = t
                   /\ UNCHANGED <<decode_failed, pc, call, hand>>
              ELSE /\ decode_failed' = [decode_failed EXCEPT ![c] = @ \/ q = "fail"]
                   /\ SyncReturn(t, FALSE)
                   /\ UNCHANGED <<vpu_bufs, dec_out_buf>>
        /\ UNCHANGED <<ctx_state, sync_active, decode_picture_active,
                       current_render_target, submitted, dec_in_buf, surfVars,
                       vpu_queue, waiters>>

(* Slips: a condition is missing.                                          *)
StartsAlongside(c) == dec_out_buf[c] = NoOutput /\ ~decode_picture_active[c]
StartsInPicture(c) == ~sync_active[c] /\ dec_out_buf[c] = NoOutput

(* This thread becomes the one that talks to the VPU for its decoder.      *)
MayStartSync(c) ==
    /\ ~sync_active[c]
    /\ dec_out_buf[c] = NoOutput
    /\ ~decode_picture_active[c]

SyncStarts(t) ==
    LET c == context_id[call[t].surf]
    IN  /\ OwnerLive(t)
        /\ MayStartSync(c)
        /\ sync_active' = [sync_active EXCEPT ![c] = TRUE]
        /\ mutex' = t
        /\ pc' = [pc EXCEPT ![t] = "loop"]
        /\ call' = [call EXCEPT ![t].cid = c, ![t].tries = MaxAttempts]
        /\ UNCHANGED <<ctx_state, decode_failed, decode_picture_active,
                       current_render_target, submitted, dec_out_buf, dec_in_buf,
                       surfVars, vpuVars, waiters, hand>>

(* The deadline has passed, before the sync starts or during a sleep.      *)
SyncTooLate(t) ==
    LET c == context_id[call[t].surf]
    IN  /\ OwnerLive(t)
        /\ call[t].timed
        /\ MayStartSync(c)
        /\ SyncReturn(t, FALSE)
        /\ UNCHANGED <<ctxVars, surfVars, vpuVars, waiters>>

(* A slip: a sleep that timed out starts over.                             *)
SleepsAgain(s) == FALSE

TimeoutStands(s) == decode_pending[s] /\ ~decode_error[s]

SleepTimesOut(t) ==
    /\ pc[t] = "check" /\ t \in waiters /\ Free
    /\ call[t].timed
    /\ waiters' = waiters \ {t}
    /\ IF TimeoutStands(call[t].surf)
       THEN SyncReturn(t, FALSE)
       ELSE /\ mutex' = t
            /\ UNCHANGED <<pc, call, hand>>
    /\ UNCHANGED <<ctxVars, surfVars, vpuVars>>

-----------------------------------------------------------------------------
(* The syncing thread's loop.  The mutex is held from SyncStarts, and from *)
(* each SyncResumes, to the next SyncUnlocks or FinishSync.                *)

AtLoop(t) == pc[t] = "loop" /\ mutex = t

(* A slip: the output is taken to be what this thread waits for.           *)
AskedTarget(t) == call[t].surf

(* The surface whose picture the next output is taken to be.               *)
NextTarget(t) ==
    LET q == submitted[call[t].cid]
    IN  IF q # << >> THEN Head(q) ELSE call[t].surf

(* A slip: one attempt too many.                                           *)
AttemptsOverrun(t) == ~call[t].timed /\ call[t].tries + 1 = 0

(* max_attempts counts only where no deadline limits the sync.             *)
AttemptsSpent(t) == ~call[t].timed /\ call[t].tries = 0

(* A slip: the attempts are not counted.                                   *)
UncountedTries(t) == call[t].tries

TriesLeft(t) == IF call[t].timed THEN call[t].tries ELSE call[t].tries - 1

LoopDone(t) ==
    \/ HasFrame(call[t].surf)
    \/ decode_error[call[t].surf]
    \/ AttemptsSpent(t)

SyncDone(t) ==
    /\ AtLoop(t)
    /\ LoopDone(t)
    /\ FinishSync(t, call[t].cid, HasFrame(call[t].surf))
    /\ UNCHANGED <<ctx_state, decode_failed, decode_picture_active,
                   current_render_target, submitted, dec_out_buf, dec_in_buf,
                   surfVars, vpuVars>>

(* The decoder that made the target's old frame can take it back; for the  *)
(* decoder being synchronised its own sync is no obstacle.                 *)
MayEmptyTarget(c, s) ==
    HasFrame(s) =>
        IsRunning(Owner(s)) /\ (Owner(s) = c \/ OwnerQuiet(Owner(s)))

(* The loop stops without an answer: the target is gone (which poisons the *)
(* decoder), the CPU holds it, or its old frame cannot be given back, or   *)
(* the deadline has passed.                                                *)
SyncBreaks(t) ==
    LET c == call[t].cid
        s == NextTarget(t)
    IN  /\ AtLoop(t)
        /\ ~LoopDone(t)
        /\ \/ /\ ~allocated[s]
              /\ decode_failed' = [decode_failed EXCEPT ![c] = TRUE]
           \/ /\ allocated[s]
              /\ lock_count[s] > 0 \/ HasFrame(s) \/ call[t].timed
              /\ UNCHANGED decode_failed
        /\ FinishSync(t, c, FALSE)
        /\ UNCHANGED <<ctx_state, decode_picture_active, current_render_target,
                       submitted, dec_out_buf, dec_in_buf, surfVars, vpuVars>>

(* The target is ready for an output: the mutex is dropped for the VPU.    *)
SyncUnlocks(t) ==
    LET c == call[t].cid
        s == NextTarget(t)
    IN  /\ AtLoop(t)
        /\ ~LoopDone(t)
        /\ allocated[s]
        /\ lock_count[s] = 0
        /\ MayEmptyTarget(c, s)
        /\ frame' = [frame EXCEPT ![s] = NoOutput]
        /\ IF HasFrame(s) THEN GiveBack(Owner(s), frame[s])
                          ELSE UNCHANGED vpu_bufs
        /\ mutex' = NoThread
        /\ pc' = [pc EXCEPT ![t] = "dequeue"]
        /\ call' = [call EXCEPT ![t].target = s,
                                ![t].tries = TriesLeft(t)]
        /\ UNCHANGED <<ctxVars, allocated, decode_pending, decode_error, context_id,
                       context_usage_mask, lock_count, vpu_queue, waiters, hand>>

(* hb_mm_mc_dequeue_output_buffer, with no mutex held: nothing in time, an *)
(* error, an answer without a buffer, a buffer without a valid picture     *)
(* (during renegotiation), or the oldest picture, corrupt or good.         *)
VpuSilent(t) ==
    /\ pc[t] = "dequeue"
    /\ \E r \in {"timeout", "error", "empty"} :
          hand' = [hand EXCEPT ![t] = [reply |-> r, out |-> NoOutput]]
    /\ pc' = [pc EXCEPT ![t] = "resume"]
    /\ UNCHANGED <<ctxVars, surfVars, vpuVars, mutex, waiters, call>>

VpuHollow(t) ==
    LET c == call[t].cid
    IN  /\ pc[t] = "dequeue"
        /\ \E b \in vpu_bufs[c], s \in Surfaces :
              /\ hand' = [hand EXCEPT ![t] =
                            [reply |-> "hollow", out |-> [buf |-> b, pic |-> s, ctx |-> c]]]
              /\ vpu_bufs' = [vpu_bufs EXCEPT ![c] = @ \ {b}]
        /\ pc' = [pc EXCEPT ![t] = "resume"]
        /\ UNCHANGED <<ctxVars, surfVars, vpu_queue, mutex, waiters, call>>

VpuOutputs(t) ==
    LET c == call[t].cid
    IN  /\ pc[t] = "dequeue"
        /\ vpu_queue[c] # << >>
        /\ \E b \in vpu_bufs[c], r \in {"bad", "frame"} :
              /\ hand' = [hand EXCEPT ![t] =
                            [reply |-> r,
                             out |-> [buf |-> b, pic |-> Head(vpu_queue[c]), ctx |-> c]]]
              /\ vpu_bufs' = [vpu_bufs EXCEPT ![c] = @ \ {b}]
        /\ vpu_queue' = [vpu_queue EXCEPT ![c] = Tail(@)]
        /\ pc' = [pc EXCEPT ![t] = "resume"]
        /\ UNCHANGED <<ctxVars, surfVars, mutex, waiters, call>>

AtResume(t) == pc[t] = "resume" /\ Free

(* What the syncing thread left behind when it dropped the mutex.          *)
StillMine(t) ==
    LET c == call[t].cid
        s == call[t].surf
    IN  /\ ctx_state[c] = "running" /\ sync_active[c]
        /\ allocated[s] /\ context_id[s] = c /\ decode_pending[s]

(* Nothing to keep: try again.                                             *)
SyncRepeats(t) ==
    /\ AtResume(t)
    /\ StillMine(t)
    /\ hand[t].reply \in {"timeout", "empty"}
    /\ mutex' = t
    /\ pc' = [pc EXCEPT ![t] = "loop"]
    /\ hand' = [hand EXCEPT ![t] = NoHand]
    /\ UNCHANGED <<ctxVars, surfVars, vpuVars, waiters, call>>

(* The sync is lost.  Either the world changed under the dequeue, and what  *)
(* it returned is forgotten, or the dequeue failed, and every picture the  *)
(* decoder still holds is in error; those stay pending.                    *)
SyncLost(t) ==
    LET c == call[t].cid
        s == call[t].surf
        q == submitted[c]
        mine == {x \in Surfaces : /\ allocated[x] /\ decode_pending[x]
                                  /\ context_id[x] = c
                                  /\ \E i \in 1 .. Len(q) : q[i] = x}
    IN  /\ AtResume(t)
        /\ ~StillMine(t) \/ hand[t].reply = "error"
        /\ decode_failed' = [decode_failed EXCEPT ![c] = TRUE]
        /\ decode_error' = [x \in Surfaces |->
              \/ decode_error[x]
              \/ x = s /\ allocated[s] /\ decode_pending[s]
              \/ x \in mine /\ StillMine(t)]
        /\ FinishSync(t, c, FALSE)
        /\ UNCHANGED <<ctx_state, decode_picture_active, current_render_target,
                       submitted, dec_out_buf, dec_in_buf, allocated,
                       decode_pending, frame, context_id, context_usage_mask,
                       lock_count, vpuVars>>

(* hobot_recycle_decoder_output_until and what follows it: back to the     *)
(* VPU and on with the loop, or kept in dec_out_buf (if that is free) and  *)
(* the sync ends; a refusal that is no timeout poisons the decoder.        *)
RecycleOutput(t, c, out) ==
    \E q \in QueueResults(call[t].timed) :
        IF q = "ok"
        THEN /\ GiveBack(c, out)
             /\ mutex' = t
             /\ pc' = [pc EXCEPT ![t] = "loop"]
             /\ hand' = [hand EXCEPT ![t] = NoHand]
             /\ UNCHANGED <<decode_failed, sync_active, dec_out_buf, waiters, call>>
        ELSE /\ dec_out_buf' = IF dec_out_buf[c] = NoOutput
                               THEN [dec_out_buf EXCEPT ![c] = out]
                               ELSE dec_out_buf
             /\ decode_failed' = [decode_failed EXCEPT ![c] =
                                    @ \/ dec_out_buf[c] # NoOutput \/ q = "fail"]
             /\ FinishSync(t, c, FALSE)
             /\ UNCHANGED vpu_bufs

SyncDropsHollow(t) ==
    /\ AtResume(t)
    /\ StillMine(t)
    /\ hand[t].reply = "hollow"
    /\ RecycleOutput(t, call[t].cid, hand[t].out)
    /\ UNCHANGED <<ctx_state, decode_picture_active, current_render_target,
                   submitted, dec_in_buf, surfVars, vpu_queue>>

(* A slip: the head of the FIFO is only read.                              *)
PeekSubmitted(c) == UNCHANGED submitted

PopSubmitted(c) ==
    submitted' = IF submitted[c] = << >> THEN submitted
                 ELSE [submitted EXCEPT ![c] = Tail(@)]

(* A failed JPEG or a corrupt picture: the target gets an error, the VPU   *)
(* its buffer.                                                             *)
SyncDropsBad(t) ==
    LET c == call[t].cid
        s == call[t].target
        hit == allocated[s] /\ decode_pending[s]
    IN  /\ AtResume(t)
        /\ StillMine(t)
        /\ hand[t].reply = "bad"
        /\ PopSubmitted(c)
        /\ decode_pending' = [decode_pending EXCEPT ![s] = @ /\ ~hit]
        /\ decode_error' = [decode_error EXCEPT ![s] = @ \/ hit]
        /\ RecycleOutput(t, c, hand[t].out)
        /\ UNCHANGED <<ctx_state, decode_picture_active, current_render_target,
                       dec_in_buf, allocated, frame, context_id,
                       context_usage_mask, lock_count, vpu_queue>>

(* A good picture becomes the target's frame.                              *)
SyncKeepsFrame(t) ==
    LET c == call[t].cid
        s == call[t].target
    IN  /\ AtResume(t)
        /\ StillMine(t)
        /\ hand[t].reply = "frame"
        /\ PopSubmitted(c)
        /\ IF allocated[s]
           THEN /\ frame' = [frame EXCEPT ![s] = hand[t].out]
                /\ decode_pending' = [decode_pending EXCEPT ![s] = FALSE]
                /\ decode_error' = [decode_error EXCEPT ![s] = FALSE]
           ELSE UNCHANGED <<frame, decode_pending, decode_error>>
        /\ mutex' = t
        /\ pc' = [pc EXCEPT ![t] = "loop"]
        /\ hand' = [hand EXCEPT ![t] = NoHand]
        /\ UNCHANGED <<ctx_state, decode_failed, sync_active, decode_picture_active,
                       current_render_target, dec_out_buf, dec_in_buf, allocated,
                       context_id, context_usage_mask, lock_count, vpuVars,
                       waiters, call>>

SyncChecks(t) ==
    \/ SyncEnter(t)
    \/ SyncGivesUp(t)
    \/ SyncSleeps(t)
    \/ SyncRetriesOutput(t)
    \/ SyncStarts(t)
    \/ SyncTooLate(t)
    \/ SleepTimesOut(t)

SyncLoops(t) ==
    \/ SyncDone(t)
    \/ SyncBreaks(t)
    \/ SyncUnlocks(t)

VpuAnswers(t) == VpuSilent(t) \/ VpuHollow(t) \/ VpuOutputs(t)

SyncResumes(t) ==
    \/ SyncLost(t)
    \/ SyncRepeats(t)
    \/ SyncDropsHollow(t)
    \/ SyncDropsBad(t)
    \/ SyncKeepsFrame(t)

ThreadStep(t) ==
    BeginPicture(t) \/ SyncChecks(t) \/ SyncLoops(t) \/ VpuAnswers(t) \/ SyncResumes(t)

ContextCall(c) ==
    \/ \E T \in TargetSets : CreateContext(c, T)
    \/ DestroyContext(c)
    \/ DestroyContextFails(c)
    \/ RenderPicture(c)
    \/ RenderPictureAborts(c)
    \/ EndPicture(c)
    \/ EndPictureAborts(c)

SurfaceCall(s) ==
    \/ CreateSurface(s)
    \/ LockSurface(s)
    \/ UnlockSurface(s)
    \/ EncoderTakes(s)
    \/ PutImage(s)

Next ==
    \/ \E t \in Threads : ThreadStep(t)
    \/ \E t \in Threads, s \in Surfaces :
          \/ \E timed \in BOOLEAN : CallSyncSurface(t, s, timed)
          \/ \E c \in Contexts : CallBeginPicture(t, c, s)
    \/ \E c \in Contexts : ContextCall(c)
    \/ \E s \in Surfaces : SurfaceCall(s)
    \/ \E S \in SUBSET Surfaces : S # {} /\ DestroySurfaces(S)

Spec == Init /\ [][Next]_vars

(* What ends a call whose deadline has passed.                             *)
DeadlinePasses(t) ==
    /\ call[t].timed
    /\ SyncTooLate(t) \/ SleepTimesOut(t) \/ SyncBreaks(t)

(* The fairness liveness needs: a thread that can go on does (the kernel   *)
(* grants the mutex to each that waits for it, and the dequeue, which has  *)
(* a timeout, returns), time passes, and the application ends the picture  *)
(* it began.                                                               *)
LiveSpec ==
    /\ Spec
    /\ \A t \in Threads : SF_vars(ThreadStep(t)) /\ SF_vars(DeadlinePasses(t))
    /\ \A c \in Contexts : SF_vars(EndPicture(c) \/ EndPictureAborts(c))

-----------------------------------------------------------------------------
(* Safety.                                                                 *)

(* Thread t synchronises decoder c: it set sync_active and has yet to      *)
(* clear it.                                                               *)
Syncing(t, c) == pc[t] \in {"loop", "dequeue", "resume"} /\ call[t].cid = c

(* sync_active is set exactly while one thread talks to the VPU for that   *)
(* decoder, so no early return leaves the flag behind and no two threads   *)
(* dequeue from one instance.                                              *)
OneSyncer ==
    \A c \in Contexts :
        /\ sync_active[c] <=> \E t \in Threads : Syncing(t, c)
        /\ \A t, u \in Threads : Syncing(t, c) /\ Syncing(u, c) => t = u

(* No picture is being assembled for a decoder that is synchronised, so    *)
(* the FIFO entry the syncing thread remembers across the unlock is still  *)
(* the head when it comes back.                                            *)
SyncExcludesPicture ==
    \A c \in Contexts : sync_active[c] =>
        /\ ~decode_picture_active[c]
        /\ \A t \in Threads :
              Syncing(t, c) /\ pc[t] # "loop" => call[t].target = NextTarget(t)

(* The recheck after the unlocked dequeue (hobot_drv_video.c:11673-11679)  *)
(* never fails: other threads cannot destroy, re-own, reuse or settle the  *)
(* surface or stop its decoder meanwhile, so no dequeued buffer is lost.   *)
SurfaceStaysMine ==
    \A t \in Threads : pc[t] \in {"loop", "dequeue", "resume"} =>
        /\ ctx_state[call[t].cid] = "running"
        /\ allocated[call[t].surf]
        /\ pc[t] # "loop" => StillMine(t) /\ ~decode_error[call[t].surf]

(* The message "decoder output ownership invariant violated" is never      *)
(* printed: a thread that may have an output to keep finds dec_out_buf     *)
(* empty, whatever earlier syncs left there.                               *)
RetainedSlotFree ==
    \A t \in Threads, c \in Contexts : Syncing(t, c) => dec_out_buf[c] = NoOutput

(* The FIFO of a live decoder holds exactly the surfaces that decode in    *)
(* it, each once, and none of them shows a frame.                          *)
FifoIsPending ==
    \A c \in Contexts : ctx_state[c] # "free" =>
        LET q == submitted[c]
        IN  /\ \A i, j \in 1 .. Len(q) : q[i] = q[j] => i = j
            /\ Len(q) <= RingSize
            /\ {q[i] : i \in 1 .. Len(q)} =
                   {s \in Surfaces : decode_pending[s] /\ context_id[s] = c}

PendingIsClean ==
    \A s \in Surfaces : decode_pending[s] =>
        /\ allocated[s] /\ frame[s] = NoOutput /\ lock_count[s] = 0
        /\ context_id[s] \in Contexts /\ ctx_state[context_id[s]] # "free"
        /\ context_id[s] \in context_usage_mask[s]

(* What thread t took from decoder c and has not yet paired, if anything.  *)
InHand(c) ==
    LET T == {t \in Threads : Syncing(t, c) /\ hand[t].reply \in {"bad", "frame"}}
    IN  IF T = {} THEN << >> ELSE << hand[CHOOSE t \in T : TRUE].out.pic >>

(* In a healthy decoder the FIFO is the picture in a thread's hand, then   *)
(* what the VPU still decodes, then the picture being assembled.  This is  *)
(* why an output can be given to the surface at the FIFO's head.           *)
FifoMatchesVpu ==
    \A c \in Contexts : IsRunning(c) /\ ~decode_failed[c] =>
        submitted[c] = InHand(c) \o vpu_queue[c] \o
            (IF decode_picture_active[c] THEN << current_render_target[c] >> ELSE << >>)

(* A surface shows its own picture, whatever was aborted, dropped, timed   *)
(* out or synchronised by whom in between.                                 *)
FramesAreOwn == \A s \in Surfaces : frame[s] # NoOutput => frame[s].pic = s

(* The places the output buffer b of decoder c is in.                      *)
HeldBy(o, b, c) == o # NoOutput /\ o.buf = b /\ o.ctx = c
Places(b, c) ==
    {<<"surface", s>> : s \in {x \in Surfaces : HeldBy(frame[x], b, c)}}
    \cup {<<"hand", t>> : t \in {x \in Threads : HeldBy(hand[x].out, b, c)}}
    \cup {<<"kept", d>> : d \in {x \in Contexts : HeldBy(dec_out_buf[x], b, c)}}
    \cup {<<"vpu", d>> : d \in {x \in {c} : b \in vpu_bufs[x]}}

(* Every output buffer of a running decoder is in one place: no refused    *)
(* recycle, drop, timeout or reuse leaks one or returns one twice.         *)
BuffersConserved ==
    \A c \in Contexts, b \in OutBufs :
        ctx_state[c] = "running" => Cardinality(Places(b, c)) = 1

(* A frame's decoder is alive and running: the surface cannot be destroyed *)
(* under it, and a buffer is never returned to a stopped instance.         *)
FrameOwnerRuns ==
    \A s \in Surfaces : frame[s] # NoOutput =>
        /\ allocated[s]
        /\ ctx_state[frame[s].ctx] = "running"
        /\ frame[s].ctx \in context_usage_mask[s]

(* An assembled input outlives its picture only in a poisoned decoder, so  *)
(* no later picture of this context ever submits it.                       *)
NoLeftoverInput ==
    \A c \in Contexts :
        ctx_state[c] # "free" /\ dec_in_buf[c] # "none" =>
            decode_picture_active[c] \/ decode_failed[c]

(* A frame the CPU has locked stays in its surface, whichever thread       *)
(* begins, synchronises, uploads or destroys.                              *)
LockedFrameStays ==
    [][\A s \in Surfaces : lock_count[s] > 0 => frame'[s] = frame[s]]_vars

(* A picture left open in a poisoned decoder: RenderPicture and EndPicture *)
(* refuse it before they look at it (see PoisonedCanBeTornDown).           *)
Wedged(c) == decode_failed[c] /\ decode_picture_active[c]

(* A thread asleep on sync_cond is woken, unless its decoder is wedged.    *)
SleepersWake ==
    \A t \in Threads : t \in waiters ~> t \notin waiters \/ \E c \in Contexts : Wedged(c)

(* vaSyncSurface2 returns, wedged or not.                                  *)
TimedSyncReturns ==
    \A t \in Threads : call[t].timed ~> pc[t] = "idle"

(* A decoder does not stay synchronised: the thread that set sync_active   *)
(* clears it after its attempts or its deadline.                           *)
SyncEnds == \A c \in Contexts : sync_active[c] ~> ~sync_active[c]

(* What the application sees of a surface's picture.                       *)
Shown(s) ==
    CASE decode_pending[s] /\ ~decode_error[s] -> "decoding"
      [] decode_pending[s] /\ decode_error[s]  -> "failing"
      [] ~decode_pending[s] /\ decode_error[s] -> "failed"
      [] OTHER -> IF HasFrame(s) THEN "shown" ELSE "none"

Promise == INSTANCE PictureOrder WITH
    order  <- [c \in Contexts |-> IF ctx_state[c] = "free" THEN << >> ELSE submitted[c]],
    result <- [s \in Surfaces |-> Shown(s)]

(* The protocol keeps the promise of PictureOrder: whichever thread gets   *)
(* an output, and whatever was retried, dropped or abandoned before, the   *)
(* pictures of a context are resolved once each and in order.              *)
ResolvedInOrder == Promise!OrderSpec

(* hobot_drv_video.c:11493-11494, "retain the dequeued buffer and poison   *)
(* this decoder until teardown": a poisoned decoder can be torn down, so   *)
(* it is not left inside a picture that no call can end any more.          *)
PoisonedCanBeTornDown ==
    \A c \in Contexts :
        ctx_state[c] # "free" /\ decode_failed[c] => ~decode_picture_active[c]

=============================================================================
