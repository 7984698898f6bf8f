--------------------------- MODULE DecodeSyncInv ---------------------------
(***************************************************************************)
(* The inductive invariant of DecodeSync: what the safety invariants need  *)
(* beside themselves to be preserved by every step.                        *)
(***************************************************************************)
EXTENDS DecodeSync

(* A thread's locals are set before the step that reads them, and a buffer *)
(* is in its hand whenever the VPU's answer says so.                       *)
LocalsSet(p, k, h) ==
    /\ p # "idle" => k.surf \in Surfaces
    /\ p = "begin" => k.ctx \in Contexts
    /\ k.op \in {"begin", "retry"} => k.ctx \in Contexts
    /\ p \in {"loop", "dequeue", "resume"} => k.cid \in Contexts
    /\ p \in {"dequeue", "resume"} => k.target \in Surfaces
    /\ h.reply \in {"hollow", "bad", "frame"} => h.out \in Outputs

CallShape == \A t \in Threads : LocalsSet(pc[t], call[t], hand[t])

(* A picture being assembled has a surface.                                *)
PictureShape ==
    \A c \in Contexts :
        decode_picture_active[c] => current_render_target[c] \in Surfaces

(* TypeOK, inductive: a step's new values have their types because the     *)
(* locals it reads are set.                                                *)
TypeInv == TypeOK /\ CallShape /\ PictureShape

-----------------------------------------------------------------------------
(* Who synchronises.                                                       *)

AtVpu(p) == p \in {"loop", "dequeue", "resume"}

LoopHoldsMutex == \A t \in Threads : pc[t] = "loop" => mutex = t

SyncRuns == \A c \in Contexts : sync_active[c] => ctx_state[c] = "running"

SyncInv ==
    /\ OneSyncer
    /\ LoopHoldsMutex
    /\ SyncRuns
    /\ SyncExcludesPicture
    /\ RetainedSlotFree

-----------------------------------------------------------------------------
(* What decodes.                                                           *)

(* The picture being assembled is the last of its decoder's FIFO.          *)
PictureIsLast ==
    \A c \in Contexts : decode_picture_active[c] =>
        LET q == submitted[c]
        IN  /\ ctx_state[c] # "free"
            /\ q # << >> /\ q[Len(q)] = current_render_target[c]

(* Nothing refers to a context that was destroyed.                         *)
FreeUnused ==
    \A c \in Contexts : ctx_state[c] = "free" => \A s \in Surfaces : context_id[s] # c

UnallocatedEmpty ==
    \A s \in Surfaces : ~allocated[s] =>
        lock_count[s] = 0 /\ frame[s] = NoOutput /\ context_id[s] = NoContext

(* The surface thread t synchronises still belongs to the decoder; in the  *)
(* loop it waits unless the loop has just settled it, and while the mutex  *)
(* is dropped it waits.                                                    *)
SyncerSurface(t) ==
    AtVpu(pc[t]) =>
        LET s == call[t].surf
        IN  /\ allocated[s] /\ context_id[s] = call[t].cid
            /\ IF pc[t] = "loop"
               THEN decode_pending[s] \/ decode_error[s] \/ HasFrame(s)
               ELSE decode_pending[s] /\ ~decode_error[s]

FifoInv ==
    /\ FifoIsPending
    /\ PendingIsClean
    /\ PictureIsLast
    /\ FreeUnused
    /\ UnallocatedEmpty
    /\ \A t \in Threads : SyncerSurface(t)

PairingInv == TypeInv /\ SyncInv /\ FifoInv

-----------------------------------------------------------------------------
(* What the VPU has.                                                       *)

(* An instance that was started, or will be, behind a decoder's slot.      *)
HasInstance(c) == ctx_state[c] \in {"running", "deferred"}

(* A JPEG decoder that has not been started was given no input.            *)
DeferredIsFresh ==
    \A c \in Contexts : ctx_state[c] = "deferred" => dec_in_buf[c] = "none"

(* A poisoned decoder is not synchronised, and a picture in progress is    *)
(* only given up together with its decoder.                                *)
PoisonedIsQuiet ==
    /\ \A c \in Contexts : sync_active[c] => ~decode_failed[c]
    /\ \A s \in Surfaces : decode_pending[s] /\ decode_error[s] =>
          decode_failed[context_id[s]]

(* What a thread has in hand came from the decoder it synchronises; a      *)
(* decoder keeps only buffers of its own.                                  *)
HandIsMine ==
    \A t \in Threads :
        /\ pc[t] # "resume" => hand[t] = NoHand
        /\ IF hand[t].reply \in {"hollow", "bad", "frame"}
           THEN hand[t].out.ctx = call[t].cid
           ELSE hand[t].out = NoOutput

KeptIsOwn ==
    \A c \in Contexts : dec_out_buf[c] # NoOutput =>
        ctx_state[c] = "running" /\ dec_out_buf[c].ctx = c

(* FifoMatchesVpu, also for a decoder yet to be started.                   *)
Pipeline(c) ==
    InHand(c) \o vpu_queue[c] \o
        (IF decode_picture_active[c] THEN << current_render_target[c] >> ELSE << >>)

FifoIsPipeline ==
    \A c \in Contexts : HasInstance(c) /\ ~decode_failed[c] => submitted[c] = Pipeline(c)

(* BuffersConserved, place by place, also before the start.                *)
OneHolder(b, c) ==
    LET vpu        == b \in vpu_bufs[c]
        kept       == HeldBy(dec_out_buf[c], b, c)
        inHand(t)  == HeldBy(hand[t].out, b, c)
        shownBy(s) == HeldBy(frame[s], b, c)
    IN  /\ vpu \/ kept \/ (\E t \in Threads : inHand(t)) \/ (\E s \in Surfaces : shownBy(s))
        /\ vpu => ~kept
        /\ vpu \/ kept => \A t \in Threads : ~inHand(t)
        /\ vpu \/ kept => \A s \in Surfaces : ~shownBy(s)
        /\ \A t \in Threads, s \in Surfaces : ~(inHand(t) /\ shownBy(s))
        /\ \A t, u \in Threads : inHand(t) /\ inHand(u) => t = u
        /\ \A s, x \in Surfaces : shownBy(s) /\ shownBy(x) => s = x

EachHeldOnce ==
    \A c \in Contexts, b \in OutBufs : HasInstance(c) => OneHolder(b, c)

VpuInv ==
    /\ NoLeftoverInput /\ DeferredIsFresh
    /\ PoisonedIsQuiet
    /\ HandIsMine /\ KeptIsOwn
    /\ FrameOwnerRuns
    /\ FifoIsPipeline /\ FramesAreOwn
    /\ EachHeldOnce

Inductive == PairingInv /\ VpuInv
=============================================================================
