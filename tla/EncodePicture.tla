---------------------------- MODULE EncodePicture ----------------------------
(***************************************************************************)
(* The life of an encoder and of its pictures in hobot_drv_video.c:        *)
(* vaCreateContext, vaBeginPicture, vaRenderPicture, vaEndPicture and      *)
(* vaDestroyContext of an encoder, the recycling of its VPU buffers, and   *)
(* the reaping of contexts that could not be torn down.                    *)
(*                                                                         *)
(* An H.264 or HEVC encoder reads the picture where it lies, in the        *)
(* surface or in a scratch buffer of the driver, and says by a callback    *)
(* that it is done.  The callback runs on a thread of the SDK and does not *)
(* take the driver mutex; it may come before or after the coded output,    *)
(* after vaEndPicture has given up waiting, or for an input whose queueing *)
(* was reported as failed.  Everything else runs under the mutex, and      *)
(* vaEndPicture holds it from its first check to its return: other calls   *)
(* never interleave with it, the hardware and its callback do.             *)
(*                                                                         *)
(* The decoder appears only as the owner of frames that surfaces show and  *)
(* encoders read (its own protocol is DecodeSync), and CPU access to a     *)
(* surface only as vaPutImage (the rest is SurfaceAccess).                 *)
(***************************************************************************)
EXTENDS Naturals, Sequences, FiniteSets

CONSTANTS
    NumEncoders,  \* slots of drv->contexts that encoders use
    Surfaces,
    Coded,        \* coded buffers
    NumIn,        \* frame_buf_count: input slots of an encoder's VPU
    NumOut,       \* bitstream_buf_count: its output buffers
    MaxToken,     \* bound on va_external_input_token_sequence
    MaxFrame,     \* bound on frame_count
    Decoder,      \* the decoder's context
    NoSurface, NoBuffer, NoContext

Encoders == 1 .. NumEncoders
Contexts == Encoders \cup {Decoder}

ASSUME ConstantsAssumption ==
    /\ {NumEncoders, NumIn, NumOut} \subseteq Nat \ {0}
    /\ {MaxToken, MaxFrame} \subseteq Nat
    /\ Decoder \notin Encoders /\ NoContext \notin Contexts
    /\ NoSurface \notin Surfaces /\ NoBuffer \notin Coded

VARIABLES
    ctx,        \* HobotContext of each encoder slot
    pending,    \* its enc_external_input_pending, an atomic
    vpu,        \* the VPU instance of each encoder
    callbacks,  \* tokens of callbacks on their way to each slot
    token,      \* va_external_input_token_sequence
    surf,       \* HobotSurface
    decoder,    \* the decoder's context is allocated
    buf,        \* HobotBuffer of each coded buffer
    call        \* the vaEndPicture that holds the mutex, or Idle

vars == <<ctx, pending, vpu, callbacks, token, surf, decoder, buf, call>>

(* What the hardware reads an input from: the decoded frame a surface      *)
(* shows, the surface's own memory, the encoder's scratch buffer, or a     *)
(* buffer of the VPU that the driver has filled.                           *)
Memories == [kind : {"frame", "memory"}, of : Surfaces]
       \cup [kind : {"scratch"}, of : Encoders] \cup {[kind |-> "slot"]}

Inputs == [token : 0 .. MaxToken, memory : Memories, frame : 0 .. MaxFrame]

(* What memory contains, as a stamp that changes with each write.          *)
Stamps == {"a", "b"}
Rewritten(stamp) == IF stamp = "a" THEN "b" ELSE "a"

ContextStates ==
    [allocated : BOOLEAN, enc_external_enabled : BOOLEAN, encoder_init_deferred : BOOLEAN,
     state : {"off", "initialized", "running"},  \* vpu_initialized, vpu_running
     cleanup_orphaned : BOOLEAN, encoder_failed : BOOLEAN, encoder_picture_active : BOOLEAN,
     current_render_target : Surfaces \cup {NoSurface}, enc_coded_buf : Coded \cup {NoBuffer},
     enc_in_buf_valid : BOOLEAN, enc_out_buf_valid : BOOLEAN,
     enc_external_surface : Surfaces \cup {NoSurface}, scratch : Stamps \cup {"none"},
     frame_count : 0 .. MaxFrame]

VpuStates ==
    [inputs : 0 .. NumIn, reading : SUBSET Inputs, encoding : Seq(0 .. MaxFrame),
     done : Seq(0 .. MaxFrame), outputs : 0 .. NumOut]

SurfaceStates ==
    [allocated : BOOLEAN, users : SUBSET Contexts, context_id : Contexts \cup {NoContext},
     decode_pending : BOOLEAN, output_context_id : Contexts \cup {NoContext},
     memory : Stamps]

(* coded_segment is empty (size 0) or holds a picture.                     *)
Pictures == [encoder : Encoders, frame : 0 .. MaxFrame]
Empty == [encoder |-> 0, frame |-> 0]
BufferStates == [allocated : BOOLEAN, map_count : {0, 1}, segment : Pictures \cup {Empty}]

(* Where vaEndPicture is: about to queue the input, waiting for an output, *)
(* or for the input to be consumed before it finishes the picture.         *)
Idle == [at |-> "idle"]
Calls == {Idle}
    \cup [at : {"queue"}, encoder : Encoders, token : 0 .. MaxToken, memory : Memories]
    \cup [at : {"output"}, encoder : Encoders]
    \cup [at : {"consume"}, encoder : Encoders, then : {"deliver", "drop", "fail"},
          frame : 0 .. MaxFrame]

TypeOK ==
    /\ ctx \in [Encoders -> ContextStates]
    /\ pending \in [Encoders -> 0 .. MaxToken]
    /\ vpu \in [Encoders -> VpuStates]
    /\ callbacks \in [Encoders -> SUBSET (1 .. MaxToken)]
    /\ token \in 0 .. MaxToken
    /\ surf \in [Surfaces -> SurfaceStates]
    /\ decoder \in BOOLEAN
    /\ buf \in [Coded -> BufferStates]
    /\ call \in Calls

FreeContext ==
    [allocated |-> FALSE, enc_external_enabled |-> FALSE, encoder_init_deferred |-> FALSE,
     state |-> "off", cleanup_orphaned |-> FALSE, encoder_failed |-> FALSE,
     encoder_picture_active |-> FALSE, current_render_target |-> NoSurface,
     enc_coded_buf |-> NoBuffer, enc_in_buf_valid |-> FALSE, enc_out_buf_valid |-> FALSE,
     enc_external_surface |-> NoSurface, scratch |-> "none", frame_count |-> 0]

FreeSurface ==
    [allocated |-> FALSE, users |-> {}, context_id |-> NoContext, decode_pending |-> FALSE,
     output_context_id |-> NoContext, memory |-> "a"]

StoppedVpu == [inputs |-> NumIn, reading |-> {}, encoding |-> <<>>, done |-> <<>>,
               outputs |-> NumOut]

Init ==
    /\ ctx = [e \in Encoders |-> FreeContext]
    /\ pending = [e \in Encoders |-> 0]
    /\ vpu = [e \in Encoders |-> StoppedVpu]
    /\ callbacks = [e \in Encoders |-> {}]
    /\ token = 0
    /\ surf = [s \in Surfaces |-> FreeSurface]
    /\ decoder = FALSE
    /\ buf = [b \in Coded |-> [allocated |-> FALSE, map_count |-> 0, segment |-> Empty]]
    /\ call = Idle

-----------------------------------------------------------------------------
(* Who uses what.                                                          *)

(* A decoded frame is shown (has_decoded_frame).                           *)
HasFrame(s) == surf[s].output_context_id # NoContext

(* A slip: only the open picture counts.                                   *)
EncodesOpen(e, s) ==
    /\ ctx[e].allocated
    /\ ctx[e].encoder_picture_active /\ ctx[e].current_render_target = s

(* Encoder e works on surface s or may still be reading it.                *)
Encodes(e, s) ==
    /\ ctx[e].allocated
    /\ \/ ctx[e].encoder_picture_active /\ ctx[e].current_render_target = s
       \/ pending[e] # 0 /\ ctx[e].enc_external_surface = s

HasActiveEncoder(s) == \E e \in Encoders : Encodes(e, s)

(* hobot_context_surface_used_by_other_encoder.                            *)
UsedByOtherEncoder(c) ==
    \E s \in Surfaces, e \in Encoders \ {c} :
        /\ surf[s].allocated /\ c \in {surf[s].context_id, surf[s].output_context_id}
        /\ Encodes(e, s)

(* hobot_buffer_has_active_encoder.                                        *)
BufferHasActiveEncoder(b) ==
    \E e \in Encoders : /\ ctx[e].allocated /\ ctx[e].encoder_picture_active
                        /\ ctx[e].enc_coded_buf = b

(* The application knows a context whose creation succeeded.  One that     *)
(* failed and could not be cleaned up is orphaned without being failed.    *)
Known(e) == ctx[e].allocated /\ (ctx[e].cleanup_orphaned => ctx[e].encoder_failed)

(* hobot_retain_context_surface_usage, of several surfaces.                *)
Retained(surfaces, named, c) ==
    [s \in Surfaces |->
        IF s \in named /\ surfaces[s].allocated
        THEN [surfaces[s] EXCEPT !.users = @ \cup {c}] ELSE surfaces[s]]

(* hobot_clear_context_surface_usage.                                      *)
Unused(surfaces, c) ==
    [s \in Surfaces |-> [surfaces[s] EXCEPT !.users = @ \ {c}]]

(* hobot_detach_context_surfaces.                                          *)
Detached(c) ==
    [s \in Surfaces |->
        [Unused(surf, c)[s] EXCEPT
           !.decode_pending = @ /\ surf[s].context_id # c,
           !.context_id = IF @ = c THEN NoContext ELSE @,
           !.output_context_id = IF @ = c THEN NoContext ELSE @]]

-----------------------------------------------------------------------------
(* Creating and destroying contexts.                                       *)

(* What may be left of a context when stopping or releasing its VPU, or    *)
(* freeing its scratch buffer, fails.                                      *)
PartlyTornDown(c) ==
    (IF c.state = "running" THEN {c} ELSE {})
      \cup (IF c.state # "off" THEN {[c EXCEPT !.state = "initialized"]} ELSE {})
      \cup (IF c.scratch # "none" THEN {[c EXCEPT !.state = "off"]} ELSE {})

(* A VPU that is not running holds nothing.                                *)
Instances(contexts) ==
    [e \in Encoders |-> IF contexts[e].state = "running" THEN vpu[e] ELSE StoppedVpu]

Orphans == {e \in Encoders : ctx[e].allocated /\ ctx[e].cleanup_orphaned}

Reaped(gone) == [e \in Encoders |-> IF e \in gone THEN FreeContext ELSE ctx[e]]

SurfacesReaped(gone) == [s \in Surfaces |-> [surf[s] EXCEPT !.users = @ \ gone]]

(* vaCreateContext reaps the orphans and takes the first free slot.  It    *)
(* retains the render targets it is given.                                 *)
TakeSlot(e, new, targets) ==
    /\ call = Idle
    /\ Reaped(Orphans)[e].allocated = FALSE
    /\ \A d \in 1 .. e - 1 : Reaped(Orphans)[d].allocated
    /\ ctx' = [Reaped(Orphans) EXCEPT ![e] = new]
    /\ pending' = [d \in Encoders |-> IF d \in Orphans \cup {e} THEN 0 ELSE pending[d]]
    /\ vpu' = [d \in Encoders |-> IF d \in Orphans \cup {e} THEN StoppedVpu ELSE vpu[d]]
    /\ surf' = Retained(SurfacesReaped(Orphans), targets, e)
    /\ UNCHANGED <<callbacks, token, decoder, buf, call>>

(* vaCreateContext of an H.264 or HEVC encoder, whose VPU starts with its  *)
(* first picture, or of a JPEG encoder, whose VPU starts now.              *)
CreateContext(e) ==
    \E external \in BOOLEAN, targets \in SUBSET Surfaces :
        TakeSlot(e, [FreeContext EXCEPT
                        !.allocated = TRUE, !.enc_external_enabled = external,
                        !.encoder_init_deferred = external,
                        !.state = IF external THEN "off" ELSE "running"], targets)

(* The VPU of a JPEG encoder does not start: the slot is given up, or      *)
(* orphaned if the VPU cannot be released.                                 *)
CreateContextFails(e) ==
    \/ TakeSlot(e, FreeContext, {})
    \/ \E targets \in SUBSET Surfaces :
          TakeSlot(e, [FreeContext EXCEPT !.allocated = TRUE, !.cleanup_orphaned = TRUE,
                                          !.state = "initialized"], targets)

(* vaCreateContext stops at the first orphan it cannot tear down.          *)
ReapFails(e) ==
    LET gone == {d \in Orphans : d < e}
    IN  /\ call = Idle
        /\ e \in Orphans
        /\ \E left \in PartlyTornDown(ctx[e]) : ctx' = [Reaped(gone) EXCEPT ![e] = left]
        /\ pending' = [d \in Encoders |-> IF d \in gone THEN 0 ELSE pending[d]]
        /\ vpu' = Instances(ctx')
        /\ surf' = SurfacesReaped(gone)
        /\ UNCHANGED <<callbacks, token, decoder, buf, call>>

(* A slip: an input the hardware still reads is not waited for.            *)
MayDestroyEarly(e) ==
    /\ call = Idle
    /\ Known(e) /\ ~UsedByOtherEncoder(e)

MayDestroy(e) ==
    /\ call = Idle
    /\ Known(e) /\ pending[e] = 0 /\ ~UsedByOtherEncoder(e)

(* A slip: the buffer is given back and kept as well.                      *)
RetriedTwice(e, in, out) ==
    LET v == vpu[e]
        c == ctx[e]
    IN  IF c.state # "running" THEN [context |-> c, instance |-> v]
        ELSE [context  |-> [c EXCEPT !.enc_out_buf_valid = @ /\ ~out],
              instance |-> [v EXCEPT !.inputs  = IF c.enc_in_buf_valid /\ in THEN @ + 1 ELSE @,
                                     !.outputs = IF c.enc_out_buf_valid /\ out THEN @ + 1 ELSE @]]

(* hobot_retry_encoder_input and _output: buffers that could not be given  *)
(* back before are tried again, with success for those of in and out.      *)
Retried(e, in, out) ==
    LET v == vpu[e]
        c == ctx[e]
    IN  IF c.state # "running" THEN [context |-> c, instance |-> v]
        ELSE [context  |-> [c EXCEPT !.enc_in_buf_valid = @ /\ ~in,
                                     !.enc_out_buf_valid = @ /\ ~out],
              instance |-> [v EXCEPT !.inputs  = IF c.enc_in_buf_valid /\ in THEN @ + 1 ELSE @,
                                     !.outputs = IF c.enc_out_buf_valid /\ out THEN @ + 1 ELSE @]]

(* vaDestroyContext.                                                       *)
DestroyContext(e) ==
    /\ MayDestroy(e)
    /\ ctx' = [ctx EXCEPT ![e] = [Retried(e, TRUE, TRUE).context EXCEPT
                 !.allocated = FALSE, !.cleanup_orphaned = FALSE,
                 !.state = "off", !.scratch = "none"]]
    /\ vpu' = Instances(ctx')
    /\ surf' = Detached(e)
    /\ UNCHANGED <<pending, callbacks, token, decoder, buf, call>>

(* It fails on a buffer that cannot be given back, and leaves the VPU      *)
(* running, or on the way down.                                            *)
DestroyContextFails(e) ==
    /\ MayDestroy(e)
    /\ \/ \E in, out \in BOOLEAN :
            LET r == Retried(e, in, out)
            IN  /\ ctx[e].state = "running"
                /\ r.context.enc_in_buf_valid \/ r.context.enc_out_buf_valid
                /\ ctx' = [ctx EXCEPT ![e] = r.context]
                /\ vpu' = [vpu EXCEPT ![e] = r.instance]
       \/ LET r == Retried(e, TRUE, TRUE)
          IN  /\ \E left \in PartlyTornDown(r.context) : ctx' = [ctx EXCEPT ![e] = left]
              /\ vpu' = IF ctx'[e].state = "running"
                        THEN [vpu EXCEPT ![e] = r.instance] ELSE Instances(ctx')
    /\ UNCHANGED <<pending, callbacks, token, surf, decoder, buf, call>>

-----------------------------------------------------------------------------
(* Beginning a picture.                                                    *)

(* vaBeginPicture on an encoder.                                           *)
BeginPicture(e, s) ==
    LET c == ctx[e]
    IN  /\ call = Idle
        /\ Known(e) /\ (c.state = "running" \/ c.encoder_init_deferred)
        /\ ~c.encoder_failed /\ ~c.encoder_picture_active
        /\ ~c.enc_in_buf_valid /\ ~c.enc_out_buf_valid
        /\ surf[s].allocated /\ ~HasActiveEncoder(s) /\ ~surf[s].decode_pending
        /\ ctx' = [ctx EXCEPT ![e].current_render_target = s,
                              ![e].enc_coded_buf = NoBuffer,
                              ![e].encoder_picture_active = TRUE]
        /\ surf' = [surf EXCEPT ![s].users = @ \cup {e}, ![s].context_id = e]
        /\ UNCHANGED <<pending, vpu, callbacks, token, decoder, buf, call>>

MayRender(e) ==
    /\ call = Idle
    /\ Known(e) /\ (ctx[e].state = "running" \/ ctx[e].encoder_init_deferred)
    /\ ~ctx[e].encoder_failed /\ ctx[e].encoder_picture_active

(* vaRenderPicture names the coded buffer and the reference pictures, of   *)
(* which a JPEG picture has none.                                          *)
RenderPicture(e, b) ==
    /\ MayRender(e) /\ buf[b].allocated
    /\ ctx' = [ctx EXCEPT ![e].enc_coded_buf = b]
    /\ \E named \in SUBSET Surfaces :
          /\ ~ctx[e].enc_external_enabled => named = {}
          /\ surf' = Retained(surf, named, e)
    /\ UNCHANGED <<pending, vpu, callbacks, token, decoder, buf, call>>

(* A change of the bit rate fails and cannot be undone: the encoder fails  *)
(* with its picture open.                                                  *)
RateUpdateFails(e) ==
    /\ MayRender(e) /\ ctx[e].state = "running" /\ ctx[e].enc_external_enabled
    /\ ctx' = [ctx EXCEPT ![e].encoder_failed = TRUE]
    /\ UNCHANGED <<pending, vpu, callbacks, token, surf, decoder, buf, call>>

-----------------------------------------------------------------------------
(* vaEndPicture: the input.                                                *)

MayEnd(e) ==
    LET b == ctx[e].enc_coded_buf
    IN  /\ call = Idle
        /\ Known(e) /\ ~ctx[e].encoder_failed /\ ctx[e].encoder_picture_active
        /\ b # NoBuffer /\ buf[b].allocated /\ buf[b].map_count = 0

(* hobot_start_deferred_h264_encoder, _hevc_encoder: the VPU is started    *)
(* and the scratch buffer allocated.                                       *)
Started(c) ==
    IF ~c.encoder_init_deferred THEN c
    ELSE [c EXCEPT !.encoder_init_deferred = FALSE, !.state = "running", !.scratch = "a"]

(* The VPU runs, or has been started in time.                              *)
MayPass(e) == MayEnd(e) /\ Started(ctx[e]).state = "running"

(* The start fails; what cannot be undone orphans the context.             *)
StartFails(e) ==
    /\ MayEnd(e) /\ ctx[e].encoder_init_deferred
    /\ \E state \in {"off", "initialized", "running"}, scratch \in {"none", "a"} :
          /\ state = "running" => scratch = "a"
          /\ ctx' = [ctx EXCEPT ![e].encoder_init_deferred = FALSE,
                                ![e].encoder_failed = TRUE,
                                ![e].state = state, ![e].scratch = scratch,
                                ![e].cleanup_orphaned = state # "off" \/ scratch # "none"]
    /\ UNCHANGED <<pending, vpu, callbacks, token, surf, decoder, buf, call>>

(* A slip: a failure does not stick.                                       *)
FinishedFine(c, failed) ==
    [c EXCEPT !.encoder_picture_active = FALSE, !.current_render_target = NoSurface,
              !.enc_coded_buf = NoBuffer]

(* hobot_finish_encoder_picture.                                           *)
Finished(c, failed) ==
    [c EXCEPT !.encoder_picture_active = FALSE, !.current_render_target = NoSurface,
              !.enc_coded_buf = NoBuffer, !.encoder_failed = @ \/ failed]

(* The VPU has no input slot, or the driver rejects what it got and gives  *)
(* it back: the picture stays open.                                        *)
InputRejected(e) ==
    /\ MayPass(e)
    /\ ctx' = [ctx EXCEPT ![e] = Started(@)]
    /\ buf' = [buf EXCEPT ![ctx[e].enc_coded_buf].segment = Empty]
    /\ UNCHANGED <<pending, vpu, callbacks, token, surf, decoder, call>>

(* A rejected input cannot be given back: it is kept, the encoder fails.   *)
InputKept(e) ==
    /\ MayPass(e) /\ vpu[e].inputs > 0
    /\ vpu' = [vpu EXCEPT ![e].inputs = @ - 1]
    /\ ctx' = [ctx EXCEPT ![e] =
                 Finished([Started(@) EXCEPT !.enc_in_buf_valid = TRUE], TRUE)]
    /\ buf' = [buf EXCEPT ![ctx[e].enc_coded_buf].segment = Empty]
    /\ UNCHANGED <<pending, callbacks, token, surf, decoder, call>>

(* A slip: every input has the same token.                                 *)
SameToken == 1

(* hobot_next_external_input_token.                                        *)
NextToken == token + 1

(* The input is described to the hardware, in place or from the scratch    *)
(* buffer, and its token stored before it is queued.                       *)
PassInPlace(e) ==
    LET s == ctx[e].current_render_target
    IN  /\ MayPass(e) /\ vpu[e].inputs > 0
        /\ NextToken <= MaxToken /\ ctx[e].frame_count < MaxFrame
        /\ Started(ctx[e]).enc_external_enabled
        /\ ctx' = [ctx EXCEPT ![e] = [Started(@) EXCEPT !.enc_external_surface = s]]
        /\ call' = [at |-> "queue", encoder |-> e, token |-> NextToken,
                    memory |-> [kind |-> IF HasFrame(s) THEN "frame" ELSE "memory", of |-> s]]
        /\ token' = NextToken
        /\ pending' = [pending EXCEPT ![e] = NextToken]
        /\ vpu' = [vpu EXCEPT ![e].inputs = @ - 1]
        /\ buf' = [buf EXCEPT ![ctx[e].enc_coded_buf].segment = Empty]
        /\ UNCHANGED <<callbacks, surf, decoder>>

PassScratch(e) ==
    LET s == ctx[e].current_render_target
        c == Started(ctx[e])
    IN  /\ MayPass(e) /\ vpu[e].inputs > 0
        /\ NextToken <= MaxToken /\ ctx[e].frame_count < MaxFrame
        /\ c.enc_external_enabled /\ c.scratch # "none"
        /\ ctx' = [ctx EXCEPT ![e] = [c EXCEPT !.enc_external_surface = s,
                                               !.scratch = Rewritten(@)]]
        /\ call' = [at |-> "queue", encoder |-> e, token |-> NextToken,
                    memory |-> [kind |-> "scratch", of |-> e]]
        /\ token' = NextToken
        /\ pending' = [pending EXCEPT ![e] = NextToken]
        /\ vpu' = [vpu EXCEPT ![e].inputs = @ - 1]
        /\ buf' = [buf EXCEPT ![ctx[e].enc_coded_buf].segment = Empty]
        /\ UNCHANGED <<callbacks, surf, decoder>>

(* A JPEG encoder: the picture is copied into the VPU's own buffer.        *)
PassCopy(e) ==
    /\ MayPass(e) /\ vpu[e].inputs > 0 /\ ctx[e].frame_count < MaxFrame
    /\ ~ctx[e].enc_external_enabled
    /\ call' = [at |-> "queue", encoder |-> e, token |-> 0, memory |-> [kind |-> "slot"]]
    /\ vpu' = [vpu EXCEPT ![e].inputs = @ - 1]
    /\ buf' = [buf EXCEPT ![ctx[e].enc_coded_buf].segment = Empty]
    /\ UNCHANGED <<ctx, pending, callbacks, token, surf, decoder>>

(* hb_mm_mc_queue_input_buffer takes it.                                   *)
QueueInput ==
    LET e == call.encoder
        c == ctx[e]
    IN  /\ call.at = "queue"
        /\ vpu' = [vpu EXCEPT
                     ![e].reading = @ \cup {[token |-> call.token, memory |-> call.memory,
                                             frame |-> c.frame_count]},
                     ![e].encoding = Append(@, c.frame_count)]
        /\ ctx' = [ctx EXCEPT ![e].frame_count = @ + 1]
        /\ call' = [at |-> "output", encoder |-> e]
        /\ UNCHANGED <<pending, callbacks, token, surf, decoder, buf>>

(* A compare-and-swap of enc_external_input_pending from t to 0.           *)
Cleared(e, t) == [pending EXCEPT ![e] = IF @ = t THEN 0 ELSE @]

(* A slip: the token of an input that was not queued is left behind.       *)
LeftBehind(e, t) == pending

(* The token is withdrawn, unless the callback was faster.                 *)
Withdrawn(e, t) == Cleared(e, t)

(* It does not.  Its callback may come nevertheless.                       *)
QueueInputFails ==
    LET e == call.encoder
        t == call.token
    IN  /\ call.at = "queue"
        /\ pending' = Withdrawn(e, t)
        /\ \/ /\ ctx' = [ctx EXCEPT ![e].enc_external_surface = NoSurface]
              /\ vpu' = [vpu EXCEPT ![e].inputs = @ + 1]
           \/ /\ ctx' = [ctx EXCEPT ![e] =
                           Finished([@ EXCEPT !.enc_external_surface = NoSurface,
                                              !.enc_in_buf_valid = TRUE], TRUE)]
              /\ UNCHANGED vpu
        /\ callbacks' \in {callbacks, [callbacks EXCEPT ![e] = @ \cup ({t} \ {0})]}
        /\ call' = Idle
        /\ UNCHANGED <<token, surf, decoder, buf>>

-----------------------------------------------------------------------------
(* vaEndPicture: the output.                                               *)

(* An output arrives and, its data copied, its buffer is given back.  One  *)
(* that is empty or too large for the coded buffer is dropped.             *)
TakeOutput ==
    LET e == call.encoder
    IN  /\ call.at = "output" /\ vpu[e].done # <<>>
        /\ vpu' = [vpu EXCEPT ![e].done = Tail(@), ![e].outputs = @ + 1]
        /\ \E then \in {"deliver", "drop"} :
              call' = [at |-> "consume", encoder |-> e, then |-> then,
                       frame |-> Head(vpu[e].done)]
        /\ UNCHANGED <<ctx, pending, callbacks, token, surf, decoder, buf>>

(* The buffer cannot be given back: it is kept, the encoder fails, and the *)
(* input is not waited for.                                                *)
OutputKept ==
    LET e == call.encoder
    IN  /\ call.at = "output" /\ vpu[e].done # <<>>
        /\ vpu' = [vpu EXCEPT ![e].done = Tail(@)]
        /\ ctx' = [ctx EXCEPT ![e] = Finished([@ EXCEPT !.enc_out_buf_valid = TRUE], TRUE)]
        /\ call' = Idle
        /\ UNCHANGED <<pending, callbacks, token, surf, decoder, buf>>

(* No output arrives in time.                                              *)
OutputMissing ==
    /\ call.at = "output"
    /\ call' = [at |-> "consume", encoder |-> call.encoder, then |-> "fail", frame |-> 0]
    /\ UNCHANGED <<ctx, pending, vpu, callbacks, token, surf, decoder, buf>>

(* hobot_finish_external_encoder_input sees that the input was consumed    *)
(* (or has nothing to wait for), and the picture is finished.  Parameter   *)
(* sets in the output that cannot be corrected fail the encoder.           *)
Finish ==
    LET e == call.encoder
        c == IF ctx[e].enc_external_enabled
             THEN [ctx[e] EXCEPT !.enc_external_surface = NoSurface] ELSE ctx[e]
    IN  /\ call.at = "consume"
        /\ ctx[e].enc_external_enabled => pending[e] = 0
        /\ \/ /\ call.then = "deliver"
              /\ buf' = [buf EXCEPT ![c.enc_coded_buf].segment =
                                       [encoder |-> e, frame |-> call.frame]]
              /\ ctx' = [ctx EXCEPT ![e] = Finished(c, FALSE)]
           \/ /\ call.then = "drop"
              /\ ctx' = [ctx EXCEPT ![e] = Finished(c, FALSE)]
              /\ UNCHANGED buf
           \/ /\ \/ call.then = "fail"
                 \/ call.then = "deliver" /\ ctx[e].enc_external_enabled
              /\ ctx' = [ctx EXCEPT ![e] = Finished(c, TRUE)]
              /\ UNCHANGED buf
        /\ call' = Idle
        /\ UNCHANGED <<pending, vpu, callbacks, token, surf, decoder>>

(* The input is not consumed in time: the hardware may still read it.      *)
ConsumptionTimesOut ==
    LET e == call.encoder
    IN  /\ call.at = "consume"
        /\ ctx[e].enc_external_enabled /\ pending[e] # 0
        /\ ctx' = [ctx EXCEPT ![e] = Finished(@, TRUE)]
        /\ call' = Idle
        /\ UNCHANGED <<pending, vpu, callbacks, token, surf, decoder, buf>>

-----------------------------------------------------------------------------
(* The VPU of an encoder and the SDK's callback.                           *)

(* The hardware is done with an input.                                     *)
ConsumeInput(e) ==
    \E i \in vpu[e].reading :
        /\ vpu' = [vpu EXCEPT ![e].reading = @ \ {i}, ![e].inputs = @ + 1]
        /\ callbacks' = [callbacks EXCEPT ![e] = @ \cup ({i.token} \ {0})]
        /\ UNCHANGED <<ctx, pending, token, surf, decoder, buf, call>>

(* A picture is coded.                                                     *)
Encode(e) ==
    LET v == vpu[e]
    IN  /\ v.encoding # <<>> /\ v.outputs > 0
        /\ vpu' = [vpu EXCEPT ![e].encoding = Tail(@), ![e].outputs = @ - 1,
                              ![e].done = Append(@, Head(v.encoding))]
        /\ UNCHANGED <<ctx, pending, callbacks, token, surf, decoder, buf, call>>

(* hobot_encoder_input_consumed.                                           *)
InputConsumed(e) ==
    \E t \in callbacks[e] :
        /\ pending' = Cleared(e, t)
        /\ callbacks' = [callbacks EXCEPT ![e] = @ \ {t}]
        /\ UNCHANGED <<ctx, vpu, token, surf, decoder, buf, call>>

-----------------------------------------------------------------------------
(* What else happens to surfaces and coded buffers.                        *)

(* vaCreateSurfaces2.                                                      *)
CreateSurface(s) ==
    /\ call = Idle /\ ~surf[s].allocated
    /\ surf' = [surf EXCEPT ![s] = [FreeSurface EXCEPT !.allocated = TRUE]]
    /\ UNCHANGED <<ctx, pending, vpu, callbacks, token, decoder, buf, call>>

(* vaDestroySurfaces, of one surface.                                      *)
DestroySurface(s) ==
    /\ call = Idle /\ surf[s].allocated
    /\ surf[s].users = {} /\ ~HasActiveEncoder(s) /\ ~surf[s].decode_pending
    /\ surf' = [surf EXCEPT ![s] = FreeSurface]
    /\ UNCHANGED <<ctx, pending, vpu, callbacks, token, decoder, buf, call>>

(* vaPutImage gives a frame the surface shows back to the decoder.         *)
PutImage(s) ==
    /\ call = Idle /\ surf[s].allocated
    /\ ~HasActiveEncoder(s) /\ ~surf[s].decode_pending
    /\ surf' = [surf EXCEPT ![s].memory = Rewritten(@), ![s].output_context_id = NoContext]
    /\ UNCHANGED <<ctx, pending, vpu, callbacks, token, decoder, buf, call>>

CreateDecoder ==
    /\ call = Idle /\ ~decoder
    /\ decoder' = TRUE
    /\ UNCHANGED <<ctx, pending, vpu, callbacks, token, surf, buf, call>>

(* vaBeginPicture on the decoder gives back the frame the surface shows.   *)
BeginDecode(s) ==
    /\ call = Idle /\ decoder
    /\ surf[s].allocated /\ ~HasActiveEncoder(s) /\ ~surf[s].decode_pending
    /\ surf' = [surf EXCEPT ![s].users = @ \cup {Decoder}, ![s].context_id = Decoder,
                            ![s].decode_pending = TRUE,
                            ![s].output_context_id = NoContext]
    /\ UNCHANGED <<ctx, pending, vpu, callbacks, token, decoder, buf, call>>

(* vaSyncSurface: the surface shows its frame, or its picture failed.      *)
SyncDecode(s) ==
    /\ call = Idle /\ surf[s].decode_pending
    /\ surf' \in {[surf EXCEPT ![s].decode_pending = FALSE, ![s].output_context_id = c] :
                    c \in {Decoder, NoContext}}
    /\ UNCHANGED <<ctx, pending, vpu, callbacks, token, decoder, buf, call>>

(* vaDestroyContext of the decoder gives its frames back.                  *)
DestroyDecoder ==
    /\ call = Idle /\ decoder /\ ~UsedByOtherEncoder(Decoder)
    /\ surf' = Detached(Decoder)
    /\ decoder' = FALSE
    /\ UNCHANGED <<ctx, pending, vpu, callbacks, token, buf, call>>

(* vaCreateBuffer.                                                         *)
CreateBuffer(b) ==
    /\ call = Idle /\ ~buf[b].allocated
    /\ buf' = [buf EXCEPT ![b] = [allocated |-> TRUE, map_count |-> 0, segment |-> Empty]]
    /\ UNCHANGED <<ctx, pending, vpu, callbacks, token, surf, decoder, call>>

(* vaDestroyBuffer.                                                        *)
DestroyBuffer(b) ==
    /\ call = Idle /\ buf[b].allocated
    /\ ~BufferHasActiveEncoder(b) /\ buf[b].map_count = 0
    /\ buf' = [buf EXCEPT ![b].allocated = FALSE]
    /\ UNCHANGED <<ctx, pending, vpu, callbacks, token, surf, decoder, call>>

(* vaMapBuffer and vaUnmapBuffer, by an application that maps it once.     *)
MapBuffer(b) ==
    /\ call = Idle /\ buf[b].allocated /\ buf[b].map_count = 0
    /\ buf' = [buf EXCEPT ![b].map_count = 1]
    /\ UNCHANGED <<ctx, pending, vpu, callbacks, token, surf, decoder, call>>

UnmapBuffer(b) ==
    /\ call = Idle /\ buf[b].map_count > 0
    /\ buf' = [buf EXCEPT ![b].map_count = 0]
    /\ UNCHANGED <<ctx, pending, vpu, callbacks, token, surf, decoder, call>>

-----------------------------------------------------------------------------
(* What is going on in vaEndPicture once the input has been described.     *)
EndPictureSteps ==
    \/ QueueInput \/ QueueInputFails
    \/ TakeOutput \/ OutputKept \/ OutputMissing
    \/ Finish \/ ConsumptionTimesOut

Hardware(e) == ConsumeInput(e) \/ Encode(e) \/ InputConsumed(e)

Next ==
    \/ \E e \in Encoders :
          \/ CreateContext(e) \/ CreateContextFails(e) \/ ReapFails(e)
          \/ DestroyContext(e) \/ DestroyContextFails(e)
          \/ \E s \in Surfaces : BeginPicture(e, s)
          \/ \E b \in Coded : RenderPicture(e, b)
          \/ RateUpdateFails(e)
          \/ StartFails(e) \/ InputRejected(e) \/ InputKept(e)
          \/ PassInPlace(e) \/ PassScratch(e) \/ PassCopy(e)
          \/ Hardware(e)
    \/ EndPictureSteps
    \/ \E s \in Surfaces :
          \/ CreateSurface(s) \/ DestroySurface(s) \/ PutImage(s)
          \/ BeginDecode(s) \/ SyncDecode(s)
    \/ CreateDecoder \/ DestroyDecoder
    \/ \E b \in Coded :
          CreateBuffer(b) \/ DestroyBuffer(b) \/ MapBuffer(b) \/ UnmapBuffer(b)

Spec == Init /\ [][Next]_vars

(* The SDK consumes what it was given and says so.                         *)
HardwareFairness ==
    \A e \in Encoders : WF_vars(ConsumeInput(e)) /\ WF_vars(InputConsumed(e))

(* A thread inside vaEndPicture goes on; each of its waits is bounded.     *)
FairSpec == Spec /\ WF_vars(EndPictureSteps)

-----------------------------------------------------------------------------
(* Properties.                                                             *)

(* What a piece of memory contains, and that it is there at all.           *)
Contents(m) ==
    CASE m.kind = "slot"    -> [there |-> TRUE]
      [] m.kind = "scratch" -> [there |-> ctx[m.of].scratch]
      [] m.kind = "memory"  -> [there |-> surf[m.of].allocated, is |-> surf[m.of].memory]
      [] m.kind = "frame"   -> [there |-> surf[m.of].allocated,
                                owner |-> surf[m.of].output_context_id]

(* Memory the hardware is reading is neither written nor freed, nor handed *)
(* to the decoder, by any call: not even after vaEndPicture has given up   *)
(* on the hardware (11424) and the context and its surfaces are in the     *)
(* application's hands again.                                              *)
HardwareInputUntouched ==
    [][\A e \in Encoders : \A i \in vpu[e].reading \cap vpu'[e].reading :
          Contents(i.memory)' = Contents(i.memory)]_vars

(* An encoder's VPU is stopped only when it has consumed every input that  *)
(* lies in memory of the driver or the application (7610, 6126).           *)
StoppedWhenRead ==
    [][\A e \in Encoders :
          ctx[e].state = "running" /\ ctx'[e].state # "running"
            => \A i \in vpu[e].reading : i.token = 0]_vars

(* enc_external_input_pending tells the truth in both directions: an input *)
(* the hardware reads is the pending one, and a pending one is about to be *)
(* queued, being read, or reported by a callback on its way, so that no    *)
(* consumption is ever missed (11293, 11299, 4072).                        *)
PendingIsTracked ==
    \A e \in Encoders :
        /\ \A i \in vpu[e].reading : i.token # 0 => pending[e] = i.token
        /\ pending[e] # 0 =>
              \/ call.at = "queue" /\ call.encoder = e /\ call.token = pending[e]
              \/ \E i \in vpu[e].reading : i.token = pending[e]
              \/ pending[e] \in callbacks[e]

(* The buffer the driver holds in the middle of vaEndPicture.              *)
InHand(e) == IF call.at = "queue" /\ call.encoder = e THEN 1 ELSE 0

One(kept) == IF kept THEN 1 ELSE 0

(* Every buffer of a running VPU is in one place: with the VPU, in the     *)
(* driver's hand, or retained for another attempt.  The driver prints "    *)
(* ownership invariant violated" (4013, 4042) when it would drop one.      *)
BuffersConserved ==
    \A e \in Encoders : ctx[e].state = "running" =>
        LET v == vpu[e]
        IN  /\ v.inputs + Cardinality(v.reading) + InHand(e)
                 + One(ctx[e].enc_in_buf_valid) = NumIn
            /\ v.outputs + Len(v.done) + One(ctx[e].enc_out_buf_valid) = NumOut

(* What vaEndPicture delivers is the picture it was called for and not one *)
(* an earlier call left in the VPU (11315): the coded buffer is filled     *)
(* with the encoder's latest picture, and it is the buffer of that picture.*)
DeliversOwnPicture ==
    [][\A b \in Coded :
          buf'[b].segment \notin {buf[b].segment, Empty} =>
              /\ call.at = "consume" /\ ctx[call.encoder].enc_coded_buf = b
              /\ buf'[b].segment = [encoder |-> call.encoder,
                                    frame |-> ctx[call.encoder].frame_count - 1]]_vars

(* If the hardware works, an input vaEndPicture gave up on is released in  *)
(* the end, and with it the surface and the way to destroy the context.    *)
InputReleased ==
    HardwareFairness => \A e \in Encoders : pending[e] # 0 ~> pending[e] = 0

=============================================================================
