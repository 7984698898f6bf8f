----------------------------- MODULE RateControl -----------------------------
(***************************************************************************)
(* The rate control of one H.264 or HEVC encoder: what vaRenderPicture     *)
(* makes of sequence parameters, rate-control, frame-rate and HRD buffers  *)
(* and of the QPs of picture and slice, and what of it reaches the         *)
(* hardware.                                                               *)
(*                                                                         *)
(* The driver keeps rc_params and, for VBR, encoder_max_bitrate_kbps.      *)
(* Until the first vaEndPicture the encoder is not started (deferred) and  *)
(* requests only change these; afterwards every request is sent to the     *)
(* hardware at once, the VBR maximum by a call of its own, and taken back  *)
(* when a call fails.                                                      *)
(*                                                                         *)
(* vaRenderPicture holds the mutex; its loop over the buffers is a step    *)
(* per buffer here, in any order, each kind of buffer at most once.  Its   *)
(* first pass refuses malformed buffers before anything is changed and is  *)
(* left out, except for what it remembers: whether a VBR rate-control      *)
(* buffer is among them.  A call of hb_mm_mc_set_rate_control_config that  *)
(* fails leaves the hardware as it was; one of                             *)
(* hb_mm_mc_set_max_bit_rate_config may have taken effect: that is what    *)
(* the code's rollbacks assume.                                            *)
(***************************************************************************)
EXTENDS Naturals

CONSTANTS
    RateModes,    \* rate controls of the configurations to be checked
    MaxRate,      \* 700000 in the code: the highest bit rate, in kbps
    MaxFps,       \* 240 in the code: the highest frame rate accepted
    Windows,      \* lengths of the VBV window
    MaxQp         \* 51 in the code

ASSUME RateAssumption ==
    /\ RateModes \subseteq {"CQP", "CBR", "VBR"}
    /\ {MaxRate, MaxFps, MaxQp} \subseteq Nat \ {0}
    /\ Windows \subseteq Nat \ {0}
    /\ \E w \in Windows : \A v \in Windows : v <= w

Rates == 0 .. MaxRate     \* 0: below 1 kbps
Qps   == 0 .. MaxQp
NoRate     == MaxRate + 1  \* bits_per_second is 0
NoQp       == MaxQp + 1    \* 63 in initial_rc_qp, the valid flags elsewhere
NoSequence == MaxFps + 1

VARIABLES
    profile,                     \* "H264" or "HEVC"
    rate_control,                \* CQP, CBR or VBR
    encoder_init_deferred,       \* not started yet
    vpu_running,
    encoder_failed,              \* poisoned: every further call is refused
    rc_params,                   \* video_enc_params.rc_params
    encoder_max_bitrate,         \* encoder_max_bitrate_kbps
    applied_max_bitrate,         \* encoder_applied_max_bitrate_kbps
    hardware,                    \* rc and maximum the hardware works with
    sequence,                    \* frame rate of the stored sequence, 0: none given
    picture,                     \* the encoder's picture and its QPs
    call,                        \* the vaRenderPicture in progress
    status                       \* what the last buffer was answered

rateSettings == <<rc_params, encoder_max_bitrate, applied_max_bitrate, hardware>>
encoderVars  == <<profile, rate_control, encoder_init_deferred, vpu_running>>
rateVars     == <<encoderVars, encoder_failed, rateSettings, sequence, picture,
                  call, status>>

RcParams == [bit_rate: Rates, frame_rate: 1 .. MaxFps, vbv: Windows,
             qp: Qps, initial_qp: Qps \cup {NoQp}, min_qp: Qps, max_qp: Qps]

VBR == rate_control = "VBR"
CQP == rate_control = "CQP"

NoPicture == [open |-> FALSE, whole |-> FALSE, pic_qp |-> NoQp, qp_delta |-> NoQp]
NoCall    == [active |-> FALSE, vbr_seen |-> FALSE, done |-> {}]

(* vaCreateContext: defaults of the parameters, nothing in the hardware. *)
DefaultRc == [bit_rate   |-> MaxRate,
              frame_rate |-> 1,
              vbv        |-> CHOOSE w \in Windows : \A v \in Windows : v <= w,
              qp         |-> 0,
              initial_qp |-> NoQp,
              min_qp     |-> 1,
              max_qp     |-> MaxQp]

RateInit ==
    /\ profile \in {"H264", "HEVC"}
    /\ rate_control \in RateModes
    /\ encoder_init_deferred = TRUE
    /\ vpu_running = FALSE
    /\ encoder_failed = FALSE
    /\ rc_params = DefaultRc
    /\ encoder_max_bitrate = IF VBR THEN MaxRate ELSE 0
    /\ applied_max_bitrate = 0
    /\ hardware = [rc |-> DefaultRc, max |-> 0]
    /\ sequence = NoSequence
    /\ picture = NoPicture
    /\ call = NoCall
    /\ status = "SUCCESS"

-----------------------------------------------------------------------------
(* hobot_apply_encoder_rate_control: `new` and `max` are what rc_params    *)
(* and encoder_max_bitrate_kbps have been set to, rc_params (unprimed)     *)
(* what they are put back to.                                              *)

(* A slip: the hardware's maximum is not set back. *)
NoRollBack(max) ==
    /\ hardware' = [hardware EXCEPT !.max = max]
    /\ UNCHANGED encoder_failed

(* The rollback sets the hardware's maximum back; if that fails too, it    *)
(* may be `max` still, and the encoder is poisoned.                        *)
RollBack(max) ==
    \/ /\ hardware' = [hardware EXCEPT !.max = applied_max_bitrate]
       /\ UNCHANGED encoder_failed
    \/ /\ hardware' \in {[hardware EXCEPT !.max = m] : m \in {max, applied_max_bitrate}}
       /\ encoder_failed' = TRUE

ChangesMax(max) == VBR /\ max # applied_max_bitrate

ApplyLater(new, max) ==
    /\ encoder_init_deferred
    /\ rc_params' = new
    /\ encoder_max_bitrate' = max
    /\ status' = "SUCCESS"
    /\ UNCHANGED <<applied_max_bitrate, hardware, encoder_failed>>

ApplyNow(new, max) ==
    /\ ~encoder_init_deferred
    /\ rc_params' = new
    /\ encoder_max_bitrate' = max
    /\ applied_max_bitrate' = IF VBR THEN max ELSE applied_max_bitrate
    /\ hardware' = [rc |-> new, max |-> IF VBR THEN max ELSE hardware.max]
    /\ status' = "SUCCESS"
    /\ UNCHANGED encoder_failed

(* Either call to the hardware fails after a change of the maximum. *)
ApplyTakenBack(max) ==
    /\ ~encoder_init_deferred
    /\ ChangesMax(max)
    /\ RollBack(max)
    /\ encoder_max_bitrate' = applied_max_bitrate
    /\ status' = "OPERATION_FAILED"
    /\ UNCHANGED <<rc_params, applied_max_bitrate>>

ApplyRefused(max) ==
    /\ ~encoder_init_deferred
    /\ ~ChangesMax(max)
    /\ encoder_max_bitrate' = max
    /\ status' = "OPERATION_FAILED"
    /\ UNCHANGED <<rc_params, applied_max_bitrate, hardware, encoder_failed>>

Apply(new, max) ==
    \/ ApplyLater(new, max)
    \/ ApplyNow(new, max)
    \/ ApplyTakenBack(max)
    \/ ApplyRefused(max)

-----------------------------------------------------------------------------
(* vaBeginPicture, as far as the rate control goes. *)
BeginEncode ==
    /\ ~encoder_failed /\ ~picture.open
    /\ picture' = [picture EXCEPT !.open = TRUE]
    /\ UNCHANGED <<encoderVars, encoder_failed, rateSettings, sequence, call, status>>

(* vaRenderPicture begins; `seen` is vbr_rate_control_seen.  A HEVC call   *)
(* always has picture parameters and slice; what vaEndPicture needs of     *)
(* them is kept even if a later buffer of the call is refused.             *)
BeginRender(seen, early) ==
    /\ ~encoder_failed /\ picture.open /\ ~call.active
    /\ seen => VBR
    /\ early => profile = "HEVC"
    /\ picture' = [picture EXCEPT !.whole = @ \/ early]
    /\ call' = [active |-> TRUE, vbr_seen |-> seen, done |-> {}]
    /\ status' = "SUCCESS"
    /\ UNCHANGED <<encoderVars, encoder_failed, rateSettings, sequence>>

NextBuffer(kind) == call.active /\ kind \notin call.done

(* The loop goes on with the next buffer, or the call returns an error. *)
Answered(kind) ==
    call' = IF status' = "SUCCESS" THEN [call EXCEPT !.done = @ \cup {kind}] ELSE NoCall

(* A buffer is refused; `max` is what encoder_max_bitrate_kbps is by then. *)
Refuse(answer, max) ==
    /\ status' = answer
    /\ call' = NoCall
    /\ encoder_max_bitrate' = max
    /\ UNCHANGED <<rc_params, applied_max_bitrate, hardware, encoder_failed, sequence>>

(* The maximum after a sequence that asks for `rate`. *)
TakesRate(rate) == VBR /\ ~call.vbr_seen /\ rate # NoRate

(* A slip: bits_per_second is taken although none was given. *)
SequenceMaxAlways(rate) == IF VBR THEN rate ELSE encoder_max_bitrate

SequenceMax(rate) == IF TakesRate(rate) THEN rate ELSE encoder_max_bitrate

SequenceRc(rate, fps) ==
    [rc_params EXCEPT
        !.bit_rate = IF TakesRate(rate) \/ (rate_control = "CBR" /\ rate # NoRate)
                     THEN rate ELSE @,
        !.frame_rate = IF fps > 0 THEN fps ELSE @]

(* The sequence may not change once it was stored, and the first of an     *)
(* H.264 encoder must come before the start.                               *)
SequenceFits(fps) ==
    IF sequence = NoSequence THEN profile = "HEVC" \/ encoder_init_deferred
    ELSE fps = sequence

(* VAEncSequenceParameterBufferType: `rate` from bits_per_second, `fps`    *)
(* from the timing information; either may be absent.  The frame rate is   *)
(* looked at last, when the maximum has been replaced.  HEVC sequences     *)
(* below 1 kbps do not get this far.                                       *)
Sequence(rate, fps) ==
    /\ NextBuffer("sequence")
    /\ profile = "HEVC" => rate # 0
    /\ \/ /\ ~SequenceFits(fps)
          /\ Refuse("ATTR_NOT_SUPPORTED", encoder_max_bitrate)
       \/ /\ SequenceFits(fps)
          /\ TakesRate(rate) /\ rate = 0
          /\ Refuse("INVALID_PARAMETER", encoder_max_bitrate)
       \/ /\ SequenceFits(fps)
          /\ TakesRate(rate) => rate > 0
          /\ fps > MaxFps
          /\ Refuse("INVALID_PARAMETER", SequenceMax(rate))
       \/ /\ SequenceFits(fps)
          /\ TakesRate(rate) => rate > 0
          /\ fps <= MaxFps
          /\ Apply(SequenceRc(rate, fps), SequenceMax(rate))
          /\ sequence' = IF status' = "SUCCESS" THEN fps ELSE sequence
          /\ Answered("sequence")
    /\ UNCHANGED <<encoderVars, picture>>

(* VAEncMiscParameterTypeRateControl of a VBR encoder:                     *)
(* hobot_update_vbr_rate_control.  A QP of 0 is not given.                 *)
VbrRc(target, window, initial, min, max) ==
    [rc_params EXCEPT
        !.bit_rate   = target,
        !.vbv        = window,
        !.initial_qp = IF initial # 0 THEN initial ELSE @,
        !.min_qp     = IF min # 0 THEN min ELSE @,
        !.max_qp     = IF max # 0 THEN max ELSE @]

UpdateVbr(rate, target, window, initial, min, max) ==
    LET new == VbrRc(target, window, initial, min, max)
    IN  /\ NextBuffer("rate") /\ VBR /\ call.vbr_seen
        /\ target \in 1 .. rate
        /\ min # 0 /\ max # 0 => min <= max
        /\ \/ /\ ~encoder_init_deferred
              /\ new.initial_qp # rc_params.initial_qp
              /\ Refuse("ATTR_NOT_SUPPORTED", encoder_max_bitrate)
           \/ /\ encoder_init_deferred \/ new.initial_qp = rc_params.initial_qp
              /\ new.min_qp > new.max_qp
              /\ Refuse("INVALID_PARAMETER", encoder_max_bitrate)
           \/ /\ encoder_init_deferred \/ new.initial_qp = rc_params.initial_qp
              /\ new.min_qp <= new.max_qp
              /\ Apply(new, rate)
              /\ Answered("rate")
              /\ UNCHANGED sequence
        /\ UNCHANGED <<encoderVars, picture>>

(* The same buffer of a CBR encoder. *)
UpdateCbr(rate) ==
    /\ NextBuffer("rate") /\ rate_control = "CBR" /\ rate > 0
    /\ Apply([rc_params EXCEPT !.bit_rate = rate], encoder_max_bitrate)
    /\ Answered("rate")
    /\ UNCHANGED <<encoderVars, sequence, picture>>

(* VAEncMiscParameterTypeFrameRate; 0 is ignored. *)
FrameRate(fps) ==
    /\ NextBuffer("frame_rate")
    /\ \/ /\ fps > MaxFps
          /\ Refuse("INVALID_PARAMETER", encoder_max_bitrate)
       \/ /\ fps \in 1 .. MaxFps
          /\ Apply([rc_params EXCEPT !.frame_rate = fps], encoder_max_bitrate)
          /\ Answered("frame_rate")
          /\ UNCHANGED sequence
    /\ UNCHANGED <<encoderVars, picture>>

(* The loop is over: every rate-control buffer of the call was applied,    *)
(* and a HEVC encoder has its sequence.                                    *)
LoopDone ==
    /\ call.active
    /\ call.vbr_seen => "rate" \in call.done
    /\ profile = "HEVC" => sequence # NoSequence

(* The call brought the picture what vaEndPicture asks for, or some of it. *)
Rendered ==
    picture' \in {[picture EXCEPT !.whole = w] :
                    w \in IF profile = "HEVC" THEN {TRUE} ELSE {picture.whole, TRUE}}

(* The HRD buffer is applied after the loop, whatever its place. *)
Hrd(window) ==
    /\ LoopDone /\ ~CQP
    /\ Apply([rc_params EXCEPT !.vbv = window], encoder_max_bitrate)
    /\ call' = NoCall
    /\ IF status' = "SUCCESS" THEN Rendered ELSE UNCHANGED picture
    /\ UNCHANGED <<encoderVars, sequence>>

(* The effective QP of a CQP encoder: that of the picture and the slice's  *)
(* difference, each of this call or of an earlier one of the picture.      *)
GivenOr(given, kept) == IF given = NoQp THEN kept ELSE given

SetQp(pic, delta) ==
    LET pic_qp   == GivenOr(pic, picture.pic_qp)
        qp_delta == GivenOr(delta, picture.qp_delta)
        both     == pic_qp # NoQp /\ qp_delta # NoQp
        given    == [picture EXCEPT !.pic_qp = pic_qp, !.qp_delta = qp_delta,
                                    !.whole = @ \/ both]
    IN  /\ LoopDone /\ CQP
        /\ \/ /\ both /\ pic_qp + qp_delta > MaxQp
              /\ Refuse("INVALID_PARAMETER", encoder_max_bitrate)
              /\ UNCHANGED picture
           \/ /\ both /\ pic_qp + qp_delta <= MaxQp
              /\ Apply([rc_params EXCEPT !.qp = pic_qp + qp_delta], encoder_max_bitrate)
              /\ picture' = IF status' = "SUCCESS" THEN given ELSE picture
              /\ call' = NoCall
              /\ UNCHANGED sequence
           \/ /\ ~both
              /\ picture' = given
              /\ call' = NoCall
              /\ status' = "SUCCESS"
              /\ UNCHANGED <<encoder_failed, rateSettings, sequence>>
        /\ UNCHANGED encoderVars

EndRender ==
    /\ LoopDone /\ ~CQP
    /\ call' = NoCall
    /\ status' = "SUCCESS"
    /\ Rendered
    /\ UNCHANGED <<encoderVars, encoder_failed, rateSettings, sequence>>

-----------------------------------------------------------------------------
(* vaEndPicture. *)
MayEndEncode ==
    /\ ~encoder_failed /\ picture.open /\ ~call.active /\ picture.whole
    /\ CQP => picture.pic_qp # NoQp /\ picture.qp_delta # NoQp

(* What the deferred start asks of the parameters. *)
MayStart ==
    /\ profile = "HEVC" => sequence # NoSequence
    /\ VBR => /\ rc_params.bit_rate \in 1 .. encoder_max_bitrate
              /\ rc_params.min_qp <= rc_params.max_qp
    /\ rate_control = "CBR" /\ profile = "HEVC" => rc_params.bit_rate > 0

(* The HEVC start sets the frame rate and the QP once more. *)
StartRc ==
    IF profile = "HEVC"
    THEN [rc_params EXCEPT
            !.frame_rate = IF sequence > 0 THEN sequence ELSE @,
            !.qp = IF CQP THEN picture.pic_qp + picture.qp_delta ELSE @]
    ELSE rc_params

(* hobot_start_deferred_h264_encoder and hobot_start_deferred_hevc_encoder.*)
(* After a failure the hardware is of no further use: stopped, or left     *)
(* running for a later call to stop.                                       *)
StartFails ==
    /\ MayEndEncode /\ encoder_init_deferred
    /\ encoder_init_deferred' = FALSE
    /\ encoder_failed' = TRUE
    /\ vpu_running' \in IF MayStart THEN BOOLEAN ELSE {FALSE}
    /\ rc_params' = IF MayStart THEN StartRc ELSE rc_params
    /\ UNCHANGED <<profile, rate_control, encoder_max_bitrate, applied_max_bitrate,
                   hardware, sequence, picture, call, status>>

StartEncode ==
    /\ MayEndEncode /\ encoder_init_deferred /\ MayStart
    /\ encoder_init_deferred' = FALSE
    /\ vpu_running' = TRUE
    /\ rc_params' = StartRc
    /\ hardware' = [rc |-> StartRc, max |-> encoder_max_bitrate]
    /\ applied_max_bitrate' = IF VBR THEN encoder_max_bitrate ELSE applied_max_bitrate
    /\ picture' = NoPicture
    /\ UNCHANGED <<profile, rate_control, encoder_failed, encoder_max_bitrate, sequence,
                   call, status>>

(* The picture is encoded, or the encoder fails with it: the rest of       *)
(* vaEndPicture is the subject of EncodePicture.                           *)
Encode ==
    /\ MayEndEncode /\ vpu_running
    /\ picture' = NoPicture
    /\ encoder_failed' \in BOOLEAN
    /\ UNCHANGED <<encoderVars, rateSettings, sequence, call, status>>

-----------------------------------------------------------------------------
RateNext ==
    \/ BeginEncode
    \/ \E seen, early \in BOOLEAN : BeginRender(seen, early)
    \/ \E rate \in Rates \cup {NoRate}, fps \in 0 .. MaxFps + 1 : Sequence(rate, fps)
    \/ \E rate, target \in Rates, window \in Windows,
          initial, min, max \in Qps :
             UpdateVbr(rate, target, window, initial, min, max)
    \/ \E rate \in Rates : UpdateCbr(rate)
    \/ \E fps \in 0 .. MaxFps + 1 : FrameRate(fps)
    \/ \E window \in Windows : Hrd(window)
    \/ \E pic, delta \in Qps \cup {NoQp} : SetQp(pic, delta)
    \/ EndRender
    \/ StartFails
    \/ StartEncode
    \/ Encode

RateSpec == RateInit /\ [][RateNext]_rateVars

-----------------------------------------------------------------------------
(* Rates, QPs and frame rates stay in the ranges the encoder accepts, and  *)
(* a call in progress remembers only buffers it had.                       *)
RateTypeOK ==
    /\ profile \in {"H264", "HEVC"}
    /\ rate_control \in RateModes
    /\ encoder_init_deferred \in BOOLEAN
    /\ vpu_running \in BOOLEAN
    /\ encoder_failed \in BOOLEAN
    /\ rc_params \in RcParams
    /\ encoder_max_bitrate \in Rates
    /\ applied_max_bitrate \in Rates
    /\ hardware \in [rc: RcParams, max: Rates]
    /\ sequence \in 0 .. NoSequence
    /\ picture \in [open: BOOLEAN, whole: BOOLEAN,
                    pic_qp: Qps \cup {NoQp}, qp_delta: Qps \cup {NoQp}]
    /\ call \in [active: BOOLEAN, vbr_seen: BOOLEAN,
                 done: SUBSET {"sequence", "rate", "frame_rate"}]
    /\ status \in {"SUCCESS", "INVALID_PARAMETER", "ATTR_NOT_SUPPORTED",
                   "OPERATION_FAILED"}

(* While an encoder runs and is not poisoned, the hardware works with what *)
(* the driver believes: the rate parameters, the applied VBR maximum and,  *)
(* for CQP, the QP of the open picture; whichever calls failed on the way, *)
(* and however the rollbacks went.                                         *)
HardwareFollows ==
    vpu_running /\ ~encoder_failed =>
        /\ hardware.rc = rc_params
        /\ VBR => hardware.max = applied_max_bitrate
        /\ CQP /\ picture.pic_qp # NoQp /\ picture.qp_delta # NoQp =>
             hardware.rc.qp = picture.pic_qp + picture.qp_delta

(* A buffer refused as invalid leaves the encoder's rate control as it     *)
(* was: the driver's parameters, its maximum, and the hardware's.          *)
RefusedChangesNothing ==
    [][call.active /\ status' = "INVALID_PARAMETER" => UNCHANGED rateSettings]_rateVars
=============================================================================
