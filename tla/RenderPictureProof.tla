------------------------- MODULE RenderPictureProof -------------------------
(***************************************************************************)
(* Proofs about RenderPicture: an encoder's hardware follows the driver's  *)
(* rate control, and a decoder's slices are read with the parameter sets   *)
(* of their own picture, for every value of the constants.                 *)
(***************************************************************************)
EXTENDS RenderPicture, TLAPS

-----------------------------------------------------------------------------
(* Rate control.  An encoder that has not been started does not run, so    *)
(* requests that only change the driver's fields meet no hardware; and the *)
(* QPs that were stored for a picture have been found to fit together, so  *)
(* the start may add them without a check.                                 *)
NotYetRunning == encoder_init_deferred => ~vpu_running

QpGiven == picture.pic_qp # NoQp /\ picture.qp_delta # NoQp

QpFits == QpGiven => picture.pic_qp + picture.qp_delta \in Qps

RateInv == RateTypeOK /\ NotYetRunning /\ QpFits /\ HardwareFollows

LEMMA RateConstants ==
    /\ MaxRate \in Nat \ {0} /\ MaxFps \in Nat \ {0} /\ MaxQp \in Nat \ {0}
    /\ 0 \in Rates /\ MaxRate \in Rates /\ 0 \in Qps /\ 1 \in Qps /\ MaxQp \in Qps
    /\ NoQp \notin Qps /\ NoSequence \in 0 .. NoSequence
  BY RateAssumption DEF Rates, Qps, NoQp, NoSequence

LEMMA DefaultRcTypes == DefaultRc \in RcParams
  <1>1. (CHOOSE w \in Windows : \A v \in Windows : v <= w) \in Windows
    BY RateAssumption
  <1>2. 1 \in 1 .. MaxFps
    BY RateConstants
  <1> QED
    BY <1>1, <1>2, RateConstants DEF DefaultRc, RcParams

(* What a step of vaRenderPicture may make of the rate parameters.         *)
LEMMA RcUpdates ==
    ASSUME NEW r \in RcParams
    PROVE  /\ \A rate \in Rates, fps \in 1 .. MaxFps :
                 [r EXCEPT !.bit_rate = rate, !.frame_rate = fps] \in RcParams
           /\ \A rate \in Rates : [r EXCEPT !.bit_rate = rate] \in RcParams
           /\ \A fps \in 1 .. MaxFps : [r EXCEPT !.frame_rate = fps] \in RcParams
           /\ \A w \in Windows : [r EXCEPT !.vbv = w] \in RcParams
           /\ \A q \in Qps : [r EXCEPT !.qp = q] \in RcParams
           /\ \A q \in Qps, fps \in 1 .. MaxFps :
                 [r EXCEPT !.frame_rate = fps, !.qp = q] \in RcParams
           /\ \A rate \in Rates, w \in Windows, i \in Qps \cup {NoQp}, m, n \in Qps :
                 [r EXCEPT !.bit_rate = rate, !.vbv = w, !.initial_qp = i,
                           !.min_qp = m, !.max_qp = n] \in RcParams
  BY DEF RcParams

LEMMA RateInitInv == RateInit => RateInv
  <1> SUFFICES ASSUME RateInit PROVE RateInv
    OBVIOUS
  <1>1. RateTypeOK
    BY DefaultRcTypes, RateConstants
    DEF RateInit, RateTypeOK, NoPicture, NoCall
  <1>2. NotYetRunning /\ HardwareFollows
    BY DEF RateInit, NotYetRunning, HardwareFollows
  <1>3. QpFits
    BY DEF RateInit, QpFits, QpGiven, NoPicture
  <1> QED
    BY <1>1, <1>2, <1>3 DEF RateInv

(* hobot_apply_encoder_rate_control keeps the hardware and the driver's    *)
(* fields together, whichever call fails and however the rollback goes;    *)
(* without the QP, which depends on what becomes of the picture.           *)
LEMMA ApplyFollows ==
    ASSUME RateInv, NEW new \in RcParams, NEW max \in Rates, Apply(new, max),
           UNCHANGED encoderVars
    PROVE  /\ rc_params' \in {new, rc_params} /\ rc_params' \in RcParams
           /\ status' = "SUCCESS" => rc_params' = new
           /\ status' # "SUCCESS" => rc_params' = rc_params
           /\ encoder_max_bitrate' \in Rates /\ applied_max_bitrate' \in Rates
           /\ hardware' \in [rc: RcParams, max: Rates]
           /\ encoder_failed' \in BOOLEAN
           /\ status' \in {"SUCCESS", "OPERATION_FAILED"}
           /\ ~encoder_failed' => ~encoder_failed
           /\ vpu_running' /\ ~encoder_failed' =>
                 /\ hardware'.rc = rc_params'
                 /\ VBR' => hardware'.max = applied_max_bitrate'
  <1> USE DEF RateInv, RateTypeOK
  <1>1. CASE ApplyLater(new, max)
    BY <1>1 DEF ApplyLater, NotYetRunning, encoderVars
  <1>2. CASE ApplyNow(new, max)
    BY <1>2 DEF ApplyNow, encoderVars, HardwareFollows, VBR
  <1>3. CASE ApplyTakenBack(max)
    <2>1. /\ \E m \in Rates : hardware' = [hardware EXCEPT !.max = m]
          /\ encoder_failed' \in BOOLEAN
          /\ ~encoder_failed' => /\ hardware' = [hardware EXCEPT !.max = applied_max_bitrate]
                                 /\ ~encoder_failed
      <3>1. CASE RollBack(max)!1
        BY <1>3, <3>1 DEF ApplyTakenBack
      <3>2. CASE RollBack(max)!2
        BY <1>3, <3>2 DEF ApplyTakenBack
      <3> QED
        BY <1>3, <3>1, <3>2 DEF ApplyTakenBack, RollBack
    <2>2. /\ hardware' \in [rc: RcParams, max: Rates]
          /\ hardware'.rc = hardware.rc
      BY <2>1
    <2> QED
      BY <1>3, <2>1, <2>2 DEF ApplyTakenBack, encoderVars, HardwareFollows, VBR
  <1>4. CASE ApplyRefused(max)
    BY <1>4 DEF ApplyRefused, encoderVars, HardwareFollows, VBR
  <1> QED
    BY <1>1, <1>2, <1>3, <1>4 DEF Apply

RatePictures == [open: BOOLEAN, whole: BOOLEAN,
                 pic_qp: Qps \cup {NoQp}, qp_delta: Qps \cup {NoQp}]

RateCalls == [active: BOOLEAN, vbr_seen: BOOLEAN,
              done: SUBSET {"sequence", "rate", "frame_rate"}]

(* A request that is applied.                                              *)
LEMMA ApplyKeeps ==
    ASSUME RateInv, NEW new \in RcParams, NEW max \in Rates, Apply(new, max),
           UNCHANGED encoderVars,
           sequence' \in 0 .. NoSequence, picture' \in RatePictures, call' \in RateCalls,
           QpFits',
           vpu_running /\ ~encoder_failed /\ CQP /\ QpGiven' =>
              rc_params'.qp = picture'.pic_qp + picture'.qp_delta
    PROVE  RateInv'
  <1>1. /\ rc_params' \in RcParams
        /\ encoder_max_bitrate' \in Rates /\ applied_max_bitrate' \in Rates
        /\ hardware' \in [rc: RcParams, max: Rates]
        /\ encoder_failed' \in BOOLEAN
        /\ status' \in {"SUCCESS", "OPERATION_FAILED"}
        /\ ~encoder_failed' => ~encoder_failed
        /\ vpu_running' /\ ~encoder_failed' =>
              /\ hardware'.rc = rc_params'
              /\ VBR' => hardware'.max = applied_max_bitrate'
    BY ApplyFollows
  <1>2. RateTypeOK'
    BY <1>1 DEF RateInv, RateTypeOK, encoderVars, RatePictures, RateCalls
  <1>3. NotYetRunning'
    BY DEF RateInv, NotYetRunning, encoderVars
  <1>4. HardwareFollows'
    BY <1>1 DEF HardwareFollows, encoderVars, CQP, QpGiven
  <1> QED
    BY <1>2, <1>3, <1>4 DEF RateInv

(* The picture stays as it is, and so does the QP of the request.          *)
LEMMA ApplySameQp ==
    ASSUME RateInv, NEW new \in RcParams, NEW max \in Rates, Apply(new, max),
           new.qp = rc_params.qp,
           UNCHANGED <<encoderVars, picture>>,
           sequence' \in 0 .. NoSequence, call' \in RateCalls
    PROVE  RateInv'
  <1>1. rc_params'.qp = rc_params.qp
    BY ApplyFollows
  <1>2. QpFits' /\ picture' \in RatePictures
    BY DEF RateInv, RateTypeOK, RatePictures, QpFits, QpGiven
  <1>3. vpu_running /\ ~encoder_failed /\ CQP /\ QpGiven' =>
              rc_params'.qp = picture'.pic_qp + picture'.qp_delta
    BY <1>1 DEF RateInv, HardwareFollows, QpGiven
  <1> QED
    BY <1>2, <1>3, ApplyKeeps

LEMMA AnsweredTypes ==
    ASSUME RateTypeOK, NEW kind \in {"sequence", "rate", "frame_rate"}, Answered(kind)
    PROVE  call' \in RateCalls
  BY DEF RateTypeOK, Answered, NoCall, RateCalls

(* A request that is refused before it is applied.                         *)
LEMMA RefuseKeeps ==
    ASSUME RateInv, NEW answer \in {"INVALID_PARAMETER", "ATTR_NOT_SUPPORTED"},
           NEW max \in Rates, Refuse(answer, max), UNCHANGED <<encoderVars, picture>>
    PROVE  RateInv'
  BY DEF RateInv, RateTypeOK, NotYetRunning, QpFits, QpGiven, HardwareFollows, Refuse,
         encoderVars, VBR, CQP, NoCall

LEMMA SequenceKeeps ==
    ASSUME RateInv, NEW rate \in Rates \cup {NoRate}, NEW fps \in 0 .. MaxFps + 1,
           Sequence(rate, fps)
    PROVE  RateInv'
  <1>1. SequenceMax(rate) \in Rates
    BY DEF RateInv, RateTypeOK, SequenceMax, TakesRate
  <1>2. ASSUME fps <= MaxFps
        PROVE  /\ SequenceRc(rate, fps) \in RcParams
               /\ SequenceRc(rate, fps).qp = rc_params.qp
    <2>1. fps > 0 => fps \in 1 .. MaxFps
      BY <1>2, RateConstants
    <2>2. TakesRate(rate) \/ (rate_control = "CBR" /\ rate # NoRate) => rate \in Rates
      BY DEF TakesRate
    <2> QED
      BY <2>1, <2>2 DEF RateInv, RateTypeOK, SequenceRc, RcParams
  <1>3. CASE Refuse("ATTR_NOT_SUPPORTED", encoder_max_bitrate)
    BY <1>3, RefuseKeeps DEF Sequence, RateInv, RateTypeOK
  <1>4. CASE Refuse("INVALID_PARAMETER", encoder_max_bitrate)
    BY <1>4, RefuseKeeps DEF Sequence, RateInv, RateTypeOK
  <1>5. CASE Refuse("INVALID_PARAMETER", SequenceMax(rate))
    BY <1>1, <1>5, RefuseKeeps DEF Sequence
  <1>6. CASE /\ fps <= MaxFps
             /\ Apply(SequenceRc(rate, fps), SequenceMax(rate))
             /\ sequence' = IF status' = "SUCCESS" THEN fps ELSE sequence
             /\ Answered("sequence")
    <2>1. fps \in 0 .. NoSequence
      BY RateConstants DEF NoSequence
    <2>2. sequence' \in 0 .. NoSequence
      BY <1>6, <2>1 DEF RateInv, RateTypeOK
    <2>3. call' \in RateCalls
      BY <1>6, AnsweredTypes DEF RateInv
    <2> QED
      BY <1>1, <1>2, <1>6, <2>2, <2>3, ApplySameQp DEF Sequence
  <1> QED
    BY <1>3, <1>4, <1>5, <1>6 DEF Sequence

LEMMA UpdateVbrKeeps ==
    ASSUME RateInv, NEW rate \in Rates, NEW target \in Rates, NEW window \in Windows,
           NEW initial \in Qps, NEW min \in Qps, NEW max \in Qps,
           UpdateVbr(rate, target, window, initial, min, max)
    PROVE  RateInv'
  <1> DEFINE new == VbrRc(target, window, initial, min, max)
  <1>1. new \in RcParams /\ new.qp = rc_params.qp
    BY DEF RateInv, RateTypeOK, VbrRc, RcParams
  <1> HIDE DEF new
  <1>2. CASE \E answer \in {"INVALID_PARAMETER", "ATTR_NOT_SUPPORTED"} :
                Refuse(answer, encoder_max_bitrate)
    BY <1>2, RefuseKeeps DEF UpdateVbr, RateInv, RateTypeOK
  <1>3. CASE Apply(new, rate) /\ Answered("rate") /\ UNCHANGED sequence
    <2>1. sequence' \in 0 .. NoSequence /\ call' \in RateCalls
      BY <1>3, AnsweredTypes DEF RateInv, RateTypeOK
    <2> QED
      BY <1>1, <1>3, <2>1, ApplySameQp DEF UpdateVbr
  <1> QED
    BY <1>2, <1>3 DEF UpdateVbr, new

LEMMA UpdateCbrKeeps ==
    ASSUME RateInv, NEW rate \in Rates, UpdateCbr(rate)
    PROVE  RateInv'
  <1>1. /\ [rc_params EXCEPT !.bit_rate = rate] \in RcParams
        /\ [rc_params EXCEPT !.bit_rate = rate].qp = rc_params.qp
        /\ encoder_max_bitrate \in Rates
    BY DEF RateInv, RateTypeOK, RcParams
  <1>2. sequence' \in 0 .. NoSequence /\ call' \in RateCalls
    BY AnsweredTypes DEF UpdateCbr, RateInv, RateTypeOK
  <1> QED
    BY <1>1, <1>2, ApplySameQp DEF UpdateCbr

LEMMA FrameRateKeeps ==
    ASSUME RateInv, NEW fps \in 0 .. MaxFps + 1, FrameRate(fps)
    PROVE  RateInv'
  <1>1. encoder_max_bitrate \in Rates
    BY DEF RateInv, RateTypeOK
  <1>2. CASE Refuse("INVALID_PARAMETER", encoder_max_bitrate)
    BY <1>1, <1>2, RefuseKeeps DEF FrameRate
  <1>3. CASE /\ fps \in 1 .. MaxFps
             /\ Apply([rc_params EXCEPT !.frame_rate = fps], encoder_max_bitrate)
             /\ Answered("frame_rate") /\ UNCHANGED sequence
    <2>1. /\ [rc_params EXCEPT !.frame_rate = fps] \in RcParams
          /\ [rc_params EXCEPT !.frame_rate = fps].qp = rc_params.qp
      BY <1>3 DEF RateInv, RateTypeOK, RcParams
    <2>2. sequence' \in 0 .. NoSequence /\ call' \in RateCalls
      BY <1>3, AnsweredTypes DEF RateInv, RateTypeOK
    <2> QED
      BY <1>1, <1>3, <2>1, <2>2, ApplySameQp DEF FrameRate
  <1> QED
    BY <1>2, <1>3 DEF FrameRate

LEMMA RenderedTypes ==
    ASSUME RateTypeOK, Rendered
    PROVE  /\ picture' \in RatePictures
           /\ picture'.pic_qp = picture.pic_qp /\ picture'.qp_delta = picture.qp_delta
  <1>1. \E w \in BOOLEAN : picture' = [picture EXCEPT !.whole = w]
    BY DEF Rendered, RateTypeOK
  <1> QED
    BY <1>1 DEF RateTypeOK, RatePictures

LEMMA HrdKeeps ==
    ASSUME RateInv, NEW window \in Windows, Hrd(window)
    PROVE  RateInv'
  <1>1. [rc_params EXCEPT !.vbv = window] \in RcParams /\ encoder_max_bitrate \in Rates
    BY DEF RateInv, RateTypeOK, RcParams
  <1>2. ~CQP /\ Apply([rc_params EXCEPT !.vbv = window], encoder_max_bitrate)
        /\ UNCHANGED encoderVars
    BY DEF Hrd
  <1>3. picture' \in RatePictures /\ QpFits'
    <2>1. CASE UNCHANGED picture
      BY <2>1 DEF RateInv, RateTypeOK, RatePictures, QpFits, QpGiven
    <2>2. CASE Rendered
      BY <2>2, RenderedTypes DEF RateInv, QpFits, QpGiven
    <2> QED
      BY <2>1, <2>2 DEF Hrd
  <1>4. sequence' \in 0 .. NoSequence /\ call' \in RateCalls
    BY DEF Hrd, RateInv, RateTypeOK, NoCall, RateCalls
  <1> QED
    BY <1>1, <1>2, <1>3, <1>4, ApplyKeeps

LEMMA SetQpKeeps ==
    ASSUME RateInv, NEW pic \in Qps \cup {NoQp}, NEW delta \in Qps \cup {NoQp},
           SetQp(pic, delta)
    PROVE  RateInv'
  <1> DEFINE pic_qp   == GivenOr(pic, picture.pic_qp)
             qp_delta == GivenOr(delta, picture.qp_delta)
             both     == pic_qp # NoQp /\ qp_delta # NoQp
             given    == [picture EXCEPT !.pic_qp = pic_qp, !.qp_delta = qp_delta,
                                         !.whole = @ \/ both]
  <1>1. pic_qp \in Qps \cup {NoQp} /\ qp_delta \in Qps \cup {NoQp}
    BY DEF RateInv, RateTypeOK, GivenOr
  <1>2. /\ given \in RatePictures
        /\ given.pic_qp = pic_qp /\ given.qp_delta = qp_delta
    <2>1. (picture.whole \/ both) \in BOOLEAN
      OBVIOUS
    <2> QED
      BY <1>1, <2>1 DEF RateInv, RateTypeOK, RatePictures
  <1>3. encoder_max_bitrate \in Rates
    BY DEF RateInv, RateTypeOK
  <1>4. both => pic_qp \in Nat /\ qp_delta \in Nat
    BY <1>1, RateConstants DEF Qps
  <1> HIDE DEF pic_qp, qp_delta, given
  <1>5. CASE Refuse("INVALID_PARAMETER", encoder_max_bitrate) /\ UNCHANGED picture
    BY <1>3, <1>5, RefuseKeeps DEF SetQp
  <1>6. CASE /\ both /\ pic_qp + qp_delta <= MaxQp
             /\ Apply([rc_params EXCEPT !.qp = pic_qp + qp_delta], encoder_max_bitrate)
             /\ picture' = IF status' = "SUCCESS" THEN given ELSE picture
             /\ call' = NoCall
             /\ UNCHANGED sequence
    <2> DEFINE new == [rc_params EXCEPT !.qp = pic_qp + qp_delta]
    <2>1. pic_qp + qp_delta \in Qps
      BY <1>4, <1>6, RateConstants DEF Qps
    <2>2. new \in RcParams /\ new.qp = pic_qp + qp_delta
      BY <2>1 DEF RateInv, RateTypeOK, RcParams
    <2> HIDE DEF new
    <2>3. Apply(new, encoder_max_bitrate) /\ UNCHANGED encoderVars
      BY <1>6 DEF new, SetQp
    <2>4. /\ status' = "SUCCESS" => rc_params' = new
          /\ status' # "SUCCESS" => rc_params' = rc_params
      BY <1>3, <2>2, <2>3, ApplyFollows
    <2>5. picture' \in RatePictures /\ QpFits'
      BY <1>2, <1>6, <2>1 DEF RateInv, RateTypeOK, RatePictures, QpFits, QpGiven
    <2>6. vpu_running /\ ~encoder_failed /\ CQP /\ QpGiven' =>
              rc_params'.qp = picture'.pic_qp + picture'.qp_delta
      BY <1>2, <1>6, <2>2, <2>4 DEF RateInv, HardwareFollows, QpGiven
    <2>7. sequence' \in 0 .. NoSequence /\ call' \in RateCalls
      BY <1>6 DEF RateInv, RateTypeOK, NoCall, RateCalls
    <2> QED
      BY <1>3, <2>2, <2>3, <2>5, <2>6, <2>7, ApplyKeeps
  <1>7. CASE /\ ~both
             /\ picture' = given
             /\ call' = NoCall
             /\ status' = "SUCCESS"
             /\ UNCHANGED <<encoderVars, encoder_failed, rateSettings, sequence>>
    <2>1. ~QpGiven'
      BY <1>2, <1>7 DEF QpGiven
    <2> QED
      BY <1>2, <1>7, <2>1
      DEF RateInv, RateTypeOK, NotYetRunning, QpFits, QpGiven, HardwareFollows,
          encoderVars, rateSettings, VBR, CQP, NoCall, RatePictures
  <1> QED
    BY <1>5, <1>6, <1>7 DEF SetQp, pic_qp, qp_delta, given

(* The deferred start, by the sizes it hands to the hardware.              *)
LEMMA StartRcTypes ==
    ASSUME RateInv, MayEndEncode, MayStart
    PROVE  StartRc \in RcParams
  <1>1. CASE profile # "HEVC"
    BY <1>1 DEF StartRc, RateInv, RateTypeOK
  <1>2. CASE profile = "HEVC"
    <2>1. (IF sequence > 0 THEN sequence ELSE rc_params.frame_rate) \in 1 .. MaxFps
      <3>1. sequence \in 0 .. MaxFps + 1 /\ sequence # MaxFps + 1
        BY <1>2 DEF MayStart, NoSequence, RateInv, RateTypeOK
      <3>2. rc_params.frame_rate \in 1 .. MaxFps
        BY DEF RateInv, RateTypeOK, RcParams
      <3> QED
        BY <3>1, <3>2, RateConstants
    <2>2. (IF CQP THEN picture.pic_qp + picture.qp_delta ELSE rc_params.qp) \in Qps
      BY DEF MayEndEncode, RateInv, RateTypeOK, RcParams, QpFits, QpGiven
    <2> QED
      BY <1>2, <2>1, <2>2 DEF StartRc, RateInv, RateTypeOK, RcParams
  <1> QED
    BY <1>1, <1>2

LEMMA StartKeeps ==
    ASSUME RateInv, StartFails \/ StartEncode
    PROVE  RateInv'
  <1> USE DEF RateInv, RateTypeOK
  <1>1. CASE StartFails
    <2>1. rc_params' \in RcParams
      BY <1>1, StartRcTypes DEF StartFails
    <2> QED
      BY <1>1, <2>1
      DEF StartFails, NotYetRunning, QpFits, QpGiven, HardwareFollows
  <1>2. CASE StartEncode
    <2>1. StartRc \in RcParams
      BY <1>2, StartRcTypes DEF StartEncode
    <2>2. picture' = NoPicture /\ NoPicture \in RatePictures /\ ~QpGiven'
      BY <1>2 DEF StartEncode, NoPicture, QpGiven, RatePictures
    <2> QED
      BY <1>2, <2>1, <2>2
      DEF StartEncode, NotYetRunning, QpFits, QpGiven, HardwareFollows, VBR, CQP,
          RatePictures
  <1> QED
    BY <1>1, <1>2

LEMMA RateStep == RateInv /\ [RateNext]_rateVars => RateInv'
  <1> SUFFICES ASSUME RateInv, [RateNext]_rateVars PROVE RateInv'
    OBVIOUS
  <1>1. CASE UNCHANGED rateVars
    BY <1>1
    DEF rateVars, encoderVars, rateSettings, RateInv, RateTypeOK, NotYetRunning, QpFits,
        QpGiven, HardwareFollows, VBR, CQP
  <1>2. CASE BeginEncode \/ \E seen, early \in BOOLEAN : BeginRender(seen, early)
    <2>1. /\ picture' \in RatePictures
          /\ picture'.pic_qp = picture.pic_qp /\ picture'.qp_delta = picture.qp_delta
      <3>1. CASE BeginEncode
        BY <3>1 DEF BeginEncode, RateInv, RateTypeOK, RatePictures
      <3>2. ASSUME NEW seen \in BOOLEAN, NEW early \in BOOLEAN, BeginRender(seen, early)
            PROVE  <2>1!:
        <4>1. (picture.whole \/ early) \in BOOLEAN
          OBVIOUS
        <4> QED
          BY <3>2, <4>1 DEF BeginRender, RateInv, RateTypeOK, RatePictures
      <3> QED
        BY <1>2, <3>1, <3>2
    <2>2. call' \in RateCalls /\ status' \in {"SUCCESS", status}
      <3>1. CASE BeginEncode
        BY <3>1 DEF BeginEncode, RateInv, RateTypeOK, RateCalls
      <3>2. ASSUME NEW seen \in BOOLEAN, NEW early \in BOOLEAN, BeginRender(seen, early)
            PROVE  <2>2!:
        BY <3>2 DEF BeginRender, RateCalls
      <3> QED
        BY <1>2, <3>1, <3>2
    <2>3. UNCHANGED <<encoderVars, encoder_failed, rateSettings, sequence>>
      BY <1>2 DEF BeginEncode, BeginRender
    <2>4. RateTypeOK'
      BY <2>1, <2>2, <2>3
      DEF RateInv, RateTypeOK, encoderVars, rateSettings, RatePictures, RateCalls
    <2>5. NotYetRunning' /\ QpFits' /\ HardwareFollows'
      BY <2>1, <2>3
      DEF RateInv, NotYetRunning, QpFits, QpGiven, HardwareFollows, encoderVars,
          rateSettings, VBR, CQP
    <2> QED
      BY <2>4, <2>5 DEF RateInv
  <1>3. CASE EndRender
    <2>1. /\ picture' \in RatePictures
          /\ picture'.pic_qp = picture.pic_qp /\ picture'.qp_delta = picture.qp_delta
      BY <1>3, RenderedTypes DEF EndRender, RateInv
    <2> QED
      BY <1>3, <2>1
      DEF EndRender, RateInv, RateTypeOK, NotYetRunning, QpFits, QpGiven, HardwareFollows,
          encoderVars, rateSettings, VBR, CQP, RatePictures, NoCall
  <1>4. CASE Encode
    <2>1. picture' = NoPicture /\ NoPicture \in RatePictures /\ ~QpGiven'
      BY <1>4 DEF Encode, NoPicture, QpGiven, RatePictures
    <2> QED
      BY <1>4, <2>1
      DEF Encode, RateInv, RateTypeOK, NotYetRunning, QpFits, QpGiven, HardwareFollows,
          encoderVars, rateSettings, VBR, CQP, RatePictures, MayEndEncode
  <1> QED
    BY <1>1, <1>2, <1>3, <1>4, SequenceKeeps, UpdateVbrKeeps, UpdateCbrKeeps,
       FrameRateKeeps, HrdKeeps, SetQpKeeps, StartKeeps
    DEF RateNext

-----------------------------------------------------------------------------
(* Parameter sets.  What headers_sent claims of the cached sets is true of *)
(* what the VPU will have read, unless the decoder is poisoned and no      *)
(* picture follows; and what has been written for a picture are its own    *)
(* sets, sent.                                                             *)
SentSetsAreRead == ~decode_failed /\ headers_sent => AfterInput(input) = cached

OwnIsCached == active /\ own # Unsent => cached \in Sets

WrittenIsOwn ==
    active /\ input.open /\ own # Unsent =>
        headers_sent /\ cached = SetsOf(own, input.counts)

FragmentIsWritten == fragment_open => input.open

ClosedIsEmpty == ~input.open => input.sets = NoSets

PoisonedIsIdle == decode_failed => ~active

SetsInv ==
    /\ SetsTypeOK
    /\ SentSetsAreRead /\ OwnIsCached /\ WrittenIsOwn
    /\ FragmentIsWritten /\ ClosedIsEmpty /\ PoisonedIsIdle

Inputs == [open: BOOLEAN, sets: Sets \cup {NoSets}, counts: Counts \cup {NoCounts}]

LEMMA SetsOfTypes ==
    ASSUME NEW p \in Pictures, NEW counts \in Counts \cup {NoCounts}
    PROVE  SetsOf(p, counts) \in Sets
  BY SetsAssumption DEF SetsOf, Sets

LEMMA NoSetsIsNone == NoSets \notin Sets
  BY SetsAssumption DEF NoSets, Sets

LEMMA NoInputTypes == NoInput \in Inputs /\ ~NoInput.open /\ NoInput.sets = NoSets
  BY DEF NoInput, Inputs

LEMMA SetsInitInv == SetsInit => SetsInv
  <1> SUFFICES ASSUME SetsInit PROVE SetsInv
    OBVIOUS
  <1>1. SetsTypeOK
    BY NoInputTypes DEF SetsInit, SetsTypeOK, Inputs
  <1>2. SentSetsAreRead /\ OwnIsCached /\ WrittenIsOwn
    BY DEF SetsInit, SentSetsAreRead, OwnIsCached, WrittenIsOwn
  <1>3. FragmentIsWritten /\ ClosedIsEmpty /\ PoisonedIsIdle
    BY NoInputTypes DEF SetsInit, FragmentIsWritten, ClosedIsEmpty, PoisonedIsIdle
  <1> QED
    BY <1>1, <1>2, <1>3 DEF SetsInv

LEMMA AfterInputTypes ==
    ASSUME SetsTypeOK, NEW read \in Inputs
    PROVE  AfterInput(read) \in Sets \cup {NoSets}
  BY DEF SetsTypeOK, Inputs, AfterInput

(* A picture that is given up leaves nothing that is believed to be sent.  *)
LEMMA GiveUpKeeps ==
    ASSUME SetsInv, NEW written \in Inputs, ~written.open => written.sets = NoSets,
           NEW sent, GiveUp(written, sent), UNCHANGED codec,
           own' \in Pictures \cup {Unsent}, cached' \in Sets \cup {NoSets}
    PROVE  SetsInv'
  <1>1. AfterInput(written) \in Sets \cup {NoSets}
    BY AfterInputTypes DEF SetsInv
  <1>2. /\ vpu' \in Sets \cup {NoSets}
        /\ input' \in Inputs
        /\ ~input'.open => input'.sets = NoSets
        /\ decode_failed' \in BOOLEAN
    <2>1. CASE Recycle(written)!1
      <3>1. vpu' \in Sets \cup {NoSets}
        BY <1>1, <2>1 DEF SetsInv, SetsTypeOK
      <3> QED
        BY <2>1, <3>1, NoInputTypes DEF SetsInv, SetsTypeOK
    <2>2. CASE Recycle(written)!2
      <3>1. vpu' \in Sets \cup {NoSets}
        BY <1>1, <2>2 DEF SetsInv, SetsTypeOK
      <3> QED
        BY <2>2, <3>1
    <2> QED
      BY <2>1, <2>2 DEF GiveUp, Recycle
  <1>3. active' = FALSE /\ headers_sent' = FALSE /\ fragment_open' = FALSE
    BY DEF GiveUp
  <1>4. SetsTypeOK'
    BY <1>2, <1>3 DEF SetsInv, SetsTypeOK, Inputs
  <1> QED
    BY <1>2, <1>3, <1>4
    DEF SetsInv, SentSetsAreRead, OwnIsCached, WrittenIsOwn, FragmentIsWritten,
        ClosedIsEmpty, PoisonedIsIdle

LEMMA InputForTypes ==
    ASSUME SetsInv, NEW sets \in Sets \cup {NoSets}
    PROVE  InputFor(sets) \in Inputs /\ InputFor(sets).open = TRUE
  BY SetsAssumption DEF SetsInv, SetsTypeOK, Inputs, InputFor

(* The slices of a picture with their sets: either the picture's input is  *)
(* open, with these sets, or a new one begins, with a slice header.        *)
LEMMA SlicePassKeeps ==
    ASSUME SetsInv, MayRender, NEW sets \in Sets \cup {NoSets},
           NEW counts \in Counts \cup {NoCounts}, NEW opens \in BOOLEAN,
           SlicePass(sets, counts, opens), MayRenderSlices(counts, opens),
           UNCHANGED codec, own' \in Pictures \cup {Unsent}, cached' = sets,
           own' # Unsent => sets \in Sets,
           own' # Unsent /\ counts # NoCounts => sets = SetsOf(own', counts),
           input.open => sets = cached /\ own' = own
    PROVE  SetsInv'
  <1>1. InputFor(sets) \in Inputs /\ InputFor(sets).open
    BY InputForTypes
  <1>2. CASE GiveUp(InputFor(sets), SentWith(sets))
    BY <1>1, <1>2, GiveUpKeeps
  <1>3. CASE GiveUp(input, StillSent(sets))
    BY <1>3, GiveUpKeeps DEF SetsInv, ClosedIsEmpty, SetsTypeOK, Inputs
  <1>4. CASE GiveUp([NoInput EXCEPT !.open = TRUE], StillSent(sets))
    <2>1. /\ [NoInput EXCEPT !.open = TRUE] \in Inputs
          /\ [NoInput EXCEPT !.open = TRUE].open
      BY DEF NoInput, Inputs
    <2> QED
      BY <1>4, <2>1, GiveUpKeeps
  <1>5. CASE /\ input' = [InputFor(sets) EXCEPT !.counts = IF counts = NoCounts THEN @ ELSE counts]
             /\ headers_sent' = SentWith(sets)
             /\ fragment_open' = opens
             /\ UNCHANGED <<active, decode_failed, vpu>>
    <2>1. /\ input' \in Inputs /\ input'.open /\ input'.sets = InputFor(sets).sets
          /\ input'.counts = IF counts = NoCounts THEN InputFor(sets).counts ELSE counts
      BY <1>1, <1>5 DEF Inputs
    <2>2. active /\ ~decode_failed /\ headers_sent' \in BOOLEAN
      BY <1>5 DEF MayRender, SentWith, StillSent, SetsInv, SetsTypeOK
    <2>3. SetsTypeOK'
      BY <1>5, <2>1, <2>2 DEF SetsInv, SetsTypeOK, Inputs
    <2>4. CASE input.open
      <3>1. InputFor(sets) = input /\ headers_sent' = headers_sent
        BY <1>5, <2>4 DEF InputFor, SentWith, StillSent, SetsInv, SetsTypeOK
      <3>2. SentSetsAreRead'
        BY <1>5, <2>1, <2>4, <3>1 DEF SetsInv, SentSetsAreRead, AfterInput
      <3>3. WrittenIsOwn'
        BY <1>5, <2>1, <2>2, <2>4, <3>1 DEF SetsInv, WrittenIsOwn, SetsOf
      <3> QED
        BY <1>5, <2>1, <2>2, <2>3, <3>2, <3>3
        DEF SetsInv, OwnIsCached, FragmentIsWritten, ClosedIsEmpty, PoisonedIsIdle
    <2>5. CASE ~input.open
      <3>1. /\ input'.sets = IF StillSent(sets) THEN NoSets ELSE sets
            /\ headers_sent' = (StillSent(sets) \/ sets # NoSets)
        BY <1>5, <2>1, <2>5 DEF InputFor, SentWith
      <3>2. counts # NoCounts /\ input'.counts = counts
        BY <2>1, <2>5 DEF MayRenderSlices, SetsInv, FragmentIsWritten
      <3>3. StillSent(sets) => vpu = sets
        BY <2>2, <2>5 DEF StillSent, SetsInv, SentSetsAreRead, ClosedIsEmpty, AfterInput
      <3>4. SentSetsAreRead'
        BY <1>5, <3>1, <3>3 DEF SentSetsAreRead, AfterInput
      <3>5. WrittenIsOwn'
        BY <3>1, <3>2, NoSetsIsNone DEF WrittenIsOwn, SetsOf
      <3> QED
        BY <1>5, <2>1, <2>2, <2>3, <3>4, <3>5
        DEF SetsInv, OwnIsCached, FragmentIsWritten, ClosedIsEmpty, PoisonedIsIdle
    <2> QED
      BY <2>4, <2>5
  <1> QED
    BY <1>2, <1>3, <1>4, <1>5 DEF SlicePass

LEMMA RenderKeeps ==
    ASSUME SetsInv,
           \/ \E p \in Pictures : RenderParameters(p)
           \/ \E counts \in Counts \cup {NoCounts}, opens \in BOOLEAN :
                 RenderSlices(counts, opens)
           \/ \E p \in Pictures, counts \in Counts, opens \in BOOLEAN :
                 RenderPictureAndSlices(p, counts, opens)
    PROVE  SetsInv'
  <1>1. ASSUME NEW p \in Pictures, RenderParameters(p) PROVE SetsInv'
    <2>1. SetsOf(p, NoCounts) \in Sets
      BY SetsOfTypes
    <2>2. SetsTypeOK'
      BY <1>1, <2>1 DEF RenderParameters, StillSent, SetsInv, SetsTypeOK
    <2>3. SentSetsAreRead'
      BY <1>1 DEF RenderParameters, StillSent, SetsInv, SentSetsAreRead, AfterInput
    <2> QED
      BY <1>1, <2>1, <2>2, <2>3
      DEF RenderParameters, SetsInv, OwnIsCached, WrittenIsOwn, FragmentIsWritten,
          ClosedIsEmpty, PoisonedIsIdle
  <1>2. ASSUME NEW counts \in Counts \cup {NoCounts}, NEW opens \in BOOLEAN,
               RenderSlices(counts, opens)
        PROVE  SetsInv'
    <2>1. /\ Corrected(counts) \in Sets \cup {NoSets}
          /\ own # Unsent => Corrected(counts) \in Sets
          /\ own # Unsent /\ counts # NoCounts => Corrected(counts) = SetsOf(own, counts)
      BY <1>2, SetsOfTypes
      DEF RenderSlices, MayRender, Corrected, SetsInv, SetsTypeOK, OwnIsCached
    <2>2. own \in Pictures \cup {Unsent}
      BY DEF SetsInv, SetsTypeOK
    <2> QED
      BY <1>2, <2>1, <2>2, SlicePassKeeps DEF RenderSlices
  <1>3. ASSUME NEW p \in Pictures, NEW counts \in Counts, NEW opens \in BOOLEAN,
               RenderPictureAndSlices(p, counts, opens)
        PROVE  SetsInv'
    <2>1. SetsOf(p, counts) \in Sets /\ p # Unsent
      BY SetsOfTypes, SetsAssumption
    <2>2. own' = p /\ UNCHANGED codec
      BY <1>3 DEF RenderPictureAndSlices
    <2>3. SetsOf(own', counts) = SetsOf(p, counts)
      BY <2>2 DEF SetsOf
    <2> QED
      BY <1>3, <2>1, <2>2, <2>3, SlicePassKeeps DEF RenderPictureAndSlices
  <1> QED
    BY <1>1, <1>2, <1>3

LEMMA SetsStep == SetsInv /\ [SetsNext]_setsVars => SetsInv'
  <1> SUFFICES ASSUME SetsInv, [SetsNext]_setsVars PROVE SetsInv'
    OBVIOUS
  <1>1. CASE UNCHANGED setsVars
    BY <1>1
    DEF setsVars, SetsInv, SetsTypeOK, SentSetsAreRead, OwnIsCached, WrittenIsOwn,
        FragmentIsWritten, ClosedIsEmpty, PoisonedIsIdle, AfterInput, SetsOf
  <1>2. CASE BeginDecode
    <2>1. vpu' \in Sets \cup {NoSets}
      BY <1>2, AfterInputTypes DEF BeginDecode, SetsInv, SetsTypeOK, Inputs
    <2>2. SetsTypeOK'
      BY <1>2, <2>1, NoInputTypes DEF BeginDecode, SetsInv, SetsTypeOK, Inputs
    <2>3. SentSetsAreRead'
      BY <1>2, NoInputTypes DEF BeginDecode, SetsInv, SentSetsAreRead, AfterInput
    <2> QED
      BY <1>2, <2>2, <2>3, NoInputTypes
      DEF BeginDecode, SetsInv, OwnIsCached, WrittenIsOwn, FragmentIsWritten,
          ClosedIsEmpty, PoisonedIsIdle
  <1>3. CASE EndIncomplete
    BY <1>3, GiveUpKeeps DEF EndIncomplete, SetsInv, ClosedIsEmpty, SetsTypeOK, Inputs
  <1>4. CASE EndDecode
    <2>1. vpu' \in Sets \cup {NoSets} /\ input' \in Inputs
      BY <1>4, AfterInputTypes, NoInputTypes DEF EndDecode, SetsInv, SetsTypeOK, Inputs
    <2>2. SetsTypeOK'
      BY <1>4, <2>1 DEF EndDecode, SetsInv, SetsTypeOK, Inputs
    <2>3. SentSetsAreRead'
      BY <1>4, NoInputTypes DEF EndDecode, SetsInv, SentSetsAreRead, AfterInput
    <2> QED
      BY <1>4, <2>2, <2>3, NoInputTypes
      DEF EndDecode, SetsInv, OwnIsCached, WrittenIsOwn, FragmentIsWritten,
          ClosedIsEmpty, PoisonedIsIdle
  <1> QED
    BY <1>1, <1>2, <1>3, <1>4, RenderKeeps DEF SetsNext

-----------------------------------------------------------------------------
(* A context is an encoder or a decoder; a step of either leaves the other *)
(* half of it alone.                                                       *)
Inductive == is_encoder \in BOOLEAN /\ RateInv /\ SetsInv

THEOREM ContextInductive == Spec => []Inductive
  <1>1. Init => Inductive
    BY RateInitInv, SetsInitInv DEF Init, Inductive
  <1>2. Inductive /\ [Next]_vars => Inductive'
    <2> SUFFICES ASSUME Inductive, [Next]_vars PROVE Inductive'
      OBVIOUS
    <2>1. /\ UNCHANGED is_encoder /\ [RateNext]_rateVars /\ [SetsNext]_setsVars
      BY DEF Next, EncoderStep, DecoderStep, vars
    <2> QED
      BY <2>1, RateStep, SetsStep DEF Inductive
  <1> QED
    BY <1>1, <1>2, PTL DEF Spec

(* Rates, QPs, frame rates and parameter sets keep their types: whatever   *)
(* vaRenderPicture is given, refuses or takes back, in any order.          *)
THEOREM ContextTypes == Spec => []TypeOK
  <1>1. Inductive => TypeOK
    BY DEF Inductive, RateInv, SetsInv, TypeOK
  <1> QED
    BY <1>1, ContextInductive, PTL

(* A running encoder that is not poisoned works with the rate parameters,  *)
(* the VBR maximum and the QP the driver has stored, after any number of   *)
(* failing calls to the hardware and rollbacks.                            *)
THEOREM HardwareAgrees == Spec => []HardwareFollows
  BY ContextInductive, PTL DEF Inductive, RateInv

(* A picture that sent its parameters is decoded with the parameter sets   *)
(* made from them and with the reference counts its slices imply, after    *)
(* any number of pictures given up at any point.                           *)
THEOREM OwnSetsDecode == Spec => []DecodedWithItsSets
  <1>1. Inductive => DecodedWithItsSets
    BY DEF Inductive, SetsInv, SentSetsAreRead, WrittenIsOwn, PoisonedIsIdle,
           DecodedWithItsSets
  <1> QED
    BY <1>1, ContextInductive, PTL
=============================================================================
