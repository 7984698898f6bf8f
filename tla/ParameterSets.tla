---------------------------- MODULE ParameterSets ----------------------------
(***************************************************************************)
(* The parameter sets of one H.264 or HEVC decoder: VPS, SPS and PPS are   *)
(* generated from the picture parameters of the application, cached, and   *)
(* written in front of a picture's slices when the VPU does not have them  *)
(* yet (headers_sent).                                                     *)
(*                                                                         *)
(* A set of parameter sets is told apart by the picture parameters it was  *)
(* made from and by the reference counts its PPS gives to slices that      *)
(* inherit them: H.264 guesses them from the picture until slice headers   *)
(* say more, HEVC has them in the picture parameters.                      *)
(*                                                                         *)
(* What the VPU reads of an input that is given back unfinished is         *)
(* nobody's promise: it may take the sets in it or not.  The application   *)
(* sends the picture parameters of a picture once and no later than its    *)
(* first slices, as VA-API asks; a picture without any is possible.        *)
(***************************************************************************)
EXTENDS Naturals

CONSTANTS
    Pictures,     \* picture parameters, up to what the sets are made from
    ManyRefs,     \* those with num_ref_frames >= 3
    Unsent,       \* picture parameters that have not been sent
    Counts        \* reference counts a PPS can give

ASSUME SetsAssumption ==
    /\ ManyRefs \subseteq Pictures /\ Unsent \notin Pictures
    /\ {0, 2} \subseteq Counts /\ Counts \subseteq 0 .. 31

NoCounts == 32   \* a slice continued from an earlier buffer
NoSets   == [picture |-> Unsent, counts |-> NoCounts]
Sets     == [picture: Pictures, counts: Counts]

VARIABLES
    codec,          \* "H264" or "HEVC"
    decode_failed,
    active,         \* decode_picture_active
    own,            \* picture parameters of the picture, when sent
    cached,         \* cached_vps, cached_sps, cached_pps
    headers_sent,
    input,          \* dec_in_buf: what has been written to it
    fragment_open,  \* decode_slice_fragment_open
    vpu             \* the parameter sets the VPU has

setsVars == <<codec, decode_failed, active, own, cached, headers_sent, input,
              fragment_open, vpu>>

NoInput == [open |-> FALSE, sets |-> NoSets, counts |-> NoCounts]

SetsInit ==
    /\ codec \in {"H264", "HEVC"}
    /\ decode_failed = FALSE
    /\ active = FALSE
    /\ own = Unsent
    /\ cached = NoSets
    /\ headers_sent = FALSE
    /\ input = NoInput
    /\ fragment_open = FALSE
    /\ vpu = NoSets

(* The sets the VPU has once it has read an input. *)
AfterInput(read) == IF read.sets = NoSets THEN vpu ELSE read.sets

-----------------------------------------------------------------------------
(* vaBeginPicture.  An input left over would be queued first. *)
BeginDecode ==
    /\ ~decode_failed /\ ~active
    /\ active' = TRUE
    /\ own' = Unsent
    /\ fragment_open' = FALSE
    /\ vpu' = AfterInput(input)
    /\ input' = NoInput
    /\ UNCHANGED <<codec, decode_failed, cached, headers_sent>>

(* The sets of a picture: H.264 takes the counts of the PPS from the       *)
(* slices, or guesses; those of HEVC are part of the picture parameters.   *)
SetsOf(picture, counts) ==
    [picture |-> picture,
     counts  |-> IF codec = "HEVC" THEN 0
                 ELSE IF counts # NoCounts THEN counts
                 ELSE IF picture \in ManyRefs THEN 2 ELSE 0]

(* Slices of a later call correct the guess. *)
Corrected(counts) ==
    IF own = Unsent \/ counts = NoCounts THEN cached ELSE SetsOf(own, counts)

(* hobot_header_changed. *)
StillSent(sets) == headers_sent /\ sets = cached

(* hobot_recycle_decoder_input, with `written` in the input. *)
Recycle(written) ==
    \/ /\ input' = NoInput
       /\ vpu' \in {vpu, AfterInput(written)}
       /\ UNCHANGED decode_failed
    \/ /\ written.open
       /\ input' = written
       /\ vpu' \in {vpu, AfterInput(written)}
       /\ decode_failed' = TRUE

(* A slip: the picture is given up and headers_sent stays as it was. *)
GiveUpQuietly(written, sent) ==
    /\ Recycle(written)
    /\ headers_sent' = sent
    /\ active' = FALSE
    /\ fragment_open' = FALSE

(* The picture is given up (hobot_abort_pending_decode_picture) with       *)
(* `written` in its input; `sent` is headers_sent by then.                 *)
GiveUp(written, sent) ==
    /\ Recycle(written)
    /\ headers_sent' = FALSE
    /\ active' = FALSE
    /\ fragment_open' = FALSE

(* The input the slices are written to: a new one begins with the sets     *)
(* unless the VPU has them.                                                *)
InputFor(sets) ==
    IF input.open THEN input
    ELSE [open |-> TRUE, sets |-> IF StillSent(sets) THEN NoSets ELSE sets,
          counts |-> NoCounts]

SentWith(sets) == StillSent(sets) \/ (~input.open /\ sets # NoSets)

(* Second pass: slices whose headers imply `counts` (NoCounts: the rest of *)
(* a fragment), the last of them whole or not.  An input may not be had,   *)
(* may be unusable, or too small for the slices.                           *)
SlicePass(sets, counts, opens) ==
    \/ /\ input' = [InputFor(sets) EXCEPT !.counts = IF counts = NoCounts THEN @ ELSE counts]
       /\ headers_sent' = SentWith(sets)
       /\ fragment_open' = opens
       /\ UNCHANGED <<active, decode_failed, vpu>>
    \/ ~input.open /\ GiveUp(input, StillSent(sets))
    \/ ~input.open /\ GiveUp([NoInput EXCEPT !.open = TRUE], StillSent(sets))
    \/ GiveUp(InputFor(sets), SentWith(sets))

MayRender == ~decode_failed /\ active

(* Slices begin with a header unless a fragment is open. *)
MayRenderSlices(counts, opens) ==
    /\ counts = NoCounts => fragment_open
    /\ codec = "HEVC" => ~opens

(* vaRenderPicture with picture parameters only, slices only, or both.     *)
(* Picture parameters come before anything is in the input.                *)
RenderParameters(picture) ==
    /\ MayRender /\ own = Unsent /\ ~input.open
    /\ own' = picture
    /\ cached' = SetsOf(picture, NoCounts)
    /\ headers_sent' = StillSent(SetsOf(picture, NoCounts))
    /\ UNCHANGED <<codec, decode_failed, active, input, fragment_open, vpu>>

RenderPictureAndSlices(picture, counts, opens) ==
    /\ MayRender /\ own = Unsent /\ ~input.open
    /\ MayRenderSlices(counts, opens)
    /\ own' = picture
    /\ cached' = SetsOf(picture, counts)
    /\ SlicePass(SetsOf(picture, counts), counts, opens)
    /\ UNCHANGED codec

(* Once the sets are written in front of an input they cannot change.      *)
RenderSlices(counts, opens) ==
    /\ MayRender
    /\ MayRenderSlices(counts, opens)
    /\ codec = "HEVC" => own # Unsent
    /\ input.open => Corrected(counts) = cached
    /\ cached' = Corrected(counts)
    /\ SlicePass(Corrected(counts), counts, opens)
    /\ UNCHANGED <<codec, own>>

-----------------------------------------------------------------------------
(* vaEndPicture: a picture that is not whole is given up. *)
EndIncomplete ==
    /\ ~decode_failed /\ active
    /\ fragment_open \/ ~input.open
    /\ GiveUp(input, headers_sent)
    /\ UNCHANGED <<codec, own, cached>>

(* The input is queued, or the decoder poisoned with it. *)
EndDecode ==
    /\ ~decode_failed /\ active
    /\ ~fragment_open /\ input.open
    /\ active' = FALSE
    /\ fragment_open' = FALSE
    /\ \/ /\ vpu' = AfterInput(input)
          /\ input' = NoInput
          /\ UNCHANGED decode_failed
       \/ /\ decode_failed' = TRUE
          /\ vpu' \in {vpu, AfterInput(input)}
          /\ UNCHANGED input
    /\ UNCHANGED <<codec, own, cached, headers_sent>>

SetsNext ==
    \/ BeginDecode
    \/ \E picture \in Pictures : RenderParameters(picture)
    \/ \E counts \in Counts \cup {NoCounts}, opens \in BOOLEAN :
          RenderSlices(counts, opens)
    \/ \E picture \in Pictures, counts \in Counts, opens \in BOOLEAN :
          RenderPictureAndSlices(picture, counts, opens)
    \/ EndIncomplete
    \/ EndDecode

SetsSpec == SetsInit /\ [][SetsNext]_setsVars

-----------------------------------------------------------------------------
(* Every set of parameter sets, cached, written or read, was made from     *)
(* picture parameters the application sent.                                *)
SetsTypeOK ==
    /\ codec \in {"H264", "HEVC"}
    /\ {decode_failed, active, headers_sent, fragment_open} \subseteq BOOLEAN
    /\ own \in Pictures \cup {Unsent}
    /\ {cached, vpu} \subseteq Sets \cup {NoSets}
    /\ input \in [open: BOOLEAN, sets: Sets \cup {NoSets},
                  counts: Counts \cup {NoCounts}]

(* Whenever a picture that sent its parameters has slices in the input, a  *)
(* VPU that reads the input decodes them with the picture's own parameter  *)
(* sets and the reference counts its slices imply: with the sets in front  *)
(* of them, or with those it has had since an earlier picture; whichever   *)
(* pictures were given up in between, and whatever the VPU read of them.   *)
DecodedWithItsSets ==
    active /\ input.open /\ own # Unsent =>
        AfterInput(input) = SetsOf(own, input.counts)
=============================================================================
