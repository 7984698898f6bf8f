------------------------- MODULE EncodePictureProof -------------------------
(***************************************************************************)
(* Proofs about EncodePicture: that the pending token tells the truth,     *)
(* that no buffer of a running VPU is lost, that the memory the hardware   *)
(* reads is left alone, and that a coded buffer gets its own picture.      *)
(* They share one inductive invariant, which speaks of one encoder at a    *)
(* time: c is its context, p its pending token, v its VPU, cb the tokens   *)
(* of its callbacks, k the vaEndPicture that works on it.                  *)
(***************************************************************************)
EXTENDS EncodePicture, FiniteSetTheorems, TLAPS

-----------------------------------------------------------------------------
(* The inductive invariant, part by part.                                  *)

(* The call of vaEndPicture that works on encoder e.                       *)
CallOf(e) == IF call # Idle /\ call.encoder = e THEN call ELSE Idle

Slot == [kind |-> "slot"]

(* Where an input with token t may lie.                                    *)
Lies(e, c, t, memory) ==
    IF t = 0 THEN memory = Slot
    ELSE \/ memory = [kind |-> "scratch", of |-> e]
         \/ \E kind \in {"frame", "memory"} :
               memory = [kind |-> kind, of |-> c.enc_external_surface]

(* A context that is not in use or waits for its first picture runs no     *)
(* VPU; buffers are only kept by one that runs and has failed; an orphan   *)
(* has none; a picture has a surface.                                      *)
ContextInv(c) ==
    /\ ~c.allocated \/ c.encoder_init_deferred => c.state = "off"
    /\ c.encoder_init_deferred => c.enc_external_enabled
    /\ c.enc_in_buf_valid \/ c.enc_out_buf_valid =>
          c.state = "running" /\ c.encoder_failed /\ ~c.cleanup_orphaned
    /\ c.encoder_picture_active => c.current_render_target \in Surfaces

PendingInv(e, c, p, v, cb, k) ==
    /\ p # 0 =>
          /\ c.allocated /\ ~c.cleanup_orphaned /\ c.enc_external_enabled
          /\ c.enc_external_surface \in Surfaces
          /\ c.encoder_failed \/ k # Idle
          /\ \/ k.at = "queue" /\ k.token = p
             \/ \E i \in v.reading : i.token = p
             \/ p \in cb
    /\ \A i \in v.reading :
          /\ i.token # 0 => /\ p = i.token /\ i.token \notin cb
                            /\ \A j \in v.reading : j.token # 0 => j = i
          /\ Lies(e, c, i.token, i.memory)
          /\ i.frame < c.frame_count

CallInv(e, c, p, v, cb, k) ==
    /\ k # Idle =>
          /\ c.allocated /\ c.state = "running" /\ ~c.cleanup_orphaned
          /\ ~c.encoder_failed /\ c.encoder_picture_active
    /\ k.at = "queue" =>
          /\ p = k.token /\ k.token \notin cb
          /\ \A i \in v.reading : i.token = 0
          /\ c.frame_count < MaxFrame
          /\ Lies(e, c, k.token, k.memory)

OrderInv(c, v, k) ==
    LET last == c.frame_count - 1
    IN  /\ k.at \in {"idle", "queue"} /\ ~c.encoder_failed => v.encoding = <<>> /\ v.done = <<>>
        /\ k.at = "output" =>
              /\ c.frame_count > 0
              /\ \/ v.encoding = <<last>> /\ v.done = <<>>
                 \/ v.encoding = <<>> /\ v.done = <<last>>
        /\ k.at = "consume" /\ k.then # "fail" =>
              v.encoding = <<>> /\ v.done = <<>> /\ k.frame + 1 = c.frame_count

(* The input and the output buffers of an encoder, wherever they are.      *)
InCount(c, v, k) ==
    v.inputs + Cardinality(v.reading) + One(k.at = "queue") + One(c.enc_in_buf_valid)

OutCount(c, v) == v.outputs + Len(v.done) + One(c.enc_out_buf_valid)

VpuInv(c, v, k) ==
    /\ IsFiniteSet(v.reading)
    /\ c.state # "running" => v = StoppedVpu
    /\ c.state = "running" => InCount(c, v, k) = NumIn /\ OutCount(c, v) = NumOut

LocalInv(e, c, p, v, cb, k) ==
    /\ ContextInv(c) /\ PendingInv(e, c, p, v, cb, k) /\ CallInv(e, c, p, v, cb, k)
    /\ OrderInv(c, v, k) /\ VpuInv(c, v, k)

LocalHolds(e) ==
    /\ LocalInv(e, ctx[e], pending[e], vpu[e], callbacks[e], CallOf(e))
    /\ callbacks[e] \subseteq 1 .. token /\ pending[e] \in 0 .. token

EncoderInv == \A e \in Encoders : LocalHolds(e)

(* Frames are decoded ones; what an encoder works on or reads is allocated *)
(* and does not wait for a picture of the decoder.                         *)
SurfaceInv ==
    \A s \in Surfaces :
        /\ surf[s].output_context_id \in {Decoder, NoContext}
        /\ HasActiveEncoder(s) => surf[s].allocated /\ ~surf[s].decode_pending

Inductive == TypeOK /\ EncoderInv /\ SurfaceInv

-----------------------------------------------------------------------------
(* How the invariant is carried over a step.                               *)

LEMMA EncoderFacts ==
    ASSUME Inductive, NEW e \in Encoders
    PROVE  /\ ctx[e] \in ContextStates /\ vpu[e] \in VpuStates
           /\ pending[e] \in 0 .. MaxToken /\ callbacks[e] \in SUBSET (1 .. MaxToken)
           /\ LocalHolds(e)
  BY DEF Inductive, TypeOK, EncoderInv

LEMMA CallFacts ==
    ASSUME Inductive
    PROVE  /\ call = Idle => \A e \in Encoders : CallOf(e) = Idle
           /\ call # Idle =>
                 /\ call.encoder \in Encoders /\ CallOf(call.encoder) = call
                 /\ \A e \in Encoders \ {call.encoder} : CallOf(e) = Idle
           /\ call.at # "idle" <=> call # Idle
           /\ call.at = "queue" => call.token \in 0 .. MaxToken /\ call.memory \in Memories
           /\ call.at = "consume" => call.then \in {"deliver", "drop", "fail"}
                                       /\ call.frame \in 0 .. MaxFrame
  BY DEF Inductive, TypeOK, Calls, Idle, CallOf

(* Nothing that the invariant says of encoder e has changed.               *)
Untouched(e) ==
    /\ ctx'[e] = ctx[e] /\ pending'[e] = pending[e] /\ vpu'[e] = vpu[e]
    /\ callbacks'[e] = callbacks[e] /\ CallOf(e)' = CallOf(e)

LEMMA EncodersMove ==
    ASSUME Inductive, token' \in Nat, token <= token',
           \A e \in Encoders : Untouched(e) \/ LocalHolds(e)'
    PROVE  EncoderInv'
<1> SUFFICES ASSUME NEW e \in Encoders, Untouched(e)
             PROVE  LocalHolds(e)'
  BY DEF EncoderInv
<1>1. LocalHolds(e)
  BY EncoderFacts
<1>2. 1 .. token \subseteq 1 .. token'
  BY DEF Inductive, TypeOK
<1> QED
  BY <1>1, <1>2 DEF LocalHolds, Untouched

(* An encoder that does not begin a picture works on no new surface.       *)
LEMMA SurfacesMove ==
    ASSUME Inductive,
           \A e \in Encoders, s \in Surfaces : Encodes(e, s)' => Encodes(e, s),
           \A s \in Surfaces :
              /\ surf'[s].output_context_id \in {Decoder, NoContext}
              /\ HasActiveEncoder(s) =>
                    /\ surf[s].allocated => surf'[s].allocated
                    /\ surf'[s].decode_pending => surf[s].decode_pending
    PROVE  SurfaceInv'
  BY DEF Inductive, SurfaceInv, HasActiveEncoder

LEMMA SurfacesRest ==
    ASSUME Inductive, UNCHANGED surf,
           \A e \in Encoders, s \in Surfaces : Encodes(e, s)' => Encodes(e, s)
    PROVE  SurfaceInv'
  BY DEF Inductive, SurfaceInv, HasActiveEncoder

(* What a VPU has is bounded once it is accounted for.                     *)
LEMMA VpuTypes ==
    ASSUME NEW c \in ContextStates, NEW k,
           NEW v \in [inputs : Nat, reading : SUBSET Inputs, encoding : Seq(0 .. MaxFrame),
                      done : Seq(0 .. MaxFrame), outputs : Nat],
           VpuInv(c, v, k)
    PROVE  v \in VpuStates
<1>1. Cardinality(v.reading) \in Nat /\ Len(v.done) \in Nat
  BY FS_CardinalityType DEF VpuInv
<1>2. v.inputs \in 0 .. NumIn /\ v.outputs \in 0 .. NumOut
  <2>1. CASE c.state = "running"
    BY <1>1, <2>1, ConstantsAssumption DEF VpuInv, InCount, OutCount, One
  <2>2. CASE c.state # "running"
    BY <2>2, ConstantsAssumption DEF VpuInv, StoppedVpu
  <2> QED
    BY <2>1, <2>2
<1> QED
  BY <1>2 DEF VpuStates

-----------------------------------------------------------------------------
(* What the operators on surfaces and contexts change.                     *)

(* The surfaces are as before, but for the contexts that use them.         *)
OnlyUsers(surfaces) ==
    /\ surfaces \in [Surfaces -> SurfaceStates]
    /\ \A s \in Surfaces :
          /\ surfaces[s].allocated = surf[s].allocated
          /\ surfaces[s].memory = surf[s].memory
          /\ surfaces[s].decode_pending = surf[s].decode_pending
          /\ surfaces[s].output_context_id = surf[s].output_context_id
          /\ surfaces[s].context_id = surf[s].context_id

LEMMA RetainedUsers ==
    ASSUME Inductive, NEW surfaces, OnlyUsers(surfaces), NEW named, NEW e \in Encoders
    PROVE  OnlyUsers(Retained(surfaces, named, e))
<1>1. Retained(surfaces, named, e) \in [Surfaces -> SurfaceStates]
  BY DEF OnlyUsers, Retained, SurfaceStates, Contexts
<1> QED
  BY <1>1 DEF OnlyUsers, Retained, SurfaceStates

LEMMA SameUsers == Inductive => OnlyUsers(surf)
  BY DEF Inductive, TypeOK, OnlyUsers

LEMMA ReapedUsers ==
    ASSUME Inductive, NEW gone
    PROVE  OnlyUsers(SurfacesReaped(gone))
<1>1. SurfacesReaped(gone) \in [Surfaces -> SurfaceStates]
  BY DEF Inductive, TypeOK, SurfacesReaped, SurfaceStates
<1> QED
  BY <1>1 DEF OnlyUsers, SurfacesReaped, SurfaceStates, Inductive, TypeOK

LEMMA OnlyUsersMove ==
    ASSUME Inductive, OnlyUsers(surf'),
           \A e \in Encoders, s \in Surfaces : Encodes(e, s)' => Encodes(e, s)
    PROVE  SurfaceInv'
  BY DEF Inductive, SurfaceInv, HasActiveEncoder, OnlyUsers

(* Detaching a context that no active encoder depends on.                  *)
LEMMA DetachedSurfaces ==
    ASSUME Inductive, NEW c \in Contexts
    PROVE  /\ Detached(c) \in [Surfaces -> SurfaceStates]
           /\ \A s \in Surfaces :
                 /\ Detached(c)[s].allocated = surf[s].allocated
                 /\ Detached(c)[s].memory = surf[s].memory
                 /\ Detached(c)[s].decode_pending => surf[s].decode_pending
                 /\ Detached(c)[s].output_context_id =
                       IF surf[s].output_context_id = c THEN NoContext
                       ELSE surf[s].output_context_id
<1> DEFINE free == Unused(surf, c)
<1>1. /\ free \in [Surfaces -> SurfaceStates]
      /\ \A s \in Surfaces :
            /\ free[s].allocated = surf[s].allocated
            /\ free[s].memory = surf[s].memory
            /\ free[s].decode_pending = surf[s].decode_pending
            /\ free[s].output_context_id = surf[s].output_context_id
  <2>1. free \in [Surfaces -> SurfaceStates]
    BY DEF Inductive, TypeOK, Unused, SurfaceStates
  <2> QED
    BY <2>1 DEF Inductive, TypeOK, Unused, SurfaceStates
<1>2. Detached(c) = [s \in Surfaces |->
        [free[s] EXCEPT
           !.decode_pending = @ /\ surf[s].context_id # c,
           !.context_id = IF @ = c THEN NoContext ELSE @,
           !.output_context_id = IF @ = c THEN NoContext ELSE @]]
  BY Zenon DEF Detached
<1> HIDE DEF free
<1>3. ASSUME NEW s \in Surfaces
      PROVE  /\ Detached(c)[s] \in SurfaceStates
             /\ Detached(c)[s].allocated = surf[s].allocated
             /\ Detached(c)[s].memory = surf[s].memory
             /\ Detached(c)[s].decode_pending => surf[s].decode_pending
             /\ Detached(c)[s].output_context_id =
                   IF surf[s].output_context_id = c THEN NoContext
                   ELSE surf[s].output_context_id
  <2> DEFINE was == free[s].decode_pending /\ surf[s].context_id # c
             last == IF free[s].context_id = c THEN NoContext ELSE free[s].context_id
             owner == IF free[s].output_context_id = c THEN NoContext
                      ELSE free[s].output_context_id
  <2>1. Detached(c)[s] = [free[s] EXCEPT !.decode_pending = was, !.context_id = last,
                                         !.output_context_id = owner]
    BY <1>2, Zenon
  <2>2. free[s] \in SurfaceStates
    BY <1>1
  <2>3. was \in BOOLEAN
    BY Zenon
  <2>4. last \in Contexts \cup {NoContext} /\ owner \in Contexts \cup {NoContext}
    BY <2>2 DEF SurfaceStates
  <2>5. was => surf[s].decode_pending
    BY <1>1
  <2>6. owner = IF surf[s].output_context_id = c THEN NoContext ELSE surf[s].output_context_id
    BY <1>1
  <2> HIDE DEF was, last, owner
  <2>7. Detached(c)[s] \in SurfaceStates
    BY <2>1, <2>2, <2>3, <2>4 DEF SurfaceStates
  <2>8. /\ Detached(c)[s].allocated = free[s].allocated
        /\ Detached(c)[s].memory = free[s].memory
        /\ Detached(c)[s].output_context_id = owner
    BY <2>1, <2>2 DEF SurfaceStates
  <2>9. Detached(c)[s].decode_pending => was
    BY <2>1, <2>2, <2>3 DEF SurfaceStates
  <2> QED
    BY <1>1, <2>5, <2>6, <2>7, <2>8, <2>9
<1>4. Detached(c) = [s \in Surfaces |-> Detached(c)[s]]
  BY <1>2
<1> QED
  BY <1>3, <1>4

(* A context that its encoder keeps is the same for every part of the      *)
(* invariant but the open picture and whether it has failed.               *)
Alike(c, d) ==
    /\ d \in ContextStates
    /\ d.allocated = c.allocated /\ d.state = c.state
    /\ d.encoder_init_deferred = c.encoder_init_deferred
    /\ d.enc_external_enabled = c.enc_external_enabled
    /\ d.enc_external_surface = c.enc_external_surface
    /\ d.cleanup_orphaned = c.cleanup_orphaned
    /\ d.enc_in_buf_valid = c.enc_in_buf_valid
    /\ d.enc_out_buf_valid = c.enc_out_buf_valid
    /\ d.frame_count = c.frame_count
    /\ c.encoder_failed => d.encoder_failed
    /\ d.encoder_picture_active => d.current_render_target \in Surfaces

LEMMA AlikeKeeps ==
    ASSUME Inductive, NEW e \in Encoders, NEW d, Alike(ctx[e], d), call = Idle,
           ctx' = [ctx EXCEPT ![e] = d],
           UNCHANGED <<pending, vpu, callbacks, token, call>>
    PROVE  /\ ctx' \in [Encoders -> ContextStates] /\ EncoderInv'
           /\ \A f \in Encoders \ {e} : Untouched(f)
<1>1. ctx' \in [Encoders -> ContextStates] /\ ctx'[e] = d
  BY DEF Inductive, TypeOK, Alike
<1>2. \A f \in Encoders \ {e} : Untouched(f)
  BY DEF Inductive, TypeOK, Untouched, CallOf
<1>3. LocalHolds(e)'
  <2>1. LocalHolds(e) /\ CallOf(e) = Idle /\ CallOf(e)' = Idle
    BY EncoderFacts, CallFacts DEF CallOf
  <2>2. ContextInv(d)
    BY <2>1 DEF LocalHolds, LocalInv, ContextInv, Alike
  <2>3. PendingInv(e, d, pending[e], vpu[e], callbacks[e], Idle)
    BY <2>1 DEF LocalHolds, LocalInv, PendingInv, Alike, Lies
  <2>4. CallInv(e, d, pending[e], vpu[e], callbacks[e], Idle)
    BY DEF CallInv, Idle
  <2>5. OrderInv(d, vpu[e], Idle)
    BY <2>1 DEF LocalHolds, LocalInv, OrderInv, Idle, Alike
  <2>6. VpuInv(d, vpu[e], Idle)
    BY <2>1 DEF LocalHolds, LocalInv, VpuInv, InCount, OutCount, Alike
  <2> QED
    BY <1>1, <2>1, <2>2, <2>3, <2>4, <2>5, <2>6 DEF LocalHolds, LocalInv
<1>4. EncoderInv'
  BY <1>2, <1>3, EncodersMove DEF Inductive, TypeOK
<1> QED
  BY <1>1, <1>2, <1>4

-----------------------------------------------------------------------------
(* The steps that leave the encoders alone.                                *)

MachineTypes ==
    /\ ctx \in [Encoders -> ContextStates]
    /\ pending \in [Encoders -> 0 .. MaxToken]
    /\ vpu \in [Encoders -> VpuStates]
    /\ callbacks \in [Encoders -> SUBSET (1 .. MaxToken)]
    /\ token \in 0 .. MaxToken
    /\ call \in Calls

OtherTypes ==
    /\ surf \in [Surfaces -> SurfaceStates]
    /\ decoder \in BOOLEAN
    /\ buf \in [Coded -> BufferStates]

LEMMA TypesSplit == TypeOK <=> MachineTypes /\ OtherTypes
  BY DEF TypeOK, MachineTypes, OtherTypes

LEMMA InductiveSplit ==
    Inductive <=> MachineTypes /\ OtherTypes /\ EncoderInv /\ SurfaceInv
  BY TypesSplit DEF Inductive

LEMMA InductiveNext ==
    ASSUME MachineTypes', OtherTypes', EncoderInv', SurfaceInv'
    PROVE  Inductive'
  BY DEF Inductive, TypeOK, MachineTypes, OtherTypes

LEMMA EncodersRest ==
    ASSUME Inductive, UNCHANGED <<ctx, pending, vpu, callbacks, token, call>>
    PROVE  /\ MachineTypes' /\ EncoderInv'
           /\ \A e \in Encoders, s \in Surfaces : Encodes(e, s)' => Encodes(e, s)
<1>1. MachineTypes'
  BY InductiveSplit DEF MachineTypes
<1>2. \A e \in Encoders : Untouched(e)
  BY DEF Untouched, CallOf
<1>3. EncoderInv'
  BY <1>2, EncodersMove DEF Inductive, TypeOK
<1> QED
  BY <1>1, <1>3 DEF Encodes

LEMMA CreateSurfaceKeeps ==
    ASSUME Inductive, NEW s \in Surfaces, CreateSurface(s) PROVE Inductive'
<1> DEFINE new == [FreeSurface EXCEPT !.allocated = TRUE]
<1>1. new \in SurfaceStates /\ ~new.decode_pending /\ new.output_context_id = NoContext
  BY DEF FreeSurface, SurfaceStates, Stamps
<1>2. surf' = [surf EXCEPT ![s] = new]
  BY DEF CreateSurface
<1> HIDE DEF new
<1>3. OtherTypes'
  BY <1>1, <1>2, InductiveSplit DEF CreateSurface, OtherTypes
<1>4. ~HasActiveEncoder(s)
  BY DEF CreateSurface, Inductive, SurfaceInv
<1>5. SurfaceInv'
  BY <1>1, <1>2, <1>4, EncodersRest, SurfacesMove
  DEF CreateSurface, Inductive, TypeOK, SurfaceInv
<1> QED
  BY <1>3, <1>5, EncodersRest, InductiveNext DEF CreateSurface

LEMMA DestroySurfaceKeeps ==
    ASSUME Inductive, NEW s \in Surfaces, DestroySurface(s) PROVE Inductive'
<1>1. FreeSurface \in SurfaceStates /\ FreeSurface.output_context_id = NoContext
  BY DEF FreeSurface, SurfaceStates, Stamps
<1>2. surf' = [surf EXCEPT ![s] = FreeSurface] /\ ~HasActiveEncoder(s)
  BY DEF DestroySurface
<1>3. OtherTypes'
  BY <1>1, <1>2, InductiveSplit DEF DestroySurface, OtherTypes
<1>4. SurfaceInv'
  BY <1>1, <1>2, EncodersRest, SurfacesMove DEF DestroySurface, Inductive, TypeOK, SurfaceInv
<1> QED
  BY <1>3, <1>4, EncodersRest, InductiveNext DEF DestroySurface

LEMMA PutImageKeeps ==
    ASSUME Inductive, NEW s \in Surfaces, PutImage(s) PROVE Inductive'
<1> DEFINE new == [surf[s] EXCEPT !.memory = Rewritten(@), !.output_context_id = NoContext]
<1>1. surf[s] \in SurfaceStates
  BY DEF Inductive, TypeOK
<1>2. new \in SurfaceStates /\ new.output_context_id = NoContext
  BY <1>1 DEF SurfaceStates, Stamps, Rewritten
<1>3. surf' = [surf EXCEPT ![s] = new]
  BY Zenon DEF PutImage
<1> HIDE DEF new
<1>4. OtherTypes'
  BY <1>2, <1>3, InductiveSplit DEF PutImage, OtherTypes
<1>5. SurfaceInv'
  BY <1>2, <1>3, EncodersRest, SurfacesMove DEF PutImage, Inductive, TypeOK, SurfaceInv
<1> QED
  BY <1>4, <1>5, EncodersRest, InductiveNext DEF PutImage

LEMMA BeginDecodeKeeps ==
    ASSUME Inductive, NEW s \in Surfaces, BeginDecode(s) PROVE Inductive'
<1> DEFINE new == [surf[s] EXCEPT !.users = @ \cup {Decoder}, !.context_id = Decoder,
                                  !.decode_pending = TRUE, !.output_context_id = NoContext]
<1>1. surf[s] \in SurfaceStates
  BY DEF Inductive, TypeOK
<1>2. new \in SurfaceStates /\ new.output_context_id = NoContext
  BY <1>1 DEF SurfaceStates, Contexts
<1>3. surf' = [surf EXCEPT ![s] = new] /\ ~HasActiveEncoder(s)
  BY Zenon DEF BeginDecode
<1> HIDE DEF new
<1>4. OtherTypes'
  <2>1. decoder' = decoder /\ buf' = buf
    BY Zenon DEF BeginDecode
  <2> QED
    BY <1>2, <1>3, <2>1, InductiveSplit DEF OtherTypes
<1>5. SurfaceInv'
  BY <1>2, <1>3, EncodersRest, SurfacesMove DEF BeginDecode, Inductive, TypeOK, SurfaceInv
<1> QED
  BY <1>4, <1>5, EncodersRest, InductiveNext DEF BeginDecode

LEMMA SyncDecodeKeeps ==
    ASSUME Inductive, NEW s \in Surfaces, SyncDecode(s) PROVE Inductive'
<1>1. PICK c \in {Decoder, NoContext} :
         surf' = [surf EXCEPT ![s].decode_pending = FALSE, ![s].output_context_id = c]
  BY DEF SyncDecode
<1> DEFINE new == [surf[s] EXCEPT !.decode_pending = FALSE, !.output_context_id = c]
<1>2. surf[s] \in SurfaceStates
  BY DEF Inductive, TypeOK
<1>3. /\ new \in SurfaceStates /\ new.output_context_id \in {Decoder, NoContext}
      /\ new.allocated = surf[s].allocated /\ ~new.decode_pending
  BY <1>2 DEF SurfaceStates, Contexts
<1>4. surf' = [surf EXCEPT ![s] = new]
  BY <1>1, Zenon
<1> HIDE DEF new
<1>5. OtherTypes'
  BY <1>3, <1>4, InductiveSplit DEF SyncDecode, OtherTypes
<1>6. SurfaceInv'
  BY <1>3, <1>4, EncodersRest, SurfacesMove DEF SyncDecode, Inductive, TypeOK, SurfaceInv
<1> QED
  BY <1>5, <1>6, EncodersRest, InductiveNext DEF SyncDecode

LEMMA DecoderKeeps ==
    ASSUME Inductive, CreateDecoder \/ DestroyDecoder PROVE Inductive'
<1>1. CASE CreateDecoder
  <2>1. OtherTypes'
    BY <1>1, InductiveSplit DEF CreateDecoder, OtherTypes
  <2> QED
    BY <1>1, <2>1, EncodersRest, SurfacesRest, InductiveNext DEF CreateDecoder
<1>2. CASE DestroyDecoder
  <2>1. surf' = Detached(Decoder) /\ Decoder \in Contexts
    BY <1>2 DEF DestroyDecoder, Contexts
  <2>2. OtherTypes'
    <3>1. decoder' = FALSE /\ buf' = buf
      BY <1>2, Zenon DEF DestroyDecoder
    <3> QED
      BY <2>1, <3>1, DetachedSurfaces, InductiveSplit DEF OtherTypes
  <2>3. SurfaceInv'
    BY <1>2, <2>1, DetachedSurfaces, EncodersRest, SurfacesMove
    DEF DestroyDecoder, Inductive, SurfaceInv
  <2> QED
    BY <1>2, <2>2, <2>3, EncodersRest, InductiveNext DEF DestroyDecoder
<1> QED
  BY <1>1, <1>2

LEMMA BufferKeeps ==
    ASSUME Inductive, NEW b \in Coded,
           CreateBuffer(b) \/ DestroyBuffer(b) \/ MapBuffer(b) \/ UnmapBuffer(b)
    PROVE  Inductive'
<1>1. UNCHANGED <<ctx, pending, vpu, callbacks, token, surf, decoder, call>>
  BY DEF CreateBuffer, DestroyBuffer, MapBuffer, UnmapBuffer
<1>2. buf' \in [Coded -> BufferStates]
  <2>1. buf \in [Coded -> BufferStates]
    BY DEF Inductive, TypeOK
  <2>2. CASE CreateBuffer(b)
    BY <2>1, <2>2 DEF CreateBuffer, BufferStates
  <2>3. CASE DestroyBuffer(b)
    BY <2>1, <2>3 DEF DestroyBuffer, BufferStates
  <2>4. CASE MapBuffer(b) \/ UnmapBuffer(b)
    BY <2>1, <2>4 DEF MapBuffer, UnmapBuffer, BufferStates
  <2> QED
    BY <2>2, <2>3, <2>4
<1>3. OtherTypes'
  BY <1>1, <1>2, InductiveSplit DEF OtherTypes
<1> QED
  BY <1>1, <1>3, EncodersRest, SurfacesRest, InductiveNext

-----------------------------------------------------------------------------
(* Beginning a picture, and naming its buffers.                            *)

LEMMA AlikeTypes ==
    ASSUME Inductive, NEW e \in Encoders, NEW d, Alike(ctx[e], d), call = Idle,
           ctx' = [ctx EXCEPT ![e] = d],
           UNCHANGED <<pending, vpu, callbacks, token, call>>
    PROVE  MachineTypes'
<1>1. ctx' \in [Encoders -> ContextStates]
  BY AlikeKeeps
<1> QED
  BY <1>1, InductiveSplit DEF MachineTypes

LEMMA BeginPictureKeeps ==
    ASSUME Inductive, NEW e \in Encoders, NEW s \in Surfaces, BeginPicture(e, s)
    PROVE  Inductive'
<1> DEFINE d == [ctx[e] EXCEPT !.current_render_target = s, !.enc_coded_buf = NoBuffer,
                               !.encoder_picture_active = TRUE]
           new == [surf[s] EXCEPT !.users = @ \cup {e}, !.context_id = e]
<1>1. ctx[e] \in ContextStates /\ surf[s] \in SurfaceStates
  BY DEF Inductive, TypeOK
<1>2. ctx' = [ctx EXCEPT ![e] = d] /\ surf' = [surf EXCEPT ![s] = new]
  BY Zenon DEF BeginPicture
<1>3. Alike(ctx[e], d) /\ d.current_render_target = s
  BY <1>1 DEF Alike, ContextStates
<1>4. /\ new \in SurfaceStates /\ new.output_context_id = surf[s].output_context_id
      /\ new.allocated = surf[s].allocated /\ new.decode_pending = surf[s].decode_pending
  BY <1>1 DEF SurfaceStates, Contexts
<1> HIDE DEF d, new
<1>5. MachineTypes' /\ EncoderInv'
  BY <1>2, <1>3, AlikeTypes, AlikeKeeps DEF BeginPicture
<1>6. OtherTypes'
  BY <1>2, <1>4, InductiveSplit DEF BeginPicture, OtherTypes
<1>7. \A f \in Encoders, r \in Surfaces : Encodes(f, r)' => Encodes(f, r) \/ r = s
  BY <1>1, <1>2, <1>3 DEF BeginPicture, Encodes, Alike, Inductive, TypeOK
<1>8. SurfaceInv'
  <2>1. surf[s].allocated /\ ~surf[s].decode_pending
    BY DEF BeginPicture
  <2> QED
    BY <1>2, <1>4, <1>7, <2>1 DEF SurfaceInv, HasActiveEncoder, Inductive, TypeOK
<1> QED
  BY <1>5, <1>6, <1>8, InductiveNext

LEMMA RenderPictureKeeps ==
    ASSUME Inductive, NEW e \in Encoders, NEW b \in Coded, RenderPicture(e, b)
    PROVE  Inductive'
<1> DEFINE d == [ctx[e] EXCEPT !.enc_coded_buf = b]
<1>1. ctx[e] \in ContextStates
  BY DEF Inductive, TypeOK
<1>2. ctx' = [ctx EXCEPT ![e] = d] /\ ctx[e].current_render_target = d.current_render_target
      /\ ctx[e].encoder_picture_active = d.encoder_picture_active
  BY <1>1 DEF RenderPicture, ContextStates
<1>3. ctx[e].encoder_picture_active => ctx[e].current_render_target \in Surfaces
  BY EncoderFacts DEF LocalHolds, LocalInv, ContextInv
<1>4. Alike(ctx[e], d)
  BY <1>1, <1>3 DEF Alike, ContextStates
<1> HIDE DEF d
<1>5. MachineTypes' /\ EncoderInv'
  BY <1>2, <1>4, AlikeTypes, AlikeKeeps DEF RenderPicture, MayRender
<1>6. OnlyUsers(surf')
  BY SameUsers, RetainedUsers DEF RenderPicture
<1>7. OtherTypes'
  BY <1>6, InductiveSplit DEF RenderPicture, OtherTypes, OnlyUsers
<1>8. \A f \in Encoders, r \in Surfaces : Encodes(f, r)' => Encodes(f, r)
  BY <1>1, <1>2, <1>4 DEF RenderPicture, Encodes, Alike, Inductive, TypeOK
<1> QED
  BY <1>5, <1>6, <1>7, <1>8, OnlyUsersMove, InductiveNext

LEMMA RateUpdateFailsKeeps ==
    ASSUME Inductive, NEW e \in Encoders, RateUpdateFails(e)
    PROVE  Inductive'
<1> DEFINE d == [ctx[e] EXCEPT !.encoder_failed = TRUE]
<1>1. ctx[e] \in ContextStates
  BY DEF Inductive, TypeOK
<1>2. ctx' = [ctx EXCEPT ![e] = d] /\ ctx[e].current_render_target = d.current_render_target
      /\ ctx[e].encoder_picture_active = d.encoder_picture_active
  BY <1>1 DEF RateUpdateFails, ContextStates
<1>3. ctx[e].encoder_picture_active => ctx[e].current_render_target \in Surfaces
  BY EncoderFacts DEF LocalHolds, LocalInv, ContextInv
<1>4. Alike(ctx[e], d)
  BY <1>1, <1>3 DEF Alike, ContextStates
<1> HIDE DEF d
<1>5. MachineTypes' /\ EncoderInv'
  BY <1>2, <1>4, AlikeTypes, AlikeKeeps DEF RateUpdateFails, MayRender
<1>6. OtherTypes'
  BY InductiveSplit DEF RateUpdateFails, OtherTypes
<1>7. \A f \in Encoders, r \in Surfaces : Encodes(f, r)' => Encodes(f, r)
  BY <1>1, <1>2, <1>4 DEF RateUpdateFails, Encodes, Alike, Inductive, TypeOK
<1>8. SurfaceInv'
  BY <1>7, SurfacesRest DEF RateUpdateFails
<1> QED
  BY <1>5, <1>6, <1>8, InductiveNext

-----------------------------------------------------------------------------
(* Creating and destroying contexts.                                       *)

(* A context whose VPU has nothing.                                        *)
LEMMA StoppedHolds ==
    ASSUME NEW e, NEW cb, NEW c \in ContextStates, ContextInv(c),
           ~c.enc_in_buf_valid, ~c.enc_out_buf_valid
    PROVE  LocalInv(e, c, 0, StoppedVpu, cb, Idle)
<1>1. StoppedVpu.reading = {} /\ StoppedVpu.encoding = <<>> /\ StoppedVpu.done = <<>>
      /\ StoppedVpu.inputs = NumIn /\ StoppedVpu.outputs = NumOut
  BY DEF StoppedVpu
<1>2. PendingInv(e, c, 0, StoppedVpu, cb, Idle)
  BY <1>1 DEF PendingInv
<1>3. CallInv(e, c, 0, StoppedVpu, cb, Idle)
  BY DEF CallInv, Idle
<1>4. OrderInv(c, StoppedVpu, Idle)
  BY <1>1 DEF OrderInv, Idle
<1>5. VpuInv(c, StoppedVpu, Idle)
  <2>1. IsFiniteSet({}) /\ Cardinality({}) = 0
    BY FS_EmptySet
  <2> QED
    BY <1>1, <2>1, ConstantsAssumption DEF VpuInv, InCount, OutCount, One, Idle
<1> QED
  BY <1>2, <1>3, <1>4, <1>5 DEF LocalInv

LEMMA StoppedType == StoppedVpu \in VpuStates
<1>1. <<>> \in Seq(0 .. MaxFrame)
  OBVIOUS
<1>2. NumIn \in 0 .. NumIn /\ NumOut \in 0 .. NumOut
  BY ConstantsAssumption
<1> QED
  BY <1>1, <1>2 DEF StoppedVpu, VpuStates

LEMMA FreeContextType ==
    /\ FreeContext \in ContextStates /\ ContextInv(FreeContext)
    /\ ~FreeContext.enc_in_buf_valid /\ ~FreeContext.enc_out_buf_valid
    /\ ~FreeContext.allocated /\ ~FreeContext.encoder_picture_active
    /\ FreeContext.state = "off" /\ ~FreeContext.encoder_init_deferred
<1>1. 0 \in 0 .. MaxFrame
  BY ConstantsAssumption
<1>2. FreeContext \in ContextStates
  BY <1>1 DEF FreeContext, ContextStates
<1> QED
  BY <1>2 DEF FreeContext, ContextInv

(* Nothing is left of the contexts that are reaped.                        *)
LEMMA ReapedContexts ==
    ASSUME Inductive, NEW gone
    PROVE  /\ Reaped(gone) \in [Encoders -> ContextStates]
           /\ \A d \in Encoders :
                 Reaped(gone)[d] = IF d \in gone THEN FreeContext ELSE ctx[d]
  BY FreeContextType DEF Inductive, TypeOK, Reaped

(* A slot that holds what nothing has been done with.                      *)
Fresh(c) ==
    /\ c \in ContextStates /\ ContextInv(c)
    /\ ~c.enc_in_buf_valid /\ ~c.enc_out_buf_valid /\ ~c.encoder_picture_active

LEMMA TakeSlotKeeps ==
    ASSUME Inductive, NEW e \in Encoders, NEW new, Fresh(new), NEW targets,
           TakeSlot(e, new, targets)
    PROVE  Inductive'
<1>1. /\ call = Idle /\ UNCHANGED <<callbacks, token, decoder, buf, call>>
      /\ ctx' = [Reaped(Orphans) EXCEPT ![e] = new]
      /\ pending' = [d \in Encoders |-> IF d \in Orphans \cup {e} THEN 0 ELSE pending[d]]
      /\ vpu' = [d \in Encoders |-> IF d \in Orphans \cup {e} THEN StoppedVpu ELSE vpu[d]]
      /\ surf' = Retained(SurfacesReaped(Orphans), targets, e)
  BY DEF TakeSlot
<1>2. MachineTypes'
  <2>1. ctx' \in [Encoders -> ContextStates]
    BY <1>1, ReapedContexts DEF Fresh
  <2>2. pending' \in [Encoders -> 0 .. MaxToken]
    BY <1>1, ConstantsAssumption DEF Inductive, TypeOK
  <2>3. vpu' \in [Encoders -> VpuStates]
    BY <1>1, StoppedType DEF Inductive, TypeOK
  <2> QED
    BY <1>1, <2>1, <2>2, <2>3, InductiveSplit DEF MachineTypes
<1>3. ASSUME NEW d \in Encoders
      PROVE  \/ Untouched(d)
             \/ /\ ctx'[d] \in {FreeContext, new} /\ pending'[d] = 0
                /\ vpu'[d] = StoppedVpu /\ callbacks'[d] = callbacks[d] /\ CallOf(d)' = Idle
  <2>1. CallOf(d) = Idle /\ CallOf(d)' = Idle
    BY <1>1 DEF CallOf
  <2> QED
    BY <1>1, <2>1, ReapedContexts DEF Untouched
<1>4. EncoderInv'
  <2> SUFFICES ASSUME NEW d \in Encoders, ~Untouched(d)
               PROVE  LocalHolds(d)'
    BY EncodersMove, <1>1 DEF Inductive, TypeOK
  <2>1. LocalInv(d, ctx'[d], 0, StoppedVpu, callbacks'[d], Idle)
    BY <1>3, StoppedHolds, FreeContextType DEF Fresh
  <2>2. callbacks'[d] \subseteq 1 .. token' /\ 0 \in 0 .. token'
    BY <1>1, EncoderFacts DEF LocalHolds, Inductive, TypeOK
  <2> QED
    BY <1>3, <2>1, <2>2 DEF LocalHolds
<1>5. OnlyUsers(surf')
  BY <1>1, ReapedUsers, RetainedUsers
<1>6. OtherTypes'
  BY <1>1, <1>5, InductiveSplit DEF OtherTypes, OnlyUsers
<1>7. \A d \in Encoders, s \in Surfaces : Encodes(d, s)' => Encodes(d, s)
  BY <1>3, FreeContextType DEF Encodes, Untouched, Fresh
<1> QED
  BY <1>2, <1>4, <1>5, <1>6, <1>7, OnlyUsersMove, InductiveNext

LEMMA CreateContextKeeps ==
    ASSUME Inductive, NEW e \in Encoders, CreateContext(e) \/ CreateContextFails(e)
    PROVE  Inductive'
<1>1. CASE CreateContext(e)
  <2>1. PICK external \in BOOLEAN, targets \in SUBSET Surfaces :
           TakeSlot(e, [FreeContext EXCEPT
                        !.allocated = TRUE, !.enc_external_enabled = external,
                        !.encoder_init_deferred = external,
                        !.state = IF external THEN "off" ELSE "running"], targets)
    BY <1>1 DEF CreateContext
  <2> DEFINE new == [FreeContext EXCEPT
                        !.allocated = TRUE, !.enc_external_enabled = external,
                        !.encoder_init_deferred = external,
                        !.state = IF external THEN "off" ELSE "running"]
  <2>2. Fresh(new)
    BY FreeContextType DEF Fresh, ContextStates, ContextInv
  <2> HIDE DEF new
  <2>3. TakeSlot(e, new, targets)
    BY <2>1 DEF new
  <2> QED
    BY <2>2, <2>3, TakeSlotKeeps
<1>2. CASE CreateContextFails(e)
  <2> DEFINE new == [FreeContext EXCEPT !.allocated = TRUE, !.cleanup_orphaned = TRUE,
                                        !.state = "initialized"]
  <2>1. Fresh(FreeContext)
    BY FreeContextType DEF Fresh
  <2>2. Fresh(new)
    BY FreeContextType DEF Fresh, ContextStates, ContextInv
  <2>3. TakeSlot(e, FreeContext, {}) \/ \E targets \in SUBSET Surfaces : TakeSlot(e, new, targets)
    BY <1>2 DEF CreateContextFails
  <2> HIDE DEF new
  <2> QED
    BY <2>1, <2>2, <2>3, TakeSlotKeeps
<1> QED
  BY <1>1, <1>2

(* What is left of a context is of the same kind, and of its VPU at most   *)
(* that it runs as before.                                                 *)
LEMMA PartlyTornDownContext ==
    ASSUME NEW c \in ContextStates, ContextInv(c),
           ~c.enc_in_buf_valid, ~c.enc_out_buf_valid,
           NEW left \in PartlyTornDown(c)
    PROVE  /\ left \in ContextStates /\ ContextInv(left)
           /\ ~left.enc_in_buf_valid /\ ~left.enc_out_buf_valid
           /\ left.state = "running" => left = c
           /\ left.allocated = c.allocated
           /\ left.encoder_picture_active = c.encoder_picture_active
           /\ left.current_render_target = c.current_render_target
           /\ left.scratch = c.scratch
           /\ left.enc_external_surface = c.enc_external_surface
<1>1. left = c \/ (c.state # "off" /\ left = [c EXCEPT !.state = "initialized"])
        \/ left = [c EXCEPT !.state = "off"]
  BY DEF PartlyTornDown
<1> QED
  BY <1>1 DEF ContextStates, ContextInv

LEMMA OrphanFacts ==
    ASSUME Inductive, NEW e \in Orphans
    PROVE  /\ e \in Encoders /\ ctx[e] \in ContextStates
           /\ pending[e] = 0 /\ ContextInv(ctx[e])
           /\ ~ctx[e].enc_in_buf_valid /\ ~ctx[e].enc_out_buf_valid
<1>1. e \in Encoders /\ ctx[e].cleanup_orphaned
  BY DEF Orphans
<1> QED
  BY <1>1, EncoderFacts DEF LocalHolds, LocalInv, ContextInv, PendingInv, ContextStates

LEMMA ReapFailsKeeps ==
    ASSUME Inductive, NEW e \in Encoders, ReapFails(e)
    PROVE  Inductive'
<1> DEFINE gone == {d \in Orphans : d < e}
<1>1. /\ call = Idle /\ e \in Orphans /\ UNCHANGED <<callbacks, token, decoder, buf, call>>
      /\ pending' = [d \in Encoders |-> IF d \in gone THEN 0 ELSE pending[d]]
      /\ vpu' = Instances(ctx')
      /\ surf' = SurfacesReaped(gone)
      /\ \E left \in PartlyTornDown(ctx[e]) : ctx' = [Reaped(gone) EXCEPT ![e] = left]
  BY DEF ReapFails
<1>2. PICK left \in PartlyTornDown(ctx[e]) : ctx' = [Reaped(gone) EXCEPT ![e] = left]
  BY <1>1
<1>3. e \notin gone
  BY DEF Encoders
<1> HIDE DEF gone
<1>4. /\ left \in ContextStates /\ ContextInv(left)
      /\ ~left.enc_in_buf_valid /\ ~left.enc_out_buf_valid
      /\ left.state = "running" => left = ctx[e]
      /\ left.allocated = ctx[e].allocated
      /\ left.encoder_picture_active = ctx[e].encoder_picture_active
      /\ left.current_render_target = ctx[e].current_render_target
  BY <1>1, OrphanFacts, PartlyTornDownContext
<1>5. \A d \in Encoders : ctx'[d] = IF d = e THEN left ELSE IF d \in gone THEN FreeContext ELSE ctx[d]
  BY <1>2, <1>3, ReapedContexts
<1>6. \A d \in Encoders : vpu'[d] = IF ctx'[d].state = "running" THEN vpu[d] ELSE StoppedVpu
  BY <1>1 DEF Instances
<1>7. MachineTypes'
  <2>1. ctx' \in [Encoders -> ContextStates]
    BY <1>2, <1>4, ReapedContexts
  <2>2. pending' \in [Encoders -> 0 .. MaxToken]
    BY <1>1, ConstantsAssumption DEF Inductive, TypeOK
  <2>3. vpu' = [d \in Encoders |-> vpu'[d]] /\ \A d \in Encoders : vpu'[d] \in VpuStates
    BY <1>1, <1>6, StoppedType, EncoderFacts DEF Instances
  <2> QED
    BY <1>1, <2>1, <2>2, <2>3, InductiveSplit DEF MachineTypes
<1>8. ASSUME NEW d \in Encoders
      PROVE  \/ Untouched(d)
             \/ /\ ctx'[d] \in {FreeContext, left} /\ pending'[d] = 0
                /\ ctx'[d].encoder_picture_active => ctx[d].encoder_picture_active
                /\ ctx'[d].allocated => ctx[d].allocated
                /\ ctx'[d].current_render_target = ctx[d].current_render_target
                     \/ ~ctx'[d].allocated
                /\ vpu'[d] = StoppedVpu /\ callbacks'[d] = callbacks[d] /\ CallOf(d)' = Idle
  <2>1. CallOf(d) = Idle /\ CallOf(d)' = Idle /\ callbacks'[d] = callbacks[d]
    BY <1>1 DEF CallOf
  <2>2. CASE d = e /\ left.state = "running"
    <3>1. ctx'[d] = ctx[d] /\ vpu'[d] = vpu[d] /\ pending'[d] = pending[d]
      BY <1>1, <1>3, <1>4, <1>5, <1>6, <2>2
    <3> QED
      BY <2>1, <3>1 DEF Untouched
  <2>3. CASE d = e /\ left.state # "running"
    BY <1>1, <1>3, <1>4, <1>5, <1>6, <2>1, <2>3, OrphanFacts
  <2>4. CASE d # e /\ d \in gone
    BY <1>1, <1>5, <1>6, <2>1, <2>4, FreeContextType
  <2>5. CASE d # e /\ d \notin gone
    <3>1. ctx[d].state # "running" => vpu[d] = StoppedVpu
      BY EncoderFacts DEF LocalHolds, LocalInv, VpuInv
    <3> QED
      BY <1>1, <1>5, <1>6, <2>1, <2>5, <3>1 DEF Untouched
  <2> QED
    BY <2>2, <2>3, <2>4, <2>5
<1>9. EncoderInv'
  <2> SUFFICES ASSUME NEW d \in Encoders, ~Untouched(d)
               PROVE  LocalHolds(d)'
    BY EncodersMove, <1>1 DEF Inductive, TypeOK
  <2>1. LocalInv(d, ctx'[d], 0, StoppedVpu, callbacks'[d], Idle)
    BY <1>4, <1>8, StoppedHolds, FreeContextType
  <2>2. callbacks'[d] \subseteq 1 .. token' /\ 0 \in 0 .. token'
    BY <1>1, EncoderFacts DEF LocalHolds, Inductive, TypeOK
  <2> QED
    BY <1>8, <2>1, <2>2 DEF LocalHolds
<1>10. OnlyUsers(surf')
  BY <1>1, ReapedUsers
<1>11. OtherTypes'
  BY <1>1, <1>10, InductiveSplit DEF OtherTypes, OnlyUsers
<1>12. \A d \in Encoders, s \in Surfaces : Encodes(d, s)' => Encodes(d, s)
  BY <1>8 DEF Encodes, Untouched
<1> QED
  BY <1>7, <1>9, <1>10, <1>11, <1>12, OnlyUsersMove, InductiveNext

(* A second attempt to give back what was kept.                            *)
VpuBooks ==
    [inputs : Nat, reading : SUBSET Inputs, encoding : Seq(0 .. MaxFrame),
     done : Seq(0 .. MaxFrame), outputs : Nat]

LEMMA VpuIsBook == VpuStates \subseteq VpuBooks
  BY ConstantsAssumption DEF VpuStates, VpuBooks

LEMMA RetriedFacts ==
    ASSUME Inductive, NEW e \in Encoders, CallOf(e) = Idle,
           NEW in \in BOOLEAN, NEW out \in BOOLEAN
    PROVE  LET d == Retried(e, in, out).context
               v == Retried(e, in, out).instance
           IN  /\ Alike([ctx[e] EXCEPT !.enc_in_buf_valid = d.enc_in_buf_valid,
                                       !.enc_out_buf_valid = d.enc_out_buf_valid], d)
               /\ ContextInv(d) /\ VpuInv(d, v, Idle) /\ v \in VpuStates
               /\ d.encoder_failed = ctx[e].encoder_failed
               /\ d.encoder_picture_active = ctx[e].encoder_picture_active
               /\ d.current_render_target = ctx[e].current_render_target
               /\ d.scratch = ctx[e].scratch
               /\ in => ~d.enc_in_buf_valid
               /\ out => ~d.enc_out_buf_valid
               /\ v.reading = vpu[e].reading /\ v.encoding = vpu[e].encoding
               /\ v.done = vpu[e].done
<1> DEFINE c == ctx[e]
           u == vpu[e]
           d == Retried(e, in, out).context
           v == Retried(e, in, out).instance
<1>1. /\ c \in ContextStates /\ u \in VpuStates /\ ContextInv(c) /\ VpuInv(c, u, Idle)
  BY EncoderFacts DEF LocalHolds, LocalInv
<1>2. CASE c.state # "running"
  <2>1. d = c /\ v = u
    BY <1>2 DEF Retried
  <2>2. ~c.enc_in_buf_valid /\ ~c.enc_out_buf_valid
    BY <1>1, <1>2 DEF ContextInv
  <2> QED
    BY <1>1, <2>1, <2>2 DEF Alike, ContextStates, ContextInv
<1>3. CASE c.state = "running"
  <2> DEFINE kept == c.enc_in_buf_valid /\ ~in
             held == c.enc_out_buf_valid /\ ~out
             ins  == IF c.enc_in_buf_valid /\ in THEN u.inputs + 1 ELSE u.inputs
             outs == IF c.enc_out_buf_valid /\ out THEN u.outputs + 1 ELSE u.outputs
  <2>1. /\ d = [c EXCEPT !.enc_in_buf_valid = kept, !.enc_out_buf_valid = held]
        /\ v = [u EXCEPT !.inputs = ins, !.outputs = outs]
    BY <1>3, Zenon DEF Retried
  <2>2. kept \in BOOLEAN /\ held \in BOOLEAN
    BY Zenon
  <2>3. ins \in Nat /\ outs \in Nat
    BY <1>1, ConstantsAssumption DEF VpuStates
  <2>4. /\ kept => c.enc_in_buf_valid
        /\ held => c.enc_out_buf_valid
        /\ in => ~kept
        /\ out => ~held
    OBVIOUS
  <2>5. ins + One(kept) = u.inputs + One(c.enc_in_buf_valid)
        /\ outs + One(held) = u.outputs + One(c.enc_out_buf_valid)
    BY <1>1 DEF One, VpuStates, ContextStates
  <2> HIDE DEF kept, held, ins, outs, d, v
  <2>6. v \in VpuBooks /\ v.inputs = ins /\ v.outputs = outs
        /\ v.reading = u.reading /\ v.encoding = u.encoding /\ v.done = u.done
    BY <1>1, <2>1, <2>3, VpuIsBook DEF VpuBooks
  <2>7. d \in ContextStates /\ d.state = "running"
        /\ d.enc_in_buf_valid = kept /\ d.enc_out_buf_valid = held
    BY <1>1, <1>3, <2>1, <2>2 DEF ContextStates
  <2>8. VpuInv(d, v, Idle)
    <3>1. Cardinality(u.reading) \in Nat /\ Len(u.done) \in Nat
      BY <1>1, FS_CardinalityType DEF VpuInv, VpuStates
    <3>2. One(c.enc_in_buf_valid) \in Nat /\ One(c.enc_out_buf_valid) \in Nat
          /\ One(kept) \in Nat /\ One(held) \in Nat /\ One(Idle.at = "queue") = 0
      BY DEF One, Idle
    <3>3. /\ u.inputs + Cardinality(u.reading) + 0 + One(c.enc_in_buf_valid) = NumIn
          /\ u.outputs + Len(u.done) + One(c.enc_out_buf_valid) = NumOut
          /\ IsFiniteSet(u.reading)
      BY <1>1, <1>3, <3>2 DEF VpuInv, InCount, OutCount
    <3>4. u.inputs \in Nat /\ u.outputs \in Nat
      BY <1>1 DEF VpuStates
    <3>5. /\ ins + Cardinality(u.reading) + 0 + One(kept) = NumIn
          /\ outs + Len(u.done) + One(held) = NumOut
      <4> DEFINE i == u.inputs
                 o == u.outputs
                 r == Cardinality(u.reading)
                 l == Len(u.done)
                 ki == One(kept)
                 ko == One(held)
                 hi == One(c.enc_in_buf_valid)
                 ho == One(c.enc_out_buf_valid)
      <4>1. /\ i \in Nat /\ o \in Nat /\ r \in Nat /\ l \in Nat
            /\ ki \in Nat /\ ko \in Nat /\ hi \in Nat /\ ho \in Nat
        BY <3>1, <3>2, <3>4
      <4>2. ins + ki = i + hi /\ outs + ko = o + ho /\ i + r + 0 + hi = NumIn /\ o + l + ho = NumOut
        BY <2>5, <3>3
      <4> HIDE DEF i, o, r, l, ki, ko, hi, ho
      <4>3. ins + r + 0 + ki = NumIn /\ outs + l + ko = NumOut
        BY <2>3, <4>1, <4>2
      <4> QED
        BY <4>3 DEF r, l, ki, ko
    <3> QED
      BY <2>6, <2>7, <3>2, <3>3, <3>5 DEF VpuInv, InCount, OutCount
  <2>9. ContextInv(d)
    BY <1>1, <1>3, <2>1, <2>2, <2>4, <2>7 DEF ContextInv, ContextStates
  <2>10. v \in VpuStates
    BY <2>6, <2>7, <2>8, VpuTypes DEF VpuBooks
  <2>11. Alike([c EXCEPT !.enc_in_buf_valid = d.enc_in_buf_valid,
                         !.enc_out_buf_valid = d.enc_out_buf_valid], d)
         /\ d.encoder_failed = c.encoder_failed
         /\ d.encoder_picture_active = c.encoder_picture_active
         /\ d.current_render_target = c.current_render_target
         /\ d.scratch = c.scratch
    BY <1>1, <2>1, <2>2, <2>7, <2>9 DEF Alike, ContextStates, ContextInv
  <2> QED
    BY <2>4, <2>6, <2>7, <2>8, <2>9, <2>10, <2>11 DEF d, v
<1> QED
  BY <1>2, <1>3

(* One encoder moves to context c, pending token p, VPU v, callbacks cb.   *)
Becomes(e, c, p, v, cb) ==
    /\ c \in ContextStates /\ v \in VpuStates
    /\ p \in 0 .. token' /\ cb \subseteq 1 .. token'
    /\ ctx' = [ctx EXCEPT ![e] = c]
    /\ pending' = [pending EXCEPT ![e] = p]
    /\ vpu' = [vpu EXCEPT ![e] = v]
    /\ callbacks' = [callbacks EXCEPT ![e] = cb]
    /\ token' \in 0 .. MaxToken /\ token <= token'
    /\ call' \in Calls
    /\ \A d \in Encoders \ {e} : CallOf(d)' = CallOf(d)
    /\ LocalInv(e, c, p, v, cb, CallOf(e)')

Works(c, p, s) ==
    /\ c.allocated
    /\ \/ c.encoder_picture_active /\ c.current_render_target = s
       \/ p # 0 /\ c.enc_external_surface = s

LEMMA OneEncoder ==
    ASSUME Inductive, NEW e \in Encoders, NEW c, NEW p, NEW v, NEW cb,
           Becomes(e, c, p, v, cb),
           \A s \in Surfaces : Works(c, p, s) => Works(ctx[e], pending[e], s)
    PROVE  /\ MachineTypes' /\ EncoderInv'
           /\ \A d \in Encoders, s \in Surfaces : Encodes(d, s)' => Encodes(d, s)
<1>1. \A d \in Encoders \ {e} : Untouched(d)
  BY DEF Becomes, Untouched, Inductive, TypeOK
<1>2. ctx'[e] = c /\ pending'[e] = p /\ vpu'[e] = v /\ callbacks'[e] = cb
  BY DEF Becomes, Inductive, TypeOK
<1>3. LocalHolds(e)'
  BY <1>2 DEF LocalHolds, Becomes
<1>4. EncoderInv'
  BY <1>1, <1>3, EncodersMove DEF Becomes
<1>5. MachineTypes'
  <2>1. cb \in SUBSET (1 .. MaxToken) /\ p \in 0 .. MaxToken
    BY ConstantsAssumption DEF Becomes
  <2> QED
    BY <2>1, InductiveSplit DEF Becomes, MachineTypes
<1>6. ASSUME NEW d \in Encoders, NEW s \in Surfaces, Encodes(d, s)'
      PROVE  Encodes(d, s)
  <2>1. CASE d = e
    BY <1>2, <1>6, <2>1 DEF Encodes, Works
  <2>2. CASE d # e
    BY <1>1, <1>6, <2>2 DEF Encodes, Untouched
  <2> QED
    BY <2>1, <2>2
<1> QED
  BY <1>4, <1>5, <1>6

(* An encoder that does not run has nothing to lose.                       *)
LEMMA InstancesOfOne ==
    ASSUME Inductive, NEW e \in Encoders, NEW c, ctx' = [ctx EXCEPT ![e] = c]
    PROVE  Instances(ctx') = [vpu EXCEPT ![e] = IF c.state = "running" THEN vpu[e] ELSE StoppedVpu]
<1>1. \A d \in Encoders : ctx[d].state # "running" => vpu[d] = StoppedVpu
  BY EncoderFacts DEF LocalHolds, LocalInv, VpuInv
<1> QED
  BY <1>1 DEF Instances, Inductive, TypeOK

LEMMA DestroyContextKeeps ==
    ASSUME Inductive, NEW e \in Encoders, DestroyContext(e)
    PROVE  Inductive'
<1> DEFINE r == Retried(e, TRUE, TRUE).context
           c == [r EXCEPT !.allocated = FALSE, !.cleanup_orphaned = FALSE,
                          !.state = "off", !.scratch = "none"]
<1>1. /\ call = Idle /\ pending[e] = 0 /\ ~UsedByOtherEncoder(e)
      /\ UNCHANGED <<pending, callbacks, token, decoder, buf, call>>
      /\ ctx' = [ctx EXCEPT ![e] = c]
      /\ vpu' = Instances(ctx')
      /\ surf' = Detached(e)
  BY Zenon DEF DestroyContext, MayDestroy
<1>2. /\ r \in ContextStates /\ ContextInv(r)
      /\ ~r.enc_in_buf_valid /\ ~r.enc_out_buf_valid
  BY <1>1, CallFacts, RetriedFacts DEF Alike
<1>3. /\ c \in ContextStates /\ ContextInv(c) /\ c.state = "off" /\ ~c.allocated
      /\ ~c.enc_in_buf_valid /\ ~c.enc_out_buf_valid
  BY <1>2 DEF ContextStates, ContextInv
<1> HIDE DEF c, r
<1>4. vpu' = [vpu EXCEPT ![e] = StoppedVpu]
  BY <1>1, <1>3, InstancesOfOne
<1>5. Becomes(e, c, 0, StoppedVpu, callbacks[e])
  <2>1. LocalInv(e, c, 0, StoppedVpu, callbacks[e], CallOf(e)')
    BY <1>1, <1>3, StoppedHolds DEF CallOf
  <2>2. pending' = [pending EXCEPT ![e] = 0] /\ callbacks' = [callbacks EXCEPT ![e] = callbacks[e]]
    BY <1>1 DEF Inductive, TypeOK
  <2>3. callbacks[e] \subseteq 1 .. token /\ token \in 0 .. MaxToken
    BY EncoderFacts DEF LocalHolds, Inductive, TypeOK
  <2>4. \A d \in Encoders \ {e} : CallOf(d)' = CallOf(d)
    BY <1>1 DEF CallOf
  <2>5. 0 \in 0 .. token' /\ token' = token /\ token <= token' /\ call' \in Calls
    BY <1>1, ConstantsAssumption DEF Inductive, TypeOK
  <2> QED
    BY <1>1, <1>3, <1>4, <2>1, <2>2, <2>3, <2>4, <2>5, StoppedType DEF Becomes
<1>6. \A s \in Surfaces : Works(c, 0, s) => Works(ctx[e], pending[e], s)
  BY <1>3 DEF Works
<1>7. /\ MachineTypes' /\ EncoderInv'
      /\ \A d \in Encoders, s \in Surfaces : Encodes(d, s)' => Encodes(d, s)
  BY <1>5, <1>6, OneEncoder
<1>8. e \in Contexts /\ e # Decoder /\ e # NoContext
  BY ConstantsAssumption DEF Contexts
<1>9. OtherTypes'
  BY <1>1, <1>8, DetachedSurfaces, InductiveSplit DEF OtherTypes
<1>10. SurfaceInv'
  BY <1>1, <1>7, <1>8, DetachedSurfaces, SurfacesMove DEF Inductive, SurfaceInv
<1> QED
  BY <1>7, <1>9, <1>10, InductiveNext

LEMMA DestroyContextFailsKeeps ==
    ASSUME Inductive, NEW e \in Encoders, DestroyContextFails(e)
    PROVE  Inductive'
<1>1. /\ call = Idle /\ pending[e] = 0
      /\ UNCHANGED <<pending, callbacks, token, surf, decoder, buf, call>>
  BY DEF DestroyContextFails, MayDestroy
<1>2. CallOf(e) = Idle /\ \A d \in Encoders : CallOf(d)' = CallOf(d)
  BY <1>1, CallFacts DEF CallOf
<1>3. ASSUME NEW c \in ContextStates, NEW v \in VpuStates,
             ctx' = [ctx EXCEPT ![e] = c], vpu' = [vpu EXCEPT ![e] = v],
             LocalInv(e, c, 0, v, callbacks[e], Idle),
             \A s \in Surfaces : Works(c, 0, s) => Works(ctx[e], 0, s)
      PROVE  Inductive'
  <2>1. pending' = [pending EXCEPT ![e] = 0] /\ callbacks' = [callbacks EXCEPT ![e] = callbacks[e]]
    BY <1>1 DEF Inductive, TypeOK
  <2>2. callbacks[e] \subseteq 1 .. token /\ token \in 0 .. MaxToken
    BY EncoderFacts DEF LocalHolds, Inductive, TypeOK
  <2>3. Becomes(e, c, 0, v, callbacks[e])
    <3>1. 0 \in 0 .. MaxToken /\ token' = token /\ token <= token' /\ call' \in Calls
      BY <1>1, ConstantsAssumption DEF Inductive, TypeOK
    <3> QED
      BY <1>2, <1>3, <2>1, <2>2, <3>1 DEF Becomes
  <2>4. /\ MachineTypes' /\ EncoderInv'
        /\ \A d \in Encoders, s \in Surfaces : Encodes(d, s)' => Encodes(d, s)
    BY <1>1, <1>3, <2>3, OneEncoder
  <2>5. OtherTypes'
    BY <1>1, InductiveSplit DEF OtherTypes
  <2> QED
    BY <1>1, <2>4, <2>5, SurfacesRest, InductiveNext
<1>4. LocalHolds(e)
  BY EncoderFacts
<1>5. ASSUME NEW in \in BOOLEAN, NEW out \in BOOLEAN
      PROVE  LET r == Retried(e, in, out)
             IN  /\ LocalInv(e, r.context, 0, r.instance, callbacks[e], Idle)
                 /\ \A s \in Surfaces : Works(r.context, 0, s) => Works(ctx[e], 0, s)
                 /\ r.context \in ContextStates /\ r.instance \in VpuStates
  <2> DEFINE c == Retried(e, in, out).context
             v == Retried(e, in, out).instance
             kept == [ctx[e] EXCEPT !.enc_in_buf_valid = c.enc_in_buf_valid,
                                    !.enc_out_buf_valid = c.enc_out_buf_valid]
  <2>1. /\ Alike(kept, c) /\ ContextInv(c) /\ VpuInv(c, v, Idle) /\ v \in VpuStates
        /\ c.encoder_failed = ctx[e].encoder_failed
        /\ c.encoder_picture_active = ctx[e].encoder_picture_active
        /\ c.current_render_target = ctx[e].current_render_target
        /\ v.reading = vpu[e].reading /\ v.encoding = vpu[e].encoding
        /\ v.done = vpu[e].done
    BY <1>2, RetriedFacts
  <2>2. /\ c.allocated = ctx[e].allocated /\ c.frame_count = ctx[e].frame_count
        /\ c.enc_external_surface = ctx[e].enc_external_surface
        /\ c \in ContextStates
    <3>1. /\ kept.allocated = ctx[e].allocated /\ kept.frame_count = ctx[e].frame_count
          /\ kept.enc_external_surface = ctx[e].enc_external_surface
      BY EncoderFacts DEF ContextStates
    <3> QED
      BY <2>1, <3>1 DEF Alike
  <2> HIDE DEF c, v, kept
  <2>3. PendingInv(e, c, 0, v, callbacks[e], Idle)
    BY <1>1, <1>2, <1>4, <2>1, <2>2 DEF LocalHolds, LocalInv, PendingInv, Lies
  <2>4. CallInv(e, c, 0, v, callbacks[e], Idle)
    BY DEF CallInv, Idle
  <2>5. OrderInv(c, v, Idle)
    BY <1>2, <1>4, <2>1 DEF LocalHolds, LocalInv, OrderInv, Idle
  <2>6. LocalInv(e, c, 0, v, callbacks[e], Idle)
    BY <2>1, <2>3, <2>4, <2>5 DEF LocalInv
  <2>7. \A s \in Surfaces : Works(c, 0, s) => Works(ctx[e], 0, s)
    BY <2>1, <2>2 DEF Works
  <2> QED
    BY <2>1, <2>2, <2>6, <2>7 DEF c, v
<1>6. CASE \E in, out \in BOOLEAN :
              LET r == Retried(e, in, out)
              IN  ctx' = [ctx EXCEPT ![e] = r.context] /\ vpu' = [vpu EXCEPT ![e] = r.instance]
  BY <1>3, <1>5, <1>6
<1>7. CASE LET r == Retried(e, TRUE, TRUE)
           IN  /\ \E left \in PartlyTornDown(r.context) : ctx' = [ctx EXCEPT ![e] = left]
               /\ vpu' = IF ctx'[e].state = "running"
                         THEN [vpu EXCEPT ![e] = r.instance] ELSE Instances(ctx')
  <2> DEFINE c == Retried(e, TRUE, TRUE).context
             v == Retried(e, TRUE, TRUE).instance
  <2>1. PICK left \in PartlyTornDown(c) : ctx' = [ctx EXCEPT ![e] = left]
    BY <1>7
  <2>2. vpu' = IF ctx'[e].state = "running" THEN [vpu EXCEPT ![e] = v] ELSE Instances(ctx')
    BY <1>7
  <2>3. /\ LocalInv(e, c, 0, v, callbacks[e], Idle)
        /\ \A s \in Surfaces : Works(c, 0, s) => Works(ctx[e], 0, s)
        /\ c \in ContextStates /\ v \in VpuStates
        /\ ~c.enc_in_buf_valid /\ ~c.enc_out_buf_valid
    BY <1>2, <1>5, RetriedFacts
  <2> HIDE DEF c, v
  <2>4. /\ left \in ContextStates /\ ContextInv(left)
        /\ ~left.enc_in_buf_valid /\ ~left.enc_out_buf_valid
        /\ left.state = "running" => left = c
        /\ left.allocated = c.allocated
        /\ left.encoder_picture_active = c.encoder_picture_active
        /\ left.current_render_target = c.current_render_target
        /\ left.enc_external_surface = c.enc_external_surface
    BY <2>3, PartlyTornDownContext DEF LocalInv
  <2>5. ctx'[e] = left
    BY <2>1 DEF Inductive, TypeOK
  <2>6. CASE left.state = "running"
    BY <1>3, <2>1, <2>2, <2>3, <2>4, <2>5, <2>6
  <2>7. CASE left.state # "running"
    <3>1. vpu' = [vpu EXCEPT ![e] = StoppedVpu]
      BY <2>1, <2>2, <2>5, <2>7, InstancesOfOne
    <3>2. LocalInv(e, left, 0, StoppedVpu, callbacks[e], Idle)
      BY <2>4, StoppedHolds
    <3>3. \A s \in Surfaces : Works(left, 0, s) => Works(ctx[e], 0, s)
      BY <2>3, <2>4 DEF Works
    <3> QED
      BY <1>3, <2>1, <2>4, <3>1, <3>2, <3>3, StoppedType
  <2> QED
    BY <2>6, <2>7
<1> QED
  BY <1>6, <1>7, Zenon DEF DestroyContextFails

-----------------------------------------------------------------------------
(* vaEndPicture: the input.                                                *)

LEMMA Moved ==
    ASSUME Inductive, NEW e \in Encoders, NEW c, NEW p, NEW v, NEW cb,
           Becomes(e, c, p, v, cb),
           \A s \in Surfaces : Works(c, p, s) => Works(ctx[e], pending[e], s),
           UNCHANGED <<surf, decoder>>, buf' \in [Coded -> BufferStates]
    PROVE  Inductive'
<1>1. /\ MachineTypes' /\ EncoderInv'
      /\ \A d \in Encoders, s \in Surfaces : Encodes(d, s)' => Encodes(d, s)
  BY OneEncoder
<1>2. OtherTypes'
  BY InductiveSplit DEF OtherTypes
<1> QED
  BY <1>1, <1>2, SurfacesRest, InductiveNext

(* A context and its VPU change while nothing is pending, and no call of   *)
(* vaEndPicture is under way before or after.                              *)
LEMMA IdleMoved ==
    ASSUME Inductive, NEW e \in Encoders, call = Idle,
           NEW c \in ContextStates, NEW v \in VpuStates,
           ctx' = [ctx EXCEPT ![e] = c], vpu' = [vpu EXCEPT ![e] = v],
           LocalInv(e, c, pending[e], v, callbacks[e], Idle),
           \A s \in Surfaces : Works(c, pending[e], s) => Works(ctx[e], pending[e], s),
           UNCHANGED <<pending, callbacks, token, surf, decoder, call>>,
           buf' \in [Coded -> BufferStates]
    PROVE  Inductive'
<1>1. /\ pending' = [pending EXCEPT ![e] = pending[e]]
      /\ callbacks' = [callbacks EXCEPT ![e] = callbacks[e]]
  BY DEF Inductive, TypeOK
<1>2. /\ callbacks[e] \subseteq 1 .. token /\ token \in 0 .. MaxToken
      /\ pending[e] \in 0 .. token
  BY EncoderFacts DEF LocalHolds, Inductive, TypeOK
<1>3. token' = token /\ token <= token' /\ call' \in Calls
  BY ConstantsAssumption DEF Inductive, TypeOK
<1>4. CallOf(e)' = Idle /\ \A d \in Encoders : CallOf(d)' = CallOf(d)
  BY DEF CallOf
<1>5. Becomes(e, c, pending[e], v, callbacks[e])
  BY <1>1, <1>2, <1>3, <1>4 DEF Becomes
<1> QED
  BY <1>5, Moved

LEMMA BufferFilled ==
    ASSUME Inductive, NEW b, NEW picture \in Pictures \cup {Empty}
    PROVE  [buf EXCEPT ![b].segment = picture] \in [Coded -> BufferStates]
<1>1. CASE b \in Coded
  <2>1. [buf[b] EXCEPT !.segment = picture] \in BufferStates
    BY <1>1 DEF Inductive, TypeOK, BufferStates
  <2> QED
    BY <1>1, <2>1 DEF Inductive, TypeOK
<1>2. CASE b \notin Coded
  BY <1>2 DEF Inductive, TypeOK
<1> QED
  BY <1>1, <1>2

(* An encoder whose picture can be ended has nothing under way.            *)
LEMMA MayEndFacts ==
    ASSUME Inductive, NEW e \in Encoders, MayEnd(e)
    PROVE  /\ call = Idle /\ CallOf(e) = Idle
           /\ ctx[e] \in ContextStates /\ vpu[e] \in VpuStates
           /\ ctx[e].allocated /\ ~ctx[e].cleanup_orphaned /\ ~ctx[e].encoder_failed
           /\ ctx[e].encoder_picture_active /\ ctx[e].current_render_target \in Surfaces
           /\ ~ctx[e].enc_in_buf_valid /\ ~ctx[e].enc_out_buf_valid
           /\ ctx[e].enc_coded_buf \in Coded
           /\ pending[e] = 0
           /\ \A i \in vpu[e].reading : i.token = 0
           /\ vpu[e].encoding = <<>> /\ vpu[e].done = <<>>
<1>1. LocalHolds(e) /\ call = Idle /\ CallOf(e) = Idle
      /\ ctx[e] \in ContextStates /\ vpu[e] \in VpuStates
  BY EncoderFacts, CallFacts DEF MayEnd
<1>2. /\ ctx[e].allocated /\ ~ctx[e].cleanup_orphaned /\ ~ctx[e].encoder_failed
      /\ ctx[e].encoder_picture_active /\ ctx[e].enc_coded_buf # NoBuffer
  BY DEF MayEnd, Known
<1>3. /\ ctx[e].current_render_target \in Surfaces
      /\ ~ctx[e].enc_in_buf_valid /\ ~ctx[e].enc_out_buf_valid
  BY <1>1, <1>2 DEF LocalHolds, LocalInv, ContextInv
<1>4. pending[e] = 0 /\ \A i \in vpu[e].reading : i.token = 0
  BY <1>1, <1>2 DEF LocalHolds, LocalInv, PendingInv
<1>5. vpu[e].encoding = <<>> /\ vpu[e].done = <<>>
  BY <1>1, <1>2 DEF LocalHolds, LocalInv, OrderInv, Idle
<1> QED
  BY <1>1, <1>2, <1>3, <1>4, <1>5 DEF ContextStates

(* A start, or what a failed one leaves, touches these fields only.        *)
LEMMA StartedFields ==
    ASSUME NEW c \in ContextStates
    PROVE  LET d == [c EXCEPT !.encoder_init_deferred = FALSE, !.state = "running",
                              !.scratch = "a"]
           IN  /\ d \in ContextStates /\ ~d.encoder_init_deferred /\ d.state = "running"
               /\ d.allocated = c.allocated /\ d.cleanup_orphaned = c.cleanup_orphaned
               /\ d.encoder_failed = c.encoder_failed
               /\ d.encoder_picture_active = c.encoder_picture_active
               /\ d.current_render_target = c.current_render_target
               /\ d.enc_in_buf_valid = c.enc_in_buf_valid
               /\ d.enc_out_buf_valid = c.enc_out_buf_valid
               /\ d.frame_count = c.frame_count
               /\ d.enc_external_surface = c.enc_external_surface
               /\ d.enc_external_enabled = c.enc_external_enabled
  BY DEF ContextStates, Stamps

StartFailed(c, state, scratch, left) ==
    [c EXCEPT !.encoder_init_deferred = FALSE, !.encoder_failed = TRUE,
              !.state = state, !.scratch = scratch, !.cleanup_orphaned = left]

StartFailedShape(c, d) ==
    /\ d \in ContextStates /\ ~d.encoder_init_deferred
    /\ d.allocated = c.allocated
    /\ d.enc_in_buf_valid = c.enc_in_buf_valid
    /\ d.enc_out_buf_valid = c.enc_out_buf_valid
    /\ d.encoder_picture_active = c.encoder_picture_active
    /\ d.current_render_target = c.current_render_target
    /\ d.enc_external_surface = c.enc_external_surface

LEMMA StartFailedFields ==
    ASSUME NEW c \in ContextStates, NEW state \in {"off", "initialized", "running"},
           NEW scratch \in {"none", "a"}, NEW left \in BOOLEAN
    PROVE  StartFailedShape(c, StartFailed(c, state, scratch, left))
<1> DEFINE f == [c EXCEPT !.encoder_init_deferred = FALSE, !.encoder_failed = TRUE]
           d == [f EXCEPT !.state = state, !.scratch = scratch, !.cleanup_orphaned = left]
<1>1. /\ f \in ContextStates /\ ~f.encoder_init_deferred
      /\ f.allocated = c.allocated
      /\ f.enc_in_buf_valid = c.enc_in_buf_valid
      /\ f.enc_out_buf_valid = c.enc_out_buf_valid
      /\ f.encoder_picture_active = c.encoder_picture_active
      /\ f.current_render_target = c.current_render_target
      /\ f.enc_external_surface = c.enc_external_surface
  BY DEF ContextStates
<1> HIDE DEF f
<1>2. d \in ContextStates
  BY <1>1 DEF ContextStates, Stamps
<1>3. /\ ~d.encoder_init_deferred
      /\ d.allocated = f.allocated
      /\ d.enc_in_buf_valid = f.enc_in_buf_valid
      /\ d.enc_out_buf_valid = f.enc_out_buf_valid
      /\ d.encoder_picture_active = f.encoder_picture_active
      /\ d.current_render_target = f.current_render_target
      /\ d.enc_external_surface = f.enc_external_surface
  BY <1>1 DEF ContextStates
<1> HIDE DEF d
<1>4. d = StartFailed(c, state, scratch, left)
  BY Zenon DEF d, f, StartFailed
<1> QED
  BY <1>1, <1>2, <1>3, <1>4 DEF StartFailedShape

LEMMA StartedFacts ==
    ASSUME Inductive, NEW e \in Encoders, MayEnd(e)
    PROVE  LET c == Started(ctx[e])
           IN  /\ c \in ContextStates /\ ~c.encoder_init_deferred
               /\ c.allocated /\ ~c.cleanup_orphaned /\ ~c.encoder_failed
               /\ c.encoder_picture_active
               /\ c.current_render_target = ctx[e].current_render_target
               /\ ~c.enc_in_buf_valid /\ ~c.enc_out_buf_valid
               /\ c.frame_count = ctx[e].frame_count
               /\ c.enc_external_surface = ctx[e].enc_external_surface
               /\ c.enc_external_enabled = ctx[e].enc_external_enabled
               /\ ctx[e].encoder_init_deferred => c.state = "running"
               /\ ~ctx[e].encoder_init_deferred => c = ctx[e]
               /\ LocalInv(e, c, 0, vpu[e], callbacks[e], Idle)
<1> DEFINE c == Started(ctx[e])
<1>1. LocalHolds(e)
  BY EncoderFacts
<1>2. CASE ~ctx[e].encoder_init_deferred
  BY <1>1, <1>2, MayEndFacts DEF Started, LocalHolds
<1>3. CASE ctx[e].encoder_init_deferred
  <2>1. c = [ctx[e] EXCEPT !.encoder_init_deferred = FALSE, !.state = "running", !.scratch = "a"]
    BY <1>3 DEF Started
  <2>2. vpu[e] = StoppedVpu
    BY <1>1, <1>3 DEF LocalHolds, LocalInv, ContextInv, VpuInv
  <2>3. /\ c \in ContextStates /\ ~c.encoder_init_deferred /\ c.state = "running"
        /\ c.allocated /\ ~c.cleanup_orphaned /\ ~c.encoder_failed
        /\ c.encoder_picture_active
        /\ c.current_render_target = ctx[e].current_render_target
        /\ ~c.enc_in_buf_valid /\ ~c.enc_out_buf_valid
        /\ c.frame_count = ctx[e].frame_count
        /\ c.enc_external_surface = ctx[e].enc_external_surface
        /\ c.enc_external_enabled = ctx[e].enc_external_enabled
    <3> DEFINE was == ctx[e]
    <3>1. /\ was \in ContextStates /\ was.allocated /\ ~was.cleanup_orphaned
          /\ ~was.encoder_failed /\ was.encoder_picture_active
          /\ ~was.enc_in_buf_valid /\ ~was.enc_out_buf_valid
      BY MayEndFacts
    <3> HIDE DEF was, c
    <3>2. c = [was EXCEPT !.encoder_init_deferred = FALSE, !.state = "running",
                          !.scratch = "a"]
      BY <2>1 DEF was
    <3>3. /\ c \in ContextStates /\ ~c.encoder_init_deferred /\ c.state = "running"
          /\ c.allocated /\ ~c.cleanup_orphaned /\ ~c.encoder_failed
          /\ c.encoder_picture_active
          /\ c.current_render_target = was.current_render_target
          /\ ~c.enc_in_buf_valid /\ ~c.enc_out_buf_valid
          /\ c.frame_count = was.frame_count
          /\ c.enc_external_surface = was.enc_external_surface
          /\ c.enc_external_enabled = was.enc_external_enabled
      BY <3>1, <3>2, StartedFields
    <3> QED
      BY <3>3 DEF was
  <2> HIDE DEF c
  <2>4. ContextInv(c)
    BY <2>3, MayEndFacts DEF ContextInv
  <2>5. LocalInv(e, c, 0, vpu[e], callbacks[e], Idle)
    BY <2>2, <2>3, <2>4, StoppedHolds
  <2> QED
    BY <1>3, <2>3, <2>5 DEF c
<1> QED
  BY <1>2, <1>3

LEMMA StartFailsKeeps ==
    ASSUME Inductive, NEW e \in Encoders, StartFails(e)
    PROVE  Inductive'
<1>1. MayEnd(e) /\ ctx[e].encoder_init_deferred
      /\ UNCHANGED <<pending, vpu, callbacks, token, surf, decoder, buf, call>>
  BY DEF StartFails
<1>2. PICK state \in {"off", "initialized", "running"}, scratch \in {"none", "a"} :
         ctx' = [ctx EXCEPT ![e].encoder_init_deferred = FALSE,
                            ![e].encoder_failed = TRUE,
                            ![e].state = state, ![e].scratch = scratch,
                            ![e].cleanup_orphaned = state # "off" \/ scratch # "none"]
  BY DEF StartFails
<1>3. PICK left \in BOOLEAN : left = (state # "off" \/ scratch # "none")
  BY Zenon
<1> DEFINE c == StartFailed(ctx[e], state, scratch, left)
<1>4. ctx' = [ctx EXCEPT ![e] = c]
  BY <1>2, <1>3, Zenon DEF StartFailed
<1>5. /\ c \in ContextStates /\ ~c.encoder_init_deferred /\ c.allocated
      /\ ~c.enc_in_buf_valid /\ ~c.enc_out_buf_valid
      /\ c.encoder_picture_active
      /\ c.current_render_target = ctx[e].current_render_target
      /\ c.enc_external_surface = ctx[e].enc_external_surface
  <2>1. /\ ctx[e] \in ContextStates /\ ctx[e].allocated /\ ctx[e].encoder_picture_active
        /\ ~ctx[e].enc_in_buf_valid /\ ~ctx[e].enc_out_buf_valid
    BY <1>1, MayEndFacts
  <2>2. StartFailedShape(ctx[e], c)
    BY <2>1, StartFailedFields, Zenon
  <2> HIDE DEF c
  <2> QED
    BY <2>1, <2>2 DEF StartFailedShape
<1> HIDE DEF c
<1>6. ContextInv(c)
  BY <1>1, <1>5, MayEndFacts DEF ContextInv
<1>7. vpu[e] = StoppedVpu
  BY <1>1, EncoderFacts DEF LocalHolds, LocalInv, ContextInv, VpuInv
<1>8. pending[e] = 0 /\ LocalInv(e, c, pending[e], vpu[e], callbacks[e], Idle)
  BY <1>1, <1>5, <1>6, <1>7, MayEndFacts, StoppedHolds
<1>9. \A s \in Surfaces : Works(c, pending[e], s) => Works(ctx[e], pending[e], s)
  BY <1>1, <1>5, MayEndFacts DEF Works
<1>10. vpu' = [vpu EXCEPT ![e] = vpu[e]] /\ buf' \in [Coded -> BufferStates]
  BY <1>1 DEF Inductive, TypeOK
<1> QED
  BY <1>1, <1>4, <1>5, <1>8, <1>9, <1>10, MayEndFacts, IdleMoved

LEMMA InputRejectedKeeps ==
    ASSUME Inductive, NEW e \in Encoders, InputRejected(e)
    PROVE  Inductive'
<1> DEFINE c == Started(ctx[e])
<1>1. /\ MayEnd(e) /\ ctx' = [ctx EXCEPT ![e] = c]
      /\ UNCHANGED <<pending, vpu, callbacks, token, surf, decoder, call>>
      /\ buf' = [buf EXCEPT ![ctx[e].enc_coded_buf].segment = Empty]
  BY DEF InputRejected, MayPass
<1>2. /\ c \in ContextStates /\ LocalInv(e, c, 0, vpu[e], callbacks[e], Idle)
      /\ c.current_render_target = ctx[e].current_render_target
  BY <1>1, StartedFacts
<1> HIDE DEF c
<1>3. pending[e] = 0 /\ call = Idle /\ vpu[e] \in VpuStates
  BY <1>1, MayEndFacts
<1>4. \A s \in Surfaces : Works(c, pending[e], s) => Works(ctx[e], pending[e], s)
  BY <1>1, <1>2, MayEndFacts DEF Works
<1>5. vpu' = [vpu EXCEPT ![e] = vpu[e]]
  BY <1>1 DEF Inductive, TypeOK
<1>6. buf' \in [Coded -> BufferStates]
  BY <1>1, BufferFilled
<1> QED
  BY <1>1, <1>2, <1>3, <1>4, <1>5, <1>6, IdleMoved

(* What a finished picture leaves of its context.                          *)
FinishedShape(c, d, failed) ==
    /\ d \in ContextStates /\ ~d.encoder_picture_active
    /\ d.encoder_failed <=> c.encoder_failed \/ failed
    /\ d.allocated = c.allocated /\ d.state = c.state
    /\ d.encoder_init_deferred = c.encoder_init_deferred
    /\ d.cleanup_orphaned = c.cleanup_orphaned
    /\ d.enc_external_enabled = c.enc_external_enabled
    /\ d.enc_external_surface = c.enc_external_surface
    /\ d.enc_in_buf_valid = c.enc_in_buf_valid
    /\ d.enc_out_buf_valid = c.enc_out_buf_valid
    /\ d.frame_count = c.frame_count
    /\ d.scratch = c.scratch

LEMMA FinishedFields ==
    ASSUME NEW c \in ContextStates, NEW failed \in BOOLEAN
    PROVE  FinishedShape(c, Finished(c, failed), failed)
<1> DEFINE f == [c EXCEPT !.encoder_picture_active = FALSE, !.current_render_target = NoSurface,
                          !.enc_coded_buf = NoBuffer]
<1>1. PICK now \in BOOLEAN : now = (c.encoder_failed \/ failed)
  BY Zenon
<1>2. /\ f \in ContextStates /\ ~f.encoder_picture_active
      /\ f.allocated = c.allocated /\ f.state = c.state
      /\ f.encoder_init_deferred = c.encoder_init_deferred
      /\ f.cleanup_orphaned = c.cleanup_orphaned
      /\ f.enc_external_enabled = c.enc_external_enabled
      /\ f.enc_external_surface = c.enc_external_surface
      /\ f.enc_in_buf_valid = c.enc_in_buf_valid
      /\ f.enc_out_buf_valid = c.enc_out_buf_valid
      /\ f.frame_count = c.frame_count
      /\ f.scratch = c.scratch
  BY DEF ContextStates
<1>3. Finished(c, failed) = [f EXCEPT !.encoder_failed = now]
  <2>1. f.encoder_failed = c.encoder_failed
    BY DEF ContextStates
  <2> QED
    BY <1>1, <2>1, Zenon DEF Finished
<1> HIDE DEF f
<1> DEFINE d == [f EXCEPT !.encoder_failed = now]
<1>4. /\ d \in ContextStates /\ ~d.encoder_picture_active
      /\ d.encoder_failed = now
      /\ d.allocated = f.allocated /\ d.state = f.state
      /\ d.encoder_init_deferred = f.encoder_init_deferred
      /\ d.cleanup_orphaned = f.cleanup_orphaned
      /\ d.enc_external_enabled = f.enc_external_enabled
      /\ d.enc_external_surface = f.enc_external_surface
      /\ d.enc_in_buf_valid = f.enc_in_buf_valid
      /\ d.enc_out_buf_valid = f.enc_out_buf_valid
      /\ d.frame_count = f.frame_count
      /\ d.scratch = f.scratch
  BY <1>2 DEF ContextStates
<1> HIDE DEF d
<1>5. Finished(c, failed) = d
  BY <1>3 DEF d
<1> QED
  BY <1>1, <1>2, <1>4, <1>5 DEF FinishedShape

(* A VPU's books balance if what left one place is in another.             *)
LEMMA Balanced ==
    ASSUME NEW c \in ContextStates, NEW u \in VpuStates, NEW k, VpuInv(c, u, k),
           NEW d \in ContextStates, NEW v \in VpuBooks, NEW l,
           c.state = "running", d.state = "running",
           IsFiniteSet(v.reading),
           InCount(d, v, l) = InCount(c, u, k), OutCount(d, v) = OutCount(c, u)
    PROVE  VpuInv(d, v, l) /\ v \in VpuStates
<1>1. VpuInv(d, v, l)
  BY DEF VpuInv
<1> QED
  BY <1>1, VpuTypes DEF VpuBooks

(* The driver takes a free input slot of the VPU.                          *)
LEMMA InputTaken ==
    ASSUME NEW u \in VpuStates, u.inputs > 0
    PROVE  LET v == [u EXCEPT !.inputs = @ - 1]
           IN  /\ v \in VpuBooks /\ v.inputs + 1 = u.inputs
               /\ v.reading = u.reading /\ v.encoding = u.encoding
               /\ v.done = u.done /\ v.outputs = u.outputs
<1>1. u.inputs \in Nat /\ u.inputs - 1 \in Nat
  BY ConstantsAssumption DEF VpuStates
<1> QED
  BY <1>1, VpuIsBook DEF VpuBooks

LEMMA CountTypes ==
    ASSUME NEW v \in VpuBooks, IsFiniteSet(v.reading)
    PROVE  /\ v.inputs \in Nat /\ v.outputs \in Nat
           /\ Cardinality(v.reading) \in Nat /\ Len(v.done) \in Nat
  BY FS_CardinalityType DEF VpuBooks

(* It is kept, or described and about to be queued: k is the place for     *)
(* what is in the driver's hand before, l after.                           *)
LEMMA InputInHand ==
    ASSUME NEW c \in ContextStates, NEW u \in VpuStates, NEW k, VpuInv(c, u, k),
           NEW d \in ContextStates, NEW l, u.inputs > 0,
           c.state = "running", d.state = "running",
           k.at # "queue", ~c.enc_in_buf_valid,
           (l.at = "queue" /\ ~d.enc_in_buf_valid) \/ (l.at # "queue" /\ d.enc_in_buf_valid),
           d.enc_out_buf_valid = c.enc_out_buf_valid
    PROVE  LET v == [u EXCEPT !.inputs = @ - 1]
           IN  VpuInv(d, v, l) /\ v \in VpuStates
<1> DEFINE v == [u EXCEPT !.inputs = @ - 1]
<1>1. /\ v \in VpuBooks /\ v.inputs + 1 = u.inputs
      /\ v.reading = u.reading /\ v.done = u.done /\ v.outputs = u.outputs
  BY InputTaken
<1> HIDE DEF v
<1>2. IsFiniteSet(u.reading)
  BY DEF VpuInv
<1>3. OutCount(d, v) = OutCount(c, u)
  BY <1>1 DEF OutCount
<1>4. InCount(d, v, l) = InCount(c, u, k)
  <2> DEFINE n == Cardinality(u.reading)
  <2>1. n \in Nat /\ v.inputs \in Nat /\ u.inputs \in Nat
    BY <1>1, <1>2, CountTypes, VpuIsBook
  <2>2. One(l.at = "queue") + One(d.enc_in_buf_valid) = 1
        /\ One(k.at = "queue") = 0 /\ One(c.enc_in_buf_valid) = 0
        /\ One(l.at = "queue") \in Nat /\ One(d.enc_in_buf_valid) \in Nat
    BY DEF One
  <2> DEFINE x == One(l.at = "queue")
             y == One(d.enc_in_buf_valid)
  <2>3. x + y = 1 /\ x \in Nat /\ y \in Nat
    BY <2>2
  <2>4. InCount(d, v, l) = v.inputs + n + x + y /\ InCount(c, u, k) = u.inputs + n + 0 + 0
    BY <1>1, <2>2 DEF InCount
  <2> HIDE DEF n, x, y
  <2> QED
    BY <1>1, <2>1, <2>3, <2>4
<1> QED
  BY <1>1, <1>2, <1>3, <1>4, Balanced DEF v

LEMMA InputKeptKeeps ==
    ASSUME Inductive, NEW e \in Encoders, InputKept(e)
    PROVE  Inductive'
<1> DEFINE b == Started(ctx[e])
           f == [b EXCEPT !.enc_in_buf_valid = TRUE]
           c == Finished(f, TRUE)
           v == [vpu[e] EXCEPT !.inputs = @ - 1]
<1>1. /\ MayEnd(e) /\ b.state = "running" /\ vpu[e].inputs > 0
      /\ ctx' = [ctx EXCEPT ![e] = c]
      /\ UNCHANGED <<pending, callbacks, token, surf, decoder, call>>
      /\ buf' = [buf EXCEPT ![ctx[e].enc_coded_buf].segment = Empty]
  BY Zenon DEF InputKept, MayPass
<1>2. vpu' = [vpu EXCEPT ![e] = v]
  BY Zenon DEF InputKept
<1>3. /\ b \in ContextStates /\ ~b.encoder_init_deferred /\ b.allocated /\ ~b.cleanup_orphaned
      /\ ~b.enc_in_buf_valid /\ ~b.enc_out_buf_valid
      /\ LocalInv(e, b, 0, vpu[e], callbacks[e], Idle)
  BY <1>1, StartedFacts
<1> HIDE DEF b
<1>4. /\ f \in ContextStates /\ f.enc_in_buf_valid
      /\ f.state = b.state /\ f.encoder_init_deferred = b.encoder_init_deferred
      /\ f.allocated = b.allocated /\ f.cleanup_orphaned = b.cleanup_orphaned
      /\ f.enc_out_buf_valid = b.enc_out_buf_valid
      /\ f.frame_count = b.frame_count
      /\ f.enc_external_surface = b.enc_external_surface
  BY <1>3 DEF ContextStates
<1> HIDE DEF f
<1>5. FinishedShape(f, c, TRUE)
  BY <1>4, FinishedFields
<1> HIDE DEF c
<1>6. /\ c \in ContextStates /\ c.enc_in_buf_valid /\ c.state = "running" /\ c.encoder_failed
      /\ ~c.encoder_init_deferred /\ c.allocated /\ ~c.cleanup_orphaned
      /\ ~c.encoder_picture_active /\ ~c.enc_out_buf_valid
      /\ c.enc_out_buf_valid = b.enc_out_buf_valid
      /\ c.frame_count = b.frame_count
      /\ c.enc_external_surface = b.enc_external_surface
  BY <1>1, <1>3, <1>4, <1>5 DEF FinishedShape
<1>7. pending[e] = 0 /\ call = Idle /\ vpu[e] \in VpuStates
  BY <1>1, MayEndFacts
<1>8. VpuInv(c, v, Idle) /\ v \in VpuStates
  <2>1. VpuInv(b, vpu[e], Idle) /\ Idle.at # "queue"
    BY <1>3 DEF LocalInv, Idle
  <2> QED
    BY <1>1, <1>3, <1>6, <1>7, <2>1, InputInHand
<1>9. v.reading = vpu[e].reading
  BY <1>1, <1>7, InputTaken
<1> HIDE DEF v
<1>10. LocalInv(e, c, 0, v, callbacks[e], Idle)
  <2>1. ContextInv(c)
    BY <1>6 DEF ContextInv
  <2>2. PendingInv(e, c, 0, v, callbacks[e], Idle)
    BY <1>3, <1>6, <1>9 DEF LocalInv, PendingInv, Lies
  <2>3. CallInv(e, c, 0, v, callbacks[e], Idle)
    BY DEF CallInv, Idle
  <2>4. OrderInv(c, v, Idle)
    BY <1>6 DEF OrderInv, Idle
  <2> QED
    BY <1>8, <2>1, <2>2, <2>3, <2>4 DEF LocalInv
<1>11. \A s \in Surfaces : Works(c, pending[e], s) => Works(ctx[e], pending[e], s)
  BY <1>6, <1>7 DEF Works
<1>12. buf' \in [Coded -> BufferStates]
  BY <1>1, BufferFilled
<1> QED
  BY <1>1, <1>2, <1>6, <1>7, <1>8, <1>10, <1>11, <1>12, IdleMoved

(* An encoder describes its input, and is about to queue it.               *)
DescribedShape(b, c) ==
    /\ c \in ContextStates
    /\ c.allocated = b.allocated /\ c.state = b.state
    /\ c.encoder_init_deferred = b.encoder_init_deferred
    /\ c.cleanup_orphaned = b.cleanup_orphaned
    /\ c.encoder_failed = b.encoder_failed
    /\ c.encoder_picture_active = b.encoder_picture_active
    /\ c.current_render_target = b.current_render_target
    /\ c.enc_external_enabled = b.enc_external_enabled
    /\ c.enc_in_buf_valid = b.enc_in_buf_valid
    /\ c.enc_out_buf_valid = b.enc_out_buf_valid
    /\ c.frame_count = b.frame_count

(* With token 0 it lies in a buffer of the VPU, otherwise the surface is   *)
(* noted down, and the token is new.                                       *)
MayDescribe(e, c, t, m) ==
    /\ t \in 0 .. MaxToken /\ t \notin callbacks[e] /\ m \in Memories
    /\ Lies(e, c, t, m)
    /\ t # 0 => /\ c.enc_external_enabled
                /\ c.enc_external_surface = c.current_render_target

QueueOf(e, t, m) == [at |-> "queue", encoder |-> e, token |-> t, memory |-> m]

LEMMA QueueOfFacts ==
    ASSUME NEW e \in Encoders, NEW t \in 0 .. MaxToken, NEW m \in Memories
    PROVE  LET k == QueueOf(e, t, m)
           IN  /\ k \in Calls /\ k # Idle
               /\ k.at = "queue" /\ k.encoder = e /\ k.token = t /\ k.memory = m
  BY DEF QueueOf, Calls, Idle

LEMMA PassKeeps ==
    ASSUME Inductive, NEW e \in Encoders, MayPass(e), vpu[e].inputs > 0,
           ctx[e].frame_count < MaxFrame,
           NEW c, DescribedShape(Started(ctx[e]), c), NEW t, NEW m, MayDescribe(e, c, t, m),
           ctx' = [ctx EXCEPT ![e] = c], pending' = [pending EXCEPT ![e] = t],
           vpu' = [vpu EXCEPT ![e].inputs = @ - 1],
           call' = QueueOf(e, t, m),
           token' \in 0 .. MaxToken, token <= token', t <= token',
           buf' = [buf EXCEPT ![ctx[e].enc_coded_buf].segment = Empty],
           UNCHANGED <<callbacks, surf, decoder>>
    PROVE  Inductive'
<1> DEFINE b == Started(ctx[e])
           v == [vpu[e] EXCEPT !.inputs = @ - 1]
           k == QueueOf(e, t, m)
<1>1. MayEnd(e) /\ b.state = "running"
  BY DEF MayPass
<1>2. /\ b \in ContextStates /\ ~b.encoder_init_deferred
      /\ b.allocated /\ ~b.cleanup_orphaned /\ ~b.encoder_failed /\ b.encoder_picture_active
      /\ b.current_render_target = ctx[e].current_render_target
      /\ ~b.enc_in_buf_valid /\ ~b.enc_out_buf_valid
      /\ b.frame_count = ctx[e].frame_count
      /\ LocalInv(e, b, 0, vpu[e], callbacks[e], Idle)
  BY <1>1, StartedFacts
<1>3. DescribedShape(b, c)
  OBVIOUS
<1> HIDE DEF b
<1>4. /\ c \in ContextStates /\ c.state = "running" /\ ~c.encoder_init_deferred
      /\ c.allocated /\ ~c.cleanup_orphaned /\ ~c.encoder_failed /\ c.encoder_picture_active
      /\ c.current_render_target = ctx[e].current_render_target
      /\ ~c.enc_in_buf_valid /\ ~c.enc_out_buf_valid
      /\ c.enc_out_buf_valid = b.enc_out_buf_valid
      /\ c.frame_count = ctx[e].frame_count
  BY <1>1, <1>2, <1>3 DEF DescribedShape
<1>5. /\ pending[e] = 0 /\ call = Idle /\ vpu[e] \in VpuStates
      /\ ctx[e].current_render_target \in Surfaces
      /\ ctx[e].allocated /\ ctx[e].encoder_picture_active
      /\ \A i \in vpu[e].reading : i.token = 0
      /\ vpu[e].encoding = <<>> /\ vpu[e].done = <<>>
  BY <1>1, MayEndFacts
<1>6. /\ k \in Calls /\ k # Idle
      /\ k.at = "queue" /\ k.encoder = e /\ k.token = t /\ k.memory = m
  BY QueueOfFacts DEF MayDescribe
<1>7. vpu' = [vpu EXCEPT ![e] = v]
  BY Zenon
<1>8. VpuInv(c, v, k) /\ v \in VpuStates
  <2>1. VpuInv(b, vpu[e], Idle) /\ Idle.at # "queue"
    BY <1>2 DEF LocalInv, Idle
  <2> HIDE DEF k
  <2> QED
    BY <1>1, <1>2, <1>4, <1>5, <1>6, <2>1, InputInHand
<1>9. v.reading = vpu[e].reading /\ v.encoding = vpu[e].encoding /\ v.done = vpu[e].done
  BY <1>5, InputTaken
<1> HIDE DEF v, k
<1>10. LocalInv(e, c, t, v, callbacks[e], k)
  <2>1. ContextInv(c)
    BY <1>4, <1>5 DEF ContextInv
  <2>2. PendingInv(e, c, t, v, callbacks[e], k)
    <3>1. t # 0 =>
             /\ c.allocated /\ ~c.cleanup_orphaned /\ c.enc_external_enabled
             /\ c.enc_external_surface \in Surfaces
             /\ k # Idle /\ k.at = "queue" /\ k.token = t
      BY <1>4, <1>5, <1>6 DEF MayDescribe
    <3>2. ASSUME NEW i \in v.reading
          PROVE  i.token = 0 /\ Lies(e, c, i.token, i.memory) /\ i.frame < c.frame_count
      <4>1. i \in vpu[e].reading /\ i.token = 0
        BY <1>5, <1>9
      <4> QED
        BY <1>2, <1>4, <4>1 DEF LocalInv, PendingInv, Lies
    <3> QED
      BY <3>1, <3>2 DEF PendingInv
  <2>3. CallInv(e, c, t, v, callbacks[e], k)
    BY <1>4, <1>5, <1>6, <1>9 DEF CallInv, MayDescribe
  <2>4. OrderInv(c, v, k)
    BY <1>5, <1>6, <1>9 DEF OrderInv
  <2> QED
    BY <1>8, <2>1, <2>2, <2>3, <2>4 DEF LocalInv
<1>11. Becomes(e, c, t, v, callbacks[e])
  <2>1. callbacks' = [callbacks EXCEPT ![e] = callbacks[e]]
    BY DEF Inductive, TypeOK
  <2>2. callbacks[e] \subseteq 1 .. token'
    <3>1. callbacks[e] \subseteq 1 .. token /\ token \in Nat
      BY EncoderFacts DEF LocalHolds, Inductive, TypeOK
    <3> QED
      BY <3>1
  <2>3. call' = k
    BY DEF k
  <2>4. CallOf(e)' = k /\ \A d \in Encoders \ {e} : CallOf(d)' = CallOf(d)
    BY <1>5, <1>6, <2>3 DEF CallOf
  <2>5. t \in 0 .. token'
    BY ConstantsAssumption DEF MayDescribe
  <2> QED
    BY <1>4, <1>6, <1>7, <1>8, <1>10, <2>1, <2>2, <2>3, <2>4, <2>5 DEF Becomes
<1>12. \A s \in Surfaces : Works(c, t, s) => Works(ctx[e], pending[e], s)
  BY <1>4, <1>5 DEF Works, MayDescribe
<1>13. buf' \in [Coded -> BufferStates]
  BY BufferFilled
<1> QED
  BY <1>11, <1>12, <1>13, Moved

LEMMA NextTokenFacts ==
    ASSUME Inductive, NEW e \in Encoders, NextToken <= MaxToken
    PROVE  /\ NextToken \in 0 .. MaxToken /\ NextToken # 0 /\ NextToken \notin callbacks[e]
           /\ token <= NextToken
<1>1. token \in Nat /\ callbacks[e] \subseteq 1 .. token
  BY EncoderFacts DEF LocalHolds, Inductive, TypeOK
<1> QED
  BY <1>1, ConstantsAssumption DEF NextToken

LEMMA PassInPlaceKeeps ==
    ASSUME Inductive, NEW e \in Encoders, PassInPlace(e)
    PROVE  Inductive'
<1> DEFINE s == ctx[e].current_render_target
           b == Started(ctx[e])
           c == [b EXCEPT !.enc_external_surface = s]
           m == [kind |-> IF HasFrame(s) THEN "frame" ELSE "memory", of |-> s]
<1>1. /\ MayPass(e) /\ vpu[e].inputs > 0
      /\ NextToken <= MaxToken /\ ctx[e].frame_count < MaxFrame
      /\ b.enc_external_enabled
      /\ ctx' = [ctx EXCEPT ![e] = c]
      /\ call' = QueueOf(e, NextToken, m)
      /\ token' = NextToken
      /\ pending' = [pending EXCEPT ![e] = NextToken]
      /\ vpu' = [vpu EXCEPT ![e].inputs = @ - 1]
      /\ buf' = [buf EXCEPT ![ctx[e].enc_coded_buf].segment = Empty]
      /\ UNCHANGED <<callbacks, surf, decoder>>
  BY Zenon DEF PassInPlace, QueueOf
<1>2. MayEnd(e) /\ s \in Surfaces
  BY <1>1, MayEndFacts DEF MayPass
<1>3. b \in ContextStates /\ b.current_render_target = s
  BY <1>2, StartedFacts
<1>4. m \in Memories /\ \E kind \in {"frame", "memory"} : m = [kind |-> kind, of |-> s]
  BY <1>2 DEF Memories
<1> HIDE DEF b, s, m
<1>5. DescribedShape(b, c) /\ c.enc_external_surface = s
  BY <1>2, <1>3 DEF DescribedShape, ContextStates
<1> HIDE DEF c
<1>6. /\ NextToken \in 0 .. MaxToken /\ NextToken # 0 /\ NextToken \notin callbacks[e]
      /\ token <= token' /\ NextToken <= token' /\ token' \in 0 .. MaxToken
  BY <1>1, NextTokenFacts
<1>7. MayDescribe(e, c, NextToken, m)
  BY <1>1, <1>3, <1>4, <1>5, <1>6 DEF MayDescribe, Lies, DescribedShape
<1> QED
  BY <1>1, <1>5, <1>6, <1>7, PassKeeps DEF b

LEMMA PassScratchKeeps ==
    ASSUME Inductive, NEW e \in Encoders, PassScratch(e)
    PROVE  Inductive'
<1> DEFINE s == ctx[e].current_render_target
           b == Started(ctx[e])
           c == [b EXCEPT !.enc_external_surface = s, !.scratch = Rewritten(@)]
           m == [kind |-> "scratch", of |-> e]
<1>1. /\ MayPass(e) /\ vpu[e].inputs > 0
      /\ NextToken <= MaxToken /\ ctx[e].frame_count < MaxFrame
      /\ b.enc_external_enabled
      /\ ctx' = [ctx EXCEPT ![e] = c]
      /\ call' = QueueOf(e, NextToken, m)
      /\ token' = NextToken
      /\ pending' = [pending EXCEPT ![e] = NextToken]
      /\ vpu' = [vpu EXCEPT ![e].inputs = @ - 1]
      /\ buf' = [buf EXCEPT ![ctx[e].enc_coded_buf].segment = Empty]
      /\ UNCHANGED <<callbacks, surf, decoder>>
  BY Zenon DEF PassScratch, QueueOf
<1>2. MayEnd(e) /\ s \in Surfaces
  BY <1>1, MayEndFacts DEF MayPass
<1>3. b \in ContextStates /\ b.current_render_target = s
  BY <1>2, StartedFacts
<1>4. m \in Memories
  BY DEF Memories
<1> HIDE DEF b, s
<1>5. DescribedShape(b, c) /\ c.enc_external_surface = s
  BY <1>2, <1>3 DEF DescribedShape, ContextStates, Stamps, Rewritten
<1> HIDE DEF c
<1>6. /\ NextToken \in 0 .. MaxToken /\ NextToken # 0 /\ NextToken \notin callbacks[e]
      /\ token <= token' /\ NextToken <= token' /\ token' \in 0 .. MaxToken
  BY <1>1, NextTokenFacts
<1>7. MayDescribe(e, c, NextToken, m)
  BY <1>1, <1>3, <1>4, <1>5, <1>6 DEF MayDescribe, Lies, DescribedShape
<1> HIDE DEF m
<1> QED
  BY <1>1, <1>5, <1>6, <1>7, PassKeeps DEF b

(* No token is used for a copy: none has the number 0.                     *)
LEMMA PassCopyKeeps ==
    ASSUME Inductive, NEW e \in Encoders, PassCopy(e)
    PROVE  Inductive'
<1> DEFINE b == Started(ctx[e])
<1>1. /\ MayPass(e) /\ vpu[e].inputs > 0 /\ ctx[e].frame_count < MaxFrame
      /\ call' = QueueOf(e, 0, Slot)
      /\ vpu' = [vpu EXCEPT ![e].inputs = @ - 1]
      /\ buf' = [buf EXCEPT ![ctx[e].enc_coded_buf].segment = Empty]
      /\ UNCHANGED <<ctx, pending, callbacks, token, surf, decoder>>
  BY Zenon DEF PassCopy, QueueOf, Slot
<1>2. MayEnd(e) /\ pending[e] = 0
  BY <1>1, MayEndFacts DEF MayPass
<1>3. b = ctx[e] /\ b \in ContextStates
  <2>1. ~ctx[e].encoder_init_deferred
    BY EncoderFacts DEF PassCopy, Started, LocalHolds, LocalInv, ContextInv
  <2> QED
    BY <1>2, <2>1, StartedFacts
<1> HIDE DEF b
<1>4. DescribedShape(b, ctx[e])
  BY <1>3 DEF DescribedShape
<1>5. MayDescribe(e, ctx[e], 0, Slot)
  <2>1. 0 \notin callbacks[e]
    BY EncoderFacts DEF LocalHolds, Inductive, TypeOK
  <2> QED
    BY <2>1, ConstantsAssumption DEF MayDescribe, Lies, Slot, Memories
<1>6. ctx' = [ctx EXCEPT ![e] = ctx[e]] /\ pending' = [pending EXCEPT ![e] = 0]
  BY <1>1, <1>2 DEF Inductive, TypeOK
<1>7. token' \in 0 .. MaxToken /\ token <= token' /\ 0 <= token'
  BY <1>1 DEF Inductive, TypeOK
<1> QED
  BY <1>1, <1>4, <1>5, <1>6, <1>7, PassKeeps DEF b

-----------------------------------------------------------------------------
(* vaEndPicture: from the queueing of the input to the end.                *)

(* The encoder a call works on.                                            *)
LEMMA InCallFacts ==
    ASSUME Inductive, call # Idle
    PROVE  LET e == call.encoder
               c == ctx[e]
           IN  /\ e \in Encoders /\ CallOf(e) = call
               /\ c \in ContextStates /\ vpu[e] \in VpuStates
               /\ LocalInv(e, c, pending[e], vpu[e], callbacks[e], call)
               /\ callbacks[e] \subseteq 1 .. token /\ pending[e] \in 0 .. token
               /\ c.allocated /\ c.state = "running" /\ ~c.cleanup_orphaned
               /\ ~c.encoder_failed /\ c.encoder_picture_active
               /\ ~c.encoder_init_deferred
               /\ ~c.enc_in_buf_valid /\ ~c.enc_out_buf_valid
<1> DEFINE e == call.encoder
           c == ctx[e]
<1>1. e \in Encoders /\ CallOf(e) = call
  BY CallFacts
<1> HIDE DEF e
<1>2. /\ c \in ContextStates /\ vpu[e] \in VpuStates
      /\ LocalInv(e, c, pending[e], vpu[e], callbacks[e], call)
      /\ callbacks[e] \subseteq 1 .. token /\ pending[e] \in 0 .. token
  BY <1>1, EncoderFacts DEF LocalHolds
<1>3. /\ c.allocated /\ c.state = "running" /\ ~c.cleanup_orphaned
      /\ ~c.encoder_failed /\ c.encoder_picture_active
  BY <1>2 DEF LocalInv, CallInv
<1>4. /\ ~c.encoder_init_deferred /\ ~c.enc_in_buf_valid /\ ~c.enc_out_buf_valid
  BY <1>2, <1>3 DEF LocalInv, ContextInv
<1> QED
  BY <1>1, <1>2, <1>3, <1>4 DEF e

LEMMA CallMoved ==
    ASSUME Inductive, call # Idle, NEW e, e = call.encoder,
           NEW c \in ContextStates, NEW p \in 0 .. token, NEW v \in VpuStates, NEW cb,
           cb \subseteq 1 .. token, LocalInv(e, c, p, v, cb, call'),
           ctx' = [ctx EXCEPT ![e] = c], pending' = [pending EXCEPT ![e] = p],
           vpu' = [vpu EXCEPT ![e] = v], callbacks' = [callbacks EXCEPT ![e] = cb],
           call' \in Calls, call' = Idle \/ call'.encoder = e,
           \A s \in Surfaces : Works(c, p, s) => Works(ctx[e], pending[e], s),
           UNCHANGED <<token, surf, decoder>>, buf' \in [Coded -> BufferStates]
    PROVE  Inductive'
<1>1. e \in Encoders /\ \A d \in Encoders \ {e} : CallOf(d) = Idle
  BY CallFacts
<1>2. CallOf(e)' = call' /\ \A d \in Encoders \ {e} : CallOf(d)' = CallOf(d)
  BY <1>1 DEF CallOf
<1>3. token' = token /\ token <= token' /\ token' \in 0 .. MaxToken
  BY ConstantsAssumption DEF Inductive, TypeOK
<1>4. Becomes(e, c, p, v, cb)
  BY <1>2, <1>3 DEF Becomes
<1> QED
  BY <1>1, <1>4, Moved

(* The rest of a call changes nothing of its encoder that is written so.   *)
LEMMA Rewritings ==
    ASSUME Inductive, NEW e \in Encoders
    PROVE  /\ [ctx EXCEPT ![e] = ctx[e]] = ctx
           /\ [pending EXCEPT ![e] = pending[e]] = pending
           /\ [vpu EXCEPT ![e] = vpu[e]] = vpu
           /\ [callbacks EXCEPT ![e] = callbacks[e]] = callbacks
  BY DEF Inductive, TypeOK

LEMMA QueueInputKeeps ==
    ASSUME Inductive, QueueInput
    PROVE  Inductive'
<1> DEFINE e == call.encoder
           n == ctx[e].frame_count
           i == [token |-> call.token, memory |-> call.memory, frame |-> n]
           c == [ctx[e] EXCEPT !.frame_count = @ + 1]
           u == vpu[e]
           v == [u EXCEPT !.reading = @ \cup {i}, !.encoding = Append(@, n)]
           l == [at |-> "output", encoder |-> e]
<1>1. call.at = "queue" /\ call # Idle
  BY DEF QueueInput, Idle
<1>2. /\ e \in Encoders /\ ctx[e] \in ContextStates /\ u \in VpuStates
      /\ LocalInv(e, ctx[e], pending[e], u, callbacks[e], call)
      /\ callbacks[e] \subseteq 1 .. token /\ pending[e] \in 0 .. token
      /\ ctx[e].allocated /\ ctx[e].state = "running" /\ ~ctx[e].cleanup_orphaned
      /\ ~ctx[e].encoder_failed /\ ctx[e].encoder_picture_active
      /\ ~ctx[e].encoder_init_deferred
      /\ ~ctx[e].enc_in_buf_valid /\ ~ctx[e].enc_out_buf_valid
  BY <1>1, InCallFacts
<1>3. /\ ctx' = [ctx EXCEPT ![e] = c] /\ call' = l
      /\ UNCHANGED <<pending, callbacks, token, surf, decoder, buf>>
  BY Zenon DEF QueueInput
<1>4. vpu' = [vpu EXCEPT ![e] = v]
  <2>1. vpu' = [vpu EXCEPT ![e].reading = @ \cup {i}, ![e].encoding = Append(@, n)]
    BY Zenon DEF QueueInput
  <2> HIDE DEF i, n
  <2> QED
    BY <1>2, <2>1 DEF Inductive, TypeOK, VpuStates
<1>5. /\ call.token \in 0 .. MaxToken /\ call.memory \in Memories
      /\ pending[e] = call.token /\ call.token \notin callbacks[e]
      /\ \A j \in u.reading : j.token = 0
      /\ n < MaxFrame /\ Lies(e, ctx[e], call.token, call.memory)
      /\ n \in Nat /\ n + 1 \in 0 .. MaxFrame
  <2>1. n \in Nat
    BY <1>2, ConstantsAssumption DEF ContextStates
  <2> QED
    BY <1>1, <1>2, <2>1, CallFacts, ConstantsAssumption DEF LocalInv, CallInv
<1>6. u.encoding = <<>> /\ u.done = <<>>
  BY <1>1, <1>2 DEF LocalInv, OrderInv
<1>7. /\ c \in ContextStates /\ c.frame_count = n + 1
      /\ c.allocated = ctx[e].allocated /\ c.state = ctx[e].state
      /\ c.cleanup_orphaned = ctx[e].cleanup_orphaned
      /\ c.encoder_failed = ctx[e].encoder_failed
      /\ c.encoder_picture_active = ctx[e].encoder_picture_active
      /\ c.current_render_target = ctx[e].current_render_target
      /\ c.encoder_init_deferred = ctx[e].encoder_init_deferred
      /\ c.enc_external_enabled = ctx[e].enc_external_enabled
      /\ c.enc_external_surface = ctx[e].enc_external_surface
      /\ c.enc_in_buf_valid = ctx[e].enc_in_buf_valid
      /\ c.enc_out_buf_valid = ctx[e].enc_out_buf_valid
  BY <1>2, <1>5 DEF ContextStates
<1>8. i \in Inputs /\ i.token = call.token /\ i.memory = call.memory /\ i.frame = n
  BY <1>5, ConstantsAssumption DEF Inputs
<1>9. /\ v \in VpuBooks /\ v.inputs = u.inputs /\ v.reading = u.reading \cup {i}
      /\ v.encoding = <<n>> /\ v.done = <<>> /\ v.done = u.done /\ v.outputs = u.outputs
  <2>1. Append(u.encoding, n) = <<n>> /\ <<n>> \in Seq(0 .. MaxFrame)
    BY <1>5, <1>6, ConstantsAssumption
  <2> HIDE DEF i, n
  <2> QED
    BY <1>2, <1>6, <1>8, <2>1, VpuIsBook DEF VpuBooks
<1> HIDE DEF c, v, u, n, i
<1>10. i \notin u.reading /\ IsFiniteSet(u.reading)
  BY <1>2, <1>5, <1>8 DEF LocalInv, PendingInv, VpuInv, n, u
<1>11. VpuInv(c, v, l) /\ v \in VpuStates
  <2>1. IsFiniteSet(v.reading) /\ Cardinality(v.reading) = Cardinality(u.reading) + 1
    BY <1>9, <1>10, FS_AddElement
  <2>2. Cardinality(u.reading) \in Nat /\ u.inputs \in Nat
    BY <1>2, <1>10, CountTypes, VpuIsBook
  <2>3. One(l.at = "queue") = 0 /\ One(call.at = "queue") = 1
    BY <1>1 DEF One
  <2>4. One(c.enc_in_buf_valid) = 0 /\ One(ctx[e].enc_in_buf_valid) = 0
    BY <1>2, <1>7 DEF One
  <2>5. InCount(c, v, l) = InCount(ctx[e], u, call)
    BY <1>9, <2>1, <2>2, <2>3, <2>4 DEF InCount
  <2>6. VpuInv(ctx[e], u, call)
    BY <1>2 DEF LocalInv
  <2>7. /\ ctx[e] \in ContextStates /\ u \in VpuStates /\ c \in ContextStates /\ v \in VpuBooks
        /\ ctx[e].state = "running" /\ c.state = "running"
        /\ v.done = u.done /\ v.outputs = u.outputs
        /\ c.enc_out_buf_valid = ctx[e].enc_out_buf_valid
    BY <1>2, <1>7, <1>9
  <2>8. OutCount(c, v) = OutCount(ctx[e], u)
    BY <2>7 DEF OutCount
  <2> HIDE DEF l, e
  <2> QED
    BY <2>1, <2>5, <2>6, <2>7, <2>8, Balanced
<1>12. LocalInv(e, c, pending[e], v, callbacks[e], l)
  <2>1. ContextInv(c)
    BY <1>2, <1>7 DEF LocalInv, ContextInv
  <2>2. PendingInv(e, c, pending[e], v, callbacks[e], l)
    <3>1. pending[e] # 0 =>
             /\ c.allocated /\ ~c.cleanup_orphaned /\ c.enc_external_enabled
             /\ c.enc_external_surface \in Surfaces
             /\ l # Idle
             /\ \E j \in v.reading : j.token = pending[e]
      BY <1>2, <1>5, <1>7, <1>8, <1>9 DEF LocalInv, PendingInv, Idle
    <3>2. ASSUME NEW j \in v.reading
          PROVE  /\ Lies(e, c, j.token, j.memory) /\ j.frame < c.frame_count
                 /\ j.token # 0 => j = i
      <4>1. CASE j = i
        BY <1>5, <1>7, <1>8, <4>1 DEF Lies
      <4>2. CASE j \in u.reading
        <5>1. j.token = 0 /\ j.frame < n /\ j.frame \in Nat /\ Lies(e, ctx[e], 0, j.memory)
          BY <1>2, <1>5, <4>2, ConstantsAssumption DEF LocalInv, PendingInv, VpuStates, Inputs, n, u
        <5> QED
          BY <1>5, <1>7, <5>1 DEF Lies
      <4> QED
        BY <1>9, <4>1, <4>2
    <3>3. i.token # 0 => pending[e] = i.token /\ i.token \notin callbacks[e]
      BY <1>5, <1>8
    <3> QED
      BY <3>1, <3>2, <3>3 DEF PendingInv
  <2>3. CallInv(e, c, pending[e], v, callbacks[e], l)
    BY <1>2, <1>7 DEF CallInv
  <2>4. OrderInv(c, v, l)
    BY <1>5, <1>7, <1>9 DEF OrderInv
  <2> QED
    BY <1>11, <2>1, <2>2, <2>3, <2>4 DEF LocalInv
<1>13. l \in Calls /\ l.encoder = e
  BY <1>2 DEF Calls
<1>14. \A s \in Surfaces : Works(c, pending[e], s) => Works(ctx[e], pending[e], s)
  BY <1>7 DEF Works
<1>15. pending' = [pending EXCEPT ![e] = pending[e]]
       /\ callbacks' = [callbacks EXCEPT ![e] = callbacks[e]]
  BY <1>2, <1>3, Rewritings
<1>16. buf' \in [Coded -> BufferStates]
  BY <1>3 DEF Inductive, TypeOK
<1> HIDE DEF l, e
<1> QED
  BY <1>1, <1>2, <1>3, <1>4, <1>7, <1>11, <1>12, <1>13, <1>14, <1>15, <1>16, CallMoved DEF e

LEMMA QueueInputFailsKeeps ==
    ASSUME Inductive, QueueInputFails
    PROVE  Inductive'
<1> DEFINE e == call.encoder
           t == call.token
           u == vpu[e]
<1>1. call.at = "queue" /\ call # Idle
  BY DEF QueueInputFails, Idle
<1>2. /\ e \in Encoders /\ ctx[e] \in ContextStates /\ u \in VpuStates
      /\ LocalInv(e, ctx[e], pending[e], u, callbacks[e], call)
      /\ callbacks[e] \subseteq 1 .. token /\ pending[e] \in 0 .. token
      /\ ctx[e].allocated /\ ctx[e].state = "running" /\ ~ctx[e].cleanup_orphaned
      /\ ~ctx[e].encoder_failed /\ ctx[e].encoder_picture_active
      /\ ~ctx[e].encoder_init_deferred
      /\ ~ctx[e].enc_in_buf_valid /\ ~ctx[e].enc_out_buf_valid
  BY <1>1, InCallFacts
<1>3. /\ pending' = Withdrawn(e, t) /\ call' = Idle
      /\ UNCHANGED <<token, surf, decoder, buf>>
      /\ callbacks' \in {callbacks, [callbacks EXCEPT ![e] = @ \cup ({t} \ {0})]}
  BY Zenon DEF QueueInputFails
<1>4. /\ pending[e] = t /\ t \notin callbacks[e]
      /\ \A j \in u.reading : j.token = 0
  BY <1>1, <1>2 DEF LocalInv, CallInv
<1>5. pending' = [pending EXCEPT ![e] = 0]
  BY <1>2, <1>3, <1>4 DEF Withdrawn, Cleared, Inductive, TypeOK
<1>6. PICK cb : cb \subseteq 1 .. token /\ callbacks' = [callbacks EXCEPT ![e] = cb]
  <2>1. CASE callbacks' = callbacks
    BY <1>2, <2>1, Rewritings
  <2>2. CASE callbacks' = [callbacks EXCEPT ![e] = @ \cup ({t} \ {0})]
    <3>1. token \in Nat /\ t \in 0 .. token
      BY <1>2, <1>4 DEF Inductive, TypeOK
    <3>2. callbacks[e] \cup ({t} \ {0}) \subseteq 1 .. token
      BY <1>2, <3>1
    <3>3. callbacks' = [callbacks EXCEPT ![e] = callbacks[e] \cup ({t} \ {0})]
      BY <2>2, Zenon
    <3> QED
      BY <3>2, <3>3
  <2> QED
    BY <1>3, <2>1, <2>2
<1>7. u.encoding = <<>> /\ u.done = <<>>
  BY <1>1, <1>2 DEF LocalInv, OrderInv
<1>8. ASSUME NEW c \in ContextStates, NEW v \in VpuStates,
             ctx' = [ctx EXCEPT ![e] = c], vpu' = [vpu EXCEPT ![e] = v],
             v.reading = u.reading, v.encoding = u.encoding, v.done = u.done,
             VpuInv(c, v, Idle), ContextInv(c), c.frame_count = ctx[e].frame_count,
             c.allocated = ctx[e].allocated,
             c.encoder_picture_active =>
                ctx[e].encoder_picture_active
                  /\ c.current_render_target = ctx[e].current_render_target
      PROVE  Inductive'
  <2>1. PendingInv(e, c, 0, v, cb, Idle)
    <3>1. ASSUME NEW j \in v.reading
          PROVE  j.token = 0 /\ Lies(e, c, j.token, j.memory) /\ j.frame < c.frame_count
      BY <1>2, <1>4, <1>8 DEF LocalInv, PendingInv, Lies
    <3> QED
      BY <3>1 DEF PendingInv
  <2>2. CallInv(e, c, 0, v, cb, Idle) /\ OrderInv(c, v, Idle)
    BY <1>7, <1>8 DEF CallInv, OrderInv, Idle
  <2>3. LocalInv(e, c, 0, v, cb, call')
    BY <1>3, <1>8, <2>1, <2>2 DEF LocalInv
  <2>4. \A s \in Surfaces : Works(c, 0, s) => Works(ctx[e], pending[e], s)
    BY <1>8 DEF Works
  <2>5. 0 \in 0 .. token /\ call' \in Calls /\ buf' \in [Coded -> BufferStates]
    BY <1>3 DEF Inductive, TypeOK, Calls
  <2> HIDE DEF e
  <2> QED
    BY <1>1, <1>3, <1>5, <1>6, <1>8, <2>3, <2>4, <2>5, CallMoved DEF e
<1>9. /\ IsFiniteSet(u.reading) /\ VpuInv(ctx[e], u, call)
      /\ Cardinality(u.reading) \in Nat /\ u.inputs \in Nat
      /\ One(call.at = "queue") = 1 /\ One(Idle.at = "queue") = 0
      /\ One(ctx[e].enc_in_buf_valid) = 0
  BY <1>1, <1>2, CountTypes, VpuIsBook DEF LocalInv, VpuInv, One, Idle
<1>10. CASE /\ ctx' = [ctx EXCEPT ![e].enc_external_surface = NoSurface]
            /\ vpu' = [vpu EXCEPT ![e].inputs = @ + 1]
  <2> DEFINE c == [ctx[e] EXCEPT !.enc_external_surface = NoSurface]
             v == [u EXCEPT !.inputs = @ + 1]
  <2>1. ctx' = [ctx EXCEPT ![e] = c] /\ vpu' = [vpu EXCEPT ![e] = v]
    BY <1>10, Zenon
  <2>2. /\ c \in ContextStates
        /\ c.allocated = ctx[e].allocated /\ c.state = ctx[e].state
        /\ c.cleanup_orphaned = ctx[e].cleanup_orphaned
        /\ c.encoder_failed = ctx[e].encoder_failed
        /\ c.encoder_picture_active = ctx[e].encoder_picture_active
        /\ c.current_render_target = ctx[e].current_render_target
        /\ c.encoder_init_deferred = ctx[e].encoder_init_deferred
        /\ c.enc_external_enabled = ctx[e].enc_external_enabled
        /\ c.enc_in_buf_valid = ctx[e].enc_in_buf_valid
        /\ c.enc_out_buf_valid = ctx[e].enc_out_buf_valid
        /\ c.frame_count = ctx[e].frame_count
    BY <1>2 DEF ContextStates
  <2>3. /\ v \in VpuBooks /\ v.inputs = u.inputs + 1 /\ v.reading = u.reading
        /\ v.encoding = u.encoding /\ v.done = u.done /\ v.outputs = u.outputs
    <3>1. u \in VpuBooks
      BY <1>2, VpuIsBook
    <3> HIDE DEF u
    <3> QED
      BY <3>1 DEF VpuBooks
  <2> HIDE DEF c, v, u, t, e
  <2>4. VpuInv(c, v, Idle) /\ v \in VpuStates
    <3>1. InCount(c, v, Idle) = InCount(ctx[e], u, call)
      BY <1>9, <2>2, <2>3 DEF InCount
    <3>2. OutCount(c, v) = OutCount(ctx[e], u)
      BY <2>2, <2>3 DEF OutCount
    <3> QED
      BY <1>2, <1>9, <2>2, <2>3, <3>1, <3>2, Balanced
  <2>5. ContextInv(c)
    BY <1>2, <2>2 DEF LocalInv, ContextInv
  <2> QED
    BY <1>8, <2>1, <2>2, <2>3, <2>4, <2>5
<1>11. CASE /\ ctx' = [ctx EXCEPT ![e] =
                         Finished([@ EXCEPT !.enc_external_surface = NoSurface,
                                            !.enc_in_buf_valid = TRUE], TRUE)]
            /\ UNCHANGED vpu
  <2> DEFINE f == [ctx[e] EXCEPT !.enc_external_surface = NoSurface, !.enc_in_buf_valid = TRUE]
             c == Finished(f, TRUE)
  <2>1. ctx' = [ctx EXCEPT ![e] = c]
    BY <1>11, Zenon
  <2>2. /\ f \in ContextStates /\ f.enc_in_buf_valid
        /\ f.allocated = ctx[e].allocated /\ f.state = ctx[e].state
        /\ f.cleanup_orphaned = ctx[e].cleanup_orphaned
        /\ f.encoder_init_deferred = ctx[e].encoder_init_deferred
        /\ f.enc_external_enabled = ctx[e].enc_external_enabled
        /\ f.enc_out_buf_valid = ctx[e].enc_out_buf_valid
        /\ f.frame_count = ctx[e].frame_count
    BY <1>2 DEF ContextStates
  <2> HIDE DEF f
  <2>3. FinishedShape(f, c, TRUE)
    BY <2>2, FinishedFields
  <2> HIDE DEF c
  <2>4. /\ c \in ContextStates /\ c.enc_in_buf_valid /\ c.state = "running" /\ c.encoder_failed
        /\ ~c.encoder_init_deferred /\ c.allocated /\ ~c.cleanup_orphaned
        /\ ~c.encoder_picture_active /\ ~c.enc_out_buf_valid
        /\ c.enc_out_buf_valid = ctx[e].enc_out_buf_valid
        /\ c.frame_count = ctx[e].frame_count
    BY <1>2, <2>2, <2>3 DEF FinishedShape
  <2> HIDE DEF u, t, e
  <2>5. VpuInv(c, u, Idle)
    <3>1. InCount(c, u, Idle) = InCount(ctx[e], u, call)
      BY <1>9, <2>4 DEF InCount, One
    <3>2. OutCount(c, u) = OutCount(ctx[e], u)
      BY <2>4 DEF OutCount
    <3> QED
      BY <1>2, <1>9, <2>4, <3>1, <3>2, VpuIsBook, Balanced
  <2>6. ContextInv(c)
    BY <2>4 DEF ContextInv
  <2>7. vpu' = [vpu EXCEPT ![e] = u]
    BY <1>2, <1>11, Rewritings DEF u
  <2> QED
    BY <1>2, <1>8, <2>1, <2>4, <2>5, <2>6, <2>7
<1> QED
  BY <1>10, <1>11, Zenon DEF QueueInputFails

LEMMA TakeOutputKeeps ==
    ASSUME Inductive, TakeOutput
    PROVE  Inductive'
<1> DEFINE e == call.encoder
           c == ctx[e]
           u == vpu[e]
           n == c.frame_count - 1
           v == [u EXCEPT !.done = Tail(@), !.outputs = @ + 1]
<1>1. call.at = "output" /\ call # Idle /\ u.done # <<>>
  BY DEF TakeOutput, Idle
<1>2. /\ e \in Encoders /\ c \in ContextStates /\ u \in VpuStates
      /\ LocalInv(e, c, pending[e], u, callbacks[e], call)
      /\ callbacks[e] \subseteq 1 .. token /\ pending[e] \in 0 .. token
      /\ c.allocated /\ c.state = "running" /\ ~c.cleanup_orphaned
      /\ ~c.encoder_failed /\ c.encoder_picture_active
      /\ ~c.encoder_init_deferred
      /\ ~c.enc_in_buf_valid /\ ~c.enc_out_buf_valid
  BY <1>1, InCallFacts
<1>3. UNCHANGED <<ctx, pending, callbacks, token, surf, decoder, buf>>
  BY Zenon DEF TakeOutput
<1>4. PICK then \in {"deliver", "drop"} :
         call' = [at |-> "consume", encoder |-> e, then |-> then, frame |-> Head(u.done)]
  BY Zenon DEF TakeOutput
<1>5. c.frame_count > 0 /\ u.encoding = <<>> /\ u.done = <<n>>
  BY <1>1, <1>2 DEF LocalInv, OrderInv
<1>6. n \in 0 .. MaxFrame /\ n + 1 = c.frame_count
  BY <1>2, <1>5, ConstantsAssumption DEF ContextStates
<1>7. vpu' = [vpu EXCEPT ![e] = v]
  <2>1. vpu' = [vpu EXCEPT ![e].done = Tail(@), ![e].outputs = @ + 1]
    BY Zenon DEF TakeOutput
  <2> QED
    BY <1>2, <2>1 DEF Inductive, TypeOK, VpuStates
<1> HIDE DEF n
<1>8. Head(u.done) = n /\ Tail(u.done) = <<>> /\ Len(u.done) = 1
  BY <1>5, <1>6
<1> DEFINE l == [at |-> "consume", encoder |-> e, then |-> then, frame |-> n]
<1>9. call' = l /\ l \in Calls /\ l.encoder = e
  BY <1>2, <1>4, <1>6, <1>8 DEF Calls
<1>10. /\ v \in VpuBooks /\ v.inputs = u.inputs /\ v.reading = u.reading
       /\ v.encoding = <<>> /\ v.done = <<>> /\ v.outputs = u.outputs + 1
  <2>1. <<>> \in Seq(0 .. MaxFrame)
    OBVIOUS
  <2>2. u \in VpuBooks /\ u.outputs + 1 \in Nat
    BY <1>2, VpuIsBook DEF VpuBooks
  <2>3. v = [u EXCEPT !.done = <<>>, !.outputs = u.outputs + 1]
    BY <1>8, Zenon
  <2> HIDE DEF u, v
  <2> QED
    BY <1>5, <2>1, <2>2, <2>3 DEF VpuBooks
<1> HIDE DEF v, u, c
<1>11. VpuInv(c, v, l) /\ v \in VpuStates
  <2>1. IsFiniteSet(u.reading) /\ VpuInv(c, u, call)
    BY <1>2 DEF LocalInv, VpuInv
  <2>2. InCount(c, v, l) = InCount(c, u, call)
    BY <1>1, <1>10 DEF InCount
  <2>3. OutCount(c, v) = OutCount(c, u)
    <3>1. Len(v.done) = 0 /\ u.outputs \in Nat /\ One(c.enc_out_buf_valid) \in Nat
      BY <1>2, <1>10, VpuIsBook DEF One, VpuBooks
    <3> QED
      BY <1>8, <1>10, <3>1 DEF OutCount
  <2> HIDE DEF l, e
  <2> QED
    BY <1>2, <1>10, <2>1, <2>2, <2>3, Balanced
<1>12. LocalInv(e, c, pending[e], v, callbacks[e], l)
  <2>1. ContextInv(c)
    BY <1>2 DEF LocalInv
  <2>2. PendingInv(e, c, pending[e], v, callbacks[e], l)
    BY <1>1, <1>2, <1>10 DEF LocalInv, PendingInv, Idle
  <2>3. CallInv(e, c, pending[e], v, callbacks[e], l)
    BY <1>2 DEF CallInv
  <2>4. OrderInv(c, v, l)
    BY <1>6, <1>10 DEF OrderInv
  <2> QED
    BY <1>11, <2>1, <2>2, <2>3, <2>4 DEF LocalInv
<1>13. /\ ctx' = [ctx EXCEPT ![e] = c] /\ pending' = [pending EXCEPT ![e] = pending[e]]
       /\ callbacks' = [callbacks EXCEPT ![e] = callbacks[e]]
  BY <1>2, <1>3, Rewritings DEF c
<1>14. \A s \in Surfaces : Works(c, pending[e], s) => Works(ctx[e], pending[e], s)
  BY DEF c
<1>15. buf' \in [Coded -> BufferStates]
  BY <1>3 DEF Inductive, TypeOK
<1> HIDE DEF l, e
<1> QED
  BY <1>1, <1>2, <1>3, <1>7, <1>9, <1>11, <1>12, <1>13, <1>14, <1>15, CallMoved DEF e

LEMMA OutputKeptKeeps ==
    ASSUME Inductive, OutputKept
    PROVE  Inductive'
<1> DEFINE e == call.encoder
           u == vpu[e]
           f == [ctx[e] EXCEPT !.enc_out_buf_valid = TRUE]
           c == Finished(f, TRUE)
           v == [u EXCEPT !.done = Tail(@)]
<1>1. call.at = "output" /\ call # Idle /\ u.done # <<>>
  BY DEF OutputKept, Idle
<1>2. /\ e \in Encoders /\ ctx[e] \in ContextStates /\ u \in VpuStates
      /\ LocalInv(e, ctx[e], pending[e], u, callbacks[e], call)
      /\ callbacks[e] \subseteq 1 .. token /\ pending[e] \in 0 .. token
      /\ ctx[e].allocated /\ ctx[e].state = "running" /\ ~ctx[e].cleanup_orphaned
      /\ ~ctx[e].encoder_failed /\ ctx[e].encoder_picture_active
      /\ ~ctx[e].encoder_init_deferred
      /\ ~ctx[e].enc_in_buf_valid /\ ~ctx[e].enc_out_buf_valid
  BY <1>1, InCallFacts
<1>3. /\ UNCHANGED <<pending, callbacks, token, surf, decoder, buf>> /\ call' = Idle
      /\ ctx' = [ctx EXCEPT ![e] = c] /\ vpu' = [vpu EXCEPT ![e] = v]
  BY Zenon DEF OutputKept
<1>4. u.done = <<ctx[e].frame_count - 1>> /\ u.encoding = <<>> /\ ctx[e].frame_count > 0
  BY <1>1, <1>2 DEF LocalInv, OrderInv
<1>5. Len(u.done) = 1 /\ Tail(u.done) = <<>> /\ <<>> \in Seq(0 .. MaxFrame)
  BY <1>4
<1>6. /\ v \in VpuBooks /\ v.inputs = u.inputs /\ v.reading = u.reading
      /\ v.encoding = <<>> /\ v.done = <<>> /\ v.outputs = u.outputs
  <2>1. u \in VpuBooks
    BY <1>2, VpuIsBook
  <2> HIDE DEF u
  <2> QED
    BY <1>4, <1>5, <2>1 DEF VpuBooks
<1>7. /\ f \in ContextStates /\ f.enc_out_buf_valid
      /\ f.allocated = ctx[e].allocated /\ f.state = ctx[e].state
      /\ f.cleanup_orphaned = ctx[e].cleanup_orphaned
      /\ f.encoder_init_deferred = ctx[e].encoder_init_deferred
      /\ f.enc_external_enabled = ctx[e].enc_external_enabled
      /\ f.enc_external_surface = ctx[e].enc_external_surface
      /\ f.enc_in_buf_valid = ctx[e].enc_in_buf_valid
      /\ f.frame_count = ctx[e].frame_count
  BY <1>2 DEF ContextStates
<1> HIDE DEF f, v, u
<1>8. FinishedShape(f, c, TRUE)
  BY <1>7, FinishedFields
<1> HIDE DEF c
<1>9. /\ c \in ContextStates /\ c.enc_out_buf_valid /\ c.state = "running" /\ c.encoder_failed
      /\ ~c.encoder_init_deferred /\ c.allocated /\ ~c.cleanup_orphaned
      /\ ~c.encoder_picture_active
      /\ c.enc_external_enabled = ctx[e].enc_external_enabled
      /\ c.enc_external_surface = ctx[e].enc_external_surface
      /\ c.enc_in_buf_valid = ctx[e].enc_in_buf_valid
      /\ c.frame_count = ctx[e].frame_count
  BY <1>2, <1>7, <1>8 DEF FinishedShape
<1>10. VpuInv(c, v, Idle) /\ v \in VpuStates
  <2>1. IsFiniteSet(v.reading) /\ VpuInv(ctx[e], u, call)
    BY <1>2, <1>6 DEF LocalInv, VpuInv
  <2>2. InCount(c, v, Idle) = InCount(ctx[e], u, call)
    BY <1>1, <1>6, <1>9 DEF InCount, Idle
  <2>3. OutCount(c, v) = OutCount(ctx[e], u)
    <3>1. /\ Len(v.done) = 0 /\ u.outputs \in Nat
          /\ One(c.enc_out_buf_valid) = 1 /\ One(ctx[e].enc_out_buf_valid) = 0
      BY <1>2, <1>6, <1>9, VpuIsBook DEF One, VpuBooks
    <3> QED
      BY <1>5, <1>6, <3>1 DEF OutCount
  <2> HIDE DEF e
  <2> QED
    BY <1>2, <1>6, <1>9, <2>1, <2>2, <2>3, Balanced
<1>11. LocalInv(e, c, pending[e], v, callbacks[e], Idle)
  <2>1. ContextInv(c)
    BY <1>9 DEF ContextInv
  <2>2. PendingInv(e, c, pending[e], v, callbacks[e], Idle)
    <3>1. pending[e] # 0 =>
             /\ c.enc_external_enabled /\ c.enc_external_surface \in Surfaces
             /\ (\E i \in v.reading : i.token = pending[e]) \/ pending[e] \in callbacks[e]
      BY <1>1, <1>2, <1>6, <1>9 DEF LocalInv, PendingInv
    <3>2. ASSUME NEW i \in v.reading
          PROVE  /\ Lies(e, c, i.token, i.memory) /\ i.frame < c.frame_count
                 /\ i.token # 0 => /\ pending[e] = i.token /\ i.token \notin callbacks[e]
                                   /\ \A j \in v.reading : j.token # 0 => j = i
      BY <1>2, <1>6, <1>9 DEF LocalInv, PendingInv, Lies
    <3> QED
      BY <1>9, <3>1, <3>2 DEF PendingInv
  <2>3. CallInv(e, c, pending[e], v, callbacks[e], Idle)
    BY DEF CallInv, Idle
  <2>4. OrderInv(c, v, Idle)
    BY <1>6 DEF OrderInv, Idle
  <2> QED
    BY <1>10, <2>1, <2>2, <2>3, <2>4 DEF LocalInv
<1>12. /\ pending' = [pending EXCEPT ![e] = pending[e]]
       /\ callbacks' = [callbacks EXCEPT ![e] = callbacks[e]]
  BY <1>2, <1>3, Rewritings
<1>13. \A s \in Surfaces : Works(c, pending[e], s) => Works(ctx[e], pending[e], s)
  BY <1>2, <1>9 DEF Works
<1>14. buf' \in [Coded -> BufferStates] /\ call' \in Calls
  BY <1>3 DEF Inductive, TypeOK, Calls
<1> HIDE DEF e
<1> QED
  BY <1>1, <1>2, <1>3, <1>9, <1>10, <1>11, <1>12, <1>13, <1>14, CallMoved DEF e

LEMMA OutputMissingKeeps ==
    ASSUME Inductive, OutputMissing
    PROVE  Inductive'
<1> DEFINE e == call.encoder
           c == ctx[e]
           u == vpu[e]
           l == [at |-> "consume", encoder |-> e, then |-> "fail", frame |-> 0]
<1>1. /\ call.at = "output" /\ call # Idle /\ call' = l
      /\ UNCHANGED <<ctx, pending, vpu, callbacks, token, surf, decoder, buf>>
  BY DEF OutputMissing, Idle
<1>2. /\ e \in Encoders /\ c \in ContextStates /\ u \in VpuStates
      /\ LocalInv(e, c, pending[e], u, callbacks[e], call)
      /\ callbacks[e] \subseteq 1 .. token /\ pending[e] \in 0 .. token
      /\ c.allocated /\ c.state = "running" /\ ~c.cleanup_orphaned
      /\ ~c.encoder_failed /\ c.encoder_picture_active
  BY <1>1, InCallFacts
<1>3. l \in Calls /\ l.encoder = e
  BY <1>2, ConstantsAssumption DEF Calls
<1>4. LocalInv(e, c, pending[e], u, callbacks[e], l)
  <2>1. PendingInv(e, c, pending[e], u, callbacks[e], l)
    BY <1>1, <1>2 DEF LocalInv, PendingInv, Idle
  <2>2. CallInv(e, c, pending[e], u, callbacks[e], l)
    BY <1>2 DEF CallInv
  <2>3. OrderInv(c, u, l)
    BY DEF OrderInv
  <2>4. VpuInv(c, u, l)
    <3>1. InCount(c, u, l) = InCount(c, u, call)
      BY <1>1 DEF InCount
    <3> QED
      BY <1>2, <3>1 DEF LocalInv, VpuInv
  <2> QED
    BY <1>2, <2>1, <2>2, <2>3, <2>4 DEF LocalInv
<1>5. /\ ctx' = [ctx EXCEPT ![e] = c] /\ pending' = [pending EXCEPT ![e] = pending[e]]
      /\ vpu' = [vpu EXCEPT ![e] = u] /\ callbacks' = [callbacks EXCEPT ![e] = callbacks[e]]
  BY <1>1, <1>2, Rewritings
<1>6. \A s \in Surfaces : Works(c, pending[e], s) => Works(ctx[e], pending[e], s)
  OBVIOUS
<1>7. buf' \in [Coded -> BufferStates]
  BY <1>1 DEF Inductive, TypeOK
<1> HIDE DEF l, e, c, u
<1> QED
  BY <1>1, <1>2, <1>3, <1>4, <1>5, <1>6, <1>7, CallMoved DEF e

(* A picture is finished: with failed, or with the pipeline empty; and     *)
(* either the surface is let go, with nothing pending, or the encoder      *)
(* fails.                                                                  *)
LEMMA FinishingKeeps ==
    ASSUME Inductive, call.at = "consume", NEW c0 \in ContextStates, NEW failed \in BOOLEAN,
           c0 = ctx[call.encoder]
             \/ /\ pending[call.encoder] = 0
                /\ c0 = [ctx[call.encoder] EXCEPT !.enc_external_surface = NoSurface],
           pending[call.encoder] = 0 \/ failed, call.then # "fail" \/ failed,
           ctx' = [ctx EXCEPT ![call.encoder] = Finished(c0, failed)],
           call' = Idle, UNCHANGED <<pending, vpu, callbacks, token, surf, decoder>>,
           buf' \in [Coded -> BufferStates]
    PROVE  Inductive'
<1> DEFINE e == call.encoder
           u == vpu[e]
           c == Finished(c0, failed)
<1>1. call # Idle
  BY DEF Idle
<1>2. /\ e \in Encoders /\ ctx[e] \in ContextStates /\ u \in VpuStates
      /\ LocalInv(e, ctx[e], pending[e], u, callbacks[e], call)
      /\ callbacks[e] \subseteq 1 .. token /\ pending[e] \in 0 .. token
      /\ ctx[e].allocated /\ ctx[e].state = "running" /\ ~ctx[e].cleanup_orphaned
      /\ ~ctx[e].encoder_failed /\ ctx[e].encoder_picture_active
      /\ ~ctx[e].encoder_init_deferred
      /\ ~ctx[e].enc_in_buf_valid /\ ~ctx[e].enc_out_buf_valid
  BY <1>1, InCallFacts
<1>3. /\ c0.allocated = ctx[e].allocated /\ c0.state = ctx[e].state
      /\ c0.cleanup_orphaned = ctx[e].cleanup_orphaned
      /\ c0.encoder_init_deferred = ctx[e].encoder_init_deferred
      /\ c0.enc_external_enabled = ctx[e].enc_external_enabled
      /\ pending[e] # 0 => c0.enc_external_surface = ctx[e].enc_external_surface
      /\ c0.enc_in_buf_valid = ctx[e].enc_in_buf_valid
      /\ c0.enc_out_buf_valid = ctx[e].enc_out_buf_valid
      /\ c0.frame_count = ctx[e].frame_count
  <2>1. CASE c0 = ctx[e]
    BY <2>1
  <2>2. CASE pending[e] = 0 /\ c0 = [ctx[e] EXCEPT !.enc_external_surface = NoSurface]
    BY <1>2, <2>2 DEF ContextStates
  <2> QED
    BY <2>1, <2>2
<1>4. FinishedShape(c0, c, failed)
  BY FinishedFields
<1> HIDE DEF c
<1>5. /\ c \in ContextStates /\ c.state = "running"
      /\ failed => c.encoder_failed
      /\ ~c.encoder_init_deferred /\ c.allocated /\ ~c.cleanup_orphaned
      /\ ~c.encoder_picture_active /\ ~c.enc_in_buf_valid /\ ~c.enc_out_buf_valid
      /\ c.enc_external_enabled = ctx[e].enc_external_enabled
      /\ pending[e] # 0 => c.enc_external_surface = ctx[e].enc_external_surface
      /\ c.enc_in_buf_valid = ctx[e].enc_in_buf_valid
      /\ c.enc_out_buf_valid = ctx[e].enc_out_buf_valid
      /\ c.frame_count = ctx[e].frame_count
  BY <1>2, <1>3, <1>4 DEF FinishedShape
<1>6. LocalInv(e, c, pending[e], u, callbacks[e], Idle)
  <2>1. ContextInv(c)
    BY <1>5 DEF ContextInv
  <2>2. PendingInv(e, c, pending[e], u, callbacks[e], Idle)
    <3>1. pending[e] # 0 =>
             /\ c.enc_external_enabled /\ c.enc_external_surface \in Surfaces
             /\ (\E i \in u.reading : i.token = pending[e]) \/ pending[e] \in callbacks[e]
      BY <1>2, <1>5 DEF LocalInv, PendingInv
    <3>2. ASSUME NEW i \in u.reading
          PROVE  /\ Lies(e, c, i.token, i.memory) /\ i.frame < c.frame_count
                 /\ i.token # 0 => /\ pending[e] = i.token /\ i.token \notin callbacks[e]
                                   /\ \A j \in u.reading : j.token # 0 => j = i
      BY <1>2, <1>5 DEF LocalInv, PendingInv, Lies
    <3> QED
      BY <1>5, <3>1, <3>2 DEF PendingInv
  <2>3. CallInv(e, c, pending[e], u, callbacks[e], Idle)
    BY DEF CallInv, Idle
  <2>4. OrderInv(c, u, Idle)
    BY <1>2, <1>5 DEF LocalInv, OrderInv, Idle
  <2>5. VpuInv(c, u, Idle)
    <3>1. InCount(c, u, Idle) = InCount(ctx[e], u, call) /\ OutCount(c, u) = OutCount(ctx[e], u)
      BY <1>5 DEF InCount, OutCount, Idle
    <3> QED
      BY <1>2, <1>5, <3>1 DEF LocalInv, VpuInv
  <2> QED
    BY <2>1, <2>2, <2>3, <2>4, <2>5 DEF LocalInv
<1>7. /\ pending' = [pending EXCEPT ![e] = pending[e]]
      /\ vpu' = [vpu EXCEPT ![e] = u] /\ callbacks' = [callbacks EXCEPT ![e] = callbacks[e]]
  BY <1>2, Rewritings
<1>8. \A s \in Surfaces : Works(c, pending[e], s) => Works(ctx[e], pending[e], s)
  BY <1>2, <1>5 DEF Works
<1>9. ctx' = [ctx EXCEPT ![e] = c] /\ call' \in Calls
  BY DEF c, Calls
<1> HIDE DEF u, e
<1> QED
  BY <1>1, <1>2, <1>5, <1>6, <1>7, <1>8, <1>9, CallMoved DEF e

LEMMA FinishKeeps ==
    ASSUME Inductive, Finish \/ ConsumptionTimesOut
    PROVE  Inductive'
<1> DEFINE e == call.encoder
<1>1. call.at = "consume" /\ call # Idle
  <2>1. call.at = "consume"
    BY Zenon DEF Finish, ConsumptionTimesOut
  <2> QED
    BY <2>1 DEF Idle
<1>2. /\ e \in Encoders /\ ctx[e] \in ContextStates
      /\ LocalInv(e, ctx[e], pending[e], vpu[e], callbacks[e], call)
      /\ call.then \in {"deliver", "drop", "fail"} /\ call.frame \in 0 .. MaxFrame
  BY <1>1, InCallFacts, CallFacts
<1>3. CASE ConsumptionTimesOut
  <2>1. /\ ctx' = [ctx EXCEPT ![e] = Finished(ctx[e], TRUE)]
        /\ call' = Idle /\ UNCHANGED <<pending, vpu, callbacks, token, surf, decoder, buf>>
    BY <1>3, Zenon DEF ConsumptionTimesOut
  <2>2. buf' \in [Coded -> BufferStates]
    BY <2>1 DEF Inductive, TypeOK
  <2> QED
    BY <1>1, <1>2, <2>1, <2>2, FinishingKeeps
<1>4. CASE Finish
  <2> DEFINE c == IF ctx[e].enc_external_enabled
                  THEN [ctx[e] EXCEPT !.enc_external_surface = NoSurface] ELSE ctx[e]
  <2>1. pending[e] = 0
    BY <1>2, <1>4 DEF Finish, LocalInv, PendingInv
  <2>2. c \in ContextStates
    BY <1>2 DEF ContextStates
  <2>3. c = ctx[e] \/ c = [ctx[e] EXCEPT !.enc_external_surface = NoSurface]
    OBVIOUS
  <2>4. call' = Idle /\ UNCHANGED <<pending, vpu, callbacks, token, surf, decoder>>
    BY <1>4, Zenon DEF Finish
  <2>5. \/ /\ call.then = "deliver"
           /\ buf' = [buf EXCEPT ![c.enc_coded_buf].segment =
                                    [encoder |-> e, frame |-> call.frame]]
           /\ ctx' = [ctx EXCEPT ![e] = Finished(c, FALSE)]
        \/ /\ call.then = "drop"
           /\ ctx' = [ctx EXCEPT ![e] = Finished(c, FALSE)]
           /\ UNCHANGED buf
        \/ ctx' = [ctx EXCEPT ![e] = Finished(c, TRUE)] /\ UNCHANGED buf
    BY <1>4, Zenon DEF Finish
  <2> HIDE DEF c
  <2>6. buf' \in [Coded -> BufferStates]
    <3>1. [encoder |-> e, frame |-> call.frame] \in Pictures \cup {Empty}
      BY <1>2 DEF Pictures
    <3>2. buf \in [Coded -> BufferStates]
      BY DEF Inductive, TypeOK
    <3> DEFINE b == c.enc_coded_buf
               picture == [encoder |-> e, frame |-> call.frame]
    <3> HIDE DEF b, picture
    <3>3. [buf EXCEPT ![b].segment = picture] \in [Coded -> BufferStates]
      BY <3>1, BufferFilled DEF picture
    <3>4. [buf EXCEPT ![c.enc_coded_buf].segment = [encoder |-> e, frame |-> call.frame]]
            \in [Coded -> BufferStates]
      BY <3>3, Zenon DEF b, picture
    <3> QED
      BY <2>5, <3>2, <3>4
  <2>7. PICK failed \in BOOLEAN : /\ ctx' = [ctx EXCEPT ![e] = Finished(c, failed)]
                                  /\ call.then # "fail" \/ failed
    BY <2>5
  <2> QED
    BY <1>1, <2>1, <2>2, <2>3, <2>4, <2>6, <2>7, FinishingKeeps
<1> QED
  BY <1>3, <1>4

-----------------------------------------------------------------------------
(* The hardware and its callback.                                          *)

LEMMA HardwareMoved ==
    ASSUME Inductive, NEW e \in Encoders, NEW p \in 0 .. token, NEW v \in VpuStates, NEW cb,
           cb \subseteq 1 .. token, LocalInv(e, ctx[e], p, v, cb, CallOf(e)),
           p # 0 => p = pending[e],
           pending' = [pending EXCEPT ![e] = p], vpu' = [vpu EXCEPT ![e] = v],
           callbacks' = [callbacks EXCEPT ![e] = cb],
           UNCHANGED <<ctx, token, surf, decoder, buf, call>>
    PROVE  Inductive'
<1>1. /\ ctx' = [ctx EXCEPT ![e] = ctx[e]] /\ ctx[e] \in ContextStates
      /\ buf' \in [Coded -> BufferStates] /\ call' \in Calls
  BY DEF Inductive, TypeOK
<1>2. \A d \in Encoders : CallOf(d)' = CallOf(d)
  BY DEF CallOf
<1>3. token' = token /\ token <= token' /\ token' \in 0 .. MaxToken
  BY ConstantsAssumption DEF Inductive, TypeOK
<1>4. Becomes(e, ctx[e], p, v, cb)
  BY <1>1, <1>2, <1>3 DEF Becomes
<1>5. \A s \in Surfaces : Works(ctx[e], p, s) => Works(ctx[e], pending[e], s)
  BY DEF Works
<1> QED
  BY <1>1, <1>4, <1>5, Moved

LEMMA ConsumeInputKeeps ==
    ASSUME Inductive, NEW e \in Encoders, ConsumeInput(e)
    PROVE  Inductive'
<1> DEFINE c == ctx[e]
           p == pending[e]
           u == vpu[e]
           k == CallOf(e)
<1>1. /\ c \in ContextStates /\ u \in VpuStates
      /\ LocalInv(e, c, p, u, callbacks[e], k)
      /\ callbacks[e] \subseteq 1 .. token /\ p \in 0 .. token /\ token \in Nat
  BY EncoderFacts DEF LocalHolds, Inductive, TypeOK
<1>2. PICK i \in u.reading :
         /\ vpu' = [vpu EXCEPT ![e].reading = @ \ {i}, ![e].inputs = @ + 1]
         /\ callbacks' = [callbacks EXCEPT ![e] = @ \cup ({i.token} \ {0})]
         /\ UNCHANGED <<ctx, pending, token, surf, decoder, buf, call>>
  BY Zenon DEF ConsumeInput
<1> DEFINE v == [u EXCEPT !.reading = @ \ {i}, !.inputs = @ + 1]
           cb == callbacks[e] \cup ({i.token} \ {0})
<1>3. vpu' = [vpu EXCEPT ![e] = v]
  BY <1>1, <1>2 DEF Inductive, TypeOK, VpuStates
<1>4. callbacks' = [callbacks EXCEPT ![e] = cb]
  BY <1>2, Zenon
<1>5. /\ IsFiniteSet(u.reading) /\ c.state = "running"
      /\ i.token # 0 => p = i.token
  BY <1>1, <1>2 DEF LocalInv, PendingInv, VpuInv, StoppedVpu
<1>6. /\ v \in VpuBooks /\ v.inputs = u.inputs + 1 /\ v.reading = u.reading \ {i}
      /\ v.encoding = u.encoding /\ v.done = u.done /\ v.outputs = u.outputs
  <2>1. u \in VpuBooks
    BY <1>1, VpuIsBook
  <2> DEFINE rest == u.reading \ {i}
  <2>2. rest \in SUBSET Inputs /\ u.inputs + 1 \in Nat
    BY <2>1 DEF VpuBooks
  <2>3. v = [u EXCEPT !.reading = rest, !.inputs = u.inputs + 1]
    BY Zenon
  <2> HIDE DEF u, v, rest
  <2>4. /\ v \in VpuBooks /\ v.inputs = u.inputs + 1 /\ v.reading = rest
        /\ v.encoding = u.encoding /\ v.done = u.done /\ v.outputs = u.outputs
    BY <2>1, <2>2, <2>3 DEF VpuBooks
  <2> QED
    BY <2>4 DEF rest
<1> HIDE DEF v
<1>7. cb \subseteq 1 .. token
  BY <1>1, <1>5
<1> HIDE DEF u, c, p
<1>8. VpuInv(c, v, k) /\ v \in VpuStates
  <2>1. IsFiniteSet(v.reading) /\ Cardinality(v.reading) = Cardinality(u.reading) - 1
    BY <1>2, <1>5, <1>6, FS_RemoveElement
  <2>2. Cardinality(u.reading) \in Nat /\ u.inputs \in Nat
    BY <1>1, <1>5, CountTypes, VpuIsBook
  <2>3. InCount(c, v, k) = InCount(c, u, k)
    <3> DEFINE n == Cardinality(u.reading)
               m == Cardinality(v.reading)
    <3>1. m = n - 1 /\ n \in Nat /\ u.inputs \in Nat
      BY <2>1, <2>2
    <3> HIDE DEF m, n
    <3>2. v.inputs + m = u.inputs + n
      BY <1>6, <3>1
    <3> QED
      BY <3>2 DEF InCount, m, n
  <2>4. OutCount(c, v) = OutCount(c, u)
    BY <1>6 DEF OutCount
  <2>5. VpuInv(c, u, k)
    BY <1>1 DEF LocalInv
  <2> HIDE DEF k
  <2> QED
    BY <1>1, <1>5, <1>6, <2>1, <2>3, <2>4, <2>5, Balanced
<1>9. LocalInv(e, c, p, v, cb, k)
  <2>1. PendingInv(e, c, p, v, cb, k)
    <3>1. p # 0 =>
             /\ c.allocated /\ ~c.cleanup_orphaned /\ c.enc_external_enabled
             /\ c.enc_external_surface \in Surfaces
             /\ c.encoder_failed \/ k # Idle
             /\ \/ k.at = "queue" /\ k.token = p
                \/ \E j \in u.reading : j.token = p
                \/ p \in callbacks[e]
      BY <1>1 DEF LocalInv, PendingInv
    <3>2. ASSUME NEW j \in u.reading, j.token = p, p # 0
          PROVE  j \in v.reading \/ p \in cb
      BY <1>6, <3>2
    <3>3. ASSUME NEW j \in v.reading
          PROVE  /\ j.token # 0 => /\ p = j.token /\ j.token \notin cb
                                   /\ \A j1 \in v.reading : j1.token # 0 => j1 = j
                 /\ Lies(e, c, j.token, j.memory) /\ j.frame < c.frame_count
      <4>1. j \in u.reading /\ j # i
        BY <1>6
      <4>2. j.token # 0 => i.token = 0
        BY <1>1, <1>2, <4>1 DEF LocalInv, PendingInv
      <4> QED
        BY <1>1, <1>6, <4>1, <4>2 DEF LocalInv, PendingInv
    <3> HIDE DEF cb, k
    <3>4. p # 0 => \/ k.at = "queue" /\ k.token = p
                   \/ \E j \in v.reading : j.token = p
                   \/ p \in cb
      BY <3>1, <3>2 DEF cb
    <3> QED
      BY <3>1, <3>3, <3>4 DEF PendingInv
  <2>2. CallInv(e, c, p, v, cb, k)
    <3>1. k.at = "queue" => cb = callbacks[e] /\ v.reading \subseteq u.reading
      BY <1>1, <1>2, <1>6 DEF LocalInv, CallInv
    <3> HIDE DEF cb, k
    <3> QED
      BY <1>1, <3>1 DEF LocalInv, CallInv
  <2>3. OrderInv(c, v, k)
    BY <1>1, <1>6 DEF LocalInv, OrderInv
  <2> QED
    BY <1>1, <1>8, <2>1, <2>2, <2>3 DEF LocalInv
<1>10. pending' = [pending EXCEPT ![e] = p] /\ p = pending[e]
  BY <1>2, Rewritings DEF p
<1>11. UNCHANGED <<ctx, token, surf, decoder, buf, call>>
  BY <1>2
<1> HIDE DEF cb, k
<1> QED
  BY <1>1, <1>11, <1>3, <1>4, <1>7, <1>8, <1>9, <1>10, HardwareMoved DEF c, p, k

LEMMA EncodeKeeps ==
    ASSUME Inductive, NEW e \in Encoders, Encode(e)
    PROVE  Inductive'
<1> DEFINE c == ctx[e]
           p == pending[e]
           u == vpu[e]
           k == CallOf(e)
           v == [u EXCEPT !.encoding = Tail(@), !.outputs = @ - 1,
                          !.done = Append(@, Head(u.encoding))]
<1>1. /\ c \in ContextStates /\ u \in VpuStates
      /\ LocalInv(e, c, p, u, callbacks[e], k)
      /\ callbacks[e] \subseteq 1 .. token /\ p \in 0 .. token
  BY EncoderFacts DEF LocalHolds
<1>2. /\ u.encoding # <<>> /\ u.outputs > 0
      /\ UNCHANGED <<ctx, pending, callbacks, token, surf, decoder, buf, call>>
  BY Zenon DEF Encode
<1>3. vpu' = [vpu EXCEPT ![e] = v]
  <2>1. vpu' = [vpu EXCEPT ![e].encoding = Tail(@), ![e].outputs = @ - 1,
                           ![e].done = Append(@, Head(u.encoding))]
    BY Zenon DEF Encode
  <2> DEFINE x == Head(u.encoding)
  <2> HIDE DEF x
  <2>2. vpu' = [vpu EXCEPT ![e].encoding = Tail(@), ![e].outputs = @ - 1,
                           ![e].done = Append(@, x)]
    BY <2>1, Zenon DEF x
  <2>3. [u EXCEPT !.encoding = Tail(@), !.outputs = @ - 1, !.done = Append(@, x)] = v
    BY Zenon DEF x
  <2> HIDE DEF v
  <2> QED
    BY <1>1, <2>2, <2>3 DEF Inductive, TypeOK, VpuStates
<1>4. /\ Head(u.encoding) \in 0 .. MaxFrame /\ Tail(u.encoding) \in Seq(0 .. MaxFrame)
      /\ u.outputs \in Nat /\ u.outputs - 1 \in Nat /\ u \in VpuBooks
      /\ u.done \in Seq(0 .. MaxFrame)
  <2>1. u \in VpuBooks
    BY <1>1, VpuIsBook
  <2>2. /\ u.encoding \in Seq(0 .. MaxFrame) /\ u.done \in Seq(0 .. MaxFrame)
        /\ u.outputs \in Nat /\ u.encoding # <<>> /\ u.outputs > 0
    BY <1>2, <2>1 DEF VpuBooks
  <2> HIDE DEF u
  <2>3. Head(u.encoding) \in 0 .. MaxFrame /\ Tail(u.encoding) \in Seq(0 .. MaxFrame)
    <3> DEFINE s == u.encoding
               frames == 0 .. MaxFrame
    <3>1. s \in Seq(frames) /\ s # <<>>
      BY <2>2
    <3> HIDE DEF s, frames
    <3>2. Head(s) \in frames /\ Tail(s) \in Seq(frames)
      BY <3>1
    <3> QED
      BY <3>2, Zenon DEF s, frames
  <2>4. u.outputs - 1 \in Nat
    BY <2>2
  <2> QED
    BY <2>1, <2>2, <2>3, <2>4
<1>5. /\ v \in VpuBooks /\ v.inputs = u.inputs /\ v.reading = u.reading
      /\ v.encoding = Tail(u.encoding) /\ v.done = Append(u.done, Head(u.encoding))
      /\ v.outputs = u.outputs - 1
  <2> DEFINE x == Head(u.encoding)
             tail == Tail(u.encoding)
             done == Append(u.done, x)
  <2>1. tail \in Seq(0 .. MaxFrame) /\ done \in Seq(0 .. MaxFrame)
    BY <1>4
  <2>2. v = [[u EXCEPT !.encoding = tail, !.done = done] EXCEPT !.outputs = u.outputs - 1]
    <3>1. v = [u EXCEPT !.encoding = tail, !.outputs = u.outputs - 1, !.done = done]
      BY Zenon
    <3> HIDE DEF v, tail, done, u
    <3> QED
      BY <1>4, <3>1 DEF VpuBooks
  <2> HIDE DEF tail, done, u, v
  <2>3. /\ v \in VpuBooks /\ v.inputs = u.inputs /\ v.reading = u.reading
        /\ v.encoding = tail /\ v.done = done /\ v.outputs = u.outputs - 1
    BY <1>4, <2>1, <2>2 DEF VpuBooks
  <2> QED
    BY <2>3, Zenon DEF tail, done
<1>6. c.state = "running"
  BY <1>1, <1>2 DEF LocalInv, VpuInv, StoppedVpu
<1> HIDE DEF v, u, c, p
<1>7. VpuInv(c, v, k) /\ v \in VpuStates
  <2>1. IsFiniteSet(v.reading) /\ VpuInv(c, u, k)
    BY <1>1, <1>5 DEF LocalInv, VpuInv
  <2>2. InCount(c, v, k) = InCount(c, u, k)
    BY <1>5 DEF InCount
  <2>3. OutCount(c, v) = OutCount(c, u)
    <3> DEFINE x == Head(u.encoding)
    <3>1. x \in 0 .. MaxFrame /\ u.done \in Seq(0 .. MaxFrame) /\ v.done = Append(u.done, x)
      BY <1>4, <1>5
    <3> HIDE DEF x
    <3>2. Len(v.done) = Len(u.done) + 1 /\ Len(u.done) \in Nat
      BY <3>1
    <3>3. v.outputs + Len(v.done) = u.outputs + Len(u.done)
      <4> DEFINE n == Len(u.done)
                 m == Len(v.done)
      <4>1. n \in Nat /\ m = n + 1 /\ u.outputs \in Nat /\ v.outputs = u.outputs - 1
        BY <1>4, <1>5, <3>2
      <4> HIDE DEF n, m
      <4>2. v.outputs + m = u.outputs + n
        BY <4>1
      <4> QED
        BY <4>2 DEF n, m
    <3> QED
      BY <3>3 DEF OutCount
  <2> HIDE DEF k
  <2> QED
    BY <1>1, <1>5, <1>6, <2>1, <2>2, <2>3, Balanced
<1>8. OrderInv(c, v, k)
  <2> DEFINE last == c.frame_count - 1
  <2>1. last \in Int
    BY <1>1, ConstantsAssumption DEF ContextStates
  <2>2. /\ k.at \in {"idle", "queue"} => c.encoder_failed
        /\ k.at = "output" => c.frame_count > 0 /\ u.encoding = <<last>> /\ u.done = <<>>
        /\ k.at = "consume" => k.then = "fail"
    BY <1>1, <1>2 DEF LocalInv, OrderInv
  <2> HIDE DEF last
  <2>3. k.at = "output" => v.encoding = <<>> /\ v.done = <<last>>
    <3>1. /\ Tail(<<last>>) = <<>> /\ Head(<<last>>) = last
          /\ Append(<<>>, last) = <<last>>
      BY <2>1
    <3> QED
      BY <1>5, <2>2, <3>1, Zenon
  <2> HIDE DEF k
  <2> QED
    BY <2>2, <2>3 DEF OrderInv, last
<1>9. LocalInv(e, c, p, v, callbacks[e], k)
  <2>1. PendingInv(e, c, p, v, callbacks[e], k) /\ CallInv(e, c, p, v, callbacks[e], k)
    BY <1>1, <1>5 DEF LocalInv, PendingInv, CallInv
  <2> QED
    BY <1>1, <1>7, <1>8, <2>1 DEF LocalInv
<1>10. /\ pending' = [pending EXCEPT ![e] = p]
       /\ callbacks' = [callbacks EXCEPT ![e] = callbacks[e]]
  BY <1>2, Rewritings DEF p
<1> HIDE DEF k
<1> QED
  BY <1>1, <1>2, <1>3, <1>7, <1>9, <1>10, HardwareMoved DEF c, p, k

LEMMA InputConsumedKeeps ==
    ASSUME Inductive, NEW e \in Encoders, InputConsumed(e)
    PROVE  Inductive'
<1> DEFINE c == ctx[e]
           u == vpu[e]
           k == CallOf(e)
<1>1. /\ c \in ContextStates /\ u \in VpuStates
      /\ LocalInv(e, c, pending[e], u, callbacks[e], k)
      /\ callbacks[e] \subseteq 1 .. token /\ pending[e] \in 0 .. token /\ token \in Nat
  BY EncoderFacts DEF LocalHolds, Inductive, TypeOK
<1>2. PICK t \in callbacks[e] :
         /\ pending' = Cleared(e, t)
         /\ callbacks' = [callbacks EXCEPT ![e] = @ \ {t}]
         /\ UNCHANGED <<ctx, vpu, token, surf, decoder, buf, call>>
  BY Zenon DEF InputConsumed
<1> DEFINE p == IF pending[e] = t THEN 0 ELSE pending[e]
           cb == callbacks[e] \ {t}
<1>3. pending' = [pending EXCEPT ![e] = p] /\ callbacks' = [callbacks EXCEPT ![e] = cb]
  BY <1>2, Zenon DEF Cleared
<1>4. /\ p \in 0 .. token /\ cb \subseteq 1 .. token /\ cb \subseteq callbacks[e]
      /\ p # 0 => p = pending[e]
      /\ pending[e] \notin callbacks[e] => p = pending[e]
      /\ p # 0 /\ p \in callbacks[e] => p \in cb
  BY <1>1, <1>2
<1> HIDE DEF p, cb, c, u, k
<1>5. LocalInv(e, c, p, u, cb, k)
  <2>1. PendingInv(e, c, p, u, cb, k)
    BY <1>1, <1>4 DEF LocalInv, PendingInv
  <2>2. CallInv(e, c, p, u, cb, k)
    BY <1>1, <1>4 DEF LocalInv, CallInv
  <2> QED
    BY <1>1, <2>1, <2>2 DEF LocalInv
<1>6. vpu' = [vpu EXCEPT ![e] = u]
  BY <1>2, Rewritings DEF u
<1> QED
  BY <1>1, <1>2, <1>3, <1>4, <1>5, <1>6, HardwareMoved DEF c, k

-----------------------------------------------------------------------------
(* The invariant holds.                                                    *)

LEMMA InitInductive == Init => Inductive
<1> SUFFICES ASSUME Init PROVE Inductive
  OBVIOUS
<1>1. MachineTypes
  BY FreeContextType, StoppedType, ConstantsAssumption DEF Init, MachineTypes, Calls
<1>2. OtherTypes
  <2>1. FreeSurface \in SurfaceStates
    BY DEF FreeSurface, SurfaceStates, Stamps
  <2>2. [allocated |-> FALSE, map_count |-> 0, segment |-> Empty] \in BufferStates
    BY DEF BufferStates
  <2> QED
    BY <2>1, <2>2 DEF Init, OtherTypes
<1>3. EncoderInv
  <2> SUFFICES ASSUME NEW e \in Encoders PROVE LocalHolds(e)
    BY DEF EncoderInv
  <2>1. /\ ctx[e] = FreeContext /\ pending[e] = 0 /\ vpu[e] = StoppedVpu
        /\ callbacks[e] = {} /\ token = 0 /\ CallOf(e) = Idle
    BY DEF Init, CallOf
  <2>2. LocalInv(e, FreeContext, 0, StoppedVpu, {}, Idle)
    BY FreeContextType, StoppedHolds
  <2> QED
    BY <2>1, <2>2 DEF LocalHolds
<1>4. SurfaceInv
  BY FreeContextType DEF Init, SurfaceInv, HasActiveEncoder, Encodes, FreeSurface
<1> QED
  BY <1>1, <1>2, <1>3, <1>4, InductiveSplit

LEMMA EncoderNextKeeps ==
    ASSUME Inductive, NEW e \in Encoders,
           \/ CreateContext(e) \/ CreateContextFails(e) \/ ReapFails(e)
           \/ DestroyContext(e) \/ DestroyContextFails(e)
           \/ \E s \in Surfaces : BeginPicture(e, s)
           \/ \E b \in Coded : RenderPicture(e, b)
           \/ RateUpdateFails(e)
           \/ StartFails(e) \/ InputRejected(e) \/ InputKept(e)
           \/ PassInPlace(e) \/ PassScratch(e) \/ PassCopy(e)
           \/ Hardware(e)
    PROVE  Inductive'
<1>1. CASE CreateContext(e) \/ CreateContextFails(e)
  BY <1>1, CreateContextKeeps
<1>2. CASE ReapFails(e)
  BY <1>2, ReapFailsKeeps
<1>3. CASE DestroyContext(e)
  BY <1>3, DestroyContextKeeps
<1>4. CASE DestroyContextFails(e)
  BY <1>4, DestroyContextFailsKeeps
<1>5. CASE \E s \in Surfaces : BeginPicture(e, s)
  BY <1>5, BeginPictureKeeps
<1>6. CASE \E b \in Coded : RenderPicture(e, b)
  BY <1>6, RenderPictureKeeps
<1>7. CASE RateUpdateFails(e)
  BY <1>7, RateUpdateFailsKeeps
<1>8. CASE StartFails(e)
  BY <1>8, StartFailsKeeps
<1>9. CASE InputRejected(e)
  BY <1>9, InputRejectedKeeps
<1>10. CASE InputKept(e)
  BY <1>10, InputKeptKeeps
<1>11. CASE PassInPlace(e)
  BY <1>11, PassInPlaceKeeps
<1>12. CASE PassScratch(e)
  BY <1>12, PassScratchKeeps
<1>13. CASE PassCopy(e)
  BY <1>13, PassCopyKeeps
<1>14. CASE Hardware(e)
  BY <1>14, ConsumeInputKeeps, EncodeKeeps, InputConsumedKeeps DEF Hardware
<1> QED
  BY <1>1, <1>2, <1>3, <1>4, <1>5, <1>6, <1>7, <1>8, <1>9, <1>10, <1>11, <1>12, <1>13, <1>14

LEMMA NextKeeps == Inductive /\ [Next]_vars => Inductive'
<1> SUFFICES ASSUME Inductive, [Next]_vars PROVE Inductive'
  OBVIOUS
<1>1. ASSUME NEW e \in Encoders,
           \/ CreateContext(e) \/ CreateContextFails(e) \/ ReapFails(e)
           \/ DestroyContext(e) \/ DestroyContextFails(e)
           \/ \E s \in Surfaces : BeginPicture(e, s)
           \/ \E b \in Coded : RenderPicture(e, b)
           \/ RateUpdateFails(e)
           \/ StartFails(e) \/ InputRejected(e) \/ InputKept(e)
           \/ PassInPlace(e) \/ PassScratch(e) \/ PassCopy(e)
           \/ Hardware(e)
      PROVE Inductive'
  BY <1>1, EncoderNextKeeps
<1>2. CASE EndPictureSteps
  BY <1>2, QueueInputKeeps, QueueInputFailsKeeps, TakeOutputKeeps, OutputKeptKeeps,
     OutputMissingKeeps, FinishKeeps DEF EndPictureSteps
<1>3. ASSUME NEW s \in Surfaces,
             \/ CreateSurface(s) \/ DestroySurface(s) \/ PutImage(s)
             \/ BeginDecode(s) \/ SyncDecode(s)
      PROVE  Inductive'
  BY <1>3, CreateSurfaceKeeps, DestroySurfaceKeeps, PutImageKeeps, BeginDecodeKeeps,
     SyncDecodeKeeps
<1>4. CASE CreateDecoder \/ DestroyDecoder
  BY <1>4, DecoderKeeps
<1>5. ASSUME NEW b \in Coded,
             CreateBuffer(b) \/ DestroyBuffer(b) \/ MapBuffer(b) \/ UnmapBuffer(b)
      PROVE  Inductive'
  BY <1>5, BufferKeeps
<1>6. CASE UNCHANGED vars
  <2>1. UNCHANGED <<ctx, pending, vpu, callbacks, token, surf, decoder, buf, call>>
    BY <1>6 DEF vars
  <2>2. /\ MachineTypes' /\ EncoderInv'
        /\ \A e \in Encoders, s \in Surfaces : Encodes(e, s)' => Encodes(e, s)
    BY <2>1, EncodersRest
  <2>3. OtherTypes'
    BY <2>1, InductiveSplit DEF OtherTypes
  <2> QED
    BY <2>1, <2>2, <2>3, SurfacesRest, InductiveNext
<1> QED
  BY <1>1, <1>2, <1>3, <1>4, <1>5, <1>6 DEF Next

THEOREM EncodeInductive == Spec => []Inductive
  BY InitInductive, NextKeeps, PTL DEF Spec

(* Every variable keeps its type: in particular no count of a VPU's        *)
(* buffers goes below 0 or above what it has.                              *)
THEOREM EncodeTypes == Spec => []TypeOK
<1>1. Inductive => TypeOK
  BY DEF Inductive
<1> QED
  BY <1>1, EncodeInductive, PTL

(* The pending token tells the truth: what the hardware reads of memory    *)
(* that is not its own is the pending input, and a pending input is about  *)
(* to be queued, read, or reported (hobot_vaEndPicture,                    *)
(* hobot_encoder_input_consumed).                                          *)
THEOREM PendingTellsTheTruth == Spec => []PendingIsTracked
<1>1. Inductive => PendingIsTracked
  <2> SUFFICES ASSUME Inductive, NEW e \in Encoders
               PROVE  /\ \A i \in vpu[e].reading : i.token # 0 => pending[e] = i.token
                      /\ pending[e] # 0 =>
                           \/ call.at = "queue" /\ call.encoder = e /\ call.token = pending[e]
                           \/ \E i \in vpu[e].reading : i.token = pending[e]
                           \/ pending[e] \in callbacks[e]
    BY DEF PendingIsTracked
  <2>1. LocalHolds(e)
    BY EncoderFacts
  <2>2. CallOf(e).at = "queue" => call.at = "queue" /\ call.encoder = e /\ CallOf(e) = call
    BY DEF CallOf, Idle
  <2> QED
    BY <2>1, <2>2 DEF LocalHolds, LocalInv, PendingInv
<1> QED
  BY <1>1, EncodeInductive, PTL

(* No buffer of a running VPU is lost or counted twice, whatever call      *)
(* fails on the way (the driver's "ownership invariant violated").         *)
THEOREM NoBufferIsLost == Spec => []BuffersConserved
<1>1. Inductive => BuffersConserved
  <2> SUFFICES ASSUME Inductive, NEW e \in Encoders, ctx[e].state = "running"
               PROVE  /\ vpu[e].inputs + Cardinality(vpu[e].reading) + InHand(e)
                           + One(ctx[e].enc_in_buf_valid) = NumIn
                      /\ vpu[e].outputs + Len(vpu[e].done) + One(ctx[e].enc_out_buf_valid)
                           = NumOut
    BY DEF BuffersConserved
  <2>1. VpuInv(ctx[e], vpu[e], CallOf(e))
    BY EncoderFacts DEF LocalHolds, LocalInv
  <2>2. One(CallOf(e).at = "queue") = InHand(e)
    BY DEF CallOf, InHand, One, Idle
  <2> QED
    BY <2>1, <2>2 DEF VpuInv, InCount, OutCount
<1> QED
  BY <1>1, EncodeInductive, PTL

-----------------------------------------------------------------------------
(* What a step may not do.                                                 *)

(* While an input of its encoder is pending, a context is not torn down    *)
(* and its scratch buffer is not written.                                  *)
Steady(e) == ctx'[e].state = ctx[e].state /\ ctx'[e].scratch = ctx[e].scratch

LEMMA OthersSteady ==
    ASSUME Inductive, NEW d, NEW c, ctx' = [ctx EXCEPT ![d] = c], NEW e \in Encoders,
           d = e => c.state = ctx[e].state /\ c.scratch = ctx[e].scratch
    PROVE  Steady(e)
  BY DEF Inductive, TypeOK, Steady

LEMMA FinishedSteady ==
    ASSUME NEW c \in ContextStates, NEW failed \in BOOLEAN
    PROVE  Finished(c, failed).state = c.state /\ Finished(c, failed).scratch = c.scratch
  BY FinishedFields DEF FinishedShape

LEMMA ReapingIsSteady ==
    ASSUME Inductive, NEW e \in Encoders, pending[e] # 0
    PROVE  e \notin Orphans /\ ctx[e].allocated /\ ctx[e].enc_external_surface \in Surfaces
  BY EncoderFacts DEF LocalHolds, LocalInv, PendingInv, Orphans

LEMMA CallsAreSteady ==
    ASSUME Inductive, EndPictureSteps, NEW e \in Encoders
    PROVE  Steady(e)
<1> DEFINE d == call.encoder
<1>1. call.at \in {"queue", "output", "consume"}
  BY Zenon DEF EndPictureSteps, QueueInput, QueueInputFails, TakeOutput, OutputKept,
     OutputMissing, Finish, ConsumptionTimesOut
<1>2. d \in Encoders /\ ctx[d] \in ContextStates
  BY <1>1, CallFacts, EncoderFacts
<1>3. CASE QueueInput
  <2>1. ctx' = [ctx EXCEPT ![d] = [ctx[d] EXCEPT !.frame_count = @ + 1]]
    BY <1>3, Zenon DEF QueueInput
  <2>2. LET c == [ctx[d] EXCEPT !.frame_count = @ + 1]
        IN  c.state = ctx[d].state /\ c.scratch = ctx[d].scratch
    BY <1>2 DEF ContextStates
  <2> QED
    BY <2>1, <2>2, OthersSteady
<1>4. CASE QueueInputFails
  <2> DEFINE f == [ctx[d] EXCEPT !.enc_external_surface = NoSurface]
             g == [ctx[d] EXCEPT !.enc_external_surface = NoSurface, !.enc_in_buf_valid = TRUE]
             c == Finished(g, TRUE)
  <2>1. ctx' = [ctx EXCEPT ![d] = f] \/ ctx' = [ctx EXCEPT ![d] = c]
    BY <1>4, Zenon DEF QueueInputFails
  <2>2. /\ f.state = ctx[d].state /\ f.scratch = ctx[d].scratch
        /\ g.state = ctx[d].state /\ g.scratch = ctx[d].scratch /\ g \in ContextStates
    BY <1>2 DEF ContextStates
  <2> HIDE DEF f, g
  <2>3. c.state = ctx[d].state /\ c.scratch = ctx[d].scratch
    BY <2>2, FinishedSteady
  <2> HIDE DEF c
  <2> QED
    BY <2>1, <2>2, <2>3, OthersSteady
<1>5. CASE OutputKept
  <2> DEFINE g == [ctx[d] EXCEPT !.enc_out_buf_valid = TRUE]
             c == Finished(g, TRUE)
  <2>1. ctx' = [ctx EXCEPT ![d] = c]
    BY <1>5, Zenon DEF OutputKept
  <2>2. g.state = ctx[d].state /\ g.scratch = ctx[d].scratch /\ g \in ContextStates
    BY <1>2 DEF ContextStates
  <2> HIDE DEF g
  <2>3. c.state = ctx[d].state /\ c.scratch = ctx[d].scratch
    BY <2>2, FinishedSteady
  <2> HIDE DEF c
  <2> QED
    BY <2>1, <2>3, OthersSteady
<1>6. CASE Finish
  <2> DEFINE g == IF ctx[d].enc_external_enabled
                  THEN [ctx[d] EXCEPT !.enc_external_surface = NoSurface] ELSE ctx[d]
  <2>1. \E failed \in BOOLEAN : ctx' = [ctx EXCEPT ![d] = Finished(g, failed)]
    <3>1. \/ ctx' = [ctx EXCEPT ![d] = Finished(g, FALSE)]
          \/ ctx' = [ctx EXCEPT ![d] = Finished(g, TRUE)]
      BY <1>6, Zenon DEF Finish
    <3> HIDE DEF g, d
    <3> QED
      BY <3>1
  <2>2. g.state = ctx[d].state /\ g.scratch = ctx[d].scratch /\ g \in ContextStates
    BY <1>2 DEF ContextStates
  <2> HIDE DEF g
  <2>3. \A failed \in BOOLEAN : /\ Finished(g, failed).state = ctx[d].state
                                /\ Finished(g, failed).scratch = ctx[d].scratch
    BY <2>2, FinishedSteady
  <2> HIDE DEF d
  <2> QED
    BY <2>1, <2>3, OthersSteady
<1>7. CASE ConsumptionTimesOut
  <2>1. ctx' = [ctx EXCEPT ![d] = Finished(ctx[d], TRUE)]
    BY <1>7, Zenon DEF ConsumptionTimesOut
  <2>2. /\ Finished(ctx[d], TRUE).state = ctx[d].state
        /\ Finished(ctx[d], TRUE).scratch = ctx[d].scratch
    BY <1>2, FinishedSteady
  <2> HIDE DEF d
  <2> QED
    BY <2>1, <2>2, OthersSteady
<1>8. CASE TakeOutput \/ OutputMissing
  <2>1. ctx' = ctx
    BY <1>8, Zenon DEF TakeOutput, OutputMissing
  <2> QED
    BY <2>1 DEF Steady
<1> QED
  BY <1>3, <1>4, <1>5, <1>6, <1>7, <1>8 DEF EndPictureSteps

(* A call on encoder d: it does nothing of the kind unless it is e's own   *)
(* call and e has nothing pending.                                         *)
LEMMA EncoderIsSteady ==
    ASSUME Inductive, NEW e \in Encoders, pending[e] # 0, NEW d \in Encoders,
           \/ CreateContext(d) \/ CreateContextFails(d) \/ ReapFails(d)
           \/ DestroyContext(d) \/ DestroyContextFails(d)
           \/ \E s \in Surfaces : BeginPicture(d, s)
           \/ \E b \in Coded : RenderPicture(d, b)
           \/ RateUpdateFails(d)
           \/ StartFails(d) \/ InputRejected(d) \/ InputKept(d)
           \/ PassInPlace(d) \/ PassScratch(d) \/ PassCopy(d)
           \/ Hardware(d)
    PROVE  Steady(e)
<1> USE ReapingIsSteady
<1>1. CASE CreateContext(d) \/ CreateContextFails(d)
  <2>1. PICK new : /\ Reaped(Orphans)[d].allocated = FALSE
                   /\ ctx' = [Reaped(Orphans) EXCEPT ![d] = new]
    BY <1>1, Zenon DEF CreateContext, CreateContextFails, TakeSlot
  <2>2. Reaped(Orphans)[e] = ctx[e]
    BY DEF Reaped
  <2>3. e # d
    BY <2>1, <2>2
  <2>4. ctx'[e] = ctx[e]
    BY <2>1, <2>2, <2>3, ReapedContexts
  <2> QED
    BY <2>4 DEF Steady
<1>2. CASE ReapFails(d)
  <2> DEFINE gone == {f \in Orphans : f < d}
  <2>1. PICK left : d \in Orphans /\ ctx' = [Reaped(gone) EXCEPT ![d] = left]
    BY <1>2, Zenon DEF ReapFails
  <2>2. e # d /\ e \notin gone
    BY <2>1
  <2> HIDE DEF gone
  <2>3. ctx'[e] = ctx[e]
    BY <2>1, <2>2, ReapedContexts
  <2> QED
    BY <2>3 DEF Steady
<1>3. CASE DestroyContext(d) \/ DestroyContextFails(d)
  <2>1. pending[d] = 0 /\ \E c : ctx' = [ctx EXCEPT ![d] = c]
    BY <1>3, Zenon DEF DestroyContext, DestroyContextFails, MayDestroy
  <2> QED
    BY <2>1, OthersSteady
<1>4. CASE \E s \in Surfaces : BeginPicture(d, s)
  <2>1. PICK s \in Surfaces :
           ctx' = [ctx EXCEPT ![d].current_render_target = s, ![d].enc_coded_buf = NoBuffer,
                              ![d].encoder_picture_active = TRUE]
    BY <1>4, Zenon DEF BeginPicture
  <2> QED
    BY <2>1 DEF Steady, Inductive, TypeOK, ContextStates
<1>5. CASE \E b \in Coded : RenderPicture(d, b)
  <2>1. PICK b \in Coded : ctx' = [ctx EXCEPT ![d].enc_coded_buf = b]
    BY <1>5, Zenon DEF RenderPicture
  <2> QED
    BY <2>1 DEF Steady, Inductive, TypeOK, ContextStates
<1>6. CASE RateUpdateFails(d)
  <2>1. ctx' = [ctx EXCEPT ![d].encoder_failed = TRUE]
    BY <1>6, Zenon DEF RateUpdateFails
  <2> QED
    BY <2>1 DEF Steady, Inductive, TypeOK, ContextStates
<1>7. CASE StartFails(d)
  <2>1. MayEnd(d) /\ \E state, scratch :
           ctx' = [ctx EXCEPT ![d].encoder_init_deferred = FALSE,
                              ![d].encoder_failed = TRUE,
                              ![d].state = state, ![d].scratch = scratch,
                              ![d].cleanup_orphaned = state # "off" \/ scratch # "none"]
    BY <1>7, Zenon DEF StartFails
  <2>2. d # e
    BY <2>1, MayEndFacts
  <2>3. ctx'[e] = ctx[e]
    BY <2>1, <2>2 DEF Inductive, TypeOK
  <2> QED
    BY <2>3 DEF Steady
<1>8. CASE \/ InputRejected(d) \/ InputKept(d)
           \/ PassInPlace(d) \/ PassScratch(d) \/ PassCopy(d)
  <2>1. MayPass(d) /\ (ctx' = ctx \/ \E c : ctx' = [ctx EXCEPT ![d] = c])
    BY <1>8, Zenon DEF InputRejected, InputKept, PassInPlace, PassScratch, PassCopy
  <2>2. d # e
    BY <2>1, MayEndFacts DEF MayPass
  <2> QED
    BY <2>1, <2>2, OthersSteady DEF Steady
<1>9. CASE Hardware(d)
  <2>1. ctx' = ctx
    BY <1>9, Zenon DEF Hardware, ConsumeInput, Encode, InputConsumed
  <2> QED
    BY <2>1 DEF Steady
<1> QED
  BY <1>1, <1>2, <1>3, <1>4, <1>5, <1>6, <1>7, <1>8, <1>9

LEMMA PendingIsSteady ==
    ASSUME Inductive, [Next]_vars, NEW e \in Encoders, pending[e] # 0
    PROVE  Steady(e)
<1>1. ASSUME NEW d \in Encoders,
           \/ CreateContext(d) \/ CreateContextFails(d) \/ ReapFails(d)
           \/ DestroyContext(d) \/ DestroyContextFails(d)
           \/ \E s \in Surfaces : BeginPicture(d, s)
           \/ \E b \in Coded : RenderPicture(d, b)
           \/ RateUpdateFails(d)
           \/ StartFails(d) \/ InputRejected(d) \/ InputKept(d)
           \/ PassInPlace(d) \/ PassScratch(d) \/ PassCopy(d)
           \/ Hardware(d)
      PROVE Steady(e)
  BY <1>1, EncoderIsSteady
<1>2. CASE EndPictureSteps
  BY <1>2, CallsAreSteady
<1>3. CASE \/ UNCHANGED vars
           \/ \E s \in Surfaces :
                 \/ CreateSurface(s) \/ DestroySurface(s) \/ PutImage(s)
                 \/ BeginDecode(s) \/ SyncDecode(s)
           \/ CreateDecoder \/ DestroyDecoder
           \/ \E b \in Coded :
                 CreateBuffer(b) \/ DestroyBuffer(b) \/ MapBuffer(b) \/ UnmapBuffer(b)
  <2>1. ctx' = ctx
    BY <1>3, Zenon DEF vars, CreateSurface, DestroySurface, PutImage, BeginDecode, SyncDecode,
       CreateDecoder, DestroyDecoder, CreateBuffer, DestroyBuffer, MapBuffer, UnmapBuffer
  <2> QED
    BY <2>1 DEF Steady
<1> QED
  BY <1>1, <1>2, <1>3 DEF Next

(* hb_mm_mc_stop is not reached before the hardware has consumed every     *)
(* input that lies outside the VPU (hobot_vaDestroyContext,                *)
(* hobot_reap_orphan_contexts).                                            *)
THEOREM StopsWhenRead == Spec => StoppedWhenRead
<1> DEFINE Stopping == \A e \in Encoders :
                          ctx[e].state = "running" /\ ctx'[e].state # "running"
                            => \A i \in vpu[e].reading : i.token = 0
<1>1. Inductive /\ [Next]_vars => Stopping
  <2> SUFFICES ASSUME Inductive, [Next]_vars, NEW e \in Encoders,
                      ctx[e].state = "running", ctx'[e].state # "running",
                      NEW i \in vpu[e].reading, i.token # 0
               PROVE  FALSE
    OBVIOUS
  <2>1. pending[e] # 0
    BY EncoderFacts DEF LocalHolds, LocalInv, PendingInv
  <2> QED
    BY <2>1, PendingIsSteady DEF Steady
<1> QED
  BY <1>1, EncodeInductive, PTL DEF Spec, StoppedWhenRead

(* A surface an encoder works on keeps its memory and the frame it shows.  *)
Shown(s) ==
    /\ surf'[s].allocated = surf[s].allocated
    /\ surf'[s].memory = surf[s].memory
    /\ surf'[s].output_context_id = surf[s].output_context_id

LEMMA ActiveSurface ==
    ASSUME Inductive, NEW s \in Surfaces, HasActiveEncoder(s)
    PROVE  /\ surf[s].allocated /\ ~surf[s].decode_pending
           /\ surf[s].output_context_id \in {Decoder, NoContext}
  BY DEF Inductive, SurfaceInv

LEMMA EncodersShowOn ==
    ASSUME Inductive, NEW s \in Surfaces, NEW d \in Encoders,
           \/ CreateContext(d) \/ CreateContextFails(d) \/ ReapFails(d)
           \/ DestroyContext(d) \/ DestroyContextFails(d)
           \/ \E r \in Surfaces : BeginPicture(d, r)
           \/ \E b \in Coded : RenderPicture(d, b)
           \/ RateUpdateFails(d)
           \/ StartFails(d) \/ InputRejected(d) \/ InputKept(d)
           \/ PassInPlace(d) \/ PassScratch(d) \/ PassCopy(d)
           \/ Hardware(d)
    PROVE  Shown(s)
<1>1. ASSUME OnlyUsers(surf') PROVE Shown(s)
  BY <1>1 DEF OnlyUsers, Shown
<1>2. CASE CreateContext(d) \/ CreateContextFails(d)
  <2>1. \E targets : surf' = Retained(SurfacesReaped(Orphans), targets, d)
    BY <1>2, Zenon DEF CreateContext, CreateContextFails, TakeSlot
  <2> QED
    BY <1>1, <2>1, ReapedUsers, RetainedUsers
<1>3. CASE ReapFails(d)
  <2>1. \E gone : surf' = SurfacesReaped(gone)
    BY <1>3, Zenon DEF ReapFails
  <2> QED
    BY <1>1, <2>1, ReapedUsers
<1>4. CASE DestroyContext(d)
  <2>1. surf' = Detached(d)
    BY <1>4, Zenon DEF DestroyContext
  <2>2. d \in Contexts /\ d # Decoder /\ d # NoContext
    BY ConstantsAssumption DEF Contexts
  <2>3. surf[s].output_context_id # d
    BY <2>2 DEF Inductive, SurfaceInv
  <2> QED
    BY <2>1, <2>2, <2>3, DetachedSurfaces DEF Shown
<1>5. CASE \E r \in Surfaces : BeginPicture(d, r)
  <2>1. PICK r \in Surfaces :
           surf' = [surf EXCEPT ![r].users = @ \cup {d}, ![r].context_id = d]
    BY <1>5, Zenon DEF BeginPicture
  <2> QED
    BY <2>1 DEF Shown, Inductive, TypeOK, SurfaceStates
<1>6. CASE \E b \in Coded : RenderPicture(d, b)
  <2>1. \E named : surf' = Retained(surf, named, d)
    BY <1>6, Zenon DEF RenderPicture
  <2> QED
    BY <1>1, <2>1, SameUsers, RetainedUsers
<1>7. CASE \/ DestroyContextFails(d) \/ RateUpdateFails(d)
           \/ StartFails(d) \/ InputRejected(d) \/ InputKept(d)
           \/ PassInPlace(d) \/ PassScratch(d) \/ PassCopy(d) \/ Hardware(d)
  <2>1. surf' = surf
    BY <1>7, Zenon DEF DestroyContextFails, RateUpdateFails, StartFails, InputRejected,
       InputKept, PassInPlace, PassScratch, PassCopy, Hardware, ConsumeInput, Encode,
       InputConsumed
  <2> QED
    BY <2>1 DEF Shown
<1> QED
  BY <1>2, <1>3, <1>4, <1>5, <1>6, <1>7

LEMMA SurfacesShowOn ==
    ASSUME Inductive, NEW s \in Surfaces, HasActiveEncoder(s), NEW r \in Surfaces,
           \/ CreateSurface(r) \/ DestroySurface(r) \/ PutImage(r)
           \/ BeginDecode(r) \/ SyncDecode(r)
    PROVE  Shown(s)
<1>1. surf[s].allocated /\ ~surf[s].decode_pending
  BY ActiveSurface
<1>2. r # s
  <2>1. \/ ~surf[r].allocated \/ ~HasActiveEncoder(r) \/ surf[r].decode_pending
    BY Zenon DEF CreateSurface, DestroySurface, PutImage, BeginDecode, SyncDecode
  <2> QED
    BY <1>1, <2>1
<1>3. surf'[s] = surf[s]
  <2>1. CASE CreateSurface(r) \/ DestroySurface(r)
    BY <1>2, <2>1 DEF CreateSurface, DestroySurface, Inductive, TypeOK
  <2>2. CASE PutImage(r)
    BY <1>2, <2>2 DEF PutImage, Inductive, TypeOK
  <2>3. CASE BeginDecode(r)
    BY <1>2, <2>3 DEF BeginDecode, Inductive, TypeOK
  <2>4. CASE SyncDecode(r)
    BY <1>2, <2>4 DEF SyncDecode, Inductive, TypeOK
  <2> QED
    BY <2>1, <2>2, <2>3, <2>4
<1> QED
  BY <1>3 DEF Shown

LEMMA DecoderShowsOn ==
    ASSUME Inductive, NEW s \in Surfaces, HasActiveEncoder(s), DestroyDecoder
    PROVE  Shown(s)
<1>1. surf' = Detached(Decoder) /\ ~UsedByOtherEncoder(Decoder)
  BY DEF DestroyDecoder
<1>2. Decoder \in Contexts /\ Decoder \notin Encoders
  BY ConstantsAssumption DEF Contexts
<1>3. surf[s].output_context_id # Decoder
  BY <1>1, <1>2, ActiveSurface DEF UsedByOtherEncoder, HasActiveEncoder
<1> QED
  BY <1>1, <1>2, <1>3, DetachedSurfaces DEF Shown

LEMMA ActiveIsShown ==
    ASSUME Inductive, [Next]_vars, NEW s \in Surfaces, HasActiveEncoder(s)
    PROVE  Shown(s)
<1>1. ASSUME NEW d \in Encoders,
           \/ CreateContext(d) \/ CreateContextFails(d) \/ ReapFails(d)
           \/ DestroyContext(d) \/ DestroyContextFails(d)
           \/ \E r \in Surfaces : BeginPicture(d, r)
           \/ \E b \in Coded : RenderPicture(d, b)
           \/ RateUpdateFails(d)
           \/ StartFails(d) \/ InputRejected(d) \/ InputKept(d)
           \/ PassInPlace(d) \/ PassScratch(d) \/ PassCopy(d)
           \/ Hardware(d)
      PROVE Shown(s)
  BY <1>1, EncodersShowOn
<1>2. ASSUME NEW r \in Surfaces,
             \/ CreateSurface(r) \/ DestroySurface(r) \/ PutImage(r)
             \/ BeginDecode(r) \/ SyncDecode(r)
      PROVE  Shown(s)
  BY <1>2, SurfacesShowOn
<1>3. CASE DestroyDecoder
  BY <1>3, DecoderShowsOn
<1>4. CASE \/ UNCHANGED vars \/ EndPictureSteps \/ CreateDecoder
           \/ \E b \in Coded :
                 CreateBuffer(b) \/ DestroyBuffer(b) \/ MapBuffer(b) \/ UnmapBuffer(b)
  <2>1. surf' = surf
    BY <1>4, Zenon DEF vars, EndPictureSteps, QueueInput, QueueInputFails, TakeOutput,
       OutputKept, OutputMissing, Finish, ConsumptionTimesOut, CreateDecoder,
       CreateBuffer, DestroyBuffer, MapBuffer, UnmapBuffer
  <2> QED
    BY <2>1 DEF Shown
<1> QED
  BY <1>1, <1>2, <1>3, <1>4 DEF Next

(* Memory the hardware reads is neither written, freed nor handed to the   *)
(* decoder by any call: not even after vaEndPicture has given up on the    *)
(* hardware (hobot_surface_has_active_encoder and its callers).            *)
THEOREM ReadMemoryIsLeftAlone == Spec => HardwareInputUntouched
<1> DEFINE LeftAlone == \A e \in Encoders : \A i \in vpu[e].reading \cap vpu'[e].reading :
                           Contents(i.memory)' = Contents(i.memory)
<1>1. Inductive /\ [Next]_vars => LeftAlone
  <2> SUFFICES ASSUME Inductive, [Next]_vars, NEW e \in Encoders, NEW i \in vpu[e].reading
               PROVE  Contents(i.memory)' = Contents(i.memory)
    OBVIOUS
  <2> DEFINE m == i.memory
             s == ctx[e].enc_external_surface
  <2>1. Lies(e, ctx[e], i.token, m) /\ (i.token # 0 => pending[e] # 0)
    BY EncoderFacts DEF LocalHolds, LocalInv, PendingInv
  <2>2. CASE m = Slot
    BY <2>2 DEF Contents, Slot
  <2>3. CASE m # Slot
    <3>1. pending[e] # 0 /\ ctx[e].allocated /\ s \in Surfaces
      BY <2>1, <2>3, ReapingIsSteady DEF Lies
    <3>2. CASE m = [kind |-> "scratch", of |-> e]
      <4>1. Steady(e)
        BY <3>1, PendingIsSteady
      <4>2. Contents(m) = [there |-> ctx[e].scratch]
            /\ Contents(m)' = [there |-> ctx'[e].scratch]
        BY <3>2 DEF Contents
      <4> QED
        BY <4>1, <4>2 DEF Steady
    <3>3. CASE m = [kind |-> "memory", of |-> s]
      <4>1. HasActiveEncoder(s)
        BY <3>1 DEF HasActiveEncoder, Encodes
      <4>2. Shown(s)
        BY <3>1, <4>1, ActiveIsShown
      <4>3. PICK r \in Surfaces : r = s
        BY <3>1
      <4>4. /\ Contents(m) = [there |-> surf[r].allocated, is |-> surf[r].memory]
            /\ Contents(m)' = [there |-> surf'[r].allocated, is |-> surf'[r].memory]
        BY <3>3, <4>3 DEF Contents
      <4> QED
        BY <4>2, <4>3, <4>4 DEF Shown
    <3>4. CASE m = [kind |-> "frame", of |-> s]
      <4>1. HasActiveEncoder(s)
        BY <3>1 DEF HasActiveEncoder, Encodes
      <4>2. Shown(s)
        BY <3>1, <4>1, ActiveIsShown
      <4>3. PICK r \in Surfaces : r = s
        BY <3>1
      <4>4. /\ Contents(m) = [there |-> surf[r].allocated, owner |-> surf[r].output_context_id]
            /\ Contents(m)' = [there |-> surf'[r].allocated,
                               owner |-> surf'[r].output_context_id]
        BY <3>4, <4>3 DEF Contents
      <4> QED
        BY <4>2, <4>3, <4>4 DEF Shown
    <3> QED
      BY <2>1, <2>3, <3>2, <3>3, <3>4 DEF Lies
  <2> QED
    BY <2>2, <2>3
<1> QED
  BY <1>1, EncodeInductive, PTL DEF Spec, HardwareInputUntouched

(* Of all calls, only the end of vaEndPicture fills a coded buffer: the    *)
(* others empty it or leave it as it is.                                   *)
LEMMA OthersFillNothing ==
    ASSUME Inductive, [Next]_vars, ~Finish, NEW b \in Coded
    PROVE  buf'[b].segment \in {buf[b].segment, Empty}
<1>1. CASE \E c \in Coded :
              CreateBuffer(c) \/ DestroyBuffer(c) \/ MapBuffer(c) \/ UnmapBuffer(c)
  BY <1>1 DEF CreateBuffer, DestroyBuffer, MapBuffer, UnmapBuffer, Inductive, TypeOK,
     BufferStates
<1>2. CASE \E e \in Encoders : \/ InputRejected(e) \/ InputKept(e)
                               \/ PassInPlace(e) \/ PassScratch(e) \/ PassCopy(e)
  <2>1. \E c : buf' = [buf EXCEPT ![c].segment = Empty]
    BY <1>2, Zenon DEF InputRejected, InputKept, PassInPlace, PassScratch, PassCopy
  <2> QED
    BY <2>1 DEF Inductive, TypeOK, BufferStates
<1>3. CASE \/ UNCHANGED vars
           \/ \E e \in Encoders :
                 \/ CreateContext(e) \/ CreateContextFails(e) \/ ReapFails(e)
                 \/ DestroyContext(e) \/ DestroyContextFails(e)
                 \/ \E s \in Surfaces : BeginPicture(e, s)
                 \/ \E c \in Coded : RenderPicture(e, c)
                 \/ RateUpdateFails(e) \/ StartFails(e) \/ Hardware(e)
           \/ QueueInput \/ QueueInputFails \/ TakeOutput \/ OutputKept \/ OutputMissing
           \/ ConsumptionTimesOut
           \/ \E s \in Surfaces :
                 \/ CreateSurface(s) \/ DestroySurface(s) \/ PutImage(s)
                 \/ BeginDecode(s) \/ SyncDecode(s)
           \/ CreateDecoder \/ DestroyDecoder
  <2>1. buf' = buf
    BY <1>3, ZenonT(60) DEF vars, CreateContext, CreateContextFails, TakeSlot, ReapFails,
       DestroyContext, DestroyContextFails, BeginPicture, RenderPicture, RateUpdateFails,
       StartFails, Hardware, ConsumeInput, Encode, InputConsumed,
       QueueInput, QueueInputFails, TakeOutput, OutputKept, OutputMissing,
       ConsumptionTimesOut, CreateSurface, DestroySurface, PutImage, BeginDecode, SyncDecode,
       CreateDecoder, DestroyDecoder
  <2> QED
    BY <2>1
<1> QED
  BY <1>1, <1>2, <1>3, Zenon DEF Next, EndPictureSteps

(* What vaEndPicture puts into a coded buffer is the picture it was called *)
(* for, and not one that an earlier call left in the VPU: the wait for the *)
(* output in hobot_vaEndPicture does not take the wrong one.               *)
THEOREM DeliversItsOwn == Spec => DeliversOwnPicture
<1> DEFINE Own == \A b \in Coded :
                     buf'[b].segment \notin {buf[b].segment, Empty} =>
                        /\ call.at = "consume" /\ ctx[call.encoder].enc_coded_buf = b
                        /\ buf'[b].segment = [encoder |-> call.encoder,
                                              frame |-> ctx[call.encoder].frame_count - 1]
<1>1. Inductive /\ [Next]_vars => Own
  <2> SUFFICES ASSUME Inductive, [Next]_vars, NEW b \in Coded,
                      buf'[b].segment \notin {buf[b].segment, Empty}
               PROVE  /\ call.at = "consume" /\ ctx[call.encoder].enc_coded_buf = b
                      /\ buf'[b].segment = [encoder |-> call.encoder,
                                            frame |-> ctx[call.encoder].frame_count - 1]
    OBVIOUS
  <2> DEFINE e == call.encoder
             c == IF ctx[e].enc_external_enabled
                  THEN [ctx[e] EXCEPT !.enc_external_surface = NoSurface] ELSE ctx[e]
  <2>1. Finish
    BY OthersFillNothing
  <2>2. buf' # buf
    OBVIOUS
  <2>3. /\ call.at = "consume" /\ call.then = "deliver"
        /\ buf' = [buf EXCEPT ![c.enc_coded_buf].segment =
                                 [encoder |-> e, frame |-> call.frame]]
    BY <2>1, <2>2, Zenon DEF Finish
  <2>4. call # Idle
    BY <2>3 DEF Idle
  <2>5. /\ ctx[e] \in ContextStates /\ e \in Encoders
        /\ LocalInv(e, ctx[e], pending[e], vpu[e], callbacks[e], call)
        /\ call.frame \in 0 .. MaxFrame
    BY <2>3, <2>4, InCallFacts, CallFacts
  <2>6. call.frame = ctx[e].frame_count - 1
    <3>1. call.frame + 1 = ctx[e].frame_count
      BY <2>3, <2>5 DEF LocalInv, OrderInv
    <3> QED
      BY <2>5, <3>1, ConstantsAssumption
  <2>7. c.enc_coded_buf = ctx[e].enc_coded_buf
    BY <2>5 DEF ContextStates
  <2> DEFINE picture == [encoder |-> e, frame |-> call.frame]
             at == c.enc_coded_buf
  <2> HIDE DEF e, c, picture, at
  <2>8. buf' = [buf EXCEPT ![at].segment = picture]
    BY <2>3, Zenon DEF at, picture
  <2>9. at = b /\ buf'[b].segment = picture
    BY <2>8 DEF Inductive, TypeOK, BufferStates
  <2> QED
    BY <2>3, <2>6, <2>7, <2>9 DEF e, at, picture
<1> QED
  BY <1>1, EncodeInductive, PTL DEF Spec, DeliversOwnPicture
=============================================================================
