--------------------------- MODULE DecodeSyncFifo ---------------------------
(***************************************************************************)
(* Proof that FifoInv is an invariant of DecodeSync, given TypeInv and     *)
(* SyncInv: the FIFO of submitted surfaces and the surfaces' own state     *)
(* tell the same story.  A step starts or settles no picture (QuietFifo,   *)
(* QuietThread), begins one (BeginFifo), abandons the newest (AbortFifo)   *)
(* or settles the oldest (SettleFifo).                                     *)
(***************************************************************************)
EXTENDS DecodeSyncLock, SequenceTheorems

(* The sequence q lists each surface of S once, and no other.              *)

IsFifo(q, S) ==
    /\ \A i, j \in 1 .. Len(q) : q[i] = q[j] => i = j
    /\ \A s \in Surfaces : s \in S <=> \E i \in 1 .. Len(q) : q[i] = s

LEMMA AppendGrows ==
    ASSUME NEW q \in Seq(Surfaces), NEW s \in Surfaces
    PROVE  Len(Append(q, s)) = Len(q) + 1 /\ Append(q, s) # << >>
  <1>1. Len(Append(q, s)) = Len(q) + 1 /\ Len(q) \in Nat
    OBVIOUS
  <1>2. Len(<< >>) = 0
    OBVIOUS
  <1> QED
    BY <1>1, <1>2

LEMMA TailShrinks ==
    ASSUME NEW q \in Seq(Surfaces), q # << >>
    PROVE  Len(q) \in Nat \ {0} /\ Len(Tail(q)) = Len(q) - 1 /\ Tail(q) \in Seq(Surfaces)
  OBVIOUS

LEMMA FifoAppends ==
    ASSUME NEW q \in Seq(Surfaces), NEW S, IsFifo(q, S), NEW s \in Surfaces, s \notin S
    PROVE  IsFifo(Append(q, s), S \cup {s}) /\ Append(q, s)[Len(Append(q, s))] = s
  <1> DEFINE r == Append(q, s)
  <1>1. /\ Len(r) = Len(q) + 1 /\ r[Len(q) + 1] = s
        /\ \A i \in 1 .. Len(q) : r[i] = q[i]
    OBVIOUS
  <1>2. Len(q) \in Nat
    OBVIOUS
  <1> HIDE DEF r
  <1>3. \A i \in 1 .. Len(q) : q[i] # s
    BY DEF IsFifo
  <1>4. \A i, j \in 1 .. Len(r) : r[i] = r[j] => i = j
    <2> SUFFICES ASSUME NEW i \in 1 .. Len(r), NEW j \in 1 .. Len(r), r[i] = r[j]
                 PROVE  i = j
      OBVIOUS
    <2>1. CASE i \in 1 .. Len(q) /\ j \in 1 .. Len(q)
      BY <1>1, <2>1 DEF IsFifo
    <2>2. CASE i = Len(q) + 1 \/ j = Len(q) + 1
      BY <1>1, <1>2, <1>3, <2>2
    <2> QED
      BY <1>1, <1>2, <2>1, <2>2
  <1>5. \A x \in Surfaces : x \in S \cup {s} <=> \E i \in 1 .. Len(r) : r[i] = x
    BY <1>1, <1>2 DEF IsFifo
  <1>6. r[Len(r)] = s
    BY <1>1
  <1> QED
    BY <1>4, <1>5, <1>6 DEF IsFifo, r

LEMMA FifoPops ==
    ASSUME NEW q \in Seq(Surfaces), NEW S, IsFifo(q, S), q # << >>
    PROVE  IsFifo(Tail(q), S \ {Head(q)})
  <1> DEFINE r == Tail(q)
  <1>1. /\ Len(q) \in Nat \ {0} /\ Len(r) = Len(q) - 1 /\ Head(q) = q[1]
        /\ \A i \in 1 .. Len(r) : r[i] = q[i + 1]
    OBVIOUS
  <1> HIDE DEF r
  <1>2. \A i, j \in 1 .. Len(r) : r[i] = r[j] => i = j
    BY <1>1 DEF IsFifo
  <1>3. ASSUME NEW x \in Surfaces
        PROVE  x \in S \ {Head(q)} <=> \E i \in 1 .. Len(r) : r[i] = x
    <2>1. ASSUME x \in S, x # q[1] PROVE \E i \in 1 .. Len(r) : r[i] = x
      <3>1. PICK j \in 1 .. Len(q) : q[j] = x
        BY <2>1 DEF IsFifo
      <3>2. j - 1 \in 1 .. Len(r) /\ r[j - 1] = q[j]
        BY <1>1, <2>1, <3>1
      <3> QED
        BY <3>1, <3>2
    <2>2. ASSUME NEW i \in 1 .. Len(r), r[i] = x PROVE x \in S /\ x # q[1]
      BY <1>1, <2>2 DEF IsFifo
    <2> QED
      BY <1>1, <2>1, <2>2
  <1> QED
    BY <1>2, <1>3 DEF IsFifo, r

LEMMA FifoDropsLast ==
    ASSUME NEW q \in Seq(Surfaces), NEW S, IsFifo(q, S), q # << >>
    PROVE  IsFifo(SubSeq(q, 1, Len(q) - 1), S \ {q[Len(q)]})
  <1> DEFINE n == Len(q) - 1
             r == SubSeq(q, 1, n)
  <1>a. Len(q) \in Nat /\ Len(q) # 0
    OBVIOUS
  <1>b. n \in Nat /\ Len(q) = n + 1
    BY <1>a
  <1>c. \A i \in 1 .. n : q[i] \in Surfaces
    BY <1>a
  <1> HIDE DEF n
  <1>d. /\ Len(r) = IF 1 <= n THEN n - 1 + 1 ELSE 0
        /\ \A i \in 1 .. n - 1 + 1 : r[i] = q[1 + i - 1]
    BY <1>b, <1>c, SubSeqProperties
  <1> HIDE DEF r
  <1>e. n - 1 + 1 = n /\ (IF 1 <= n THEN n - 1 + 1 ELSE 0) = n
    BY <1>b
  <1>f. \A i \in 1 .. n : 1 + i - 1 = i
    BY <1>b
  <1>1. /\ Len(q) = n + 1 /\ Len(r) = n
        /\ \A i \in 1 .. Len(r) : r[i] = q[i]
    BY <1>b, <1>d, <1>e, <1>f
  <1>2. \A i, j \in 1 .. Len(r) : r[i] = r[j] => i = j
    BY <1>1 DEF IsFifo
  <1>3. ASSUME NEW x \in Surfaces
        PROVE  x \in S \ {q[Len(q)]} <=> \E i \in 1 .. Len(r) : r[i] = x
    <2>1. ASSUME x \in S, x # q[Len(q)] PROVE \E i \in 1 .. Len(r) : r[i] = x
      <3>1. PICK j \in 1 .. Len(q) : q[j] = x
        BY <2>1 DEF IsFifo
      <3>2. j \in 1 .. Len(r) /\ r[j] = q[j]
        BY <1>1, <2>1, <3>1
      <3> QED
        BY <3>1, <3>2
    <2>2. ASSUME NEW i \in 1 .. Len(r), r[i] = x PROVE x \in S /\ x # q[Len(q)]
      BY <1>1, <2>2 DEF IsFifo
    <2> QED
      BY <1>1, <2>1, <2>2
  <1> QED
    BY <1>2, <1>3 DEF IsFifo, r, n

LEMMA HeadIsIn ==
    ASSUME NEW q \in Seq(Surfaces), NEW S, IsFifo(q, S), NEW x \in Surfaces, x \in S
    PROVE  q # << >> /\ Head(q) \in S
  <1>1. PICK i \in 1 .. Len(q) : q[i] = x
    BY DEF IsFifo
  <1>2. Len(q) \in Nat \ {0} /\ Head(q) = q[1] /\ q[1] \in Surfaces
    BY <1>1
  <1>3. q # << >>
    BY <1>2
  <1>4. \E j \in 1 .. Len(q) : q[j] = Head(q)
    BY <1>2
  <1> QED
    BY <1>2, <1>3, <1>4 DEF IsFifo

Waiting(c) == {s \in Surfaces : decode_pending[s] /\ context_id[s] = c}

LEMMA FifoForm ==
    ASSUME NEW q \in Seq(Surfaces), NEW W \in SUBSET Surfaces
    PROVE  IsFifo(q, W) <=>
              /\ \A i, j \in 1 .. Len(q) : q[i] = q[j] => i = j
              /\ {q[i] : i \in 1 .. Len(q)} = W
  <1>1. \A i \in 1 .. Len(q) : q[i] \in Surfaces
    OBVIOUS
  <1> QED
    BY <1>1 DEF IsFifo

LEMMA FifoUse ==
    ASSUME TypeInv, FifoIsPending, NEW c \in Contexts, ctx_state[c] # "free"
    PROVE  /\ submitted[c] \in Seq(Surfaces) /\ Len(submitted[c]) <= RingSize
           /\ IsFifo(submitted[c], Waiting(c))
  <1>1. submitted[c] \in Seq(Surfaces) /\ Waiting(c) \in SUBSET Surfaces
    BY DEF TypeInv, TypeOK, CtxTypes, Waiting
  <1> QED
    BY <1>1, FifoForm DEF FifoIsPending, Waiting

LEMMA FifoShow ==
    ASSUME \A c \in Contexts : ctx_state'[c] # "free" =>
              /\ submitted'[c] \in Seq(Surfaces) /\ Len(submitted'[c]) <= RingSize
              /\ IsFifo(submitted'[c], Waiting(c)')
    PROVE  FifoIsPending'
  <1> SUFFICES ASSUME NEW c \in Contexts, ctx_state'[c] # "free"
               PROVE  LET q == submitted'[c]
                      IN  /\ \A i, j \in 1 .. Len(q) : q[i] = q[j] => i = j
                          /\ Len(q) <= RingSize
                          /\ {q[i] : i \in 1 .. Len(q)} = Waiting(c)'
    BY DEF FifoIsPending, Waiting
  <1>1. Waiting(c)' \in SUBSET Surfaces
    BY DEF Waiting
  <1> QED
    BY <1>1, FifoForm

-----------------------------------------------------------------------------
(* A step that starts and settles no picture.                              *)
LEMMA QuietFifo ==
    ASSUME TypeInv, FifoInv,
           UNCHANGED <<submitted, decode_pending>>,
           \A c \in Contexts : ctx_state'[c] = "free" <=> ctx_state[c] = "free",
           \A c \in Contexts : decode_picture_active'[c] =>
              /\ decode_picture_active[c]
              /\ current_render_target'[c] = current_render_target[c],
           \A s \in Surfaces : decode_pending[s] =>
              /\ allocated'[s] /\ frame'[s] = NoOutput /\ lock_count'[s] = 0
              /\ context_id'[s] = context_id[s]
              /\ context_id[s] \in context_usage_mask'[s],
           \A s \in Surfaces : context_id'[s] \in {context_id[s], NoContext},
           UnallocatedEmpty'
    PROVE  /\ FifoIsPending' /\ PendingIsClean' /\ PictureIsLast'
           /\ FreeUnused' /\ UnallocatedEmpty'
  <1>1. FifoIsPending'
    <2>1. ASSUME NEW c \in Contexts PROVE Waiting(c)' = Waiting(c)
      BY DEF Waiting
    <2> QED
      BY <2>1, FifoUse, FifoShow DEF FifoInv
  <1>2. PendingIsClean'
    BY DEF FifoInv, PendingIsClean
  <1>3. PictureIsLast'
    BY DEF FifoInv, PictureIsLast
  <1>4. FreeUnused'
    BY ConstantsAssumption DEF FifoInv, FreeUnused
  <1> QED
    BY <1>1, <1>2, <1>3, <1>4

(* The surface thread u synchronises, when another thread or the           *)
(* application takes a step.                                               *)
LEMMA OtherSyncer ==
    ASSUME TypeInv, SyncInv, FifoInv, NEW u \in Threads,
           pc'[u] = pc[u], call'[u] = call[u],
           pc[u] = "loop" => UNCHANGED surfVars,
           \A s \in Surfaces : decode_pending[s] /\ context_id[s] = call[u].cid =>
              /\ allocated'[s] /\ decode_pending'[s]
              /\ context_id'[s] = context_id[s] /\ decode_error'[s] = decode_error[s]
    PROVE  SyncerSurface(u)'
  <1> SUFFICES ASSUME AtVpu(pc[u])
               PROVE  LET s == call[u].surf
                      IN  /\ allocated'[s] /\ context_id'[s] = call[u].cid
                          /\ IF pc[u] = "loop"
                             THEN decode_pending'[s] \/ decode_error'[s] \/ HasFrame(s)'
                             ELSE decode_pending'[s] /\ ~decode_error'[s]
    BY DEF SyncerSurface
  <1>1. call[u].surf \in Surfaces
    BY ThreadFacts DEF AtVpu, LocalsSet
  <1>2. SyncerSurface(u)
    BY DEF FifoInv
  <1>3. CASE pc[u] = "loop"
    BY <1>1, <1>2, <1>3 DEF SyncerSurface, surfVars, HasFrame
  <1>4. CASE pc[u] # "loop"
    BY <1>1, <1>2, <1>4 DEF SyncerSurface
  <1> QED
    BY <1>3, <1>4

(* What an application call that never drops the mutex must leave alone.   *)
LEMMA QuietCall ==
    ASSUME TypeInv, SyncInv, FifoInv, Free, UNCHANGED <<pc, call>>,
           \A s \in Surfaces :
              /\ decode_pending[s]
              /\ context_id[s] \in Contexts /\ sync_active[context_id[s]]
              => /\ allocated'[s] /\ decode_pending'[s]
                 /\ context_id'[s] = context_id[s] /\ decode_error'[s] = decode_error[s]
    PROVE  \A u \in Threads : SyncerSurface(u)'
  <1> SUFFICES ASSUME NEW u \in Threads, AtVpu(pc[u])
               PROVE  SyncerSurface(u)'
    BY DEF SyncerSurface
  <1>1. pc[u] # "loop"
    BY ConstantsAssumption DEF Free, SyncInv, LoopHoldsMutex
  <1>2. call[u].cid \in Contexts /\ sync_active[call[u].cid]
    BY SyncFacts
  <1> QED
    BY <1>1, <1>2, OtherSyncer
-----------------------------------------------------------------------------
(* Calls that never drop the mutex.                                        *)

LEMMA AbortFifo ==
    ASSUME TypeInv, SyncInv, FifoInv, NEW c \in Contexts, Free,
           PictureOpen(c), AbortPicture(c),
           UNCHANGED <<allocated, frame, context_id, lock_count, pc, call>>,
           \A s \in Surfaces : context_usage_mask[s] \subseteq context_usage_mask'[s],
           \A d \in Contexts : ctx_state'[d] = "free" <=> ctx_state[d] = "free",
           submitted' \in [Contexts -> Seq(Surfaces)]
    PROVE  FifoInv'
  <1> DEFINE s == current_render_target[c]
             q == submitted[c]
  <1>1. /\ ctx_state[c] # "free" /\ ~sync_active[c] /\ decode_picture_active[c]
        /\ s \in Surfaces /\ q # << >> /\ q[Len(q)] = s /\ q \in Seq(Surfaces)
    BY DEF PictureOpen, FifoInv, PictureIsLast, TypeInv, TypeOK, CtxTypes, PictureShape
  <1>2. IsFifo(q, Waiting(c)) /\ Len(q) <= RingSize
    BY <1>1, FifoUse DEF FifoInv
  <1>3. s \in Waiting(c)
    <2>1. Len(q) \in 1 .. Len(q)
      BY <1>1
    <2> QED
      BY <1>1, <1>2, <2>1 DEF IsFifo
  <1>4. decode_pending[s] /\ context_id[s] = c /\ allocated[s]
    BY <1>3 DEF Waiting, FifoInv, PendingIsClean
  <1>5. /\ decode_pending' = [decode_pending EXCEPT ![s] = FALSE]
        /\ decode_error' = [decode_error EXCEPT ![s] = TRUE]
        /\ decode_picture_active' = [decode_picture_active EXCEPT ![c] = FALSE]
        /\ current_render_target' = [current_render_target EXCEPT ![c] = NoSurface]
    BY <1>1, <1>4 DEF AbortPicture
  <1>6. submitted' = [submitted EXCEPT ![c] = SubSeq(q, 1, Len(q) - 1)]
    <2>1. Len(q) > 0
      BY <1>1
    <2> QED
      BY <1>1, <2>1 DEF AbortPicture, DropLast
  <1>7. FifoIsPending'
    <2> SUFFICES ASSUME NEW d \in Contexts, ctx_state'[d] # "free"
                 PROVE  /\ Len(submitted'[d]) <= RingSize
                        /\ IsFifo(submitted'[d], Waiting(d)')
      BY FifoShow
    <2>1. CASE d = c
      <3>1. submitted'[c] = SubSeq(q, 1, Len(q) - 1)
        BY <1>6 DEF TypeInv, TypeOK, CtxTypes
      <3>2. Waiting(c)' = Waiting(c) \ {s}
        BY <1>1, <1>5 DEF Waiting, TypeInv, TypeOK, SurfTypes
      <3>3. IsFifo(submitted'[c], Waiting(c)')
        BY <1>1, <1>2, <3>1, <3>2, FifoDropsLast
      <3>4. Len(submitted'[c]) <= RingSize
        <4>1. Len(q) \in Nat /\ Len(q) # 0 /\ RingSize \in Nat
          BY <1>1, ConstantsAssumption
        <4>2. \A i \in 1 .. Len(q) - 1 : q[i] \in Surfaces
          BY <1>1, <4>1
        <4>3. Len(SubSeq(q, 1, Len(q) - 1)) = IF 1 <= Len(q) - 1 THEN Len(q) - 1 - 1 + 1 ELSE 0
          BY <4>1, <4>2, SubSeqProperties
        <4> QED
          BY <1>2, <3>1, <4>1, <4>3
      <3> QED
        BY <2>1, <3>3, <3>4
    <2>2. CASE d # c
      <3>1. submitted'[d] = submitted[d]
        BY <1>6, <2>2 DEF TypeInv, TypeOK, CtxTypes
      <3>2. Waiting(d)' = Waiting(d)
        BY <1>1, <1>4, <1>5, <2>2 DEF Waiting, TypeInv, TypeOK, SurfTypes
      <3> QED
        BY <3>1, <3>2, FifoUse DEF FifoInv
    <2> QED
      BY <2>1, <2>2
  <1>8. PendingIsClean'
    BY <1>1, <1>5 DEF FifoInv, PendingIsClean, TypeInv, TypeOK, SurfTypes
  <1>9. PictureIsLast'
    BY <1>1, <1>5, <1>6 DEF FifoInv, PictureIsLast, TypeInv, TypeOK, CtxTypes
  <1>10. FreeUnused' /\ UnallocatedEmpty'
    BY DEF FifoInv, FreeUnused, UnallocatedEmpty
  <1>11. \A u \in Threads : SyncerSurface(u)'
    <2>1. \A x \in Surfaces :
             /\ decode_pending[x]
             /\ context_id[x] \in Contexts /\ sync_active[context_id[x]]
             => /\ allocated'[x] /\ decode_pending'[x]
                /\ context_id'[x] = context_id[x] /\ decode_error'[x] = decode_error[x]
      BY <1>1, <1>4, <1>5
      DEF FifoInv, PendingIsClean, TypeInv, TypeOK, SurfTypes
    <2> QED
      BY <2>1, QuietCall
  <1> QED
    BY <1>7, <1>8, <1>9, <1>10, <1>11 DEF FifoInv

LEMMA SurfaceCallFifo ==
    ASSUME TypeInv, SyncInv, FifoInv, NEW s \in Surfaces, SurfaceCall(s)
    PROVE  FifoInv'
  <1> USE DEF TypeInv, TypeOK, SurfTypes
  <1>1. /\ Free /\ UNCHANGED <<submitted, ctx_state, decode_picture_active,
                               current_render_target, pc, call>>
    BY DEF SurfaceCall, CreateSurface, LockSurface, UnlockSurface, EncoderTakes,
           PutImage, ctxVars, thrVars
  <1>2. UNCHANGED decode_pending
    <2>1. CASE CreateSurface(s)
      <3>1. decode_pending[s] = FALSE
        BY <2>1 DEF CreateSurface, FifoInv, PendingIsClean
      <3> QED
        BY <2>1, <3>1 DEF CreateSurface
    <2>2. CASE ~CreateSurface(s)
      BY <2>2 DEF SurfaceCall, LockSurface, UnlockSurface, EncoderTakes, PutImage
    <2> QED
      BY <2>1, <2>2
  <1>3. \A x \in Surfaces : decode_pending[x] =>
           /\ allocated'[x] /\ frame'[x] = NoOutput /\ lock_count'[x] = 0
           /\ context_id'[x] = context_id[x] /\ decode_error'[x] = decode_error[x]
           /\ context_id[x] \in context_usage_mask'[x]
    <2> SUFFICES ASSUME NEW x \in Surfaces, decode_pending[x]
                 PROVE  <1>3!(x)!2
      OBVIOUS
    <2>1. /\ allocated[x] /\ frame[x] = NoOutput /\ lock_count[x] = 0
          /\ context_id[x] \in context_usage_mask[x]
      BY DEF FifoInv, PendingIsClean
    <2>2. CASE CreateSurface(s)
      BY <2>1, <2>2 DEF CreateSurface
    <2>3. CASE LockSurface(s)
      BY <2>1, <2>3 DEF LockSurface
    <2>4. CASE UnlockSurface(s)
      BY <2>1, <2>4 DEF UnlockSurface
    <2>5. CASE EncoderTakes(s)
      BY <2>1, <2>5 DEF EncoderTakes
    <2>6. CASE PutImage(s)
      BY <2>1, <2>6 DEF PutImage
    <2> QED
      BY <2>2, <2>3, <2>4, <2>5, <2>6 DEF SurfaceCall
  <1>4. \A x \in Surfaces : context_id'[x] \in {context_id[x], NoContext}
    BY DEF SurfaceCall, CreateSurface, LockSurface, UnlockSurface, EncoderTakes, PutImage
  <1>5. UnallocatedEmpty'
    <2>1. CASE CreateSurface(s)
      BY <2>1 DEF CreateSurface, FifoInv, UnallocatedEmpty
    <2>2. CASE LockSurface(s) \/ UnlockSurface(s)
      BY <2>2 DEF LockSurface, UnlockSurface, FifoInv, UnallocatedEmpty
    <2>3. CASE EncoderTakes(s) \/ PutImage(s)
      BY <2>3 DEF EncoderTakes, PutImage, FifoInv, UnallocatedEmpty
    <2> QED
      BY <2>1, <2>2, <2>3 DEF SurfaceCall
  <1>6. \A u \in Threads : SyncerSurface(u)'
    BY <1>1, <1>2, <1>3, QuietCall
  <1> QED
    BY <1>1, <1>2, <1>3, <1>4, <1>5, <1>6, QuietFifo DEF FifoInv

LEMMA DestroySurfacesFifo ==
    ASSUME TypeInv, SyncInv, FifoInv, NEW X \in SUBSET Surfaces, DestroySurfaces(X)
    PROVE  FifoInv'
  <1> USE DEF TypeInv, TypeOK, SurfTypes
  <1>1. /\ Free /\ UNCHANGED <<submitted, ctx_state, decode_picture_active,
                               current_render_target, pc, call, lock_count,
                               context_usage_mask>>
        /\ \A x \in X : Destroyable(x)
    BY DEF DestroySurfaces, ctxVars, thrVars
  <1>2. PICK freed \in SUBSET {s \in X : ~decode_pending[s]} :
        \E stuck \in SUBSET {s \in X \ freed : HasFrame(s) /\ IsRunning(Owner(s))} :
           DestroySurfaces(X)!3!(freed)!(stuck)
    BY DEF DestroySurfaces
  <1>3. PICK stuck \in SUBSET {s \in X \ freed : HasFrame(s) /\ IsRunning(Owner(s))} :
           DestroySurfaces(X)!3!(freed)!(stuck)
    BY <1>2
  <1>4. UNCHANGED decode_pending
    BY <1>3
  <1>5. \A x \in Surfaces : decode_pending[x] =>
           /\ allocated'[x] /\ frame'[x] = NoOutput /\ context_id'[x] = context_id[x]
    BY <1>3 DEF FifoInv, PendingIsClean
  <1>6. \A x \in Surfaces : decode_pending[x] => decode_error'[x] = decode_error[x]
    BY <1>3 DEF FifoInv, PendingIsClean, HasFrame
  <1>7. \A x \in Surfaces : context_id'[x] \in {context_id[x], NoContext}
    BY <1>3
  <1>8. UnallocatedEmpty'
    BY <1>1, <1>3 DEF FifoInv, UnallocatedEmpty, Destroyable, HasFrame
  <1>9. \A u \in Threads : SyncerSurface(u)'
    BY <1>1, <1>4, <1>5, <1>6, QuietCall
  <1>10. \A x \in Surfaces : decode_pending[x] =>
           lock_count'[x] = 0 /\ context_id[x] \in context_usage_mask'[x]
    BY <1>1 DEF FifoInv, PendingIsClean
  <1> QED
    BY <1>1, <1>4, <1>5, <1>7, <1>8, <1>9, <1>10, QuietFifo DEF FifoInv

LEMMA ContextCallFifo ==
    ASSUME TypeInv, SyncInv, FifoInv, NEW c \in Contexts, ContextCall(c)
    PROVE  FifoInv'
  <1> USE DEF TypeInv, TypeOK, CtxTypes, SurfTypes
  <1>1. TypeInv'
    BY ContextCallTypes
  <1>2. ASSUME NEW T \in TargetSets, CreateContext(c, T)
        PROVE  FifoInv'
    <2>1. /\ UNCHANGED <<allocated, decode_pending, decode_error, frame, context_id,
                         lock_count, pc, call>>
          /\ Free /\ ctx_state[c] = "free" /\ submitted'[c] = << >>
          /\ ctx_state'[c] # "free" /\ ~decode_picture_active'[c]
          /\ \A d \in Contexts \ {c} :
                /\ submitted'[d] = submitted[d] /\ ctx_state'[d] = ctx_state[d]
                /\ decode_picture_active'[d] = decode_picture_active[d]
                /\ current_render_target'[d] = current_render_target[d]
          /\ \A s \in Surfaces : context_usage_mask[s] \subseteq context_usage_mask'[s]
      BY <1>2 DEF CreateContext, RetainUsage, thrVars
    <2>2. FifoIsPending'
      <3> SUFFICES ASSUME NEW d \in Contexts, ctx_state'[d] # "free"
                   PROVE  /\ Len(submitted'[d]) <= RingSize
                          /\ IsFifo(submitted'[d], Waiting(d)')
        BY <1>1, FifoShow
      <3>1. CASE d = c
        <4>1. Waiting(c)' = {}
          BY <2>1 DEF Waiting, FifoInv, FreeUnused
        <4> QED
          BY <2>1, <3>1, <4>1, ConstantsAssumption DEF IsFifo
      <3>2. CASE d # c
        <4>1. Waiting(d)' = Waiting(d)
          BY <2>1 DEF Waiting
        <4> QED
          BY <2>1, <3>2, <4>1, FifoUse DEF FifoInv
      <3> QED
        BY <3>1, <3>2
    <2>3. PendingIsClean'
      <3> SUFFICES ASSUME NEW s \in Surfaces, decode_pending[s]
                   PROVE  /\ allocated[s] /\ frame[s] = NoOutput /\ lock_count[s] = 0
                          /\ context_id[s] \in Contexts /\ ctx_state'[context_id[s]] # "free"
                          /\ context_id[s] \in context_usage_mask'[s]
        BY <2>1 DEF PendingIsClean
      <3> QED
        BY <2>1 DEF FifoInv, PendingIsClean
    <2>4. PictureIsLast'
      BY <2>1 DEF FifoInv, PictureIsLast
    <2>5. FreeUnused' /\ UnallocatedEmpty'
      BY <2>1 DEF FifoInv, FreeUnused, UnallocatedEmpty
    <2>6. \A u \in Threads : SyncerSurface(u)'
      BY <2>1, QuietCall DEF FifoInv, PendingIsClean
    <2> QED
      BY <2>2, <2>3, <2>4, <2>5, <2>6 DEF FifoInv
  <1>3. CASE DestroyContext(c)
    <2>1. /\ Free /\ ~sync_active[c] /\ ~decode_picture_active[c]
          /\ UNCHANGED <<decode_picture_active, current_render_target, submitted,
                         allocated, lock_count, pc, call>>
          /\ ctx_state'[c] = "free"
          /\ \A d \in Contexts \ {c} : ctx_state'[d] = ctx_state[d]
      BY <1>3 DEF DestroyContext, MayDestroyContext, thrVars
    <2>2. \A s \in Surfaces : context_id[s] # c =>
             /\ decode_pending'[s] = decode_pending[s]
             /\ decode_error'[s] = decode_error[s]
             /\ context_id'[s] = context_id[s]
             /\ frame'[s] \in {frame[s], NoOutput}
             /\ \A d \in Contexts \ {c} :
                   d \in context_usage_mask[s] => d \in context_usage_mask'[s]
      BY <1>3 DEF DestroyContext, Detach
    <2>3. \A s \in Surfaces : context_id[s] = c => ~decode_pending'[s] /\ context_id'[s] = NoContext
      <3> SUFFICES ASSUME NEW s \in Surfaces, context_id[s] = c
                   PROVE  ~decode_pending'[s] /\ context_id'[s] = NoContext
        OBVIOUS
      <3>1. CASE allocated[s]
        BY <1>3, <3>1, ConstantsAssumption DEF DestroyContext, Detach
      <3>2. CASE ~allocated[s]
        BY <3>2, ConstantsAssumption DEF FifoInv, UnallocatedEmpty
      <3> QED
        BY <3>1, <3>2
    <2>4. FifoIsPending'
      <3> SUFFICES ASSUME NEW d \in Contexts, d # c, ctx_state[d] # "free"
                   PROVE  IsFifo(submitted[d], Waiting(d)')
        BY <1>1, <2>1, FifoShow, FifoUse DEF FifoInv
      <3>1. Waiting(d)' = Waiting(d)
        BY <2>2, <2>3, ConstantsAssumption DEF Waiting
      <3> QED
        BY <3>1, FifoUse DEF FifoInv
    <2>5. PendingIsClean'
      BY <2>1, <2>2, <2>3 DEF FifoInv, PendingIsClean
    <2>6. PictureIsLast'
      BY <2>1 DEF FifoInv, PictureIsLast
    <2>7. FreeUnused' /\ UnallocatedEmpty'
      <3>1. FreeUnused'
        <4> SUFFICES ASSUME NEW d \in Contexts, ctx_state'[d] = "free", NEW s \in Surfaces
                     PROVE  context_id'[s] # d
          BY DEF FreeUnused
        <4>1. CASE context_id[s] = c
          BY <2>3, <4>1, ConstantsAssumption
        <4>2. CASE context_id[s] # c
          <5>1. d # c => context_id[s] # d
            BY <2>1 DEF FifoInv, FreeUnused
          <5> QED
            BY <2>2, <4>2, <5>1
        <4> QED
          BY <4>1, <4>2
      <3>2. \A s \in Surfaces : ~allocated[s] => context_id[s] # c
        BY ConstantsAssumption DEF FifoInv, UnallocatedEmpty
      <3>3. UnallocatedEmpty'
        BY <2>1, <2>2, <3>2 DEF FifoInv, UnallocatedEmpty
      <3> QED
        BY <3>1, <3>3
    <2>8. \A u \in Threads : SyncerSurface(u)'
      BY <2>1, <2>2, QuietCall DEF FifoInv, PendingIsClean
    <2> QED
      BY <2>4, <2>5, <2>6, <2>7, <2>8 DEF FifoInv
  <1>4. CASE DestroyContextFails(c) \/ RenderPicture(c) \/ EndPicture(c)
    <2>1. /\ Free
          /\ UNCHANGED <<submitted, allocated, decode_pending, context_id, lock_count,
                         pc, call>>
          /\ \A d \in Contexts : ctx_state'[d] = "free" <=> ctx_state[d] = "free"
      BY <1>4
      DEF DestroyContextFails, RenderPicture, EndPicture, IsRunning, PictureOpen,
          surfVars, thrVars
    <2>2. \A d \in Contexts : decode_picture_active'[d] =>
             /\ decode_picture_active[d]
             /\ current_render_target'[d] = current_render_target[d]
      BY <1>4 DEF DestroyContextFails, RenderPicture, EndPicture
    <2>3. \A s \in Surfaces : /\ context_usage_mask[s] \subseteq context_usage_mask'[s]
                              /\ frame'[s] \in {frame[s], NoOutput}
      BY <1>4 DEF DestroyContextFails, RenderPicture, EndPicture, RetainUsage, surfVars
    <2>4. \A s \in Surfaces : decode_pending[s] => decode_error'[s] = decode_error[s]
      <3>1. \A s \in FramesOf(c) : ~decode_pending[s]
        BY DEF FramesOf, HasFrame, FifoInv, PendingIsClean
      <3> QED
        <4>1. CASE DestroyContextFails(c)
          <5>1. \E kept \in SUBSET FramesOf(c) :
                   decode_error' = [s \in Surfaces |-> decode_error[s] \/ s \in kept]
            BY <4>1 DEF DestroyContextFails
          <5>2. PICK kept \in SUBSET FramesOf(c) :
                   decode_error' = [s \in Surfaces |-> decode_error[s] \/ s \in kept]
            BY <5>1
          <5> QED
            BY <3>1, <5>2
        <4>2. CASE RenderPicture(c) \/ EndPicture(c)
          BY <4>2 DEF RenderPicture, EndPicture, surfVars
        <4> QED
          BY <1>4, <4>1, <4>2
    <2>5. UnallocatedEmpty'
      BY <2>1, <2>3 DEF FifoInv, UnallocatedEmpty
    <2>6. \A s \in Surfaces : decode_pending[s] =>
             /\ allocated[s] /\ frame'[s] = NoOutput /\ lock_count[s] = 0
             /\ context_id[s] \in context_usage_mask'[s]
      BY <2>3 DEF FifoInv, PendingIsClean
    <2>7. \A u \in Threads : SyncerSurface(u)'
      BY <2>1, <2>4, <2>6, QuietCall
    <2> QED
      BY <2>1, <2>2, <2>5, <2>6, <2>7, QuietFifo DEF FifoInv
  <1>5. CASE RenderPictureAborts(c) \/ EndPictureAborts(c)
    <2>1. /\ Free /\ PictureOpen(c) /\ AbortPicture(c)
          /\ UNCHANGED <<allocated, frame, context_id, lock_count, pc, call>>
      BY <1>5 DEF RenderPictureAborts, EndPictureAborts
    <2>2. \A s \in Surfaces : context_usage_mask[s] \subseteq context_usage_mask'[s]
      <3>1. CASE RenderPictureAborts(c)
        <4>1. PICK R \in RefSets : context_usage_mask' = RetainUsage(c, R)
          BY <3>1 DEF RenderPictureAborts
        <4> QED
          BY <4>1 DEF RetainUsage
      <3>2. CASE EndPictureAborts(c)
        BY <3>2 DEF EndPictureAborts
      <3> QED
        BY <1>5, <3>1, <3>2
    <2>3. \E st \in {ctx_state[c], "running", "stopped"} :
             ctx_state' = [ctx_state EXCEPT ![c] = st]
      <3>1. CASE RenderPictureAborts(c)
        BY <3>1 DEF RenderPictureAborts
      <3>2. CASE EndPictureAborts(c)
        BY <3>2 DEF EndPictureAborts
      <3> QED
        BY <1>5, <3>1, <3>2
    <2>4. \A d \in Contexts : ctx_state'[d] = "free" <=> ctx_state[d] = "free"
      BY <2>1, <2>3 DEF PictureOpen
    <2>5. submitted' \in [Contexts -> Seq(Surfaces)]
      BY <1>1
    <2> QED
      BY <2>1, <2>2, <2>4, <2>5, AbortFifo
  <1> QED
    BY <1>2, <1>3, <1>4, <1>5 DEF ContextCall

-----------------------------------------------------------------------------
(* Threads.                                                                *)

LEMMA SyncReturnPc ==
    ASSUME TypeInv, NEW t \in Threads, NEW ok, SyncReturn(t, ok)
    PROVE  /\ SyncerSurface(t)'
           /\ \A u \in Threads \ {t} : pc'[u] = pc[u] /\ call'[u] = call[u]
  BY SyncReturnMoves DEF SyncerSurface

(* Thread t leaves every surface and decoder as it is.                     *)
LEMMA QuietThread ==
    ASSUME TypeInv, SyncInv, FifoInv, NEW t \in Threads,
           UNCHANGED <<ctx_state, decode_picture_active, current_render_target,
                       submitted, surfVars>>,
           \A u \in Threads \ {t} : pc'[u] = pc[u] /\ call'[u] = call[u],
           SyncerSurface(t)'
    PROVE  FifoInv'
  <1>1. UNCHANGED <<allocated, decode_pending, decode_error, frame, context_id,
                    context_usage_mask, lock_count>>
    BY DEF surfVars
  <1>2. \A u \in Threads \ {t} : SyncerSurface(u)'
    BY <1>1, OtherSyncer DEF FifoInv, PendingIsClean
  <1>3. UnallocatedEmpty'
    BY <1>1 DEF FifoInv, UnallocatedEmpty
  <1>4. \A s \in Surfaces : decode_pending[s] =>
           /\ allocated[s] /\ frame[s] = NoOutput /\ lock_count[s] = 0
           /\ context_id[s] \in context_usage_mask[s]
    BY DEF FifoInv, PendingIsClean
  <1> QED
    BY <1>1, <1>2, <1>3, <1>4, QuietFifo DEF FifoInv

LEMMA CallStepFifo ==
    ASSUME TypeInv, SyncInv, FifoInv, NEW t \in Threads, NEW s \in Surfaces,
           \/ \E timed \in BOOLEAN : CallSyncSurface(t, s, timed)
           \/ \E c \in Contexts : CallBeginPicture(t, c, s)
    PROVE  FifoInv'
  <1>1. UNCHANGED <<ctx_state, decode_picture_active, current_render_target,
                    submitted, surfVars>>
    BY DEF CallSyncSurface, CallBeginPicture, ctxVars
  <1>2. /\ ~AtVpu(pc'[t])
        /\ \A u \in Threads \ {t} : pc'[u] = pc[u] /\ call'[u] = call[u]
    BY DEF CallSyncSurface, CallBeginPicture, AtVpu, TypeInv, TypeOK, ThrTypes
  <1> QED
    BY <1>1, <1>2, QuietThread DEF SyncerSurface

LEMMA BeginFifo ==
    ASSUME TypeInv, SyncInv, FifoInv, NEW t \in Threads, BeginPicture(t)
    PROVE  FifoInv'
  <1>1. /\ pc[t] = "begin" /\ ~AtVpu(pc'[t]) /\ mutex = NoThread
        /\ \A u \in Threads \ {t} : pc'[u] = pc[u] /\ call'[u] = call[u]
    BY DEF BeginPicture, BeginSleeps, BeginFails, BeginSyncs, BeginRefused, BeginAccepts,
           AtBegin, AtVpu, Return, Free, TypeInv, TypeOK, ThrTypes
  <1>2. SyncerSurface(t)'
    BY <1>1 DEF SyncerSurface
  <1>3. CASE ~BeginAccepts(t)
    <2>1. UNCHANGED <<ctx_state, decode_picture_active, current_render_target,
                      submitted, surfVars>>
      BY <1>3 DEF BeginPicture, BeginSleeps, BeginFails, BeginSyncs, BeginRefused, ctxVars
    <2> QED
      BY <1>1, <1>2, <2>1, QuietThread
  <1>4. CASE BeginAccepts(t)
    <2> USE DEF TypeInv, TypeOK, CtxTypes, SurfTypes
    <2>a. PICK c \in Contexts, s \in Surfaces, q \in Seq(Surfaces) :
             c = call[t].ctx /\ s = call[t].surf /\ q = submitted[c]
      <3>1. call[t].ctx \in Contexts /\ call[t].surf \in Surfaces
        BY <1>1, ThreadFacts DEF LocalsSet
      <3>2. submitted[call[t].ctx] \in Seq(Surfaces)
        BY <3>1
      <3> QED
        BY <3>1, <3>2
    <2>1. /\ q = submitted[c]
          /\ ctx_state[c] # "free" /\ ~sync_active[c] /\ ~decode_picture_active[c]
          /\ allocated[s] /\ lock_count[s] = 0 /\ ~decode_pending[s]
          /\ Len(q) < RingSize
      BY <1>4, <2>a DEF BeginAccepts, MaySubmit, MayBegin
    <2>2. /\ frame' = [frame EXCEPT ![s] = NoOutput]
          /\ context_usage_mask' = RetainUsage(c, {s})
          /\ context_id' = [context_id EXCEPT ![s] = c]
          /\ current_render_target' = [current_render_target EXCEPT ![c] = s]
          /\ decode_pending' = [decode_pending EXCEPT ![s] = TRUE]
          /\ decode_error' = [decode_error EXCEPT ![s] = FALSE]
          /\ submitted' = [submitted EXCEPT ![c] = Append(q, s)]
          /\ decode_picture_active' = [decode_picture_active EXCEPT ![c] = TRUE]
          /\ UNCHANGED <<ctx_state, allocated, lock_count>>
      BY <1>4, <2>a DEF BeginAccepts
    <2>3. c \in context_usage_mask'[s]
          /\ \A x \in Surfaces : context_usage_mask[x] \subseteq context_usage_mask'[x]
      BY <2>1, <2>2 DEF RetainUsage
    <2>4. IsFifo(q, Waiting(c)) /\ s \notin Waiting(c)
      BY <2>1, FifoUse DEF FifoInv, Waiting
    <2>5. IsFifo(Append(q, s), Waiting(c) \cup {s}) /\ Append(q, s)[Len(Append(q, s))] = s
      BY <2>1, <2>4, FifoAppends
    <2>6. Len(Append(q, s)) = Len(q) + 1 /\ Append(q, s) # << >>
      BY AppendGrows
    <2>7. FifoIsPending'
      <3> SUFFICES ASSUME NEW d \in Contexts, ctx_state'[d] # "free"
                   PROVE  /\ submitted'[d] \in Seq(Surfaces)
                          /\ Len(submitted'[d]) <= RingSize
                          /\ IsFifo(submitted'[d], Waiting(d)')
        BY FifoShow
      <3>1. CASE d = c
        <4>1. ASSUME NEW x \in Surfaces
              PROVE  x \in Waiting(c)' <=> x \in Waiting(c) \cup {s}
          <5>1. CASE x = s
            BY <2>1, <2>2, <5>1 DEF Waiting
          <5>2. CASE x # s
            BY <2>2, <5>2 DEF Waiting
          <5> QED
            BY <5>1, <5>2
        <4>2. Waiting(c)' = Waiting(c) \cup {s}
          BY <2>1, <4>1 DEF Waiting
        <4>3. submitted'[c] = Append(q, s)
          BY <2>1, <2>2
        <4>4. Len(Append(q, s)) <= RingSize
          BY <2>1, <2>6, ConstantsAssumption
        <4>5. Append(q, s) \in Seq(Surfaces)
          BY <2>1
        <4> QED
          BY <2>5, <3>1, <4>2, <4>3, <4>4, <4>5
      <3>2. CASE d # c
        <4>1. Waiting(d)' = Waiting(d)
          BY <2>1, <2>2, <3>2 DEF Waiting
        <4> QED
          BY <2>2, <3>2, <4>1, FifoUse DEF FifoInv
      <3> QED
        BY <3>1, <3>2
    <2>8. PendingIsClean'
      BY <2>1, <2>2, <2>3 DEF FifoInv, PendingIsClean
    <2>9. PictureIsLast'
      BY <2>1, <2>2, <2>5, <2>6 DEF FifoInv, PictureIsLast
    <2>10. FreeUnused' /\ UnallocatedEmpty'
      BY <2>1, <2>2 DEF FifoInv, FreeUnused, UnallocatedEmpty
    <2>11. ASSUME NEW u \in Threads \ {t} PROVE SyncerSurface(u)'
      <3>1. pc[u] # "loop"
        BY <1>1, ConstantsAssumption DEF SyncInv, LoopHoldsMutex
      <3> QED
        BY <1>1, <2>1, <2>2, <3>1, OtherSyncer DEF FifoInv, PendingIsClean
    <2> QED
      BY <1>2, <2>7, <2>8, <2>9, <2>10, <2>11 DEF FifoInv
  <1> QED
    BY <1>3, <1>4

LEMMA SyncChecksFifo ==
    ASSUME TypeInv, SyncInv, FifoInv, NEW t \in Threads, SyncChecks(t)
    PROVE  FifoInv'
  <1>1. UNCHANGED <<ctx_state, decode_picture_active, current_render_target,
                    submitted, surfVars>>
    BY DEF SyncChecks, SyncEnter, SyncGivesUp, SyncSleeps, SyncRetriesOutput, SyncStarts,
           SyncTooLate, SleepTimesOut, ctxVars
  <1>2. CASE SyncStarts(t)
    <2> DEFINE s == call[t].surf
               c == context_id[s]
    <2>1. /\ pc[t] = "check" /\ Unsettled(s) /\ c \in Contexts
          /\ pc' = [pc EXCEPT ![t] = "loop"]
          /\ call' = [call EXCEPT ![t] = [call[t] EXCEPT !.cid = c, !.tries = MaxAttempts]]
      BY <1>2 DEF SyncStarts, OwnerLive, AtCheck, IsRunning
    <2> HIDE DEF c
    <2>2. /\ pc'[t] = "loop"
          /\ call'[t] = [call[t] EXCEPT !.cid = c, !.tries = MaxAttempts]
          /\ \A u \in Threads \ {t} : pc'[u] = pc[u] /\ call'[u] = call[u]
      BY <2>1 DEF TypeInv, TypeOK, ThrTypes
    <2>3. call'[t].cid = c /\ call'[t].surf = s
      BY <2>2, ThreadFacts DEF Calls
    <2>4. SyncerSurface(t)'
      <3>1. allocated'[s] /\ context_id'[s] = c /\ decode_pending'[s]
        BY <1>1, <2>1 DEF surfVars, Unsettled, c
      <3> HIDE DEF s
      <3> QED
        BY <2>2, <2>3, <3>1 DEF SyncerSurface
    <2> QED
      BY <1>1, <2>2, <2>4, QuietThread
  <1>3. CASE ~SyncStarts(t)
    <2>1. ASSUME NEW ok, SyncReturn(t, ok)
          PROVE  FifoInv'
      BY <1>1, <2>1, SyncReturnPc, QuietThread
    <2>2. ASSUME ~AtVpu(pc'[t]), \A u \in Threads \ {t} : pc'[u] = pc[u] /\ call'[u] = call[u]
          PROVE  FifoInv'
      BY <1>1, <2>2, QuietThread DEF SyncerSurface
    <2>3. CASE SyncEnter(t)
      BY <2>1, <2>2, <2>3 DEF SyncEnter, AtVpu, TypeInv, TypeOK, ThrTypes
    <2>4. CASE SyncGivesUp(t)
      BY <2>1, <2>4 DEF SyncGivesUp
    <2>5. CASE SyncSleeps(t)
      BY <2>2, <2>5 DEF SyncSleeps, OwnerLive, AtCheck, AtVpu, TypeInv, TypeOK, ThrTypes
    <2>6. CASE SyncRetriesOutput(t)
      BY <2>1, <2>2, <2>6 DEF SyncRetriesOutput, OwnerLive, AtCheck, AtVpu
    <2>7. CASE SyncTooLate(t)
      BY <2>1, <2>7 DEF SyncTooLate
    <2>8. CASE SleepTimesOut(t)
      BY <2>1, <2>2, <2>8 DEF SleepTimesOut, AtVpu
    <2> QED
      BY <1>3, <2>3, <2>4, <2>5, <2>6, <2>7, <2>8 DEF SyncChecks
  <1> QED
    BY <1>2, <1>3

LEMMA SyncLoopsFifo ==
    ASSUME TypeInv, SyncInv, FifoInv, NEW t \in Threads, SyncLoops(t)
    PROVE  FifoInv'
  <1>1. pc[t] = "loop" /\ mutex = t /\ AtVpu(pc[t])
    BY DEF SyncLoops, SyncDone, SyncBreaks, SyncUnlocks, AtLoop, AtVpu
  <1>2. CASE SyncDone(t) \/ SyncBreaks(t)
    <2>1. PICK ok : FinishSync(t, call[t].cid, ok)
      BY <1>2 DEF SyncDone, SyncBreaks
    <2>2. UNCHANGED <<ctx_state, decode_picture_active, current_render_target,
                      submitted, surfVars>>
      BY <1>2 DEF SyncDone, SyncBreaks
    <2> QED
      BY <2>1, <2>2, SyncReturnPc, QuietThread DEF FinishSync
  <1>3. CASE SyncUnlocks(t)
    <2> DEFINE s == NextTarget(t)
               n == TriesLeft(t)
               x == call[t].surf
    <2>1. /\ pc' = [pc EXCEPT ![t] = "dequeue"]
          /\ call' = [call EXCEPT ![t] = [call[t] EXCEPT !.target = s, !.tries = n]]
          /\ frame' = [frame EXCEPT ![s] = NoOutput]
          /\ ~HasFrame(x) /\ ~decode_error[x]
          /\ UNCHANGED <<ctx_state, decode_picture_active, current_render_target,
                         submitted, allocated, decode_pending, decode_error, context_id,
                         context_usage_mask, lock_count>>
      BY <1>3 DEF SyncUnlocks, LoopDone, ctxVars
    <2> HIDE DEF n, s
    <2>2. /\ pc'[t] = "dequeue"
          /\ call'[t] = [call[t] EXCEPT !.target = s, !.tries = n]
          /\ \A u \in Threads \ {t} : pc'[u] = pc[u] /\ call'[u] = call[u]
      BY <2>1 DEF TypeInv, TypeOK, ThrTypes
    <2>3. call'[t].cid = call[t].cid /\ call'[t].surf = x
      BY <2>2, ThreadFacts DEF Calls
    <2>4. SyncerSurface(t)'
      <3>1. /\ allocated[x] /\ context_id[x] = call[t].cid
            /\ decode_pending[x] /\ ~decode_error[x]
        BY <1>1, <2>1 DEF FifoInv, SyncerSurface
      <3> HIDE DEF x
      <3> QED
        BY <2>1, <2>2, <2>3, <3>1 DEF SyncerSurface
    <2>5. \A y \in Surfaces : frame'[y] \in {frame[y], NoOutput}
      BY <2>1 DEF TypeInv, TypeOK, SurfTypes
    <2>6. UnallocatedEmpty'
      BY <2>1, <2>5 DEF FifoInv, UnallocatedEmpty
    <2>7. \A y \in Surfaces : decode_pending[y] =>
             /\ allocated[y] /\ frame'[y] = NoOutput /\ lock_count[y] = 0
             /\ context_id[y] \in context_usage_mask[y]
      BY <2>5 DEF FifoInv, PendingIsClean
    <2>8. ASSUME NEW u \in Threads \ {t} PROVE SyncerSurface(u)'
      <3>1. pc[u] # "loop"
        BY <1>1, NobodyElseLoops
      <3> QED
        BY <2>1, <2>2, <2>7, <3>1, OtherSyncer
    <2> QED
      BY <2>1, <2>4, <2>6, <2>7, <2>8, QuietFifo DEF FifoInv
  <1> QED
    BY <1>2, <1>3 DEF SyncLoops

LEMMA VpuAnswersFifo ==
    ASSUME TypeInv, SyncInv, FifoInv, NEW t \in Threads, VpuAnswers(t)
    PROVE  FifoInv'
  <1>1. /\ pc[t] = "dequeue" /\ pc' = [pc EXCEPT ![t] = "resume"]
        /\ UNCHANGED <<ctx_state, decode_picture_active, current_render_target,
                       submitted, surfVars, call>>
    BY DEF VpuAnswers, VpuSilent, VpuHollow, VpuOutputs, ctxVars
  <1>2. pc'[t] = "resume" /\ \A u \in Threads \ {t} : pc'[u] = pc[u]
    BY <1>1 DEF TypeInv, TypeOK, ThrTypes
  <1>3. SyncerSurface(t)'
    BY <1>1, <1>2 DEF FifoInv, SyncerSurface, AtVpu, surfVars
  <1> QED
    BY <1>1, <1>2, <1>3, QuietThread

(* What the thread finds when it comes back from the VPU: nothing changed, *)
(* and the picture it answers for is the oldest.                           *)
LEMMA ResumeFacts ==
    ASSUME TypeInv, SyncInv, FifoInv, NEW t \in Threads, AtResume(t),
           NEW c, c = call[t].cid, NEW s, s = call[t].target
    PROVE  /\ StillMine(t) /\ c \in Contexts /\ call[t].surf \in Surfaces
           /\ ~decode_picture_active[c] /\ ~decode_error[call[t].surf]
           /\ submitted[c] \in Seq(Surfaces) /\ submitted[c] # << >>
           /\ Len(submitted[c]) <= RingSize
           /\ IsFifo(submitted[c], Waiting(c))
           /\ s = Head(submitted[c]) /\ s \in Waiting(c) /\ allocated[s]
           /\ \A u \in Threads \ {t} : pc[u] # "loop"
           /\ \A u \in Threads \ {t} : AtVpu(pc[u]) => call[u].cid # c
  <1> DEFINE q == submitted[c]
  <1>1. pc[t] = "resume" /\ AtVpu(pc[t]) /\ mutex = NoThread
    BY DEF AtResume, Free, AtVpu
  <1>2. /\ c \in Contexts /\ sync_active[c] /\ ctx_state[c] = "running"
        /\ ~decode_picture_active[c] /\ s = NextTarget(t)
    BY <1>1, SyncFacts
  <1>3. /\ call[t].surf \in Surfaces /\ allocated[call[t].surf]
        /\ context_id[call[t].surf] = c
        /\ decode_pending[call[t].surf] /\ ~decode_error[call[t].surf]
    BY <1>1, ThreadFacts DEF FifoInv, SyncerSurface, LocalsSet
  <1>4. StillMine(t)
    BY <1>2, <1>3 DEF StillMine
  <1>5. q \in Seq(Surfaces) /\ Len(q) <= RingSize /\ IsFifo(q, Waiting(c))
    BY <1>2, FifoUse DEF FifoInv
  <1>6. call[t].surf \in Waiting(c)
    BY <1>3 DEF Waiting
  <1>7. q # << >> /\ Head(q) \in Waiting(c)
    BY <1>3, <1>5, <1>6, HeadIsIn
  <1>8. s = Head(q)
    BY <1>2, <1>7 DEF NextTarget
  <1>9. allocated[s]
    BY <1>7, <1>8 DEF Waiting, FifoInv, PendingIsClean
  <1>10. \A u \in Threads \ {t} : pc[u] # "loop"
    BY <1>1, NobodyElseLoops
  <1>11. \A u \in Threads \ {t} : AtVpu(pc[u]) => call[u].cid # c
    BY <1>1, <1>2 DEF SyncInv, OneSyncer, Syncing, AtVpu
  <1> QED
    BY <1>2, <1>3, <1>4, <1>5, <1>7, <1>8, <1>9, <1>10, <1>11

(* The oldest picture is settled: its surface leaves the FIFO and is in    *)
(* error or shows a frame.                                                 *)
LEMMA SettleFifo ==
    ASSUME TypeInv, SyncInv, FifoInv, NEW t \in Threads, AtResume(t),
           NEW c, c = call[t].cid, NEW s, s = call[t].target,
           PopSubmitted(c),
           decode_pending' = [decode_pending EXCEPT ![s] = FALSE],
           UNCHANGED <<ctx_state, decode_picture_active, current_render_target,
                       allocated, context_id, context_usage_mask, lock_count>>,
           \A x \in Surfaces \ {s} :
              decode_error'[x] = decode_error[x] /\ frame'[x] = frame[x],
           decode_error'[s] \/ HasFrame(s)',
           \A u \in Threads \ {t} : pc'[u] = pc[u] /\ call'[u] = call[u],
           \/ ~AtVpu(pc'[t])
           \/ pc'[t] = "loop" /\ call'[t] = call[t]
    PROVE  FifoInv'
  <1> DEFINE q == submitted[c]
  <1>1. /\ c \in Contexts /\ s \in Surfaces /\ call[t].surf \in Surfaces
        /\ ~decode_picture_active[c] /\ ~decode_error[call[t].surf]
        /\ q \in Seq(Surfaces) /\ q # << >> /\ Len(q) <= RingSize
        /\ IsFifo(q, Waiting(c)) /\ s = Head(q)
        /\ context_id[s] = c /\ allocated[s]
        /\ allocated[call[t].surf] /\ context_id[call[t].surf] = c
        /\ decode_pending[call[t].surf]
        /\ \A u \in Threads \ {t} : pc[u] # "loop"
        /\ \A u \in Threads \ {t} : AtVpu(pc[u]) => call[u].cid # c
    <2>1. /\ StillMine(t) /\ c \in Contexts /\ call[t].surf \in Surfaces
          /\ ~decode_picture_active[c] /\ ~decode_error[call[t].surf]
          /\ q \in Seq(Surfaces) /\ q # << >> /\ Len(q) <= RingSize
          /\ IsFifo(q, Waiting(c)) /\ s = Head(q) /\ s \in Waiting(c) /\ allocated[s]
          /\ \A u \in Threads \ {t} : pc[u] # "loop"
          /\ \A u \in Threads \ {t} : AtVpu(pc[u]) => call[u].cid # c
      BY ResumeFacts
    <2>2. s \in Surfaces /\ context_id[s] = c
      BY <2>1 DEF Waiting
    <2>3. /\ allocated[call[t].surf] /\ context_id[call[t].surf] = c
          /\ decode_pending[call[t].surf]
      BY <2>1 DEF StillMine
    <2> QED
      BY <2>1, <2>2, <2>3
  <1> USE DEF TypeInv, TypeOK, CtxTypes, SurfTypes
  <1>2. /\ submitted'[c] = Tail(q)
        /\ \A d \in Contexts \ {c} : submitted'[d] = submitted[d]
    BY <1>1 DEF PopSubmitted
  <1>3. /\ ~decode_pending'[s]
        /\ \A x \in Surfaces \ {s} : decode_pending'[x] = decode_pending[x]
    BY <1>1
  <1>4. /\ Tail(q) \in Seq(Surfaces) /\ Len(Tail(q)) <= RingSize
    <2>1. Len(q) \in Nat \ {0} /\ Len(Tail(q)) = Len(q) - 1 /\ Tail(q) \in Seq(Surfaces)
      BY <1>1, TailShrinks
    <2> QED
      BY <1>1, <2>1, ConstantsAssumption
  <1>5. FifoIsPending'
    <2> SUFFICES ASSUME NEW d \in Contexts, ctx_state'[d] # "free"
                 PROVE  /\ submitted'[d] \in Seq(Surfaces)
                        /\ Len(submitted'[d]) <= RingSize
                        /\ IsFifo(submitted'[d], Waiting(d)')
      BY FifoShow
    <2>1. CASE d = c
      <3>1. Waiting(c)' = Waiting(c) \ {s}
        BY <1>1, <1>3 DEF Waiting
      <3>2. IsFifo(Tail(q), Waiting(c) \ {s})
        BY <1>1, FifoPops
      <3> QED
        BY <1>2, <1>4, <2>1, <3>1, <3>2
    <2>2. CASE d # c
      <3>1. Waiting(d)' = Waiting(d)
        BY <1>1, <1>3, <2>2 DEF Waiting
      <3> QED
        BY <1>2, <2>2, <3>1, FifoUse DEF FifoInv
    <2> QED
      BY <2>1, <2>2
  <1>6. PendingIsClean'
    BY <1>1, <1>3 DEF FifoInv, PendingIsClean
  <1>7. PictureIsLast'
    BY <1>1, <1>2 DEF FifoInv, PictureIsLast
  <1>8. FreeUnused' /\ UnallocatedEmpty'
    BY <1>1 DEF FifoInv, FreeUnused, UnallocatedEmpty
  <1>9. SyncerSurface(t)'
    <2>1. CASE ~AtVpu(pc'[t])
      BY <2>1 DEF SyncerSurface
    <2>2. CASE pc'[t] = "loop" /\ call'[t] = call[t]
      <3> DEFINE x == call[t].surf
      <3>1. decode_pending'[x] \/ decode_error'[x] \/ HasFrame(x)'
        BY <1>1, <1>3, <2>2
      <3> QED
        BY <1>1, <2>2, <3>1 DEF SyncerSurface
    <2> QED
      BY <2>1, <2>2
  <1>10. ASSUME NEW u \in Threads \ {t} PROVE SyncerSurface(u)'
    <2>1. CASE ~AtVpu(pc[u])
      BY <2>1 DEF SyncerSurface
    <2>2. CASE AtVpu(pc[u])
      <3>1. \A x \in Surfaces : decode_pending[x] /\ context_id[x] = call[u].cid =>
               /\ allocated'[x] /\ decode_pending'[x]
               /\ context_id'[x] = context_id[x] /\ decode_error'[x] = decode_error[x]
        BY <1>1, <1>3, <2>2 DEF FifoInv, PendingIsClean
      <3> QED
        BY <1>1, <3>1, OtherSyncer
    <2> QED
      BY <2>1, <2>2
  <1> QED
    BY <1>5, <1>6, <1>7, <1>8, <1>9, <1>10 DEF FifoInv

LEMMA SyncResumesFifo ==
    ASSUME TypeInv, SyncInv, FifoInv, NEW t \in Threads, SyncResumes(t)
    PROVE  FifoInv'
  <1>a. PICK c, s : c = call[t].cid /\ s = call[t].target
    OBVIOUS
  <1>1. AtResume(t) /\ pc[t] = "resume"
    BY DEF SyncResumes, SyncLost, SyncRepeats, SyncDropsHollow, SyncDropsBad,
           SyncKeepsFrame, AtResume
  <1>2. /\ StillMine(t) /\ c \in Contexts /\ s \in Surfaces /\ allocated[s]
        /\ call[t].surf \in Surfaces /\ ~decode_error[call[t].surf]
        /\ decode_pending[s] /\ context_id[s] = c
        /\ \A u \in Threads \ {t} : pc[u] # "loop"
        /\ \A u \in Threads \ {t} : AtVpu(pc[u]) => call[u].cid # c
    <2>1. /\ StillMine(t) /\ c \in Contexts /\ allocated[s] /\ s \in Waiting(c)
          /\ call[t].surf \in Surfaces /\ ~decode_error[call[t].surf]
          /\ \A u \in Threads \ {t} : pc[u] # "loop"
          /\ \A u \in Threads \ {t} : AtVpu(pc[u]) => call[u].cid # c
      BY <1>a, <1>1, ResumeFacts
    <2>2. s \in Surfaces /\ decode_pending[s] /\ context_id[s] = c
      BY <2>1 DEF Waiting
    <2> QED
      BY <2>1, <2>2
  <1>3. ASSUME pc' = [pc EXCEPT ![t] = "loop"], UNCHANGED call
        PROVE  /\ pc'[t] = "loop" /\ call'[t] = call[t]
               /\ \A u \in Threads \ {t} : pc'[u] = pc[u] /\ call'[u] = call[u]
    BY <1>3 DEF TypeInv, TypeOK, ThrTypes
  <1>4. ASSUME NEW out, RecycleOutput(t, c, out)
        PROVE  /\ \/ ~AtVpu(pc'[t])
                  \/ pc'[t] = "loop" /\ call'[t] = call[t]
               /\ \A u \in Threads \ {t} : pc'[u] = pc[u] /\ call'[u] = call[u]
    <2>1. PICK r \in QueueResults(call[t].timed) : RecycleOutput(t, c, out)!(r)
      BY <1>4 DEF RecycleOutput
    <2>2. CASE r = "ok"
      BY <1>3, <2>1, <2>2
    <2>3. CASE r # "ok"
      BY <2>1, <2>3, SyncReturnMoves DEF FinishSync
    <2> QED
      BY <2>2, <2>3
  <1>5. ASSUME pc'[t] = "loop", call'[t] = call[t], UNCHANGED surfVars
        PROVE  SyncerSurface(t)'
    BY <1>1, <1>5 DEF FifoInv, SyncerSurface, AtVpu, surfVars
  <1>6. CASE SyncLost(t)
    <2>1. /\ UNCHANGED <<ctx_state, decode_picture_active, current_render_target,
                         submitted, allocated, decode_pending, frame, context_id,
                         context_usage_mask, lock_count>>
          /\ SyncReturn(t, FALSE)
      BY <1>6 DEF SyncLost, FinishSync
    <2>2. \A x \in Surfaces : context_id[x] # c => decode_error'[x] = decode_error[x]
      BY <1>a, <1>2, <1>6 DEF SyncLost, StillMine, TypeInv, TypeOK, SurfTypes
    <2>3. /\ SyncerSurface(t)'
          /\ \A u \in Threads \ {t} : pc'[u] = pc[u] /\ call'[u] = call[u]
      BY <2>1, SyncReturnPc
    <2>4. ASSUME NEW u \in Threads \ {t} PROVE SyncerSurface(u)'
      <3>1. CASE ~AtVpu(pc[u])
        BY <2>3, <3>1 DEF SyncerSurface
      <3>2. CASE AtVpu(pc[u])
        BY <1>2, <2>1, <2>2, <2>3, <3>2, OtherSyncer DEF FifoInv, PendingIsClean
      <3> QED
        BY <3>1, <3>2
    <2>5. UnallocatedEmpty'
      BY <2>1 DEF FifoInv, UnallocatedEmpty
    <2>6. \A x \in Surfaces : decode_pending[x] =>
             /\ allocated[x] /\ frame[x] = NoOutput /\ lock_count[x] = 0
             /\ context_id[x] \in context_usage_mask[x]
      BY DEF FifoInv, PendingIsClean
    <2> QED
      BY <2>1, <2>3, <2>4, <2>5, <2>6, QuietFifo DEF FifoInv
  <1>7. CASE SyncRepeats(t)
    <2>1. /\ UNCHANGED <<ctx_state, decode_picture_active, current_render_target,
                         submitted, surfVars, call>>
          /\ pc' = [pc EXCEPT ![t] = "loop"]
      BY <1>7 DEF SyncRepeats, ctxVars
    <2> QED
      BY <1>3, <1>5, <2>1, QuietThread
  <1>8. CASE SyncDropsHollow(t)
    <2>1. /\ UNCHANGED <<ctx_state, decode_picture_active, current_render_target,
                         submitted, surfVars>>
          /\ RecycleOutput(t, c, hand[t].out)
      BY <1>a, <1>8 DEF SyncDropsHollow
    <2>2. SyncerSurface(t)'
      BY <1>4, <1>5, <2>1 DEF SyncerSurface
    <2> QED
      BY <1>4, <2>1, <2>2, QuietThread
  <1>9. CASE SyncDropsBad(t)
    <2>1. /\ PopSubmitted(c) /\ RecycleOutput(t, c, hand[t].out)
          /\ decode_pending' = [decode_pending EXCEPT ![s] = FALSE]
          /\ decode_error' = [decode_error EXCEPT ![s] = TRUE]
          /\ UNCHANGED <<ctx_state, decode_picture_active, current_render_target,
                         allocated, frame, context_id, context_usage_mask, lock_count>>
      BY <1>a, <1>2, <1>9 DEF SyncDropsBad
    <2>2. /\ decode_error'[s]
          /\ \A x \in Surfaces \ {s} : decode_error'[x] = decode_error[x]
      BY <1>2, <2>1 DEF TypeInv, TypeOK, SurfTypes
    <2> QED
      BY <1>a, <1>1, <1>2, <1>4, <2>1, <2>2, SettleFifo
  <1>10. CASE SyncKeepsFrame(t)
    <2>1. /\ PopSubmitted(c) /\ hand[t].reply = "frame"
          /\ frame' = [frame EXCEPT ![s] = hand[t].out]
          /\ decode_pending' = [decode_pending EXCEPT ![s] = FALSE]
          /\ decode_error' = [decode_error EXCEPT ![s] = FALSE]
          /\ pc' = [pc EXCEPT ![t] = "loop"]
          /\ UNCHANGED <<ctx_state, decode_picture_active, current_render_target,
                         allocated, context_id, context_usage_mask, lock_count, call>>
      BY <1>a, <1>2, <1>10 DEF SyncKeepsFrame
    <2>2. hand[t].out # NoOutput
      BY <2>1, ThreadFacts, ConstantsAssumption DEF LocalsSet, Outputs
    <2>3. /\ HasFrame(s)'
          /\ \A x \in Surfaces \ {s} :
                decode_error'[x] = decode_error[x] /\ frame'[x] = frame[x]
      BY <1>2, <2>1, <2>2 DEF HasFrame, TypeInv, TypeOK, SurfTypes
    <2> QED
      BY <1>a, <1>1, <1>2, <1>3, <2>1, <2>3, SettleFifo
  <1> QED
    BY <1>6, <1>7, <1>8, <1>9, <1>10 DEF SyncResumes

-----------------------------------------------------------------------------
LEMMA FifoInit == Init => FifoInv
  <1> SUFFICES ASSUME Init PROVE FifoInv
    OBVIOUS
  <1>1. FifoIsPending /\ PictureIsLast
    BY DEF Init, FifoIsPending, PictureIsLast
  <1>2. PendingIsClean /\ UnallocatedEmpty
    BY DEF Init, PendingIsClean, UnallocatedEmpty
  <1>3. FreeUnused
    BY ConstantsAssumption DEF Init, FreeUnused
  <1>4. \A t \in Threads : SyncerSurface(t)
    BY DEF Init, SyncerSurface, AtVpu
  <1> QED
    BY <1>1, <1>2, <1>3, <1>4 DEF FifoInv

LEMMA FifoStep == TypeInv /\ SyncInv /\ FifoInv /\ [Next]_vars => FifoInv'
  <1> SUFFICES ASSUME TypeInv, SyncInv, FifoInv, [Next]_vars
               PROVE  FifoInv'
    OBVIOUS
  <1>1. ASSUME NEW t \in Threads, ThreadStep(t)
        PROVE  FifoInv'
    BY <1>1, BeginFifo, SyncChecksFifo, SyncLoopsFifo, VpuAnswersFifo, SyncResumesFifo
    DEF ThreadStep
  <1>2. CASE UNCHANGED vars
    BY <1>2 DEF vars, ctxVars, surfVars, thrVars, FifoInv, FifoIsPending, PendingIsClean,
       PictureIsLast, FreeUnused, UnallocatedEmpty, SyncerSurface, HasFrame
  <1> QED
    BY <1>1, <1>2, CallStepFifo, ContextCallFifo, SurfaceCallFifo, DestroySurfacesFifo
    DEF Next

THEOREM PairingHolds == Spec => []PairingInv
  BY TypesHold, SyncSafe, FifoInit, FifoStep, PTL DEF Spec, PairingInv

-----------------------------------------------------------------------------
(* The theorems.                                                           *)

(* The FIFO of submitted surfaces (hobot_submit_surface and its pops) holds *)
(* exactly the surfaces that decode, each once and never more than fit, for *)
(* any number of contexts, surfaces and threads.                           *)
THEOREM FifoCorrect == Spec => []FifoIsPending
  BY PairingHolds, PTL DEF PairingInv, FifoInv

(* A surface that decodes exists, is retained by a live context, is not    *)
(* locked by the CPU and shows no older picture.                           *)
THEOREM PendingCorrect == Spec => []PendingIsClean
  BY PairingHolds, PTL DEF PairingInv, FifoInv

(* The thread that comes back from the VPU finds its surface and decoder   *)
(* as it left them: the recheck of hobot_vaSyncSurfaceUntilLocked is never *)
(* the reason a sync fails.                                                *)
THEOREM RecheckPasses == Spec => []SurfaceStaysMine
  <1>1. PairingInv => SurfaceStaysMine
    <2> SUFFICES ASSUME TypeInv, SyncInv, FifoInv, NEW t \in Threads, AtVpu(pc[t])
                 PROVE  /\ ctx_state[call[t].cid] = "running"
                        /\ allocated[call[t].surf]
                        /\ pc[t] # "loop" => StillMine(t) /\ ~decode_error[call[t].surf]
      BY DEF PairingInv, SurfaceStaysMine, AtVpu
    <2>1. ctx_state[call[t].cid] = "running" /\ sync_active[call[t].cid]
      BY SyncFacts
    <2>2. SyncerSurface(t)
      BY DEF FifoInv
    <2> QED
      BY <2>1, <2>2 DEF SyncerSurface, StillMine
  <1> QED
    BY PairingHolds, <1>1, PTL

LEMMA FrameStaysLocked ==
    ASSUME PairingInv, [Next]_vars, NEW s \in Surfaces, lock_count[s] > 0
    PROVE  frame'[s] = frame[s]
  <1> USE DEF TypeInv, TypeOK, SurfTypes
  <1>0. TypeInv /\ SyncInv /\ FifoInv
    BY DEF PairingInv
  <1>1. lock_count[s] \in Nat /\ allocated[s] /\ ~decode_pending[s]
    BY <1>0, ConstantsAssumption DEF FifoInv, UnallocatedEmpty, PendingIsClean
  <1>2. CASE UNCHANGED frame
    BY <1>2
  <1>3. ASSUME NEW x \in Surfaces, SurfaceCall(x) PROVE frame'[s] = frame[s]
    BY <1>0, <1>1, <1>3
    DEF SurfaceCall, CreateSurface, LockSurface, UnlockSurface, EncoderTakes, PutImage
  <1>4. ASSUME NEW X \in SUBSET Surfaces, DestroySurfaces(X) PROVE frame'[s] = frame[s]
    BY <1>0, <1>1, <1>4 DEF DestroySurfaces, Destroyable
  <1>5. ASSUME NEW c \in Contexts, ContextCall(c) PROVE frame'[s] = frame[s]
    <2>1. CASE DestroyContext(c) \/ DestroyContextFails(c)
      <3>1. s \notin FramesOf(c)
        BY <1>1, <2>1
        DEF DestroyContext, DestroyContextFails, MayDestroyContext, HasLockedSurfaces,
            FramesOf
      <3> QED
        BY <1>0, <2>1, <3>1 DEF DestroyContext, DestroyContextFails, Detach
    <2>2. CASE ~(DestroyContext(c) \/ DestroyContextFails(c))
      BY <1>5, <2>2
      DEF ContextCall, CreateContext, RenderPicture, RenderPictureAborts, EndPicture,
          EndPictureAborts, surfVars
    <2> QED
      BY <2>1, <2>2
  <1>6. ASSUME NEW t \in Threads, ThreadStep(t) PROVE frame'[s] = frame[s]
    <2>1. CASE BeginAccepts(t)
      BY <1>0, <1>1, <2>1 DEF BeginAccepts, MaySubmit, MayBegin
    <2>2. CASE SyncUnlocks(t)
      BY <1>0, <1>1, <2>2 DEF SyncUnlocks
    <2>3. CASE SyncKeepsFrame(t)
      <3>1. decode_pending[call[t].target]
        BY <1>0, <2>3, ResumeFacts DEF SyncKeepsFrame, Waiting
      <3> QED
        BY <1>0, <1>1, <2>3, <3>1 DEF SyncKeepsFrame
    <2>4. CASE ~(BeginAccepts(t) \/ SyncUnlocks(t) \/ SyncKeepsFrame(t))
      <3>1. CASE BeginPicture(t) \/ SyncChecks(t)
        BY <2>4, <3>1
        DEF BeginPicture, BeginSleeps, BeginFails, BeginSyncs, BeginRefused, SyncChecks,
            SyncEnter, SyncGivesUp, SyncSleeps, SyncRetriesOutput, SyncStarts,
            SyncTooLate, SleepTimesOut, surfVars
      <3>2. CASE SyncLoops(t) \/ VpuAnswers(t) \/ SyncResumes(t)
        BY <2>4, <3>2
        DEF SyncLoops, SyncDone, SyncBreaks, VpuAnswers, VpuSilent, VpuHollow,
            VpuOutputs, SyncResumes, SyncLost, SyncRepeats, SyncDropsHollow,
            SyncDropsBad, surfVars
      <3> QED
        BY <1>6, <3>1, <3>2 DEF ThreadStep
    <2> QED
      BY <2>1, <2>2, <2>3, <2>4
  <1>7. ASSUME NEW t \in Threads, NEW x \in Surfaces,
               \/ \E timed \in BOOLEAN : CallSyncSurface(t, x, timed)
               \/ \E c \in Contexts : CallBeginPicture(t, c, x)
        PROVE  frame'[s] = frame[s]
    BY <1>7 DEF CallSyncSurface, CallBeginPicture, surfVars
  <1>8. CASE UNCHANGED vars
    BY <1>8 DEF vars, surfVars
  <1> QED
    BY <1>3, <1>4, <1>5, <1>6, <1>7, <1>8 DEF Next

(* No step of any thread takes the frame from under a CPU lock: every path *)
(* that recycles a frame (a new picture, an upload, a sync that reuses the *)
(* target, the destruction of the surface or of its decoder) excludes it.  *)
THEOREM LocksProtectFrames == Spec => LockedFrameStays
  <1>1. PairingInv /\ [Next]_vars =>
           [\A s \in Surfaces : lock_count[s] > 0 => frame'[s] = frame[s]]_vars
    BY FrameStaysLocked
  <1> QED
    BY PairingHolds, <1>1, PTL DEF Spec, LockedFrameStays
=============================================================================
