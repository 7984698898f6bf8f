------------------------- MODULE SurfaceAccessProof -------------------------
(***************************************************************************)
(* Proofs about SurfaceAccess: that memory the CPU can reach stays with    *)
(* its surface, whatever calls an application makes on pending surfaces;   *)
(* and, for an application that synchronises a surface before it locks it  *)
(* or derives an image, that the counters count what they stand for, that  *)
(* no write is lost in the CPU cache, and that devices and encoders only   *)
(* get surfaces the CPU is done with.                                      *)
(***************************************************************************)
EXTENDS SurfaceAccess, FiniteSetTheorems, TLAPS

-----------------------------------------------------------------------------
(* The inductive invariants, part by part.                                 *)

(* What a waiting call carries is there, and the surface it waits for is   *)
(* kept by a context.                                                      *)
CallInv ==
    \A t \in Threads :
        /\ pc[t] # "idle" => /\ call[t].op \in Unsynced
                             /\ call[t].surf \in Surfaces /\ used[call[t].surf]
        /\ call[t].op \in {"derive", "get", "put"} => call[t].img \in Images
        /\ call[t].op = "derive" => call[t].buf \in Buffers

(* A surface that a context has used exists, and a picture in progress has *)
(* a surface that a context uses.  A lock is only held on a surface that   *)
(* exists and has no picture in progress.                                  *)
LifeInv ==
    \A s \in Surfaces :
        /\ used[s] => allocated[s]
        /\ decode_pending[s] => used[s]
        /\ lock_count[s] > 0 => allocated[s] /\ ~decode_pending[s]

(* A buffer that shows s though no image leads to it: vaDeriveImage put    *)
(* another image into its image's slot.                                    *)
Shows(b, s) == buffer[b] # NoBuffer /\ buffer[b].data = s

LeadsTo(i, b, s) == image[i] # NoImage /\ image[i].buf_id = b /\ image[i].surface_id = s

Stray(b, s) == Shows(b, s) /\ \A i \in Images : ~LeadsTo(i, b, s)

(* Images and stray buffers, each of which has a lock on s.                *)
Pins(s) == {<<"image", i>> : i \in Views(s)}
           \cup {<<"buffer", b>> : b \in {c \in Buffers : Stray(c, s)}}

PinInv == \A s \in Surfaces : Cardinality(Pins(s)) + va_lock_count[s] <= lock_count[s]

AnyUse == TypeOK /\ CallInv /\ LifeInv /\ PinInv

(* Unless images are derived from pending surfaces, an image has its       *)
(* buffer, each its own, and each view an image.                           *)
SlotInv ==
    /\ \A i \in Images : image[i] # NoImage =>
          /\ buffer[image[i].buf_id] # NoBuffer
          /\ buffer[image[i].buf_id].data = image[i].surface_id
    /\ \A i, j \in Images :
          /\ image[i] # NoImage /\ image[j] # NoImage
          /\ image[i].buf_id = image[j].buf_id
          => i = j
    /\ \A b \in Buffers : IsDerived(b) => \E i \in Images : LeadsTo(i, b, buffer[b].data)

(* The buffers through which the CPU works in s, and those handed out.     *)
Mapped(s) == {b \in Buffers : Shows(b, s) /\ buffer[b].map_count > 0}
Out(s)    == {b \in Buffers : Shows(b, s) /\ buffer[b].handle_acquired}

CountInv ==
    \A s \in Surfaces :
        /\ lock_count[s] = va_lock_count[s] + Cardinality(Views(s))
        /\ cpu_access_count[s] = va_lock_count[s] + Cardinality(Mapped(s))
        /\ external_handle_count[s] = Cardinality(Out(s))

NothingDerived == "derive" \notin Unsynced

DerivedUse == AnyUse /\ SlotInv /\ CountInv

(* A surface whose writes are safe: nothing was thrown away; where the CPU *)
(* wrote lastly, it still works or a flush is noted, and nobody else gets  *)
(* the surface; a device with a handle is alone in it.                     *)
Safe(s) ==
    /\ cache[s] # "lost"
    /\ cache[s] = "dirty" => cpu_access_count[s] > 0 \/ cpu_cache_flush_pending[s]
    /\ cache[s] = "dirty" => /\ ~decode_pending[s] /\ ~HasActiveEncoder(s)
                             /\ external_handle_count[s] = 0
    /\ external_handle_count[s] > 0 => cpu_access_count[s] = 0

CacheInv == \A s \in Surfaces : Safe(s)

OneView == \A i, j \in Images :
              /\ image[i] # NoImage /\ image[j] # NoImage
              /\ image[i].surface_id = image[j].surface_id /\ image[i].surface_id # NoSurface
              => i = j

(* An application that synchronises a surface before it locks it or        *)
(* derives an image, and derives one image of a surface at a time.         *)
SynchronisesFirst == Unsynced \cap {"lock", "derive"} = {}

SingleView == MaxViews <= 1

LockedUse == AnyUse /\ EncoderInputUnlocked

CarefulUse == DerivedUse /\ EncoderInputUnlocked /\ OneView /\ CacheInv

(* One thread at a time waits in the VPU, and its picture stays pending     *)
(* meanwhile; no surface is decoded and encoded at the same time.          *)
DequeueInv ==
    /\ sync_active => render_target = NoSurface
    /\ \A t \in Threads : pc[t] = "dequeue" => sync_active /\ decode_pending[call[t].surf]
    /\ \A t, u \in Threads : pc[t] = "dequeue" /\ pc[u] = "dequeue" => t = u

NotBothInv == \A s \in Surfaces : decode_pending[s] => ~HasActiveEncoder(s)

(* With a single thread the picture that a call waits for does not come    *)
(* while it sleeps.                                                        *)
SingleThread == \A t, u \in Threads : t = u

SleepInv ==
    SingleThread =>
        \A t \in Threads : pc[t] = "asleep" => \/ decode_pending[call[t].surf]
                                               \/ decode_error[call[t].surf]

WaitInv == DequeueInv /\ NotBothInv /\ SleepInv

-----------------------------------------------------------------------------
(* Types.                                                                  *)

Caches == [Surfaces -> {"clean", "dirty", "lost"}]
Flags  == [Surfaces -> BOOLEAN]
Counts == [Surfaces -> Nat]
Targets == Surfaces \cup {NoSurface}

(* TypeOK, in the groups in which actions leave variables alone.           *)
LifeTypes == allocated \in Flags /\ used \in Flags /\ exported \in Targets
DecTypes ==
    /\ decode_pending \in Flags /\ decode_error \in Flags
    /\ sync_active \in BOOLEAN /\ render_target \in Targets
EncTypes ==
    /\ encoding \in [Encoders -> Targets] /\ reading \in [Encoders -> Targets]
    /\ encoder_failed \in [Encoders -> BOOLEAN]
ThrTypes ==
    /\ pc \in [Threads -> {"idle", "asleep", "dequeue"}]
    /\ call \in [Threads -> Calls]
CountTypes ==
    /\ lock_count \in Counts /\ va_lock_count \in Counts
    /\ cpu_access_count \in Counts /\ external_handle_count \in Counts
CacheTypes == cpu_cache_flush_pending \in Flags /\ cache \in Caches
SlotTypes ==
    /\ image \in [Images -> ImageStates \cup {NoImage}]
    /\ buffer \in [Buffers -> BufferStates \cup {NoBuffer}]

LEMMA TypesInGroups ==
    TypeOK <=> LifeTypes /\ DecTypes /\ EncTypes /\ ThrTypes /\ CountTypes /\ CacheTypes
               /\ SlotTypes
  BY DEF TypeOK, LifeTypes, DecTypes, EncTypes, ThrTypes, CountTypes, CacheTypes, SlotTypes,
         Flags, Counts, Caches, Targets

(* The same for the next state.                                            *)
LEMMA TypesInGroupsNext ==
    TypeOK' <=> LifeTypes' /\ DecTypes' /\ EncTypes' /\ ThrTypes' /\ CountTypes'
                /\ CacheTypes' /\ SlotTypes'
  BY DEF TypeOK, LifeTypes, DecTypes, EncTypes, ThrTypes, CountTypes, CacheTypes, SlotTypes,
         Flags, Counts, Caches, Targets

(* Groups that a step leaves alone keep their types.                       *)
LEMMA TypesStay ==
    /\ LifeTypes /\ UNCHANGED lifeVars => LifeTypes'
    /\ DecTypes /\ UNCHANGED decVars => DecTypes'
    /\ EncTypes /\ UNCHANGED encVars => EncTypes'
    /\ ThrTypes /\ UNCHANGED thrVars => ThrTypes'
    /\ CountTypes /\ UNCHANGED countVars => CountTypes'
    /\ CacheTypes /\ UNCHANGED cacheVars => CacheTypes'
    /\ SlotTypes /\ UNCHANGED slotVars => SlotTypes'
  BY DEF LifeTypes, DecTypes, EncTypes, ThrTypes, CountTypes, CacheTypes, SlotTypes,
         lifeVars, decVars, encVars, thrVars, countVars, cacheVars, slotVars

-----------------------------------------------------------------------------
(* The cache of one surface.                                               *)

(* Only the cache of s may change.                                         *)
CacheOnly(s) ==
    \A x \in Surfaces : x # s => /\ cache'[x] = cache[x]
                                 /\ cpu_cache_flush_pending'[x] = cpu_cache_flush_pending[x]

LEMMA FlushedTypes ==
    ASSUME CacheTypes, NEW s \in Surfaces
    PROVE  /\ Flushed(s) \in {"clean", "dirty", "lost"}
           /\ Invalidated(Flushed(s)) \in {"clean", "lost"}
           /\ \A f \in BOOLEAN : Rewritten(s, f) \in {"clean", "dirty", "lost"}
  BY DEF CacheTypes, Caches, Flushed, Invalidated, Rewritten

LEMMA FlushShape ==
    ASSUME CacheTypes, NEW s \in Surfaces, FlushPending(s)
    PROVE  /\ CacheTypes' /\ CacheOnly(s)
           /\ cache'[s] = Flushed(s) /\ ~cpu_cache_flush_pending'[s]
  BY FlushedTypes DEF FlushPending, CacheTypes, Caches, Flags, CacheOnly

LEMMA StartShape ==
    ASSUME CacheTypes, NEW s \in Surfaces, StartCpuAccess(s)
    PROVE  /\ CacheTypes' /\ CacheOnly(s)
           /\ cache'[s] = Invalidated(Flushed(s)) /\ ~cpu_cache_flush_pending'[s]
  BY FlushedTypes DEF StartCpuAccess, CacheTypes, Caches, Flags, CacheOnly

LEMMA EndShape ==
    ASSUME CacheTypes, NEW s \in Surfaces, EndCpuAccess(s)
    PROVE  /\ CacheTypes' /\ CacheOnly(s)
           /\ cache'[s] \in {"clean", cache[s]}
           /\ cache'[s] = "dirty" => cpu_cache_flush_pending'[s]
  <1>1. PICK failed \in BOOLEAN :
          /\ cpu_cache_flush_pending' = [cpu_cache_flush_pending EXCEPT ![s] = failed]
          /\ cache' = [cache EXCEPT ![s] = IF @ = "dirty" /\ ~failed THEN "clean" ELSE @]
    BY DEF EndCpuAccess
  <1>2. CacheTypes' /\ CacheOnly(s) /\ cache'[s] \in {"clean", cache[s]}
    BY <1>1 DEF CacheTypes, Caches, Flags, CacheOnly
  <1>3. cache'[s] = "dirty" => ~(~failed)
    BY <1>1 DEF CacheTypes, Caches
  <1>4. cpu_cache_flush_pending'[s] = failed
    BY <1>1 DEF CacheTypes, Flags
  <1> QED
    BY <1>2, <1>3, <1>4

-----------------------------------------------------------------------------
(* Every step keeps the types.                                             *)

LEMMA PlainTypes == Plain \in BufferStates
  BY ConstantsAssumption DEF Plain, BufferStates

LEMMA NoCallTypes == NoCall \in Calls
  BY DEF NoCall, Calls

(* What the calls do to a slot's record.                                   *)
LEMMA BufferTypes ==
    ASSUME NEW r \in BufferStates
    PROVE  /\ \A s \in Targets : [r EXCEPT !.data = s] \in BufferStates
           /\ \A v \in BOOLEAN : [r EXCEPT !.handle_acquired = v] \in BufferStates
           /\ \A n \in 0 .. MaxMaps : [r EXCEPT !.map_count = n] \in BufferStates
           /\ r.map_count < MaxMaps => [r EXCEPT !.map_count = @ + 1] \in BufferStates
           /\ r.map_count > 0 => [r EXCEPT !.map_count = @ - 1] \in BufferStates
  BY ConstantsAssumption DEF BufferStates, Targets

(* The parts of TypeOK that counters and caches make up.                   *)
AccessTypes == CountTypes /\ CacheTypes /\ SlotTypes

LEMMA GrantLockTypes ==
    ASSUME AccessTypes, NEW s \in Surfaces, GrantLock(s)
    PROVE  AccessTypes'
  <1>1. CacheTypes'
    BY StartShape, TypesStay DEF GrantLock, AccessTypes
  <1>2. CountTypes' /\ SlotTypes'
    BY DEF GrantLock, AccessTypes, CountTypes, Counts, SlotTypes, slotVars
  <1> QED
    BY <1>1, <1>2 DEF AccessTypes

LEMMA GrantDeriveTypes ==
    ASSUME CountTypes, SlotTypes, NEW s \in Surfaces, NEW i \in Images, NEW b \in Buffers,
           GrantDerive(s, i, b)
    PROVE  CountTypes' /\ SlotTypes'
  <1>1. [Plain EXCEPT !.data = s] \in BufferStates
    BY PlainTypes, BufferTypes DEF Targets
  <1>2. [buf_id |-> b, surface_id |-> s] \in ImageStates
    BY DEF ImageStates
  <1> QED
    BY <1>1, <1>2 DEF GrantDerive, CountTypes, Counts, SlotTypes

LEMMA GrantGetTypes ==
    ASSUME AccessTypes, NEW s \in Surfaces, NEW i \in Images, GrantGet(s, i)
    PROVE  AccessTypes'
  <1> DEFINE d == DerivedFrom(image[i].buf_id)
  <1>1. CacheTypes
    BY DEF AccessTypes
  <1>2. PICK read \in {Flushed(s), Invalidated(Flushed(s))} :
          \/ /\ cpu_cache_flush_pending' = [cpu_cache_flush_pending EXCEPT ![s] = FALSE]
             /\ cache' = [cache EXCEPT ![s] = read]
          \/ \E failed \in BOOLEAN :
                /\ cpu_cache_flush_pending' =
                      [cpu_cache_flush_pending EXCEPT ![s] = FALSE, ![d] = failed]
                /\ cache' = [cache EXCEPT ![s] = read, ![d] = Rewritten(d, failed)]
    BY DEF GrantGet
  <1>3. read \in {"clean", "dirty", "lost"}
    BY <1>1, <1>2, FlushedTypes
  <1>4. \A f \in BOOLEAN : Rewritten(d, f) \in {"clean", "dirty", "lost"}
    BY DEF Rewritten
  <1> HIDE DEF d
  <1>5. CacheTypes'
    BY <1>1, <1>2, <1>3, <1>4 DEF CacheTypes, Caches, Flags
  <1> QED
    BY <1>5, TypesStay DEF AccessTypes, GrantGet

LEMMA GrantPutTypes ==
    ASSUME AccessTypes, NEW s \in Surfaces, NEW i \in Images, GrantPut(s, i)
    PROVE  AccessTypes'
  <1> DEFINE d == DerivedFrom(image[i].buf_id)
  <1>1. CacheTypes
    BY DEF AccessTypes
  <1>2. CASE FlushPending(s)
    BY <1>1, <1>2, FlushShape, TypesStay DEF AccessTypes, GrantPut
  <1>3. CASE /\ cpu_cache_flush_pending' =
                   [cpu_cache_flush_pending EXCEPT ![s] = FALSE, ![d] = FALSE]
             /\ cache' = [cache EXCEPT ![s] = Flushed(s), ![d] = Invalidated(Flushed(d))]
    <2>1. Flushed(s) \in {"clean", "dirty", "lost"}
      BY <1>1, FlushedTypes
    <2>2. d \in Surfaces => Invalidated(Flushed(d)) \in {"clean", "dirty", "lost"}
      BY <1>1, FlushedTypes
    <2> HIDE DEF d
    <2>3. CacheTypes'
      BY <1>1, <1>3, <2>1, <2>2 DEF CacheTypes, Caches, Flags
    <2> QED
      BY <2>3, TypesStay DEF AccessTypes, GrantPut
  <1> QED
    BY <1>2, <1>3 DEF GrantPut

LEMMA SurfaceTypes ==
    ASSUME TypeOK, NEW s \in Surfaces, SurfaceNext(s)
    PROVE  TypeOK'
  <1> USE TypesInGroups, TypesInGroupsNext, TypesStay
  <1> USE DEF accessVars
  <1>1. CASE CreateSurface(s)
    <2>1. LifeTypes'
      BY <1>1 DEF CreateSurface, LifeTypes, Flags
    <2> QED
      BY <1>1, <2>1 DEF CreateSurface
  <1>2. CASE DestroySurface(s)
    <2>1. LifeTypes' /\ DecTypes'
      BY <1>2 DEF DestroySurface, LifeTypes, DecTypes, Flags, Targets
    <2>2. CountTypes' /\ CacheTypes'
      BY <1>2 DEF DestroySurface, CountTypes, CacheTypes, Counts, Caches, Flags
    <2> QED
      BY <1>2, <2>1, <2>2 DEF DestroySurface
  <1>3. CASE BeginDecode(s)
    <2>1. LifeTypes' /\ DecTypes'
      BY <1>3 DEF BeginDecode, LifeTypes, DecTypes, Flags, Targets
    <2> QED
      BY <1>3, <2>1, FlushShape DEF BeginDecode
  <1>4. ASSUME NEW e \in Encoders, BeginEncode(e, s) PROVE TypeOK'
    <2>1. LifeTypes' /\ EncTypes'
      BY <1>4 DEF BeginEncode, LifeTypes, EncTypes, Flags, Targets
    <2> QED
      BY <1>4, <2>1, FlushShape DEF BeginEncode
  <1>5. CASE LockSurface(s)
    BY <1>5, GrantLockTypes DEF LockSurface, AccessTypes
  <1>6. CASE UnlockSurface(s)
    <2>1. CacheTypes'
      BY <1>6, EndShape DEF UnlockSurface
    <2>2. CountTypes'
      BY <1>6 DEF UnlockSurface, MayUnlock, CountTypes, Counts
    <2> QED
      BY <1>6, <2>1, <2>2 DEF UnlockSurface
  <1>7. CASE CpuWrite(s)
    <2>1. CacheTypes'
      BY <1>7 DEF CpuWrite, CacheTypes, Caches
    <2> QED
      BY <1>7, <2>1 DEF CpuWrite
  <1>8. CASE FlushThenFail(s)
    BY <1>8, FlushShape DEF FlushThenFail
  <1>9. CASE ExportSurface(s)
    <2>1. LifeTypes'
      BY <1>9 DEF ExportSurface, Exported, LifeTypes, Targets
    <2> QED
      BY <1>9, <2>1, FlushShape DEF ExportSurface
  <1>10. ASSUME NEW i \in Images, GetImage(s, i) PROVE TypeOK'
    BY <1>10, GrantGetTypes DEF GetImage, AccessTypes
  <1>11. ASSUME NEW i \in Images, PutImage(s, i) PROVE TypeOK'
    BY <1>11, GrantPutTypes DEF PutImage, AccessTypes
  <1>12. ASSUME NEW i \in Images, NEW b \in Buffers, DeriveImage(s, i, b) PROVE TypeOK'
    BY <1>12, GrantDeriveTypes, FlushShape DEF DeriveImage
  <1> QED
    BY <1>1, <1>2, <1>3, <1>4, <1>5, <1>6, <1>7, <1>8, <1>9, <1>10, <1>11, <1>12
    DEF SurfaceNext

LEMMA SlotTypesStep ==
    ASSUME TypeOK, SlotNext
    PROVE  TypeOK'
  <1> USE TypesInGroups, TypesInGroupsNext, TypesStay
  <1>1. ASSUME NEW b \in Buffers, CreateBuffer(b) PROVE TypeOK'
    <2>1. SlotTypes'
      BY <1>1, PlainTypes DEF CreateBuffer, SlotTypes
    <2> QED
      BY <1>1, <2>1 DEF CreateBuffer
  <1>2. ASSUME NEW b \in Buffers, DestroyBuffer(b) PROVE TypeOK'
    <2>1. SlotTypes'
      BY <1>2 DEF DestroyBuffer, SlotTypes
    <2> QED
      BY <1>2, <2>1 DEF DestroyBuffer
  <1>3. ASSUME NEW b \in Buffers, MapBuffer(b) PROVE TypeOK'
    <2>0. buffer[b] \in BufferStates
      BY <1>3 DEF MapBuffer, SlotTypes
    <2>1. [buffer[b] EXCEPT !.map_count = @ + 1] \in BufferStates
      BY <1>3, <2>0, BufferTypes DEF MapBuffer
    <2>2. buffer' = [buffer EXCEPT ![b] = [buffer[b] EXCEPT !.map_count = @ + 1]]
      BY <1>3, Zenon DEF MapBuffer
    <2>3. SlotTypes'
      BY <1>3, <2>1, <2>2 DEF MapBuffer, SlotTypes
    <2>4. CountTypes' /\ CacheTypes'
      <3> DEFINE s == DerivedFrom(b)
      <3>1. \/ /\ \/ cpu_access_count[s] = 0 /\ StartCpuAccess(s)
                  \/ UNCHANGED cacheVars
               /\ cpu_access_count' = [cpu_access_count EXCEPT ![s] = @ + 1]
            \/ UNCHANGED <<cpu_access_count, cacheVars>>
        BY <1>3 DEF MapBuffer
      <3>2. UNCHANGED <<lock_count, va_lock_count, external_handle_count>>
        BY <1>3 DEF MapBuffer
      <3> HIDE DEF s
      <3>3. CountTypes'
        BY <3>1, <3>2 DEF CountTypes, Counts, cacheVars
      <3>4. ASSUME s \notin Surfaces, StartCpuAccess(s) PROVE CacheTypes'
        BY <3>4 DEF StartCpuAccess, CacheTypes, Caches, Flags
      <3> QED
        BY <3>1, <3>3, <3>4, StartShape
    <2> QED
      BY <1>3, <2>3, <2>4 DEF MapBuffer
  <1>4. ASSUME NEW b \in Buffers, UnmapBuffer(b) PROVE TypeOK'
    <2>0. buffer[b] \in BufferStates
      BY <1>4 DEF UnmapBuffer, SlotTypes
    <2>1. [buffer[b] EXCEPT !.map_count = @ - 1] \in BufferStates
      BY <1>4, <2>0, BufferTypes DEF UnmapBuffer
    <2>2. buffer' = [buffer EXCEPT ![b] = [buffer[b] EXCEPT !.map_count = @ - 1]]
      BY <1>4, Zenon DEF UnmapBuffer
    <2>3. SlotTypes'
      BY <1>4, <2>1, <2>2 DEF UnmapBuffer, SlotTypes
    <2>4. CountTypes' /\ CacheTypes'
      <3> DEFINE s == DerivedFrom(b)
      <3>1. \/ /\ cpu_access_count[s] > 0
               /\ \/ EndCpuAccess(s)
                  \/ UNCHANGED cacheVars
               /\ cpu_access_count' = [cpu_access_count EXCEPT ![s] = @ - 1]
            \/ UNCHANGED <<cpu_access_count, cacheVars>>
        BY <1>4 DEF UnmapBuffer
      <3>2. UNCHANGED <<lock_count, va_lock_count, external_handle_count>>
        BY <1>4 DEF UnmapBuffer
      <3> HIDE DEF s
      <3>3. CountTypes'
        BY <3>1, <3>2 DEF CountTypes, Counts, cacheVars
      <3>4. ASSUME s \notin Surfaces, EndCpuAccess(s) PROVE CacheTypes'
        BY <3>4 DEF EndCpuAccess, CacheTypes, Caches, Flags
      <3> QED
        BY <3>1, <3>3, <3>4, EndShape
    <2> QED
      BY <1>4, <2>3, <2>4 DEF UnmapBuffer
  <1>5. ASSUME NEW b \in Buffers, AcquireBufferHandle(b) PROVE TypeOK'
    <2>0. buffer[b] \in BufferStates
      BY <1>5 DEF AcquireBufferHandle, IsDerived, SlotTypes
    <2>1. [buffer[b] EXCEPT !.handle_acquired = TRUE] \in BufferStates
      BY <2>0, BufferTypes
    <2>2. buffer' = [buffer EXCEPT ![b] = [buffer[b] EXCEPT !.handle_acquired = TRUE]]
      BY <1>5, Zenon DEF AcquireBufferHandle
    <2>3. SlotTypes'
      BY <1>5, <2>1, <2>2 DEF AcquireBufferHandle, SlotTypes
    <2> DEFINE s == DerivedFrom(b)
    <2>4. /\ s \in Shared /\ FlushPending(s)
          /\ external_handle_count' = [external_handle_count EXCEPT ![s] = @ + 1]
      BY <1>5 DEF AcquireBufferHandle
    <2> HIDE DEF s
    <2>5. s \in Surfaces
      BY <2>4, ConstantsAssumption
    <2>6. CountTypes' /\ CacheTypes'
      BY <1>5, <2>4, <2>5, FlushShape DEF AcquireBufferHandle, CountTypes, Counts
    <2> QED
      BY <1>5, <2>3, <2>6 DEF AcquireBufferHandle
  <1>6. ASSUME NEW b \in Buffers, ReleaseBufferHandle(b) PROVE TypeOK'
    <2>0. buffer[b] \in BufferStates
      BY <1>6 DEF ReleaseBufferHandle, SlotTypes
    <2>1. [buffer[b] EXCEPT !.handle_acquired = FALSE] \in BufferStates
      BY <2>0, BufferTypes
    <2>2. buffer' = [buffer EXCEPT ![b] = [buffer[b] EXCEPT !.handle_acquired = FALSE]]
      BY <1>6, Zenon DEF ReleaseBufferHandle
    <2>3. SlotTypes'
      BY <1>6, <2>1, <2>2 DEF ReleaseBufferHandle, SlotTypes
    <2> DEFINE s == DerivedFrom(b)
    <2>4. /\ \E done \in BOOLEAN :
                 cache' = [cache EXCEPT ![s] = IF done THEN Invalidated(@) ELSE @]
          /\ external_handle_count' =
                [external_handle_count EXCEPT ![s] = IF @ > 0 THEN @ - 1 ELSE @]
      BY <1>6 DEF ReleaseBufferHandle
    <2> HIDE DEF s
    <2>5. CountTypes'
      <3> DEFINE n == IF external_handle_count[s] > 0 THEN external_handle_count[s] - 1
                      ELSE external_handle_count[s]
      <3>1. external_handle_count' = [external_handle_count EXCEPT ![s] = n]
        BY <2>4
      <3>2. s \in Surfaces => n \in Nat
        BY DEF CountTypes, Counts
      <3> HIDE DEF n
      <3>3. UNCHANGED <<lock_count, va_lock_count, cpu_access_count>>
        BY <1>6 DEF ReleaseBufferHandle
      <3>4. external_handle_count' \in Counts
        BY <3>1, <3>2 DEF CountTypes, Counts
      <3> QED
        BY <3>3, <3>4 DEF CountTypes
    <2>6. CacheTypes'
      BY <1>6, <2>4 DEF ReleaseBufferHandle, CacheTypes, Caches, Invalidated
    <2> QED
      BY <1>6, <2>3, <2>5, <2>6 DEF ReleaseBufferHandle
  <1>7. ASSUME NEW i \in Images, DestroyImage(i) PROVE TypeOK'
    <2> DEFINE b == image[i].buf_id
               s == image[i].surface_id
    <2>1. image[i] \in ImageStates
      BY <1>7 DEF DestroyImage, SlotTypes
    <2>2. b \in Buffers /\ s \in Targets
      BY <2>1 DEF ImageStates, Targets
    <2>3. /\ image' = [image EXCEPT ![i] = NoImage]
          /\ buffer' = [buffer EXCEPT ![b] = NoBuffer]
          /\ \/ UNCHANGED <<lock_count, cacheVars>>
             \/ /\ s # NoSurface /\ lock_count[s] > 0 /\ DropLock(s)
                /\ FlushPending(s) \/ UNCHANGED cacheVars
      BY <1>7 DEF DestroyImage
    <2> HIDE DEF b, s
    <2>4. SlotTypes'
      BY <2>2, <2>3 DEF SlotTypes
    <2>5. CacheTypes'
      BY <2>2, <2>3, FlushShape DEF Targets
    <2>6. CountTypes'
      BY <1>7, <2>2, <2>3 DEF DestroyImage, DropLock, CountTypes, Counts, Targets
    <2> QED
      BY <1>7, <2>4, <2>5, <2>6 DEF DestroyImage
  <1>8. ASSUME NEW i \in Images, NEW b \in Buffers, CreateImage(i, b) PROVE TypeOK'
    <2>1. [buf_id |-> b, surface_id |-> NoSurface] \in ImageStates
      BY DEF ImageStates
    <2>2. SlotTypes'
      BY <1>8, <2>1, PlainTypes DEF CreateImage, SlotTypes
    <2> QED
      BY <1>8, <2>2 DEF CreateImage
  <1> QED
    BY <1>1, <1>2, <1>3, <1>4, <1>5, <1>6, <1>7, <1>8 DEF SlotNext

LEMMA HardwareTypes ==
    ASSUME TypeOK, HardwareNext
    PROVE  TypeOK'
  <1> USE TypesInGroups, TypesInGroupsNext, TypesStay
  <1> USE DEF accessVars
  <1>1. CASE EndDecode
    <2>1. DecTypes'
      BY <1>1 DEF EndDecode, DecTypes, Flags, Targets
    <2> QED
      BY <1>1, <2>1 DEF EndDecode
  <1>2. CASE DeviceDone
    <2>1. LifeTypes'
      BY <1>2 DEF DeviceDone, LifeTypes, Targets
    <2> QED
      BY <1>2, <2>1 DEF DeviceDone
  <1>3. ASSUME NEW e \in Encoders, EndEncode(e) PROVE TypeOK'
    <2>1. EncTypes'
      BY <1>3 DEF EndEncode, EncTypes, Targets
    <2> QED
      BY <1>3, <2>1 DEF EndEncode
  <1>4. ASSUME NEW e \in Encoders, InputConsumed(e) PROVE TypeOK'
    <2>1. EncTypes'
      BY <1>4 DEF InputConsumed, EncTypes, Targets
    <2> QED
      BY <1>4, <2>1 DEF InputConsumed
  <1> QED
    BY <1>1, <1>2, <1>3, <1>4 DEF HardwareNext

(* A call that waits is one of six, and carries what they carry.           *)
WaitingCall(c) ==
    /\ c \in Calls /\ c.op \in Unsynced /\ c.surf \in Surfaces
    /\ c.op \in {"derive", "get", "put"} => c.img \in Images
    /\ c.op = "derive" => c.buf \in Buffers

LEMMA WaitersCall ==
    ASSUME TypeOK, CallInv, NEW t \in Threads, pc[t] # "idle"
    PROVE  WaitingCall(call[t]) /\ used[call[t].surf]
  BY DEF TypeOK, CallInv, WaitingCall

(* What a call that goes on may do.                                        *)
LEMMA ContinueCases ==
    ASSUME NEW c, WaitingCall(c), Continue(c)
    PROVE  \/ c.op = "export" /\ GrantExport(c.surf)
           \/ /\ UNCHANGED exported
              /\ \/ UNCHANGED accessVars
                 \/ c.op = "lock" /\ GrantLock(c.surf)
                 \/ c.op = "derive" /\ GrantDerive(c.surf, c.img, c.buf) /\ UNCHANGED cacheVars
                 \/ c.op = "get" /\ GrantGet(c.surf, c.img)
                 \/ c.op = "put" /\ GrantPut(c.surf, c.img)
  <1>1. c.op \in {"sync", "lock", "derive", "get", "put", "export"}
    BY ConstantsAssumption DEF WaitingCall
  <1>2. CASE c.op = "export" /\ GrantExport(c.surf)
    BY <1>2
  <1>3. CASE c.op # "export" /\ Continue(c)
    <2>1. UNCHANGED exported
      BY <1>3 DEF Continue
    <2>2. CASE c.op = "sync"
      BY <1>3, <2>2, <2>1 DEF Continue
    <2>3. CASE c.op = "lock"
      BY <1>3, <2>3, <2>1 DEF Continue
    <2>4. CASE c.op = "derive"
      BY <1>3, <2>4, <2>1 DEF Continue
    <2>5. CASE c.op = "get"
      BY <1>3, <2>5, <2>1 DEF Continue
    <2>6. CASE c.op = "put"
      BY <1>3, <2>6, <2>1 DEF Continue
    <2> QED
      BY <1>1, <1>3, <2>2, <2>3, <2>4, <2>5, <2>6
  <1> QED
    BY <1>2, <1>3 DEF Continue

LEMMA ContinueTypes ==
    ASSUME AccessTypes, exported \in Targets, NEW c, WaitingCall(c), Continue(c)
    PROVE  AccessTypes' /\ exported' \in Targets
  <1> USE DEF WaitingCall
  <1>1. CASE GrantExport(c.surf)
    <2>1. CacheTypes'
      BY <1>1, FlushShape, TypesStay DEF GrantExport, AccessTypes
    <2> QED
      BY <1>1, <2>1, TypesStay DEF GrantExport, Exported, AccessTypes, Targets
  <1>2. CASE UNCHANGED exported /\ UNCHANGED accessVars
    BY <1>2, TypesStay DEF accessVars, AccessTypes
  <1>3. CASE UNCHANGED exported /\ GrantLock(c.surf)
    BY <1>3, GrantLockTypes
  <1>4. CASE /\ UNCHANGED exported /\ c.op = "derive"
             /\ GrantDerive(c.surf, c.img, c.buf) /\ UNCHANGED cacheVars
    BY <1>4, GrantDeriveTypes, TypesStay DEF AccessTypes
  <1>5. CASE UNCHANGED exported /\ c.op = "get" /\ GrantGet(c.surf, c.img)
    BY <1>5, GrantGetTypes
  <1>6. CASE UNCHANGED exported /\ c.op = "put" /\ GrantPut(c.surf, c.img)
    BY <1>6, GrantPutTypes
  <1> QED
    BY <1>1, <1>2, <1>3, <1>4, <1>5, <1>6, ContinueCases

(* How the six calls begin to wait.                                        *)
Begins(t, c) ==
    /\ WaitingCall(c) /\ Wait(t, c)
    /\ FlushPending(c.surf) \/ UNCHANGED cacheVars

LEMMA MeetsCases ==
    ASSUME NEW t \in Threads, MeetsPending(t)
    PROVE  \E c : Begins(t, c)
  <1> USE DEF WaitingCall, Calls, Begins, Targets, Wait
  <1>1. ASSUME NEW s \in Surfaces, WaitToSync(t, s) PROVE \E c : Begins(t, c)
    <2> DEFINE c == [op |-> "sync", surf |-> s, img |-> 0, buf |-> 0]
    <2>1. Begins(t, c)
      BY <1>1 DEF WaitToSync
    <2> QED
      BY <2>1
  <1>2. ASSUME NEW s \in Surfaces, WaitToLock(t, s) PROVE \E c : Begins(t, c)
    <2> DEFINE c == [op |-> "lock", surf |-> s, img |-> 0, buf |-> 0]
    <2>1. Begins(t, c)
      BY <1>2 DEF WaitToLock
    <2> QED
      BY <2>1
  <1>3. ASSUME NEW s \in Surfaces, WaitToExport(t, s) PROVE \E c : Begins(t, c)
    <2> DEFINE c == [op |-> "export", surf |-> s, img |-> 0, buf |-> 0]
    <2>1. Begins(t, c)
      BY <1>3 DEF WaitToExport
    <2> QED
      BY <2>1
  <1>4. ASSUME NEW s \in Surfaces, NEW i \in Images, WaitToGet(t, s, i)
        PROVE  \E c : Begins(t, c)
    <2> DEFINE c == [op |-> "get", surf |-> s, img |-> i, buf |-> 0]
    <2>1. Begins(t, c)
      BY <1>4 DEF WaitToGet
    <2> QED
      BY <2>1
  <1>5. ASSUME NEW s \in Surfaces, NEW i \in Images, WaitToPut(t, s, i)
        PROVE  \E c : Begins(t, c)
    <2> DEFINE c == [op |-> "put", surf |-> s, img |-> i, buf |-> 0]
    <2>1. Begins(t, c)
      BY <1>5 DEF WaitToPut
    <2> QED
      BY <2>1
  <1>6. ASSUME NEW s \in Surfaces, NEW i \in Images, NEW b \in Buffers, WaitToDerive(t, s, i, b)
        PROVE  \E c : Begins(t, c)
    <2> DEFINE c == [op |-> "derive", surf |-> s, img |-> i, buf |-> b]
    <2>1. Begins(t, c)
      BY <1>6 DEF WaitToDerive
    <2> QED
      BY <2>1
  <1> QED
    BY <1>1, <1>2, <1>3, <1>4, <1>5, <1>6 DEF MeetsPending

(* A sync ends with the picture resolved or given up; the call goes on or  *)
(* fails.                                                                  *)
LEMMA ResolveCases ==
    ASSUME NEW t \in Threads, Resolve(t)
    PROVE  /\ pc[t] = "dequeue"
           /\ \/ /\ Return(t) /\ Continue(call[t])
                 /\ decode_pending' = [decode_pending EXCEPT ![call[t].surf] = FALSE]
                 /\ UNCHANGED decode_error
              \/ Fail(t)
  BY Zenon DEF Resolve

(* A sleeper's call goes on with a settled surface, or fails, or dequeues. *)
LEMMA WakeCases ==
    ASSUME NEW t \in Threads, Wake(t)
    PROVE  /\ pc[t] = "asleep"
           /\ \/ /\ Return(t) /\ Continue(call[t])
                 /\ allocated[call[t].surf] /\ ~decode_error[call[t].surf]
                 /\ ~decode_pending[call[t].surf] /\ UNCHANGED sync_active
              \/ Fail(t) /\ UNCHANGED sync_active
              \/ /\ pc' = [pc EXCEPT ![t] = "dequeue"] /\ UNCHANGED <<call, exported, accessVars>>
                 /\ decode_pending[call[t].surf] /\ ~sync_active
                 /\ render_target = NoSurface /\ sync_active' = TRUE
  BY Zenon DEF Wake

(* What a thread's step does, in the three ways in which it may end: the   *)
(* thread goes on waiting, its call goes on, or its call fails.            *)
LEMMA ThreadTypes ==
    ASSUME TypeOK, CallInv, NEW t \in Threads, ThreadNext(t)
    PROVE  TypeOK'
  <1>r. Resolve(t) => pc[t] # "idle" /\ (Fail(t) \/ (Return(t) /\ Continue(call[t])))
    BY ResolveCases
  <1>w. Wake(t) => /\ pc[t] # "idle"
                   /\ \/ Fail(t) \/ (Return(t) /\ Continue(call[t]))
                      \/ /\ pc' = [pc EXCEPT ![t] = "dequeue"]
                         /\ UNCHANGED <<call, exported, accessVars>>
    BY WakeCases
  <1> USE TypesInGroups, TypesInGroupsNext, TypesStay
  <1> USE DEF accessVars
  <1>1. CASE MeetsPending(t)
    <2>1. PICK c : Begins(t, c)
      BY <1>1, MeetsCases
    <2>2. ThrTypes'
      BY <2>1 DEF Begins, WaitingCall, Wait, ThrTypes
    <2>3. DecTypes'
      BY <2>1 DEF Begins, Wait, DecTypes
    <2>4. CacheTypes'
      BY <2>1, FlushShape DEF Begins, WaitingCall
    <2> QED
      BY <2>1, <2>2, <2>3, <2>4 DEF Begins, Wait
  <1>2. ASSUME NEW x \in Surfaces, ResolveEarlier(t, x) PROVE TypeOK'
    <2>1. DecTypes'
      BY <1>2 DEF ResolveEarlier, DecTypes, Flags
    <2> QED
      BY <1>2, <2>1 DEF ResolveEarlier
  <1>3. Return(t) => ThrTypes'
    BY NoCallTypes DEF Return, ThrTypes
  <1>4. pc[t] # "idle" /\ (Fail(t) \/ (Return(t) /\ Continue(call[t]))) =>
           ThrTypes' /\ AccessTypes' /\ exported' \in Targets
    <2>1. ASSUME Fail(t) PROVE ThrTypes' /\ AccessTypes' /\ exported' \in Targets
      BY <2>1, <1>3 DEF Fail, AccessTypes, LifeTypes
    <2>2. ASSUME pc[t] # "idle", Return(t), Continue(call[t])
          PROVE  ThrTypes' /\ AccessTypes' /\ exported' \in Targets
      BY <2>2, <1>3, WaitersCall, ContinueTypes DEF AccessTypes, LifeTypes
    <2> QED
      BY <2>1, <2>2
  <1>5. CASE Resolve(t)
    <2>1. pc[t] # "idle" /\ (Fail(t) \/ (Return(t) /\ Continue(call[t])))
      BY <1>5, <1>r
    <2>2. DecTypes'
      BY <1>5 DEF Resolve, DecTypes, Flags
    <2>3. UNCHANGED <<allocated, used, encVars>>
      BY <1>5 DEF Resolve
    <2> QED
      BY <1>4, <2>1, <2>2, <2>3 DEF LifeTypes, AccessTypes
  <1>6. CASE Wake(t)
    <2>1. UNCHANGED <<allocated, used, encVars>> /\ DecTypes'
      BY <1>6 DEF Wake, DecTypes
    <2>2. pc[t] # "idle"
      BY <1>6, <1>w
    <2>3. CASE Fail(t) \/ (Return(t) /\ Continue(call[t]))
      BY <1>4, <2>1, <2>2, <2>3 DEF LifeTypes, AccessTypes
    <2>4. CASE pc' = [pc EXCEPT ![t] = "dequeue"] /\ UNCHANGED <<call, exported, accessVars>>
      <3>1. ThrTypes'
        BY <2>4 DEF ThrTypes
      <3> QED
        BY <2>1, <2>4, <3>1 DEF LifeTypes
    <2> QED
      BY <1>6, <1>w, <2>3, <2>4
  <1> QED
    BY <1>1, <1>2, <1>5, <1>6 DEF ThreadNext

LEMMA TypeStep ==
    ASSUME TypeOK, CallInv, [Next]_vars
    PROVE  TypeOK'
  <1>1. CASE Next
    BY <1>1, SurfaceTypes, SlotTypesStep, HardwareTypes, ThreadTypes DEF Next
  <1>2. CASE UNCHANGED vars
    BY <1>2 DEF TypeOK, vars, lifeVars, decVars, encVars, thrVars, accessVars, countVars,
                cacheVars, slotVars
  <1> QED
    BY <1>1, <1>2

-----------------------------------------------------------------------------
(* What waiting calls carry.                                               *)

LEMMA UsedStaysSurface ==
    ASSUME TypeOK, NEW s \in Surfaces, SurfaceNext(s)
    PROVE  /\ UNCHANGED thrVars
           /\ \A x \in Surfaces : used[x] => used'[x]
  BY DEF SurfaceNext, CreateSurface, DestroySurface, BeginDecode, BeginEncode, LockSurface,
         UnlockSurface, CpuWrite, FlushThenFail, ExportSurface, GetImage, PutImage, DeriveImage,
         lifeVars, TypeOK

LEMMA UsedStaysSlots ==
    ASSUME SlotNext
    PROVE  UNCHANGED lifeVars /\ UNCHANGED decVars /\ UNCHANGED encVars /\ UNCHANGED thrVars
  BY DEF SlotNext, CreateBuffer, DestroyBuffer, MapBuffer, UnmapBuffer, AcquireBufferHandle,
         ReleaseBufferHandle, DestroyImage, CreateImage

LEMMA UsedStaysHardware ==
    ASSUME HardwareNext
    PROVE  UNCHANGED thrVars /\ UNCHANGED <<allocated, used>> /\ UNCHANGED accessVars
  BY DEF HardwareNext, EndDecode, DeviceDone, EndEncode, InputConsumed, lifeVars

LEMMA CallStep ==
    ASSUME TypeOK, CallInv, LifeInv, [Next]_vars
    PROVE  CallInv'
  <1>1. ASSUME UNCHANGED thrVars, \A x \in Surfaces : used[x] => used'[x]
        PROVE  CallInv'
    BY <1>1 DEF CallInv, thrVars
  <1>2. ASSUME NEW t \in Threads, ThreadNext(t) PROVE CallInv'
    <2>1. CASE MeetsPending(t)
      <3>1. PICK c : Begins(t, c)
        BY <2>1, MeetsCases
      <3>2. used[c.surf] /\ UNCHANGED used /\ WaitingCall(c)
        BY <3>1 DEF Begins, Wait, WaitingCall, LifeInv, lifeVars
      <3>3. call' = [call EXCEPT ![t] = c] /\ \E w : pc' = [pc EXCEPT ![t] = w]
        BY <3>1 DEF Begins, Wait
      <3> QED
        BY <3>2, <3>3 DEF CallInv, WaitingCall, TypeOK
    <2>2. CASE Return(t) /\ UNCHANGED used
      BY <2>2 DEF Return, CallInv, NoCall, TypeOK
    <2>3. CASE /\ pc[t] # "idle" /\ UNCHANGED <<call, used>>
               /\ \E w : pc' = [pc EXCEPT ![t] = w]
      BY <2>3 DEF CallInv, TypeOK
    <2>4. CASE UNCHANGED <<used, thrVars>>
      BY <2>4, <1>1
    <2>5. ASSUME NEW x \in Surfaces, ResolveEarlier(t, x) PROVE UNCHANGED <<used, thrVars>>
      BY <2>5 DEF ResolveEarlier, lifeVars
    <2>6. Resolve(t) => Return(t) /\ UNCHANGED used
      BY DEF Resolve, Fail
    <2>7. Wake(t) => \/ Return(t) /\ UNCHANGED used
                     \/ /\ pc[t] # "idle" /\ UNCHANGED <<call, used>>
                        /\ \E w : pc' = [pc EXCEPT ![t] = w]
      BY DEF Wake, Fail
    <2> QED
      BY <1>2, <2>1, <2>2, <2>3, <2>4, <2>5, <2>6, <2>7 DEF ThreadNext
  <1>3. CASE Next
    <2>1. ASSUME NEW s \in Surfaces, SurfaceNext(s) PROVE CallInv'
      BY <2>1, <1>1, UsedStaysSurface
    <2>2. CASE SlotNext
      BY <2>2, <1>1, UsedStaysSlots DEF lifeVars
    <2>3. CASE HardwareNext
      BY <2>3, <1>1, UsedStaysHardware
    <2> QED
      BY <1>2, <1>3, <2>1, <2>2, <2>3 DEF Next
  <1>4. CASE UNCHANGED vars
    BY <1>4, <1>1 DEF vars, lifeVars
  <1> QED
    BY <1>3, <1>4

-----------------------------------------------------------------------------
(* Surfaces in use exist, and are not locked while a picture is made.      *)

(* What a granted call does to the lock of its surface.                    *)
LEMMA ContinueLocks ==
    ASSUME NEW c, WaitingCall(c), Continue(c)
    PROVE  \/ UNCHANGED lock_count
           \/ lock_count' = [lock_count EXCEPT ![c.surf] = @ + 1]
  BY ContinueCases
  DEF GrantExport, GrantLock, GrantDerive, GrantGet, GrantPut, countVars, accessVars

LEMMA ThreadLife ==
    ASSUME TypeOK, CallInv, LifeInv, NEW t \in Threads, ThreadNext(t)
    PROVE  LifeInv'
  <1> DEFINE c == call[t]
  <1>1. CASE MeetsPending(t)
    <2>1. PICK d : Begins(t, d)
      BY <1>1, MeetsCases
    <2>2. UNCHANGED <<allocated, used, decode_pending, lock_count>>
      BY <2>1 DEF Begins, Wait, lifeVars, countVars
    <2> QED
      BY <2>2 DEF LifeInv
  <1>2. ASSUME NEW x \in Surfaces, ResolveEarlier(t, x) PROVE LifeInv'
    <2>1. /\ UNCHANGED <<allocated, used, lock_count>>
          /\ decode_pending' = [decode_pending EXCEPT ![x] = FALSE]
      BY <1>2 DEF ResolveEarlier, lifeVars, accessVars, countVars
    <2> QED
      BY <2>1 DEF LifeInv, TypeOK
  <1>3. ASSUME pc[t] # "idle", Fail(t) \/ (Return(t) /\ Continue(c))
        PROVE  /\ c.surf \in Surfaces /\ used[c.surf]
               /\ \/ UNCHANGED lock_count
                  \/ ~Fail(t) /\ lock_count' = [lock_count EXCEPT ![c.surf] = @ + 1]
    BY <1>3, WaitersCall, ContinueLocks DEF Fail, accessVars, countVars, WaitingCall
  <1>4. CASE Resolve(t)
    <2>1. UNCHANGED <<allocated, used>>
      BY <1>4 DEF Resolve
    <2>2. decode_pending' \in {decode_pending, [decode_pending EXCEPT ![c.surf] = FALSE]}
      BY <1>4 DEF Resolve
    <2>3. CASE Fail(t)
      <3>1. UNCHANGED lock_count
        BY <2>3 DEF Fail, accessVars, countVars
      <3> QED
        BY <2>1, <2>2, <3>1 DEF LifeInv, TypeOK
    <2>4. CASE /\ Return(t) /\ Continue(c)
               /\ decode_pending' = [decode_pending EXCEPT ![c.surf] = FALSE]
      <3>1. pc[t] # "idle"
        BY <1>4, ResolveCases
      <3>2. /\ c.surf \in Surfaces /\ used[c.surf]
            /\ \/ UNCHANGED lock_count
               \/ lock_count' = [lock_count EXCEPT ![c.surf] = @ + 1]
        BY <3>1, <2>4, <1>3
      <3> QED
        BY <2>1, <2>4, <3>2 DEF LifeInv, TypeOK
    <2> QED
      BY <1>4, <2>3, <2>4, ResolveCases
  <1>5. CASE Wake(t)
    <2>1. UNCHANGED <<allocated, used, decode_pending>>
      BY <1>5 DEF Wake
    <2>2. CASE UNCHANGED lock_count
      BY <2>1, <2>2 DEF LifeInv
    <2>3. CASE /\ Return(t) /\ Continue(c)
               /\ allocated[c.surf] /\ ~decode_pending[c.surf]
      <3>1. pc[t] # "idle"
        BY <1>5, WakeCases
      <3>2. /\ c.surf \in Surfaces
            /\ \/ UNCHANGED lock_count
               \/ lock_count' = [lock_count EXCEPT ![c.surf] = @ + 1]
        BY <3>1, <2>3, <1>3
      <3> QED
        BY <2>1, <2>3, <3>2 DEF LifeInv, TypeOK
    <2> QED
      BY <1>5, <2>2, <2>3, WakeCases DEF Fail, accessVars, countVars
  <1> QED
    BY <1>1, <1>2, <1>4, <1>5 DEF ThreadNext

LEMMA SurfaceLife ==
    ASSUME TypeOK, LifeInv, NEW s \in Surfaces, SurfaceNext(s)
    PROVE  LifeInv'
  <1> USE DEF LifeInv, lifeVars, decVars, accessVars, countVars, TypeOK
  <1>1. CASE CreateSurface(s)
    BY <1>1 DEF CreateSurface
  <1>2. CASE DestroySurface(s)
    BY <1>2 DEF DestroySurface
  <1>3. CASE BeginDecode(s)
    BY <1>3 DEF BeginDecode, MayBeTarget
  <1>4. ASSUME NEW e \in Encoders, BeginEncode(e, s) PROVE LifeInv'
    BY <1>4 DEF BeginEncode, MayBeTarget
  <1>5. CASE LockSurface(s)
    BY <1>5 DEF LockSurface, AsksLock, GrantLock
  <1>6. CASE UnlockSurface(s)
    BY <1>6 DEF UnlockSurface, MayUnlock
  <1>7. CASE CpuWrite(s)
    BY <1>7 DEF CpuWrite
  <1>8. CASE FlushThenFail(s)
    BY <1>8 DEF FlushThenFail
  <1>9. CASE ExportSurface(s)
    BY <1>9 DEF ExportSurface
  <1>10. ASSUME NEW i \in Images, GetImage(s, i) PROVE LifeInv'
    BY <1>10 DEF GetImage, GrantGet
  <1>11. ASSUME NEW i \in Images, PutImage(s, i) PROVE LifeInv'
    BY <1>11 DEF PutImage, GrantPut
  <1>12. ASSUME NEW i \in Images, NEW b \in Buffers, DeriveImage(s, i, b) PROVE LifeInv'
    BY <1>12 DEF DeriveImage, AsksDerive, GrantDerive
  <1> QED
    BY <1>1, <1>2, <1>3, <1>4, <1>5, <1>6, <1>7, <1>8, <1>9, <1>10, <1>11, <1>12
    DEF SurfaceNext

(* A slot's call takes at most the lock of a derived image back.           *)
LEMMA SlotLocks ==
    ASSUME TypeOK, SlotNext, NEW s \in Surfaces, lock_count'[s] > 0
    PROVE  lock_count[s] > 0
  <1>1. ASSUME NEW i \in Images, DestroyImage(i) PROVE lock_count[s] > 0
    <2>1. \/ UNCHANGED lock_count
          \/ /\ lock_count[image[i].surface_id] > 0
             /\ lock_count' = [lock_count EXCEPT ![image[i].surface_id] = @ - 1]
      BY <1>1 DEF DestroyImage, DropLock
    <2> QED
      BY <2>1 DEF TypeOK
  <1>2. CASE UNCHANGED lock_count
    BY <1>2
  <1> QED
    BY <1>1, <1>2
    DEF SlotNext, CreateBuffer, DestroyBuffer, MapBuffer, UnmapBuffer, AcquireBufferHandle,
        ReleaseBufferHandle, CreateImage, countVars

LEMMA LifeStep ==
    ASSUME TypeOK, CallInv, LifeInv, [Next]_vars
    PROVE  LifeInv'
  <1>1. ASSUME UNCHANGED <<allocated, used, lock_count>>,
               \A s \in Surfaces : decode_pending'[s] => decode_pending[s]
        PROVE  LifeInv'
    BY <1>1 DEF LifeInv
  <1>2. CASE SlotNext
    BY <1>2, SlotLocks, UsedStaysSlots DEF LifeInv, lifeVars, decVars
  <1>3. CASE HardwareNext
    <2>1. UNCHANGED <<allocated, used, lock_count>>
      BY <1>3, UsedStaysHardware DEF accessVars, countVars
    <2>2. decode_pending' \in {decode_pending, [decode_pending EXCEPT ![render_target] = FALSE]}
      BY <1>3 DEF HardwareNext, EndDecode, DeviceDone, EndEncode, InputConsumed, decVars
    <2>3. \A s \in Surfaces : decode_pending'[s] => decode_pending[s]
      BY <2>2 DEF TypeOK
    <2> QED
      BY <2>1, <2>3, <1>1
  <1>4. CASE UNCHANGED vars
    BY <1>4, <1>1 DEF vars, lifeVars, decVars, accessVars, countVars
  <1> QED
    BY <1>2, <1>3, <1>4, SurfaceLife, ThreadLife DEF Next

-----------------------------------------------------------------------------
(* Each image and each stray buffer of a surface has a lock on it.         *)

LEMMA SlotsAreFinite == IsFiniteSet(Images) /\ IsFiniteSet(Buffers)
  BY FS_Interval, ConstantsAssumption DEF Images, Buffers

LEMMA PinsAreFinite ==
    ASSUME NEW s \in Surfaces
    PROVE  IsFiniteSet(Pins(s)) /\ Cardinality(Pins(s)) \in Nat
  <1> DEFINE all == ({"image"} \X Images) \cup ({"buffer"} \X Buffers)
  <1>1. IsFiniteSet({"image"} \X Images) /\ IsFiniteSet({"buffer"} \X Buffers)
    BY SlotsAreFinite, FS_Singleton, FS_Product
  <1>2. IsFiniteSet(all)
    BY <1>1, FS_Union
  <1>3. Pins(s) \in SUBSET all
    BY DEF Pins, Views
  <1> HIDE DEF all
  <1>4. IsFiniteSet(Pins(s))
    BY <1>2, <1>3, FS_Subset
  <1> QED
    BY <1>4, FS_CardinalityType

LEMMA PinsAreFiniteNext ==
    ASSUME NEW s \in Surfaces
    PROVE  IsFiniteSet(Pins(s)') /\ Cardinality(Pins(s)') \in Nat
  <1> DEFINE all == ({"image"} \X Images) \cup ({"buffer"} \X Buffers)
  <1>1. IsFiniteSet({"image"} \X Images) /\ IsFiniteSet({"buffer"} \X Buffers)
    BY SlotsAreFinite, FS_Singleton, FS_Product
  <1>2. IsFiniteSet(all)
    BY <1>1, FS_Union
  <1>3. Pins(s)' \in SUBSET all
    BY DEF Pins, Views
  <1> HIDE DEF all
  <1>4. IsFiniteSet(Pins(s)')
    BY <1>2, <1>3, FS_Subset
  <1> QED
    BY <1>4, FS_CardinalityType

(* Fewer pins, as many, or one more.                                       *)
LEMMA FewerPins ==
    ASSUME NEW s \in Surfaces, Pins(s)' \subseteq Pins(s)
    PROVE  Cardinality(Pins(s)') <= Cardinality(Pins(s))
  BY PinsAreFinite, FS_Subset

LEMMA OnePinLess ==
    ASSUME NEW s \in Surfaces, NEW x \in Pins(s), Pins(s)' \subseteq Pins(s) \ {x}
    PROVE  Cardinality(Pins(s)') + 1 <= Cardinality(Pins(s))
  <1>1. /\ IsFiniteSet(Pins(s) \ {x})
        /\ Cardinality(Pins(s) \ {x}) = Cardinality(Pins(s)) - 1
    BY PinsAreFinite, FS_RemoveElement
  <1>2. Cardinality(Pins(s)') <= Cardinality(Pins(s) \ {x})
    BY <1>1, FS_Subset
  <1>3. Cardinality(Pins(s)) \in Nat /\ Cardinality(Pins(s)') \in Nat
    BY PinsAreFinite, PinsAreFiniteNext
  <1> QED
    BY <1>1, <1>2, <1>3

LEMMA OnePinMore ==
    ASSUME NEW s \in Surfaces, NEW x, Pins(s)' \subseteq Pins(s) \cup {x}
    PROVE  Cardinality(Pins(s)') <= Cardinality(Pins(s)) + 1
  <1>1. /\ IsFiniteSet(Pins(s) \cup {x})
        /\ Cardinality(Pins(s) \cup {x}) \in {Cardinality(Pins(s)), Cardinality(Pins(s)) + 1}
    BY PinsAreFinite, FS_AddElement
  <1>2. Cardinality(Pins(s)') <= Cardinality(Pins(s) \cup {x})
    BY <1>1, FS_Subset
  <1>3. Cardinality(Pins(s)) \in Nat /\ Cardinality(Pins(s)') \in Nat
    BY PinsAreFinite, PinsAreFiniteNext
  <1> QED
    BY <1>1, <1>2, <1>3

(* What PinInv says of one surface.                                        *)
Pinned(s) == Cardinality(Pins(s)) + va_lock_count[s] <= lock_count[s]

(* Nothing that holds a lock comes, and no lock goes.                      *)
LEMMA PinsQuiet ==
    ASSUME TypeOK, NEW s \in Surfaces, Pinned(s),
           Pins(s)' \subseteq Pins(s), UNCHANGED <<lock_count[s], va_lock_count[s]>>
    PROVE  Pinned(s)'
  <1>1. Cardinality(Pins(s)') <= Cardinality(Pins(s))
    BY FewerPins
  <1>2. Cardinality(Pins(s)) \in Nat /\ Cardinality(Pins(s)') \in Nat
    BY PinsAreFinite, PinsAreFiniteNext
  <1>3. lock_count[s] \in Nat /\ va_lock_count[s] \in Nat
    BY DEF TypeOK
  <1> QED
    BY <1>1, <1>2, <1>3 DEF Pinned

LEMMA PinsUnchanged == UNCHANGED slotVars => \A s \in Surfaces : Pins(s)' = Pins(s)
  BY DEF slotVars, Pins, Views, Stray, Shows, LeadsTo

(* A lock is granted or ended.                                             *)
LEMMA PinsLock ==
    ASSUME TypeOK, NEW s \in Surfaces, Pinned(s), UNCHANGED slotVars,
           \E d \in {-1, 0, 1} : /\ lock_count'[s] = lock_count[s] + d
                                 /\ va_lock_count'[s] = va_lock_count[s] + d
    PROVE  Pinned(s)'
  <1>1. Pins(s)' = Pins(s)
    BY PinsUnchanged
  <1>2. Cardinality(Pins(s)) \in Nat
    BY PinsAreFinite
  <1>3. lock_count[s] \in Nat /\ va_lock_count[s] \in Nat
    BY DEF TypeOK
  <1> QED
    BY <1>1, <1>2, <1>3 DEF Pinned

(* A new view may push another image out of its slot.                      *)
LEMMA DerivePins ==
    ASSUME TypeOK, PinInv, NEW s \in Surfaces, NEW i \in Images, NEW b \in Buffers,
           GrantDerive(s, i, b)
    PROVE  PinInv'
  <1> SUFFICES ASSUME NEW x \in Surfaces PROVE Pinned(x)'
    BY DEF PinInv, Pinned
  <1>1. /\ image' = [image EXCEPT ![i] = [buf_id |-> b, surface_id |-> s]]
        /\ buffer' = [buffer EXCEPT ![b] = [Plain EXCEPT !.data = s]]
        /\ lock_count' = [lock_count EXCEPT ![s] = @ + 1] /\ UNCHANGED va_lock_count
    BY DEF GrantDerive
  <1>2. \A y : Shows(b, y)' => y = s
    BY <1>1 DEF Shows, Plain, TypeOK
  <1>3. LeadsTo(i, b, s)'
    <2>1. [buf_id |-> b, surface_id |-> s] \in ImageStates
      BY DEF ImageStates
    <2>2. [buf_id |-> b, surface_id |-> s] # NoImage
      BY <2>1, NullAssumption
    <2> QED
      BY <1>1, <2>2 DEF LeadsTo, TypeOK
  <1>4. \A c \in Buffers : c # b => (Shows(c, x)' <=> Shows(c, x))
    BY <1>1 DEF Shows, TypeOK
  <1>5. \A j \in Images, c \in Buffers : j # i => (LeadsTo(j, c, x)' <=> LeadsTo(j, c, x))
    BY <1>1 DEF LeadsTo, TypeOK
  <1>6. \A c \in Buffers : Stray(c, x)' => Stray(c, x) \/ (c # b /\ LeadsTo(i, c, x))
    <2> SUFFICES ASSUME NEW c \in Buffers, Stray(c, x)'
                 PROVE  Stray(c, x) \/ (c # b /\ LeadsTo(i, c, x))
      OBVIOUS
    <2>1. Shows(c, x)' /\ \A j \in Images : ~LeadsTo(j, c, x)'
      BY DEF Stray
    <2>2. c # b
      BY <2>1, <1>2, <1>3
    <2>3. Shows(c, x) /\ \A j \in Images : j # i => ~LeadsTo(j, c, x)
      BY <2>1, <2>2, <1>4, <1>5
    <2> QED
      BY <2>2, <2>3 DEF Stray
  <1>7. \A j \in Views(x)' : j \in Views(x) \/ (j = i /\ x = s)
    BY <1>1 DEF Views, TypeOK
  <1>8. i \in Views(x)' => x = s
    BY <1>1 DEF Views, TypeOK
  <1>9. lock_count[x] \in Nat /\ va_lock_count[x] \in Nat
    BY DEF TypeOK
  <1>10. Cardinality(Pins(x)) \in Nat /\ Cardinality(Pins(x)') \in Nat
    BY PinsAreFinite, PinsAreFiniteNext
  (* What the slot held before is counted as a stray buffer now. *)
  <1>11. Cardinality(Pins(x)' \ {<<"image", i>>}) <= Cardinality(Pins(x))
    <2> DEFINE rest == Pins(x)' \ {<<"image", i>>}
    <2>1. CASE ~ \E c \in Buffers : LeadsTo(i, c, x)
      <3>1. rest \subseteq Pins(x)
        BY <1>6, <1>7, <2>1 DEF Pins, Views
      <3> QED
        BY <3>1, PinsAreFinite, FS_Subset
    <2>2. ASSUME NEW c \in Buffers, LeadsTo(i, c, x)
          PROVE  Cardinality(rest) <= Cardinality(Pins(x))
      <3> DEFINE old == Pins(x) \ {<<"image", i>>}
      <3>1. <<"image", i>> \in Pins(x)
        BY <2>2 DEF Pins, Views, LeadsTo
      <3>2. rest \subseteq old \cup {<<"buffer", c>>}
        BY <1>6, <1>7, <2>2 DEF Pins, Views, LeadsTo
      <3>3. IsFiniteSet(old) /\ Cardinality(old) = Cardinality(Pins(x)) - 1
        BY <3>1, PinsAreFinite, FS_RemoveElement
      <3>4. /\ IsFiniteSet(old \cup {<<"buffer", c>>})
            /\ Cardinality(old \cup {<<"buffer", c>>})
                  \in {Cardinality(old), Cardinality(old) + 1}
        BY <3>3, FS_AddElement
      <3>5. /\ IsFiniteSet(rest)
            /\ Cardinality(rest) <= Cardinality(old \cup {<<"buffer", c>>})
        BY <3>2, <3>4, FS_Subset
      <3>6. Cardinality(rest) \in Nat
        BY <3>5, FS_CardinalityType
      <3> HIDE DEF rest, old
      <3> QED
        BY <3>3, <3>4, <3>5, <3>6, <1>10
    <2> QED
      BY <2>1, <2>2
  <1>12. CASE x = s
    <2> DEFINE rest == Pins(s)' \ {<<"image", i>>}
    <2>1. IsFiniteSet(rest) /\ Cardinality(Pins(s)') <= Cardinality(rest) + 1
      <3>1. IsFiniteSet(rest) /\ Cardinality(rest) \in {Cardinality(Pins(s)') - 1, Cardinality(Pins(s)')}
        BY PinsAreFiniteNext, FS_RemoveElement
      <3> QED
        BY <3>1, <1>10, <1>12
    <2>2. Cardinality(rest) \in Nat
      BY <2>1, FS_CardinalityType
    <2>3. Cardinality(rest) <= Cardinality(Pins(s))
      BY <1>11, <1>12
    <2>4. /\ lock_count'[s] = lock_count[s] + 1 /\ va_lock_count'[s] = va_lock_count[s]
      BY <1>1 DEF TypeOK
    <2>5. Cardinality(Pins(s)) + va_lock_count[s] <= lock_count[s]
      BY DEF PinInv
    <2> HIDE DEF rest
    <2> QED
      BY <1>9, <1>10, <1>12, <2>1, <2>2, <2>3, <2>4, <2>5 DEF Pinned
  <1>13. CASE x # s
    <2>1. Pins(x)' \ {<<"image", i>>} = Pins(x)'
      BY <1>8, <1>13 DEF Pins
    <2>2. lock_count'[x] = lock_count[x] /\ va_lock_count'[x] = va_lock_count[x]
      BY <1>1, <1>13 DEF TypeOK
    <2>3. Cardinality(Pins(x)) + va_lock_count[x] <= lock_count[x]
      BY DEF PinInv
    <2>4. Cardinality(Pins(x)') <= Cardinality(Pins(x))
      BY <1>11, <2>1
    <2> QED
      BY <1>9, <1>10, <2>2, <2>3, <2>4 DEF Pinned
  <1> QED
    BY <1>12, <1>13

(* An image is destroyed with its buffer.                                  *)
LEMMA DestroyImagePins ==
    ASSUME TypeOK, PinInv, NEW i \in Images, DestroyImage(i)
    PROVE  PinInv'
  <1> DEFINE b == image[i].buf_id
             s == image[i].surface_id
  <1>1. image[i] # NoImage /\ image[i] \in ImageStates
    BY DEF DestroyImage, TypeOK
  <1>2. b \in Buffers /\ s \in Surfaces \cup {NoSurface}
    BY <1>1 DEF ImageStates
  <1>3. /\ image' = [image EXCEPT ![i] = NoImage]
        /\ buffer' = [buffer EXCEPT ![b] = NoBuffer]
        /\ UNCHANGED va_lock_count
        /\ \/ s = NoSurface /\ UNCHANGED lock_count
           \/ s # NoSurface /\ lock_count' = [lock_count EXCEPT ![s] = @ - 1]
    BY DEF DestroyImage, DropLock
  <1>4. ASSUME NEW x \in Surfaces PROVE Pins(x)' \subseteq Pins(x) \ {<<"image", i>>}
    <2>1. \A j \in Views(x)' : j \in Views(x) /\ j # i
      BY <1>3 DEF Views, TypeOK
    <2>2. \A c \in Buffers : Shows(c, x)' => c # b /\ Shows(c, x)
      BY <1>2, <1>3 DEF Shows, TypeOK
    <2>3. \A j \in Images, c \in Buffers : c # b /\ LeadsTo(j, c, x) => LeadsTo(j, c, x)'
      BY <1>3 DEF LeadsTo, TypeOK
    <2>4. \A c \in Buffers : Stray(c, x)' => Stray(c, x)
      BY <2>2, <2>3 DEF Stray
    <2> QED
      BY <2>1, <2>4 DEF Pins
  <1> SUFFICES ASSUME NEW x \in Surfaces PROVE Pinned(x)'
    BY DEF PinInv, Pinned
  <1>5. Pinned(x)
    BY DEF PinInv, Pinned
  <1>6. CASE x # s
    <2>1. UNCHANGED <<lock_count[x], va_lock_count[x]>>
      BY <1>3, <1>6 DEF TypeOK
    <2> QED
      BY <1>4, <1>5, <2>1, PinsQuiet
  <1>7. CASE x = s
    <2>1. <<"image", i>> \in Pins(x)
      BY <1>1, <1>7 DEF Pins, Views
    <2>2. Cardinality(Pins(x)') + 1 <= Cardinality(Pins(x))
      BY <1>4, <2>1, OnePinLess
    <2>3. lock_count'[x] = lock_count[x] - 1 /\ va_lock_count'[x] = va_lock_count[x]
      BY <1>2, <1>3, <1>7, ConstantsAssumption DEF TypeOK
    <2>4. Cardinality(Pins(x)) \in Nat /\ Cardinality(Pins(x)') \in Nat
      BY PinsAreFinite, PinsAreFiniteNext
    <2>5. lock_count[x] \in Nat /\ va_lock_count[x] \in Nat
      BY DEF TypeOK
    <2> QED
      BY <1>5, <2>2, <2>3, <2>4, <2>5 DEF Pinned
  <1> QED
    BY <1>6, <1>7

(* Slots and counts of locks are left alone.                               *)
LEMMA PinsStay ==
    ASSUME TypeOK, PinInv, UNCHANGED <<lock_count, va_lock_count>>,
           \A s \in Surfaces : Pins(s)' \subseteq Pins(s)
    PROVE  PinInv'
  <1> SUFFICES ASSUME NEW s \in Surfaces PROVE Pinned(s)'
    BY DEF PinInv, Pinned
  <1> QED
    BY PinsQuiet DEF PinInv, Pinned

(* A buffer is filled that was free, or freed, or changes its counts.      *)
LEMMA BufferPins ==
    ASSUME TypeOK, PinInv, UNCHANGED <<lock_count, va_lock_count, image>>,
           NEW b \in Buffers, NEW r, buffer' = [buffer EXCEPT ![b] = r],
           \A s \in Surfaces : r # NoBuffer /\ r.data = s => Shows(b, s)
    PROVE  PinInv'
  <1> SUFFICES ASSUME NEW s \in Surfaces PROVE Pins(s)' \subseteq Pins(s)
    BY PinsStay
  <1>1. \A c \in Buffers : Shows(c, s)' => Shows(c, s)
    BY DEF Shows, TypeOK
  <1> QED
    BY <1>1 DEF Pins, Stray, Views, LeadsTo

LEMMA SlotPins ==
    ASSUME TypeOK, PinInv, SlotNext
    PROVE  PinInv'
  <1>p. Plain.data = NoSurface /\ NoSurface \notin Surfaces
    BY ConstantsAssumption DEF Plain
  <1>1. ASSUME NEW b \in Buffers, CreateBuffer(b) PROVE PinInv'
    BY <1>1, <1>p, BufferPins DEF CreateBuffer, countVars
  <1>2. ASSUME NEW b \in Buffers, DestroyBuffer(b) PROVE PinInv'
    BY <1>2, BufferPins DEF DestroyBuffer, countVars
  <1>3. ASSUME NEW b \in Buffers, MapBuffer(b) PROVE PinInv'
    <2>1. buffer' = [buffer EXCEPT ![b] = [buffer[b] EXCEPT !.map_count = @ + 1]]
      BY <1>3, Zenon DEF MapBuffer
    <2>2. buffer[b] # NoBuffer /\ buffer[b] \in BufferStates
      BY <1>3 DEF MapBuffer, TypeOK
    <2>3. [buffer[b] EXCEPT !.map_count = @ + 1].data = buffer[b].data
      BY <2>2 DEF BufferStates
    <2>4. UNCHANGED <<lock_count, va_lock_count, image>>
      BY <1>3 DEF MapBuffer
    <2> QED
      BY <2>1, <2>2, <2>3, <2>4, BufferPins DEF Shows
  <1>4. ASSUME NEW b \in Buffers, UnmapBuffer(b) PROVE PinInv'
    <2>1. buffer' = [buffer EXCEPT ![b] = [buffer[b] EXCEPT !.map_count = @ - 1]]
      BY <1>4, Zenon DEF UnmapBuffer
    <2>2. buffer[b] # NoBuffer /\ buffer[b] \in BufferStates
      BY <1>4 DEF UnmapBuffer, TypeOK
    <2>3. [buffer[b] EXCEPT !.map_count = @ - 1].data = buffer[b].data
      BY <2>2 DEF BufferStates
    <2>4. UNCHANGED <<lock_count, va_lock_count, image>>
      BY <1>4 DEF UnmapBuffer
    <2> QED
      BY <2>1, <2>2, <2>3, <2>4, BufferPins DEF Shows
  <1>5. ASSUME NEW b \in Buffers, AcquireBufferHandle(b) PROVE PinInv'
    <2>1. buffer' = [buffer EXCEPT ![b] = [buffer[b] EXCEPT !.handle_acquired = TRUE]]
      BY <1>5, Zenon DEF AcquireBufferHandle
    <2>2. buffer[b] # NoBuffer /\ buffer[b] \in BufferStates
      BY <1>5 DEF AcquireBufferHandle, IsDerived, TypeOK
    <2>3. [buffer[b] EXCEPT !.handle_acquired = TRUE].data = buffer[b].data
      BY <2>2 DEF BufferStates
    <2>4. UNCHANGED <<lock_count, va_lock_count, image>>
      BY <1>5 DEF AcquireBufferHandle
    <2> QED
      BY <2>1, <2>2, <2>3, <2>4, BufferPins DEF Shows
  <1>6. ASSUME NEW b \in Buffers, ReleaseBufferHandle(b) PROVE PinInv'
    <2>1. buffer' = [buffer EXCEPT ![b] = [buffer[b] EXCEPT !.handle_acquired = FALSE]]
      BY <1>6, Zenon DEF ReleaseBufferHandle
    <2>2. buffer[b] # NoBuffer /\ buffer[b] \in BufferStates
      BY <1>6 DEF ReleaseBufferHandle, TypeOK
    <2>3. [buffer[b] EXCEPT !.handle_acquired = FALSE].data = buffer[b].data
      BY <2>2 DEF BufferStates
    <2>4. UNCHANGED <<lock_count, va_lock_count, image>>
      BY <1>6 DEF ReleaseBufferHandle
    <2> QED
      BY <2>1, <2>2, <2>3, <2>4, BufferPins DEF Shows
  <1>7. ASSUME NEW i \in Images, DestroyImage(i) PROVE PinInv'
    BY <1>7, DestroyImagePins
  <1>8. ASSUME NEW i \in Images, NEW b \in Buffers, CreateImage(i, b) PROVE PinInv'
    <2> SUFFICES ASSUME NEW s \in Surfaces PROVE Pins(s)' \subseteq Pins(s)
      BY <1>8, PinsStay DEF CreateImage, countVars
    <2>1. /\ image' = [image EXCEPT ![i] = [buf_id |-> b, surface_id |-> NoSurface]]
          /\ buffer' = [buffer EXCEPT ![b] = Plain] /\ image[i] = NoImage
      BY <1>8 DEF CreateImage, IsFirstFree
    <2>2. \A c \in Buffers : Shows(c, s)' => Shows(c, s)
      BY <2>1, <1>p DEF Shows, TypeOK
    <2>3. \A j \in Images, c \in Buffers : LeadsTo(j, c, s) => LeadsTo(j, c, s)'
      BY <2>1 DEF LeadsTo, TypeOK
    <2>4. \A j \in Views(s)' : j \in Views(s)
      BY <2>1, <1>p DEF Views, TypeOK
    <2> QED
      BY <2>2, <2>3, <2>4 DEF Pins, Stray
  <1> QED
    BY <1>1, <1>2, <1>3, <1>4, <1>5, <1>6, <1>7, <1>8 DEF SlotNext

(* The lock of s is granted or ended.                                      *)
LEMMA LockPins ==
    ASSUME TypeOK, PinInv, NEW s \in Surfaces, UNCHANGED slotVars,
           \/ /\ lock_count' = [lock_count EXCEPT ![s] = @ + 1]
              /\ va_lock_count' = [va_lock_count EXCEPT ![s] = @ + 1]
           \/ /\ lock_count' = [lock_count EXCEPT ![s] = @ - 1]
              /\ va_lock_count' = [va_lock_count EXCEPT ![s] = @ - 1]
           \/ UNCHANGED <<lock_count, va_lock_count>>
    PROVE  PinInv'
  <1> SUFFICES ASSUME NEW x \in Surfaces PROVE Pinned(x)'
    BY DEF PinInv, Pinned
  <1>1. \E d \in {-1, 0, 1} : /\ lock_count'[x] = lock_count[x] + d
                              /\ va_lock_count'[x] = va_lock_count[x] + d
    BY DEF TypeOK
  <1> QED
    BY <1>1, PinsLock DEF PinInv, Pinned

LEMMA SurfacePins ==
    ASSUME TypeOK, PinInv, NEW s \in Surfaces, SurfaceNext(s)
    PROVE  PinInv'
  <1>1. CASE UNCHANGED <<lock_count, va_lock_count, slotVars>>
    BY <1>1, PinsUnchanged, PinsStay
  <1>2. CASE DestroySurface(s)
    <2> SUFFICES ASSUME NEW x \in Surfaces PROVE Pinned(x)'
      BY DEF PinInv, Pinned
    <2>1. Pins(x)' = Pins(x)
      BY <1>2, PinsUnchanged DEF DestroySurface
    <2>2. lock_count'[x] = lock_count[x] /\ va_lock_count'[x] \in {0, va_lock_count[x]}
      BY <1>2 DEF DestroySurface, TypeOK
    <2>3. lock_count[x] \in Nat /\ va_lock_count[x] \in Nat /\ Cardinality(Pins(x)) \in Nat
      BY PinsAreFinite DEF TypeOK
    <2> QED
      BY <2>1, <2>2, <2>3 DEF PinInv, Pinned
  <1>3. CASE LockSurface(s)
    BY <1>3, LockPins DEF LockSurface, GrantLock
  <1>4. CASE UnlockSurface(s)
    BY <1>4, LockPins DEF UnlockSurface
  <1>5. ASSUME NEW i \in Images, NEW b \in Buffers, DeriveImage(s, i, b) PROVE PinInv'
    BY <1>5, DerivePins DEF DeriveImage
  <1> QED
    BY <1>1, <1>2, <1>3, <1>4, <1>5
    DEF SurfaceNext, CreateSurface, BeginDecode, BeginEncode, CpuWrite, FlushThenFail,
        ExportSurface, GetImage, GrantGet, PutImage, GrantPut, accessVars, countVars

LEMMA ContinuePins ==
    ASSUME TypeOK, PinInv, NEW c, WaitingCall(c), Continue(c)
    PROVE  PinInv'
  <1> USE DEF WaitingCall
  <1>1. CASE UNCHANGED <<lock_count, va_lock_count, slotVars>>
    BY <1>1, PinsUnchanged, PinsStay
  <1>2. CASE GrantLock(c.surf)
    BY <1>2, LockPins DEF GrantLock
  <1>3. CASE c.op = "derive" /\ GrantDerive(c.surf, c.img, c.buf)
    BY <1>3, DerivePins
  <1> QED
    BY <1>1, <1>2, <1>3, ContinueCases DEF GrantExport, GrantGet, GrantPut, accessVars, countVars

(* What a thread's step may do to what the properties speak of: its call   *)
(* goes on, or no surface's counts or slots change.                        *)
LEMMA ThreadAccess ==
    ASSUME TypeOK, CallInv, NEW t \in Threads, ThreadNext(t)
    PROVE  \/ WaitingCall(call[t]) /\ Continue(call[t])
           \/ UNCHANGED <<countVars, slotVars>>
  <1>1. CASE MeetsPending(t)
    BY <1>1, MeetsCases DEF Begins, Wait
  <1>2. CASE Resolve(t)
    BY <1>2, ResolveCases, WaitersCall DEF Fail, accessVars
  <1>3. CASE Wake(t)
    BY <1>3, WakeCases, WaitersCall DEF Fail, accessVars
  <1> QED
    BY <1>1, <1>2, <1>3 DEF ThreadNext, ResolveEarlier, accessVars

LEMMA PinStep ==
    ASSUME TypeOK, CallInv, PinInv, [Next]_vars
    PROVE  PinInv'
  <1>1. CASE UNCHANGED <<lock_count, va_lock_count, slotVars>>
    BY <1>1, PinsUnchanged, PinsStay
  <1>2. ASSUME NEW t \in Threads, ThreadNext(t) PROVE PinInv'
    BY <1>2, <1>1, ThreadAccess, ContinuePins DEF countVars
  <1>3. CASE HardwareNext
    BY <1>3, <1>1, UsedStaysHardware DEF accessVars, countVars
  <1>4. CASE UNCHANGED vars
    BY <1>4, <1>1 DEF vars, accessVars, countVars
  <1> QED
    BY <1>2, <1>3, <1>4, SurfacePins, SlotPins DEF Next

-----------------------------------------------------------------------------
(* Theorems that hold whatever calls are made on pending surfaces.         *)

LEMMA InitAnyUse == Init => AnyUse
  <1> SUFFICES ASSUME Init PROVE AnyUse
    OBVIOUS
  <1>1. TypeOK
    <2>1. LifeTypes /\ DecTypes /\ EncTypes
      BY DEF Init, LifeTypes, DecTypes, EncTypes, Flags, Targets
    <2>2. ThrTypes
      BY NoCallTypes DEF Init, ThrTypes
    <2>3. CountTypes /\ CacheTypes /\ SlotTypes
      BY DEF Init, CountTypes, CacheTypes, SlotTypes, Counts, Caches, Flags
    <2> QED
      BY <2>1, <2>2, <2>3, TypesInGroups
  <1>2. CallInv
    BY DEF Init, CallInv, NoCall
  <1>3. LifeInv
    BY DEF Init, LifeInv
  <1>4. PinInv
    <2> SUFFICES ASSUME NEW s \in Surfaces
                 PROVE  Cardinality(Pins(s)) + va_lock_count[s] <= lock_count[s]
      BY DEF PinInv
    <2>1. Pins(s) = {}
      BY DEF Init, Pins, Views, Stray, Shows
    <2> QED
      BY <2>1, FS_EmptySet DEF Init
  <1> QED
    BY <1>1, <1>2, <1>3, <1>4 DEF AnyUse

LEMMA AnyUseStep ==
    ASSUME AnyUse, [Next]_vars
    PROVE  AnyUse'
  BY TypeStep, CallStep, LifeStep, PinStep DEF AnyUse

(* Types, what waiting calls carry, which surfaces exist, and that every   *)
(* image and every buffer of a surface has a lock on it: the inductive     *)
(* invariant that holds whatever the application does.                     *)
THEOREM AnyUseInductive == Spec => []AnyUse
  BY InitAnyUse, AnyUseStep, PTL DEF Spec

(* Every variable of SurfaceAccess keeps its type: no count goes below     *)
(* zero.                                                                   *)
THEOREM AccessTypesHold == Spec => []TypeOK
  <1>1. AnyUse => TypeOK
    BY DEF AnyUse
  <1> QED
    BY <1>1, AnyUseInductive, PTL

(* Memory that the CPU may reach through a lock or a buffer belongs to a   *)
(* surface that exists, is locked and has no picture in progress, also     *)
(* when calls on pending surfaces overlap and two derived images end up in *)
(* one slot.                                                               *)
THEOREM ReachableMemoryHeld == Spec => []ReachableMemoryStays
  <1>1. AnyUse => ReachableMemoryStays
    <2> SUFFICES ASSUME AnyUse, NEW s \in Surfaces,
                        \/ va_lock_count[s] > 0
                        \/ \E b \in Buffers : Shows(b, s)
                 PROVE  allocated[s] /\ lock_count[s] > 0 /\ ~decode_pending[s]
      BY DEF ReachableMemoryStays, Shows
    <2>1. Cardinality(Pins(s)) + va_lock_count[s] <= lock_count[s]
      BY DEF AnyUse, PinInv
    <2>2. lock_count[s] \in Nat /\ va_lock_count[s] \in Nat /\ Cardinality(Pins(s)) \in Nat
      BY PinsAreFinite DEF AnyUse, TypeOK
    <2>3. ASSUME NEW b \in Buffers, Shows(b, s) PROVE Cardinality(Pins(s)) > 0
      <3>1. Pins(s) # {}
        <4>1. CASE Stray(b, s)
          BY <4>1 DEF Pins
        <4>2. ASSUME NEW i \in Images, LeadsTo(i, b, s) PROVE Pins(s) # {}
          <5>1. <<"image", i>> \in Pins(s)
            BY <4>2 DEF Pins, Views, LeadsTo
          <5> QED
            BY <5>1
        <4> QED
          BY <2>3, <4>1, <4>2 DEF Stray
      <3> QED
        BY <2>2, <3>1, PinsAreFinite, FS_EmptySet
    <2>4. lock_count[s] > 0
      BY <2>1, <2>2, <2>3
    <2> QED
      BY <2>4 DEF AnyUse, LifeInv
  <1> QED
    BY <1>1, AnyUseInductive, PTL

-----------------------------------------------------------------------------
(* Images and their buffers, when no image is derived from a surface that  *)
(* is pending.                                                             *)

(* The search for the image of a buffer finds the surface it shows.        *)
LEMMA DerivedIsData ==
    ASSUME TypeOK, SlotInv, NEW b \in Buffers, buffer[b] # NoBuffer
    PROVE  DerivedFrom(b) = buffer[b].data
  <1> DEFINE shows == {i \in Images : /\ image[i] # NoImage
                                      /\ image[i].buf_id = b
                                      /\ image[i].surface_id # NoSurface}
             first == CHOOSE i \in shows : \A j \in shows : i <= j
  <1>1. DerivedFrom(b) = IF shows = {} THEN NoSurface ELSE image[first].surface_id
    BY DEF DerivedFrom
  <1>2. CASE buffer[b].data = NoSurface
    <2>1. shows = {}
      BY <1>2 DEF SlotInv
    <2> HIDE DEF shows, first
    <2> QED
      BY <1>1, <1>2, <2>1
  <1>3. CASE buffer[b].data # NoSurface
    <2>1. PICK i \in Images : LeadsTo(i, b, buffer[b].data)
      BY <1>3 DEF SlotInv, IsDerived
    <2>2. shows = {i}
      BY <1>3, <2>1 DEF SlotInv, LeadsTo
    <2>3. i <= i
      BY DEF Images
    <2>4. first = i
      <3> HIDE DEF shows
      <3> QED
        BY <2>2, <2>3
    <2> HIDE DEF first
    <2> QED
      BY <1>1, <2>1, <2>2, <2>4 DEF LeadsTo
  <1> QED
    BY <1>2, <1>3

LEMMA SlotsStay == SlotInv /\ UNCHANGED slotVars => SlotInv'
  BY DEF SlotInv, slotVars, LeadsTo, IsDerived

(* A buffer's counts change, not what it shows.                            *)
LEMMA SlotsRecount ==
    ASSUME TypeOK, SlotInv, UNCHANGED image, NEW b \in Buffers, buffer[b] # NoBuffer,
           NEW r, r # NoBuffer, r.data = buffer[b].data,
           buffer' = [buffer EXCEPT ![b] = r]
    PROVE  SlotInv'
  <1>1. \A c \in Buffers : /\ (buffer'[c] = NoBuffer) = (buffer[c] = NoBuffer)
                           /\ buffer'[c].data = buffer[c].data
    BY DEF TypeOK
  <1>2. \A i \in Images : image[i] # NoImage => image[i].buf_id \in Buffers
    BY DEF TypeOK, ImageStates
  <1> QED
    BY <1>1, <1>2 DEF SlotInv, LeadsTo, IsDerived

(* A new buffer, plain or a view, with or without an image.                *)
LEMMA SlotsFilled ==
    ASSUME TypeOK, SlotInv, NEW i \in Images, image[i] = NoImage,
           NEW b \in Buffers, buffer[b] = NoBuffer, NEW s \in Targets,
           NEW r \in BufferStates, r.data = s, buffer' = [buffer EXCEPT ![b] = r],
           image' = [image EXCEPT ![i] = [buf_id |-> b, surface_id |-> s]]
    PROVE  SlotInv'
  <1>1. r # NoBuffer
    BY NullAssumption
  <1>3. /\ [buf_id |-> b, surface_id |-> s] \in ImageStates
        /\ [buf_id |-> b, surface_id |-> s] # NoImage
    BY NullAssumption DEF ImageStates, Targets
  <1>4. \A j \in Images : image[j] # NoImage => image[j].buf_id \in Buffers /\ image[j].buf_id # b
    BY DEF SlotInv, TypeOK, ImageStates
  <1>5. /\ buffer'[b] # NoBuffer /\ buffer'[b].data = s
        /\ \A c \in Buffers : c # b => buffer'[c] = buffer[c]
    BY <1>1 DEF TypeOK
  <1>6. /\ image'[i] # NoImage /\ image'[i].buf_id = b /\ image'[i].surface_id = s
        /\ \A j \in Images : j # i => image'[j] = image[j]
    BY <1>3 DEF TypeOK
  <1> QED
    BY <1>4, <1>5, <1>6 DEF SlotInv, LeadsTo, IsDerived

LEMMA SlotInvStep ==
    ASSUME TypeOK, SlotInv, SlotNext
    PROVE  SlotInv'
  <1>b. \A j \in Images : image[j] # NoImage => image[j].buf_id \in Buffers
    BY DEF TypeOK, ImageStates
  <1>1. ASSUME NEW b \in Buffers, CreateBuffer(b) PROVE SlotInv'
    <2>1. /\ buffer[b] = NoBuffer /\ UNCHANGED image
          /\ buffer' = [buffer EXCEPT ![b] = Plain]
      BY <1>1 DEF CreateBuffer, IsFirstFree
    <2>2. Plain.data = NoSurface /\ Plain # NoBuffer
      BY PlainTypes, NullAssumption DEF Plain
    <2>3. \A c \in Buffers : c # b => buffer'[c] = buffer[c]
      BY <2>1 DEF TypeOK
    <2>4. buffer'[b] = Plain
      BY <2>1 DEF TypeOK
    <2> QED
      BY <1>b, <2>1, <2>2, <2>3, <2>4 DEF SlotInv, LeadsTo, IsDerived
  <1>2. ASSUME NEW b \in Buffers, DestroyBuffer(b) PROVE SlotInv'
    <2>1. /\ UNCHANGED image /\ buffer' = [buffer EXCEPT ![b] = NoBuffer]
          /\ \A i \in Images : image[i] # NoImage => image[i].buf_id # b
      BY <1>2 DEF DestroyBuffer
    <2>2. buffer'[b] = NoBuffer /\ \A c \in Buffers : c # b => buffer'[c] = buffer[c]
      BY <2>1 DEF TypeOK
    <2> QED
      BY <1>b, <2>1, <2>2 DEF SlotInv, LeadsTo, IsDerived
  <1>3. ASSUME NEW b \in Buffers, MapBuffer(b) PROVE SlotInv'
    <2>1. buffer' = [buffer EXCEPT ![b] = [buffer[b] EXCEPT !.map_count = @ + 1]]
      BY <1>3, Zenon DEF MapBuffer
    <2>2. buffer[b] # NoBuffer /\ buffer[b] \in BufferStates /\ UNCHANGED image
      BY <1>3 DEF MapBuffer, TypeOK
    <2>3. [buffer[b] EXCEPT !.map_count = @ + 1].data = buffer[b].data
      BY <2>2 DEF BufferStates
    <2>4. [buffer[b] EXCEPT !.map_count = @ + 1] # NoBuffer
      BY <1>3, <2>2, BufferTypes, NullAssumption DEF MapBuffer
    <2> QED
      BY <2>1, <2>2, <2>3, <2>4, SlotsRecount
  <1>4. ASSUME NEW b \in Buffers, UnmapBuffer(b) PROVE SlotInv'
    <2>1. buffer' = [buffer EXCEPT ![b] = [buffer[b] EXCEPT !.map_count = @ - 1]]
      BY <1>4, Zenon DEF UnmapBuffer
    <2>2. buffer[b] # NoBuffer /\ buffer[b] \in BufferStates /\ UNCHANGED image
      BY <1>4 DEF UnmapBuffer, TypeOK
    <2>3. [buffer[b] EXCEPT !.map_count = @ - 1].data = buffer[b].data
      BY <2>2 DEF BufferStates
    <2>4. [buffer[b] EXCEPT !.map_count = @ - 1] # NoBuffer
      BY <1>4, <2>2, BufferTypes, NullAssumption DEF UnmapBuffer
    <2> QED
      BY <2>1, <2>2, <2>3, <2>4, SlotsRecount
  <1>5. ASSUME NEW b \in Buffers, NEW v \in BOOLEAN,
               buffer[b] # NoBuffer, UNCHANGED image,
               buffer' = [buffer EXCEPT ![b] = [buffer[b] EXCEPT !.handle_acquired = v]]
        PROVE  SlotInv'
    <2>2. buffer[b] \in BufferStates
      BY <1>5 DEF TypeOK
    <2>3. [buffer[b] EXCEPT !.handle_acquired = v].data = buffer[b].data
      BY <2>2 DEF BufferStates
    <2>4. [buffer[b] EXCEPT !.handle_acquired = v] # NoBuffer
      BY <2>2, BufferTypes, NullAssumption
    <2> QED
      BY <1>5, <2>3, <2>4, SlotsRecount
  <1>6. ASSUME NEW b \in Buffers, AcquireBufferHandle(b) PROVE SlotInv'
    <2>1. buffer' = [buffer EXCEPT ![b] = [buffer[b] EXCEPT !.handle_acquired = TRUE]]
      BY <1>6, Zenon DEF AcquireBufferHandle
    <2> QED
      BY <1>6, <2>1, <1>5 DEF AcquireBufferHandle, IsDerived
  <1>7. ASSUME NEW b \in Buffers, ReleaseBufferHandle(b) PROVE SlotInv'
    <2>1. buffer' = [buffer EXCEPT ![b] = [buffer[b] EXCEPT !.handle_acquired = FALSE]]
      BY <1>7, Zenon DEF ReleaseBufferHandle
    <2> QED
      BY <1>7, <2>1, <1>5 DEF ReleaseBufferHandle
  <1>8. ASSUME NEW i \in Images, DestroyImage(i) PROVE SlotInv'
    <2> DEFINE b == image[i].buf_id
    <2>1. /\ image[i] # NoImage /\ image' = [image EXCEPT ![i] = NoImage]
          /\ buffer' = [buffer EXCEPT ![b] = NoBuffer]
      BY <1>8 DEF DestroyImage
    <2>2. image'[i] = NoImage /\ \A j \in Images : j # i => image'[j] = image[j]
      BY <2>1 DEF TypeOK
    <2>3. b \in Buffers /\ \A j \in Images : image[j] # NoImage /\ j # i => image[j].buf_id # b
      BY <1>b, <2>1 DEF SlotInv
    <2>4. buffer'[b] = NoBuffer /\ \A c \in Buffers : c # b => buffer'[c] = buffer[c]
      BY <2>1, <2>3 DEF TypeOK
    <2> HIDE DEF b
    <2>5. \A j \in Images : image'[j] # NoImage =>
             /\ j # i /\ image'[j] = image[j] /\ image[j].buf_id # b
             /\ buffer'[image[j].buf_id] = buffer[image[j].buf_id]
      BY <1>b, <2>2, <2>3, <2>4
    <2>6. ASSUME NEW c \in Buffers, IsDerived(c)'
          PROVE  \E j \in Images : LeadsTo(j, c, buffer[c].data)'
      <3>1. c # b /\ IsDerived(c) /\ buffer'[c] = buffer[c]
        BY <2>4, <2>6 DEF IsDerived
      <3>2. PICK j \in Images : LeadsTo(j, c, buffer[c].data)
        BY <3>1 DEF SlotInv
      <3>3. j # i
        BY <3>1, <3>2 DEF LeadsTo, b
      <3> QED
        BY <2>2, <3>1, <3>2, <3>3 DEF LeadsTo
    <2> QED
      BY <2>2, <2>5, <2>6 DEF SlotInv
  <1>9. ASSUME NEW i \in Images, NEW b \in Buffers, CreateImage(i, b) PROVE SlotInv'
    <2>1. Plain \in BufferStates /\ Plain.data = NoSurface
      BY PlainTypes DEF Plain
    <2> QED
      BY <1>9, <2>1, SlotsFilled DEF CreateImage, IsFirstFree, Targets
  <1> QED
    BY <1>1, <1>2, <1>3, <1>4, <1>6, <1>7, <1>8, <1>9 DEF SlotNext

(* A derived image, at the end of vaDeriveImage, fills free slots.         *)
LEMMA DeriveSlots ==
    ASSUME TypeOK, SlotInv, NEW s \in Surfaces, NEW i \in Images, NEW b \in Buffers,
           DeriveImage(s, i, b)
    PROVE  SlotInv'
  <1>1. /\ [Plain EXCEPT !.data = s] \in BufferStates
        /\ [Plain EXCEPT !.data = s].data = s
    BY PlainTypes, BufferTypes DEF Plain, Targets
  <1> QED
    BY <1>1, SlotsFilled DEF DeriveImage, AsksDerive, IsFirstFree, GrantDerive, Targets

(* Without derivations that wait a call that goes on leaves slots alone.   *)
LEMMA ContinueSlots ==
    ASSUME NothingDerived, NEW c, WaitingCall(c), Continue(c)
    PROVE  /\ UNCHANGED slotVars
           /\ UNCHANGED countVars \/ GrantLock(c.surf)
  <1>1. c.op # "derive"
    BY DEF NothingDerived, WaitingCall
  <1> QED
    BY <1>1, ContinueCases DEF GrantExport, GrantLock, GrantGet, GrantPut, accessVars

-----------------------------------------------------------------------------
(* The counters count.                                                     *)

LEMMA CountedSetsAreFinite ==
    ASSUME NEW s \in Surfaces
    PROVE  /\ IsFiniteSet(Views(s)) /\ IsFiniteSet(Mapped(s)) /\ IsFiniteSet(Out(s))
           /\ Cardinality(Views(s)) \in Nat /\ Cardinality(Mapped(s)) \in Nat
           /\ Cardinality(Out(s)) \in Nat
  <1>1. Views(s) \in SUBSET Images /\ Mapped(s) \in SUBSET Buffers /\ Out(s) \in SUBSET Buffers
    BY DEF Views, Mapped, Out
  <1>2. IsFiniteSet(Views(s)) /\ IsFiniteSet(Mapped(s)) /\ IsFiniteSet(Out(s))
    BY <1>1, SlotsAreFinite, FS_Subset
  <1> QED
    BY <1>2, FS_CardinalityType

LEMMA CardinalityGrows ==
    ASSUME NEW S, IsFiniteSet(S), NEW x, x \notin S
    PROVE  Cardinality(S \cup {x}) = Cardinality(S) + 1
  BY FS_AddElement

LEMMA CardinalityShrinks ==
    ASSUME NEW S, IsFiniteSet(S), NEW x \in S
    PROVE  Cardinality(S \ {x}) = Cardinality(S) - 1 /\ Cardinality(S) > 0
  <1>1. S # {} /\ Cardinality(S) \in Nat /\ Cardinality(S) # 0
    BY FS_CardinalityType, FS_EmptySet
  <1> QED
    BY <1>1, FS_RemoveElement

(* What CountInv says of one surface.                                      *)
Tally(s) ==
    /\ lock_count[s] = va_lock_count[s] + Cardinality(Views(s))
    /\ cpu_access_count[s] = va_lock_count[s] + Cardinality(Mapped(s))
    /\ external_handle_count[s] = Cardinality(Out(s))

LEMMA SetsStay ==
    UNCHANGED slotVars =>
        \A s \in Surfaces : /\ Views(s)' = Views(s) /\ Mapped(s)' = Mapped(s)
                            /\ Out(s)' = Out(s)
  BY DEF slotVars, Views, Mapped, Out, Shows

LEMMA CountsStay == CountInv /\ UNCHANGED <<countVars, slotVars>> => CountInv'
  BY SetsStay DEF CountInv, countVars

(* A lock is granted or ended: it counts as a CPU access too.              *)
LEMMA CountsLocked ==
    ASSUME TypeOK, CountInv, UNCHANGED <<slotVars, external_handle_count>>, NEW s \in Surfaces,
           \/ /\ lock_count' = [lock_count EXCEPT ![s] = @ + 1]
              /\ va_lock_count' = [va_lock_count EXCEPT ![s] = @ + 1]
              /\ cpu_access_count' = [cpu_access_count EXCEPT ![s] = @ + 1]
           \/ /\ lock_count' = [lock_count EXCEPT ![s] = @ - 1]
              /\ va_lock_count' = [va_lock_count EXCEPT ![s] = @ - 1]
              /\ cpu_access_count' = [cpu_access_count EXCEPT ![s] = @ - 1]
    PROVE  CountInv'
  <1> SUFFICES ASSUME NEW x \in Surfaces PROVE Tally(x)'
    BY DEF CountInv, Tally
  <1>1. Views(x)' = Views(x) /\ Mapped(x)' = Mapped(x) /\ Out(x)' = Out(x)
    BY SetsStay
  <1>2. Tally(x)
    BY DEF CountInv, Tally
  <1>3. /\ lock_count[x] \in Nat /\ va_lock_count[x] \in Nat /\ cpu_access_count[x] \in Nat
        /\ Cardinality(Views(x)) \in Nat /\ Cardinality(Mapped(x)) \in Nat
    BY CountedSetsAreFinite DEF TypeOK
  <1>4. \E d \in {-1, 0, 1} : /\ lock_count'[x] = lock_count[x] + d
                              /\ va_lock_count'[x] = va_lock_count[x] + d
                              /\ cpu_access_count'[x] = cpu_access_count[x] + d
    BY DEF TypeOK
  <1> QED
    BY <1>1, <1>2, <1>3, <1>4 DEF Tally

(* Nobody is in a surface that is not locked.                              *)
LEMMA UnlockedIsQuiet ==
    ASSUME TypeOK, SlotInv, CountInv, NEW s \in Surfaces, lock_count[s] = 0
    PROVE  /\ Views(s) = {} /\ va_lock_count[s] = 0 /\ \A b \in Buffers : ~Shows(b, s)
           /\ Mapped(s) = {} /\ cpu_access_count[s] = 0 /\ external_handle_count[s] = 0
  <1>1. Tally(s)
    BY DEF CountInv, Tally
  <1>2. va_lock_count[s] \in Nat /\ Cardinality(Views(s)) \in Nat
    BY CountedSetsAreFinite DEF TypeOK
  <1>3. va_lock_count[s] = 0 /\ Cardinality(Views(s)) = 0
    BY <1>1, <1>2 DEF Tally
  <1>4. Views(s) = {}
    BY <1>3, CountedSetsAreFinite, FS_EmptySet
  <1>5. \A b \in Buffers : ~Shows(b, s)
    <2> SUFFICES ASSUME NEW b \in Buffers, Shows(b, s) PROVE FALSE
      OBVIOUS
    <2>1. PICK i \in Images : LeadsTo(i, b, s)
      BY ConstantsAssumption DEF SlotInv, Shows, IsDerived
    <2> QED
      BY <1>4, <2>1 DEF LeadsTo, Views
  <1>6. Mapped(s) = {} /\ Out(s) = {}
    BY <1>5 DEF Mapped, Out
  <1> QED
    BY <1>1, <1>3, <1>4, <1>5, <1>6, FS_EmptySet DEF Tally

LEMMA CountsDestroyed ==
    ASSUME TypeOK, SlotInv, CountInv, NEW s \in Surfaces, DestroySurface(s)
    PROVE  CountInv'
  <1> SUFFICES ASSUME NEW x \in Surfaces PROVE Tally(x)'
    BY DEF CountInv, Tally
  <1>1. Views(x)' = Views(x) /\ Mapped(x)' = Mapped(x) /\ Out(x)' = Out(x)
    BY SetsStay DEF DestroySurface
  <1>2. /\ lock_count'[x] = lock_count[x] /\ va_lock_count'[x] = va_lock_count[x]
        /\ cpu_access_count'[x] = cpu_access_count[x]
        /\ external_handle_count'[x] = external_handle_count[x]
    <2>1. lock_count[s] = 0 /\ UNCHANGED <<lock_count, external_handle_count>>
      BY DEF DestroySurface
    <2>2. va_lock_count[s] = 0 /\ cpu_access_count[s] = 0
      BY <2>1, UnlockedIsQuiet
    <2> QED
      BY <2>1, <2>2 DEF DestroySurface, TypeOK
  <1> QED
    BY <1>1, <1>2 DEF CountInv, Tally

(* A view is added, on a buffer that is not mapped.                        *)
LEMMA CountsDerived ==
    ASSUME TypeOK, SlotInv, CountInv, NEW s \in Surfaces, NEW i \in Images, NEW b \in Buffers,
           DeriveImage(s, i, b)
    PROVE  CountInv'
  <1> SUFFICES ASSUME NEW x \in Surfaces PROVE Tally(x)'
    BY DEF CountInv, Tally
  <1>1. /\ image[i] = NoImage /\ buffer[b] = NoBuffer
        /\ image' = [image EXCEPT ![i] = [buf_id |-> b, surface_id |-> s]]
        /\ buffer' = [buffer EXCEPT ![b] = [Plain EXCEPT !.data = s]]
        /\ lock_count' = [lock_count EXCEPT ![s] = @ + 1]
        /\ UNCHANGED <<va_lock_count, cpu_access_count, external_handle_count>>
    BY DEF DeriveImage, AsksDerive, IsFirstFree, GrantDerive
  <1>2. [buf_id |-> b, surface_id |-> s] # NoImage
    BY NullAssumption DEF ImageStates
  <1>3. Views(x)' = IF x = s THEN Views(x) \cup {i} ELSE Views(x)
    BY <1>1, <1>2 DEF Views, TypeOK
  <1>4. Mapped(x)' = Mapped(x) /\ Out(x)' = Out(x)
    <2>1. buffer'[b].map_count = 0 /\ ~buffer'[b].handle_acquired
      BY <1>1 DEF Plain, TypeOK
    <2>2. ~Shows(b, x)
      BY <1>1 DEF Shows
    <2>3. \A c \in Buffers : c # b => buffer'[c] = buffer[c]
      BY <1>1 DEF TypeOK
    <2> QED
      BY <2>1, <2>2, <2>3 DEF Mapped, Out, Shows
  <1>5. i \notin Views(x)
    BY <1>1 DEF Views
  <1>6. /\ lock_count[x] \in Nat /\ va_lock_count[x] \in Nat
        /\ Cardinality(Views(x)) \in Nat /\ IsFiniteSet(Views(x))
    BY CountedSetsAreFinite DEF TypeOK
  <1>7. Tally(x)
    BY DEF CountInv, Tally
  <1>8. CASE x = s
    <2>1. Cardinality(Views(x)') = Cardinality(Views(x)) + 1
      BY <1>3, <1>5, <1>6, <1>8, CardinalityGrows
    <2>2. lock_count'[x] = lock_count[x] + 1
      BY <1>1, <1>8 DEF TypeOK
    <2> QED
      BY <1>1, <1>4, <1>6, <1>7, <2>1, <2>2 DEF Tally
  <1>9. CASE x # s
    <2>1. lock_count'[x] = lock_count[x]
      BY <1>1, <1>9 DEF TypeOK
    <2> QED
      BY <1>1, <1>3, <1>4, <1>7, <1>9, <2>1 DEF Tally
  <1> QED
    BY <1>8, <1>9

(* What a change of one buffer does to the sets that are counted.          *)
LEMMA BufferSets ==
    ASSUME TypeOK, NEW b \in Buffers, NEW r, buffer' = [buffer EXCEPT ![b] = r],
           NEW x \in Surfaces
    PROVE  /\ Mapped(x)' = IF r # NoBuffer /\ r.data = x /\ r.map_count > 0
                           THEN Mapped(x) \cup {b} ELSE Mapped(x) \ {b}
           /\ Out(x)' = IF r # NoBuffer /\ r.data = x /\ r.handle_acquired
                        THEN Out(x) \cup {b} ELSE Out(x) \ {b}
  <1>1. buffer'[b] = r /\ \A c \in Buffers : c # b => buffer'[c] = buffer[c]
    BY DEF TypeOK
  <1>2. Mapped(x)' = IF r # NoBuffer /\ r.data = x /\ r.map_count > 0
                     THEN Mapped(x) \cup {b} ELSE Mapped(x) \ {b}
    BY <1>1 DEF Mapped, Shows
  <1>3. Out(x)' = IF r # NoBuffer /\ r.data = x /\ r.handle_acquired
                  THEN Out(x) \cup {b} ELSE Out(x) \ {b}
    BY <1>1 DEF Out, Shows
  <1> QED
    BY <1>2, <1>3

(* A buffer that is in neither set stays in neither.                       *)
LEMMA QuietBufferSets ==
    ASSUME TypeOK, NEW b \in Buffers, NEW r, buffer' = [buffer EXCEPT ![b] = r],
           buffer[b] = NoBuffer \/ IsQuiet(b) \/ buffer[b].data \notin Surfaces,
           r = NoBuffer \/ r.data \notin Surfaces,
           NEW x \in Surfaces
    PROVE  Mapped(x)' = Mapped(x) /\ Out(x)' = Out(x)
  <1>1. b \notin Mapped(x) /\ b \notin Out(x)
    BY DEF Mapped, Out, Shows, IsQuiet
  <1>2. Mapped(x)' = Mapped(x) \ {b} /\ Out(x)' = Out(x) \ {b}
    BY BufferSets
  <1> QED
    BY <1>1, <1>2

(* Plain buffers come and go.                                              *)
LEMMA CountsPlain ==
    ASSUME TypeOK, CountInv, UNCHANGED countVars,
           \A s \in Surfaces : Views(s)' = Views(s),
           NEW b \in Buffers, NEW r, buffer' = [buffer EXCEPT ![b] = r],
           buffer[b] = NoBuffer \/ IsQuiet(b) \/ buffer[b].data \notin Surfaces,
           r = NoBuffer \/ r.data \notin Surfaces
    PROVE  CountInv'
  <1> SUFFICES ASSUME NEW s \in Surfaces PROVE Tally(s)'
    BY DEF CountInv, Tally
  <1>1. Views(s)' = Views(s) /\ Mapped(s)' = Mapped(s) /\ Out(s)' = Out(s)
    BY QuietBufferSets
  <1> QED
    BY <1>1 DEF CountInv, Tally, countVars

(* The first map of a view and the last unmap are counted, no others.      *)
LEMMA CountsMapped ==
    ASSUME TypeOK, SlotInv, CountInv, NEW b \in Buffers, MapBuffer(b)
    PROVE  CountInv'
  <1> DEFINE r == [buffer[b] EXCEPT !.map_count = @ + 1]
             s == buffer[b].data
  <1>1. buffer' = [buffer EXCEPT ![b] = r]
    BY Zenon DEF MapBuffer
  <1>2. buffer[b] # NoBuffer /\ buffer[b] \in BufferStates
    BY DEF MapBuffer, TypeOK
  <1>3. s \in Targets /\ buffer[b].map_count \in Nat
    BY <1>2, ConstantsAssumption DEF BufferStates, Targets
  <1>4. /\ r.data = s /\ r.handle_acquired = buffer[b].handle_acquired
        /\ r.map_count = buffer[b].map_count + 1 /\ r # NoBuffer
    <2>1. r \in BufferStates
      BY <1>2, BufferTypes DEF MapBuffer
    <2>2. /\ r.data = s /\ r.handle_acquired = buffer[b].handle_acquired
          /\ r.map_count = buffer[b].map_count + 1
      BY <1>2 DEF BufferStates
    <2> QED
      BY <2>1, <2>2, NullAssumption
  <1>5. DerivedFrom(b) = s
    BY <1>2, DerivedIsData
  <1>6. UNCHANGED <<lock_count, va_lock_count, external_handle_count, image>>
    BY DEF MapBuffer
  <1>7. IF s # NoSurface /\ buffer[b].map_count = 0
        THEN cpu_access_count' = [cpu_access_count EXCEPT ![s] = @ + 1]
        ELSE UNCHANGED cpu_access_count
    BY <1>2, <1>5 DEF MapBuffer, IsDerived
  <1> HIDE DEF r, s
  <1> SUFFICES ASSUME NEW x \in Surfaces PROVE Tally(x)'
    BY DEF CountInv, Tally
  <1>8. Views(x)' = Views(x)
    BY <1>6 DEF Views
  <1>9. Out(x)' = Out(x)
    <2>1. Out(x)' = IF r # NoBuffer /\ r.data = x /\ r.handle_acquired
                    THEN Out(x) \cup {b} ELSE Out(x) \ {b}
      BY <1>1, BufferSets
    <2>2. b \in Out(x) <=> (s = x /\ buffer[b].handle_acquired)
      BY <1>2 DEF Out, Shows, s
    <2> QED
      BY <1>4, <2>1, <2>2
  <1>10. Mapped(x)' = IF s = x THEN Mapped(x) \cup {b} ELSE Mapped(x)
    <2>1. Mapped(x)' = IF r # NoBuffer /\ r.data = x /\ r.map_count > 0
                       THEN Mapped(x) \cup {b} ELSE Mapped(x) \ {b}
      BY <1>1, BufferSets
    <2>2. s # x => b \notin Mapped(x)
      BY DEF Mapped, Shows, s
    <2> QED
      BY <1>3, <1>4, <2>1, <2>2
  <1>11. b \in Mapped(x) <=> (s = x /\ buffer[b].map_count > 0)
    BY <1>2 DEF Mapped, Shows, s
  <1>12. Tally(x)
    BY DEF CountInv, Tally
  <1>13. /\ cpu_access_count[x] \in Nat /\ va_lock_count[x] \in Nat
         /\ Cardinality(Mapped(x)) \in Nat /\ IsFiniteSet(Mapped(x))
    BY CountedSetsAreFinite DEF TypeOK
  <1>14. cpu_access_count'[x] = va_lock_count[x] + Cardinality(Mapped(x)')
    <2>1. CASE s = x /\ buffer[b].map_count = 0
      <3>1. cpu_access_count'[x] = cpu_access_count[x] + 1
        BY <1>7, <2>1, ConstantsAssumption DEF TypeOK
      <3>2. Cardinality(Mapped(x)') = Cardinality(Mapped(x)) + 1
        BY <1>10, <1>11, <1>13, <2>1, CardinalityGrows
      <3> QED
        BY <1>12, <1>13, <3>1, <3>2 DEF Tally
    <2>2. CASE ~(s = x /\ buffer[b].map_count = 0)
      <3>1. cpu_access_count'[x] = cpu_access_count[x]
        BY <1>7, <2>2 DEF TypeOK
      <3>2. Mapped(x)' = Mapped(x)
        BY <1>3, <1>10, <1>11, <2>2
      <3> QED
        BY <1>12, <3>1, <3>2 DEF Tally
    <2> QED
      BY <2>1, <2>2
  <1> QED
    BY <1>6, <1>8, <1>9, <1>12, <1>14 DEF Tally

LEMMA CountsUnmapped ==
    ASSUME TypeOK, SlotInv, CountInv, NEW b \in Buffers, UnmapBuffer(b)
    PROVE  CountInv'
  <1> DEFINE r == [buffer[b] EXCEPT !.map_count = @ - 1]
             s == buffer[b].data
  <1>1. buffer' = [buffer EXCEPT ![b] = r]
    BY Zenon DEF UnmapBuffer
  <1>2. buffer[b] # NoBuffer /\ buffer[b] \in BufferStates /\ buffer[b].map_count > 0
    BY DEF UnmapBuffer, TypeOK
  <1>3. s \in Targets /\ buffer[b].map_count \in Nat
    BY <1>2, ConstantsAssumption DEF BufferStates, Targets
  <1>4. /\ r.data = s /\ r.handle_acquired = buffer[b].handle_acquired
        /\ r.map_count = buffer[b].map_count - 1 /\ r # NoBuffer
    <2>1. r \in BufferStates
      BY <1>2, BufferTypes
    <2>2. /\ r.data = s /\ r.handle_acquired = buffer[b].handle_acquired
          /\ r.map_count = buffer[b].map_count - 1
      BY <1>2 DEF BufferStates
    <2> QED
      BY <2>1, <2>2, NullAssumption
  <1>5. DerivedFrom(b) = s
    BY <1>2, DerivedIsData
  <1>6. UNCHANGED <<lock_count, va_lock_count, external_handle_count, image>>
    BY DEF UnmapBuffer
  <1>7. IF s # NoSurface /\ buffer[b].map_count = 1
        THEN cpu_access_count' = [cpu_access_count EXCEPT ![s] = @ - 1]
        ELSE UNCHANGED cpu_access_count
    BY <1>2, <1>5 DEF UnmapBuffer, LastMap, IsDerived
  <1> HIDE DEF r, s
  <1> SUFFICES ASSUME NEW x \in Surfaces PROVE Tally(x)'
    BY DEF CountInv, Tally
  <1>8. Views(x)' = Views(x)
    BY <1>6 DEF Views
  <1>9. Out(x)' = Out(x)
    <2>1. Out(x)' = IF r # NoBuffer /\ r.data = x /\ r.handle_acquired
                    THEN Out(x) \cup {b} ELSE Out(x) \ {b}
      BY <1>1, BufferSets
    <2>2. b \in Out(x) <=> (s = x /\ buffer[b].handle_acquired)
      BY <1>2 DEF Out, Shows, s
    <2> QED
      BY <1>4, <2>1, <2>2
  <1>11. b \in Mapped(x) <=> s = x
    BY <1>2 DEF Mapped, Shows, s
  <1>10. Mapped(x)' = IF s = x /\ buffer[b].map_count = 1 THEN Mapped(x) \ {b} ELSE Mapped(x)
    <2>1. Mapped(x)' = IF r # NoBuffer /\ r.data = x /\ r.map_count > 0
                       THEN Mapped(x) \cup {b} ELSE Mapped(x) \ {b}
      BY <1>1, BufferSets
    <2>2. r.map_count > 0 <=> buffer[b].map_count # 1
      BY <1>2, <1>3, <1>4
    <2> QED
      BY <1>4, <1>11, <2>1, <2>2
  <1>12. Tally(x)
    BY DEF CountInv, Tally
  <1>13. /\ cpu_access_count[x] \in Nat /\ va_lock_count[x] \in Nat
         /\ Cardinality(Mapped(x)) \in Nat /\ IsFiniteSet(Mapped(x))
    BY CountedSetsAreFinite DEF TypeOK
  <1>14. cpu_access_count'[x] = va_lock_count[x] + Cardinality(Mapped(x)')
    <2>1. CASE s = x /\ buffer[b].map_count = 1
      <3>1. cpu_access_count'[x] = cpu_access_count[x] - 1
        BY <1>7, <2>1, ConstantsAssumption DEF TypeOK
      <3>2. Cardinality(Mapped(x)') = Cardinality(Mapped(x)) - 1
        BY <1>10, <1>11, <1>13, <2>1, CardinalityShrinks
      <3> QED
        BY <1>12, <1>13, <3>1, <3>2 DEF Tally
    <2>2. CASE ~(s = x /\ buffer[b].map_count = 1)
      <3>1. cpu_access_count'[x] = cpu_access_count[x]
        BY <1>7, <2>2 DEF TypeOK
      <3>2. Mapped(x)' = Mapped(x)
        BY <1>10, <2>2
      <3> QED
        BY <1>12, <3>1, <3>2 DEF Tally
    <2> QED
      BY <2>1, <2>2
  <1> QED
    BY <1>6, <1>8, <1>9, <1>12, <1>14 DEF Tally

(* A handle is given out or comes back.                                    *)
LEMMA CountsHanded ==
    ASSUME TypeOK, SlotInv, CountInv, NEW b \in Buffers,
           AcquireBufferHandle(b) \/ ReleaseBufferHandle(b)
    PROVE  CountInv'
  <1> DEFINE v == ~buffer[b].handle_acquired
             r == [buffer[b] EXCEPT !.handle_acquired = v]
             s == buffer[b].data
  <1>1. buffer[b] # NoBuffer /\ buffer[b] \in BufferStates
    BY DEF AcquireBufferHandle, ReleaseBufferHandle, IsDerived, TypeOK
  <1>2. DerivedFrom(b) = s /\ s \in Surfaces /\ v \in BOOLEAN
    BY <1>1, DerivedIsData
    DEF AcquireBufferHandle, ReleaseBufferHandle, BufferStates
  <1>3. /\ buffer' = [buffer EXCEPT ![b] = r]
        /\ external_handle_count' = [external_handle_count EXCEPT
              ![s] = IF v THEN @ + 1 ELSE IF @ > 0 THEN @ - 1 ELSE @]
    <2>1. CASE AcquireBufferHandle(b)
      <3>1. buffer' = [buffer EXCEPT ![b] = [buffer[b] EXCEPT !.handle_acquired = TRUE]]
        BY <2>1, Zenon DEF AcquireBufferHandle
      <3>2. v = TRUE
        BY <1>2, <2>1 DEF AcquireBufferHandle, IsQuiet
      <3> QED
        BY <1>2, <2>1, <3>1, <3>2 DEF AcquireBufferHandle
    <2>2. CASE ReleaseBufferHandle(b)
      <3>1. buffer' = [buffer EXCEPT ![b] = [buffer[b] EXCEPT !.handle_acquired = FALSE]]
        BY <2>2, Zenon DEF ReleaseBufferHandle
      <3>2. v = FALSE
        BY <1>2, <2>2 DEF ReleaseBufferHandle
      <3> QED
        BY <1>2, <2>2, <3>1, <3>2 DEF ReleaseBufferHandle
    <2> QED
      BY <2>1, <2>2
  <1>4. /\ r.data = s /\ r.handle_acquired = v
        /\ r.map_count = buffer[b].map_count /\ r # NoBuffer
    <2> HIDE DEF v
    <2>1. r \in BufferStates
      BY <1>1, <1>2, BufferTypes
    <2>2. r.data = s /\ r.handle_acquired = v /\ r.map_count = buffer[b].map_count
      BY <1>1 DEF BufferStates
    <2> QED
      BY <2>1, <2>2, NullAssumption
  <1>5. UNCHANGED <<lock_count, va_lock_count, cpu_access_count, image>>
    BY DEF AcquireBufferHandle, ReleaseBufferHandle
  <1>6. v <=> ~buffer[b].handle_acquired
    OBVIOUS
  <1> HIDE DEF r, s, v
  <1> SUFFICES ASSUME NEW x \in Surfaces PROVE Tally(x)'
    BY DEF CountInv, Tally
  <1>8. Views(x)' = Views(x)
    BY <1>5 DEF Views
  <1>9. Mapped(x)' = Mapped(x)
    <2>1. Mapped(x)' = IF r # NoBuffer /\ r.data = x /\ r.map_count > 0
                       THEN Mapped(x) \cup {b} ELSE Mapped(x) \ {b}
      BY <1>3, BufferSets
    <2>2. b \in Mapped(x) <=> (s = x /\ buffer[b].map_count > 0)
      BY <1>1 DEF Mapped, Shows, s
    <2> QED
      BY <1>4, <2>1, <2>2
  <1>10. Out(x)' = IF s = x /\ v THEN Out(x) \cup {b} ELSE Out(x) \ {b}
    <2>1. Out(x)' = IF r # NoBuffer /\ r.data = x /\ r.handle_acquired
                    THEN Out(x) \cup {b} ELSE Out(x) \ {b}
      BY <1>3, BufferSets
    <2> QED
      BY <1>4, <2>1
  <1>11. b \in Out(x) <=> (s = x /\ ~v)
    BY <1>1, <1>6 DEF Out, Shows, s
  <1>12. Tally(x)
    BY DEF CountInv, Tally
  <1>13. /\ external_handle_count[x] \in Nat
         /\ Cardinality(Out(x)) \in Nat /\ IsFiniteSet(Out(x))
    BY CountedSetsAreFinite DEF TypeOK
  <1>14. external_handle_count'[x] = Cardinality(Out(x)')
    <2>1. CASE s = x /\ v
      <3>1. external_handle_count'[x] = external_handle_count[x] + 1
        BY <1>2, <1>3, <2>1 DEF TypeOK
      <3>2. Cardinality(Out(x)') = Cardinality(Out(x)) + 1
        BY <1>10, <1>11, <1>13, <2>1, CardinalityGrows
      <3> QED
        BY <1>12, <3>1, <3>2 DEF Tally
    <2>2. CASE s = x /\ ~v
      <3>1. /\ Cardinality(Out(x)') = Cardinality(Out(x)) - 1
            /\ Cardinality(Out(x)) > 0
        BY <1>10, <1>11, <1>13, <2>2, CardinalityShrinks
      <3>2. external_handle_count[x] > 0
        BY <1>12, <3>1 DEF Tally
      <3>3. external_handle_count'[x] = external_handle_count[x] - 1
        BY <1>2, <1>3, <2>2, <3>2 DEF TypeOK
      <3> QED
        BY <1>12, <3>1, <3>3 DEF Tally
    <2>3. CASE s # x
      <3>1. external_handle_count'[x] = external_handle_count[x]
        BY <1>2, <1>3, <2>3 DEF TypeOK
      <3>2. Out(x)' = Out(x)
        BY <1>10, <1>11, <2>3
      <3> QED
        BY <1>12, <3>1, <3>2 DEF Tally
    <2> QED
      BY <2>1, <2>2, <2>3
  <1> QED
    BY <1>5, <1>8, <1>9, <1>12, <1>14 DEF Tally

(* A derived image goes with its lock.                                     *)
LEMMA CountsImageGone ==
    ASSUME TypeOK, SlotInv, CountInv, NEW i \in Images, DestroyImage(i)
    PROVE  CountInv'
  <1> DEFINE b == image[i].buf_id
             s == image[i].surface_id
  <1>1. image[i] # NoImage /\ image[i] \in ImageStates
    BY DEF DestroyImage, TypeOK
  <1>2. b \in Buffers /\ s \in Targets
    BY <1>1 DEF ImageStates, Targets
  <1>3. /\ image' = [image EXCEPT ![i] = NoImage]
        /\ buffer' = [buffer EXCEPT ![b] = NoBuffer]
        /\ IsQuiet(b)
        /\ UNCHANGED <<va_lock_count, cpu_access_count, external_handle_count>>
        /\ \/ s = NoSurface /\ UNCHANGED lock_count
           \/ s # NoSurface /\ lock_count' = [lock_count EXCEPT ![s] = @ - 1]
    BY DEF DestroyImage, DropLock
  <1>4. ASSUME NEW x \in Surfaces PROVE Views(x)' = Views(x) \ {i} /\ (i \in Views(x) <=> x = s)
    BY <1>1, <1>3 DEF Views, TypeOK
  <1> HIDE DEF b, s
  <1>5. ASSUME NEW x \in Surfaces PROVE Mapped(x)' = Mapped(x) /\ Out(x)' = Out(x)
    BY <1>2, <1>3, QuietBufferSets
  <1> SUFFICES ASSUME NEW x \in Surfaces PROVE Tally(x)'
    BY DEF CountInv, Tally
  <1>6. Tally(x)
    BY DEF CountInv, Tally
  <1>7. /\ lock_count[x] \in Nat /\ va_lock_count[x] \in Nat
        /\ Cardinality(Views(x)) \in Nat /\ IsFiniteSet(Views(x))
    BY CountedSetsAreFinite DEF TypeOK
  <1>8. lock_count'[x] = va_lock_count[x] + Cardinality(Views(x)')
    <2>1. CASE x = s
      <3>1. Cardinality(Views(x)') = Cardinality(Views(x)) - 1
        BY <1>4, <1>7, <2>1, CardinalityShrinks
      <3>2. lock_count'[x] = lock_count[x] - 1
        BY <1>3, <2>1, ConstantsAssumption DEF TypeOK
      <3> QED
        BY <1>6, <1>7, <3>1, <3>2 DEF Tally
    <2>2. CASE x # s
      <3>1. Views(x)' = Views(x)
        BY <1>4, <2>2
      <3>2. lock_count'[x] = lock_count[x]
        BY <1>3, <2>2 DEF TypeOK
      <3> QED
        BY <1>6, <3>1, <3>2 DEF Tally
    <2> QED
      BY <2>1, <2>2
  <1> QED
    BY <1>3, <1>5, <1>6, <1>8 DEF Tally

LEMMA SlotCounts ==
    ASSUME TypeOK, SlotInv, CountInv, SlotNext
    PROVE  CountInv'
  <1>p. Plain.data \notin Surfaces
    BY ConstantsAssumption DEF Plain
  <1>1. ASSUME NEW b \in Buffers, CreateBuffer(b) PROVE CountInv'
    <2>1. \A s \in Surfaces : Views(s)' = Views(s)
      BY <1>1 DEF CreateBuffer, Views
    <2> QED
      BY <1>1, <1>p, <2>1, CountsPlain DEF CreateBuffer, IsFirstFree
  <1>2. ASSUME NEW b \in Buffers, DestroyBuffer(b) PROVE CountInv'
    <2>1. \A s \in Surfaces : Views(s)' = Views(s)
      BY <1>2 DEF DestroyBuffer, Views
    <2> QED
      BY <1>2, <2>1, CountsPlain DEF DestroyBuffer
  <1>3. ASSUME NEW i \in Images, NEW b \in Buffers, CreateImage(i, b) PROVE CountInv'
    <2>1. \A s \in Surfaces : Views(s)' = Views(s)
      BY <1>3, ConstantsAssumption DEF CreateImage, IsFirstFree, Views, TypeOK
    <2> QED
      BY <1>3, <1>p, <2>1, CountsPlain DEF CreateImage, IsFirstFree
  <1> QED
    BY <1>1, <1>2, <1>3, CountsMapped, CountsUnmapped, CountsHanded, CountsImageGone
    DEF SlotNext

LEMMA SurfaceCounts ==
    ASSUME TypeOK, SlotInv, CountInv, NEW s \in Surfaces, SurfaceNext(s)
    PROVE  SlotInv' /\ CountInv'
  <1>1. CASE UNCHANGED <<countVars, slotVars>>
    BY <1>1, SlotsStay, CountsStay
  <1>2. CASE DestroySurface(s)
    BY <1>2, SlotsStay, CountsDestroyed DEF DestroySurface
  <1>3. CASE LockSurface(s)
    BY <1>3, SlotsStay, CountsLocked DEF LockSurface, GrantLock
  <1>4. CASE UnlockSurface(s)
    BY <1>4, SlotsStay, CountsLocked DEF UnlockSurface
  <1>5. ASSUME NEW i \in Images, NEW b \in Buffers, DeriveImage(s, i, b)
        PROVE  SlotInv' /\ CountInv'
    BY <1>5, DeriveSlots, CountsDerived
  <1> QED
    BY <1>1, <1>2, <1>3, <1>4, <1>5
    DEF SurfaceNext, CreateSurface, BeginDecode, BeginEncode, CpuWrite, FlushThenFail,
        ExportSurface, GetImage, GrantGet, PutImage, GrantPut, accessVars

LEMMA CountStep ==
    ASSUME NothingDerived, TypeOK, CallInv, SlotInv, CountInv, [Next]_vars
    PROVE  SlotInv' /\ CountInv'
  <1>1. CASE UNCHANGED <<countVars, slotVars>>
    BY <1>1, SlotsStay, CountsStay
  <1>2. ASSUME NEW t \in Threads, ThreadNext(t) PROVE SlotInv' /\ CountInv'
    <2>1. ASSUME NEW s \in Surfaces, UNCHANGED slotVars, GrantLock(s)
          PROVE  SlotInv' /\ CountInv'
      BY <2>1, SlotsStay, CountsLocked DEF GrantLock
    <2> QED
      BY <1>2, <1>1, <2>1, ThreadAccess, ContinueSlots DEF WaitingCall
  <1>3. CASE HardwareNext
    BY <1>3, <1>1, UsedStaysHardware DEF accessVars
  <1>4. CASE UNCHANGED vars
    BY <1>4, <1>1 DEF vars, accessVars
  <1> QED
    BY <1>2, <1>3, <1>4, SurfaceCounts, SlotInvStep, SlotCounts DEF Next

LEMMA InitDerivedUse == Init => DerivedUse
  <1> SUFFICES ASSUME Init PROVE DerivedUse
    OBVIOUS
  <1>1. SlotInv
    BY DEF Init, SlotInv, IsDerived
  <1>2. CountInv
    <2> SUFFICES ASSUME NEW s \in Surfaces PROVE Tally(s)
      BY DEF CountInv, Tally
    <2>1. Views(s) = {} /\ Mapped(s) = {} /\ Out(s) = {}
      BY DEF Init, Views, Mapped, Out, Shows
    <2> QED
      BY <2>1, FS_EmptySet DEF Init, Tally
  <1> QED
    BY <1>1, <1>2, InitAnyUse DEF DerivedUse

LEMMA DerivedUseStep ==
    ASSUME NothingDerived, DerivedUse, [Next]_vars
    PROVE  DerivedUse'
  BY AnyUseStep, CountStep DEF DerivedUse, AnyUse

(* When no image is derived from a surface that is still pending, an image *)
(* has its buffer, a view its image, and the counters count: the inductive *)
(* invariant.                                                              *)
THEOREM DerivedUseInductive == NothingDerived /\ Spec => []DerivedUse
  <1> SUFFICES ASSUME NothingDerived PROVE Spec => []DerivedUse
    OBVIOUS
  <1>1. DerivedUse /\ [Next]_vars => DerivedUse'
    BY DerivedUseStep
  <1> QED
    BY InitDerivedUse, <1>1, PTL DEF Spec

(* The counters that every call decides by count the locks and derived     *)
(* images, the CPU accesses and the handles of each surface, for every     *)
(* application that synchronises a surface before it derives an image.     *)
(* Without that they do not: the slots vaDeriveImage chose before it       *)
(* waited may be taken when it fills them.                                 *)
THEOREM CountersCount == NothingDerived /\ Spec => []Counted
  <1>1. DerivedUse => Counted
    <2> SUFFICES ASSUME CountInv PROVE Counted
      BY DEF DerivedUse
    <2>1. ASSUME NEW s \in Surfaces
          PROVE  LET ofSurface == {b \in Buffers : buffer[b] # NoBuffer /\ buffer[b].data = s}
                 IN  /\ Mapped(s) = {b \in ofSurface : buffer[b].map_count > 0}
                     /\ Out(s) = {b \in ofSurface : buffer[b].handle_acquired}
      BY DEF Mapped, Out, Shows
    <2> QED
      BY <2>1 DEF CountInv, Counted
  <1> QED
    BY <1>1, DerivedUseInductive, PTL

-----------------------------------------------------------------------------
(* Encoders get unlocked surfaces.                                         *)

(* Calls that do not wait to lock or derive leave the locks alone when     *)
(* they go on; a surface's lock comes from a call that found it settled.   *)
LEMMA ContinueKeepsCounts ==
    ASSUME SynchronisesFirst, NEW c, WaitingCall(c), Continue(c)
    PROVE  UNCHANGED <<countVars, slotVars>>
  <1>1. c.op \notin {"lock", "derive"}
    BY DEF SynchronisesFirst, WaitingCall
  <1> QED
    BY <1>1, ContinueCases DEF GrantExport, GrantGet, GrantPut, accessVars

LEMMA ThreadKeepsCounts ==
    ASSUME SynchronisesFirst, TypeOK, CallInv, NEW t \in Threads, ThreadNext(t)
    PROVE  UNCHANGED <<countVars, slotVars>> /\ UNCHANGED encVars
  <1>1. UNCHANGED <<countVars, slotVars>>
    BY ThreadAccess, ContinueKeepsCounts
  <1>2. UNCHANGED encVars
    <2>1. MeetsPending(t) => UNCHANGED encVars
      BY MeetsCases DEF Begins, Wait
    <2> QED
      BY <2>1 DEF ThreadNext, ResolveEarlier, Resolve, Wake
  <1> QED
    BY <1>1, <1>2

LEMMA LockComes ==
    ASSUME TypeOK, NEW s \in Surfaces, SurfaceNext(s), NEW x \in Surfaces,
           lock_count'[x] > 0
    PROVE  lock_count[x] > 0 \/ (~HasActiveEncoder(x) /\ UNCHANGED encVars)
  <1>1. CASE UNCHANGED lock_count
    BY <1>1
  <1>2. CASE LockSurface(s)
    BY <1>2 DEF LockSurface, AsksLock, GrantLock, TypeOK
  <1>3. CASE UnlockSurface(s)
    BY <1>3 DEF UnlockSurface, MayUnlock, TypeOK
  <1>4. ASSUME NEW i \in Images, NEW b \in Buffers, DeriveImage(s, i, b)
        PROVE  lock_count[x] > 0 \/ (~HasActiveEncoder(x) /\ UNCHANGED encVars)
    BY <1>4 DEF DeriveImage, AsksDerive, GrantDerive, TypeOK
  <1> QED
    BY <1>1, <1>2, <1>3, <1>4
    DEF SurfaceNext, CreateSurface, DestroySurface, BeginDecode, BeginEncode, CpuWrite,
        FlushThenFail, ExportSurface, GetImage, GrantGet, PutImage, GrantPut, accessVars, countVars

(* A surface becomes an encoder's input only unlocked and settled.         *)
LEMMA EncoderComes ==
    ASSUME TypeOK, Next, NEW x \in Surfaces, HasActiveEncoder(x)'
    PROVE  \/ HasActiveEncoder(x)
           \/ lock_count[x] = 0 /\ UNCHANGED lock_count /\ ~decode_pending[x] /\ UNCHANGED decVars
  <1>1. CASE UNCHANGED encVars
    BY <1>1 DEF HasActiveEncoder, encVars
  <1>2. ASSUME NEW s \in Surfaces, NEW e \in Encoders, BeginEncode(e, s)
        PROVE  \/ HasActiveEncoder(x)
               \/ /\ lock_count[x] = 0 /\ UNCHANGED lock_count
                  /\ ~decode_pending[x] /\ UNCHANGED decVars
    BY <1>2 DEF BeginEncode, MayBeTarget, HasActiveEncoder, TypeOK, countVars
  <1>3. ASSUME NEW e \in Encoders, EndEncode(e) \/ InputConsumed(e)
        PROVE  HasActiveEncoder(x)
    <2>1. CASE EndEncode(e)
      <3>1. /\ encoding' = [encoding EXCEPT ![e] = NoSurface]
            /\ \E late \in BOOLEAN :
                  reading' = [reading EXCEPT ![e] = IF late THEN encoding[e] ELSE @]
        BY <2>1 DEF EndEncode
      <3> QED
        BY <3>1, ConstantsAssumption DEF HasActiveEncoder, TypeOK
    <2>2. CASE InputConsumed(e)
      <3>1. reading' = [reading EXCEPT ![e] = NoSurface] /\ UNCHANGED encoding
        BY <2>2 DEF InputConsumed
      <3> QED
        BY <3>1, ConstantsAssumption DEF HasActiveEncoder, TypeOK
    <2> QED
      BY <1>3, <2>1, <2>2
  <1>4. CASE SlotNext
    BY <1>4, <1>1, UsedStaysSlots
  <1>5. CASE HardwareNext
    BY <1>5, <1>1, <1>3 DEF HardwareNext, EndDecode, DeviceDone
  <1>6. ASSUME NEW s \in Surfaces, SurfaceNext(s)
        PROVE  UNCHANGED encVars \/ \E e \in Encoders : BeginEncode(e, s)
    BY <1>6
    DEF SurfaceNext, CreateSurface, DestroySurface, BeginDecode, CpuWrite, FlushThenFail,
        ExportSurface, GetImage, PutImage, LockSurface, UnlockSurface, DeriveImage
  <1>7. ASSUME NEW t \in Threads, ThreadNext(t) PROVE UNCHANGED encVars
    <2>1. MeetsPending(t) => UNCHANGED encVars
      BY MeetsCases DEF Begins, Wait
    <2> QED
      BY <1>7, <2>1 DEF ThreadNext, ResolveEarlier, Resolve, Wake
  <1> QED
    BY <1>1, <1>2, <1>4, <1>5, <1>6, <1>7 DEF Next

LEMMA EncoderStep ==
    ASSUME SynchronisesFirst, TypeOK, CallInv, EncoderInputUnlocked, [Next]_vars
    PROVE  EncoderInputUnlocked'
  <1> SUFFICES ASSUME NEW x \in Surfaces, HasActiveEncoder(x)', lock_count'[x] # 0
               PROVE  FALSE
    BY DEF EncoderInputUnlocked
  <1>1. lock_count[x] \in Nat /\ (Next => lock_count'[x] > 0)
    BY TypeStep DEF TypeOK
  <1>2. HasActiveEncoder(x) => lock_count[x] = 0
    BY DEF EncoderInputUnlocked
  <1>3. CASE UNCHANGED vars
    BY <1>2, <1>3 DEF vars, encVars, accessVars, countVars, HasActiveEncoder
  <1>4. CASE Next
    <2>1. CASE lock_count[x] = 0 /\ UNCHANGED lock_count
      BY <2>1
    <2>2. CASE HasActiveEncoder(x)
      <3>1. lock_count[x] = 0
        BY <1>2, <2>2
      <3>2. ASSUME NEW s \in Surfaces, SurfaceNext(s) PROVE FALSE
        BY <1>1, <1>4, <2>2, <3>1, <3>2, LockComes
      <3>3. CASE SlotNext
        BY <1>1, <1>4, <3>1, <3>3, SlotLocks
      <3>4. CASE HardwareNext
        BY <3>1, <3>4, UsedStaysHardware DEF accessVars, countVars
      <3>5. ASSUME NEW t \in Threads, ThreadNext(t) PROVE FALSE
        BY <3>1, <3>5, ThreadKeepsCounts DEF countVars
      <3> QED
        BY <1>4, <3>2, <3>3, <3>4, <3>5 DEF Next
    <2> QED
      BY <1>4, <2>1, <2>2, EncoderComes
  <1> QED
    BY <1>3, <1>4

(* While an encoder has a surface as its input nobody holds a lock or a    *)
(* derived image of it, for every application that synchronises a surface  *)
(* before it locks it or derives an image.                                 *)
THEOREM InputsAreUnlocked == SynchronisesFirst /\ Spec => []EncoderInputUnlocked
  <1> SUFFICES ASSUME SynchronisesFirst PROVE Spec => []EncoderInputUnlocked
    OBVIOUS
  <1>1. Init => LockedUse
    BY InitAnyUse DEF LockedUse, Init, EncoderInputUnlocked
  <1>2. LockedUse /\ [Next]_vars => LockedUse'
    BY AnyUseStep, EncoderStep DEF LockedUse, AnyUse
  <1>3. LockedUse => EncoderInputUnlocked
    BY DEF LockedUse
  <1> QED
    BY <1>1, <1>2, <1>3, PTL DEF Spec

-----------------------------------------------------------------------------
(* One image of a surface at a time.                                       *)

LEMMA OneViewDerived ==
    ASSUME SingleView, TypeOK, OneView, NEW s \in Surfaces, NEW i \in Images, NEW b \in Buffers,
           DeriveImage(s, i, b)
    PROVE  OneView'
  <1>1. Cardinality(Views(s)) < MaxViews /\ Cardinality(Views(s)) \in Nat /\ MaxViews \in Nat
    BY CountedSetsAreFinite, ConstantsAssumption DEF DeriveImage, AsksDerive
  <1>2. Cardinality(Views(s)) = 0
    BY <1>1 DEF SingleView
  <1>3. Views(s) = {}
    BY <1>2, CountedSetsAreFinite, FS_EmptySet
  <1>4. image' = [image EXCEPT ![i] = [buf_id |-> b, surface_id |-> s]]
    BY DEF DeriveImage, GrantDerive
  <1> QED
    BY <1>3, <1>4 DEF OneView, Views, TypeOK

LEMMA OneViewStep ==
    ASSUME SingleView, SynchronisesFirst, TypeOK, CallInv, OneView, [Next]_vars
    PROVE  OneView'
  <1>1. CASE UNCHANGED image
    BY <1>1 DEF OneView
  <1>2. ASSUME NEW s \in Surfaces, SurfaceNext(s) PROVE OneView'
    <2>1. ASSUME NEW i \in Images, NEW b \in Buffers, DeriveImage(s, i, b) PROVE OneView'
      BY <2>1, OneViewDerived
    <2> QED
      BY <1>1, <1>2, <2>1
      DEF SurfaceNext, CreateSurface, DestroySurface, BeginDecode, BeginEncode, CpuWrite,
          FlushThenFail, ExportSurface, GetImage, GrantGet, PutImage, GrantPut, LockSurface,
          GrantLock, UnlockSurface, accessVars, slotVars
  <1>3. CASE SlotNext
    <2>1. ASSUME NEW i \in Images, DestroyImage(i) PROVE OneView'
      <3>1. image' = [image EXCEPT ![i] = NoImage]
        BY <2>1 DEF DestroyImage
      <3> QED
        BY <3>1 DEF OneView, TypeOK
    <2>2. ASSUME NEW i \in Images, NEW b \in Buffers, CreateImage(i, b) PROVE OneView'
      <3>1. image' = [image EXCEPT ![i] = [buf_id |-> b, surface_id |-> NoSurface]]
        BY <2>2 DEF CreateImage
      <3> QED
        BY <3>1 DEF OneView, TypeOK
    <2> QED
      BY <1>1, <1>3, <2>1, <2>2
      DEF SlotNext, CreateBuffer, DestroyBuffer, MapBuffer, UnmapBuffer, AcquireBufferHandle,
          ReleaseBufferHandle
  <1>4. CASE HardwareNext
    BY <1>1, <1>4, UsedStaysHardware DEF accessVars, slotVars
  <1>5. ASSUME NEW t \in Threads, ThreadNext(t) PROVE OneView'
    BY <1>1, <1>5, ThreadKeepsCounts DEF slotVars
  <1>6. CASE UNCHANGED vars
    BY <1>1, <1>6 DEF vars, accessVars, slotVars
  <1> QED
    BY <1>2, <1>3, <1>4, <1>5, <1>6 DEF Next

(* A view that is not handed out is the only one, so no device has its     *)
(* surface; and it keeps the surface locked.                               *)
LEMMA ViewIsAlone ==
    ASSUME TypeOK, LifeInv, SlotInv, CountInv, EncoderInputUnlocked, OneView,
           NEW b \in Buffers, NEW s \in Surfaces, Shows(b, s)
    PROVE  /\ ~buffer[b].handle_acquired => external_handle_count[s] = 0
           /\ lock_count[s] > 0 /\ ~decode_pending[s] /\ ~HasActiveEncoder(s)
  <1>1. Tally(s)
    BY DEF CountInv, Tally
  <1>2. ASSUME NEW c \in Buffers, Shows(c, s) PROVE c = b
    <2>1. PICK i \in Images : LeadsTo(i, b, s)
      BY ConstantsAssumption DEF SlotInv, Shows, IsDerived
    <2>2. PICK j \in Images : LeadsTo(j, c, s)
      BY <1>2, ConstantsAssumption DEF SlotInv, Shows, IsDerived
    <2>3. i = j
      BY <2>1, <2>2, ConstantsAssumption DEF OneView, LeadsTo
    <2> QED
      BY <2>1, <2>2, <2>3 DEF LeadsTo
  <1>3. ~buffer[b].handle_acquired => external_handle_count[s] = 0
    <2> SUFFICES ASSUME ~buffer[b].handle_acquired PROVE external_handle_count[s] = 0
      OBVIOUS
    <2>1. Out(s) = {}
      BY <1>2 DEF Out
    <2> QED
      BY <1>1, <2>1, FS_EmptySet DEF Tally
  <1>4. lock_count[s] \in Nat /\ lock_count[s] # 0
    BY UnlockedIsQuiet DEF TypeOK
  <1> QED
    BY <1>3, <1>4 DEF LifeInv, EncoderInputUnlocked

(* The same for an image derived from s.                                   *)
LEMMA ImageIsAlone ==
    ASSUME TypeOK, LifeInv, SlotInv, CountInv, EncoderInputUnlocked, OneView,
           NEW i \in Images, ImageIsQuiet(i), image[i].surface_id # NoSurface
    PROVE  \E d \in Surfaces :
              /\ d = DerivedFrom(image[i].buf_id) /\ cpu_access_count[d] = 0
              /\ external_handle_count[d] = 0
              /\ lock_count[d] > 0 /\ ~decode_pending[d] /\ ~HasActiveEncoder(d)
  <1> DEFINE b == image[i].buf_id
             d == image[i].surface_id
  <1>1. image[i] # NoImage /\ image[i] \in ImageStates
    BY DEF ImageIsQuiet, TypeOK
  <1>2. b \in Buffers /\ d \in Surfaces
    BY <1>1 DEF ImageStates
  <1>3. buffer[b] # NoBuffer /\ buffer[b].data = d
    BY <1>1 DEF SlotInv
  <1>4. ~buffer[b].handle_acquired /\ cpu_access_count[DerivedFrom(b)] = 0
    BY DEF ImageIsQuiet, IsQuiet
  <1> HIDE DEF b, d
  <1>5. DerivedFrom(b) = d
    BY <1>2, <1>3, DerivedIsData
  <1>6. Shows(b, d)
    BY <1>3 DEF Shows
  <1>7. external_handle_count[d] = 0 /\ lock_count[d] > 0 /\ ~decode_pending[d] /\ ~HasActiveEncoder(d)
    BY <1>2, <1>4, <1>6, ViewIsAlone
  <1>8. b = image[i].buf_id
    BY DEF b
  <1> QED
    BY <1>2, <1>4, <1>5, <1>7, <1>8

-----------------------------------------------------------------------------
(* No write is lost, and nobody else gets a surface with writes in the     *)
(* cache.                                                                  *)

LEMMA FlushedIsSafe ==
    ASSUME CacheTypes, NEW s \in Surfaces, Safe(s)
    PROVE  /\ Flushed(s) \in {"clean", cache[s]} /\ Flushed(s) # "lost"
           /\ Flushed(s) = "dirty" => cache[s] = "dirty" /\ cpu_access_count[s] > 0
  BY DEF Flushed, Safe, CacheTypes, Caches

LEMMA FlushedIsClean ==
    ASSUME CacheTypes, NEW s \in Surfaces, Safe(s), cpu_access_count[s] = 0
    PROVE  Flushed(s) = "clean" /\ Invalidated(Flushed(s)) = "clean"
  BY DEF Flushed, Invalidated, Safe, CacheTypes, Caches

(* A surface that a step leaves alone.                                     *)
LEMMA SafeStays ==
    ASSUME NEW s \in Surfaces, Safe(s),
           UNCHANGED <<cache[s], cpu_cache_flush_pending[s], cpu_access_count[s],
                       external_handle_count[s]>>,
           cache[s] = "dirty" => ~decode_pending'[s] /\ ~HasActiveEncoder(s)'
    PROVE  Safe(s)'
  BY DEF Safe

(* A surface that a step leaves with a clean cache.                        *)
LEMMA SafeWhenClean ==
    ASSUME NEW s \in Surfaces, cache'[s] = "clean",
           external_handle_count'[s] > 0 => cpu_access_count'[s] = 0
    PROVE  Safe(s)'
  BY DEF Safe

(* No picture is begun with s.                                             *)
Calm(s) ==
    /\ decode_pending'[s] => decode_pending[s]
    /\ HasActiveEncoder(s)' => HasActiveEncoder(s)

(* The cache of s is at most flushed.                                      *)
LEMMA SafeWhenFlushed ==
    ASSUME CacheTypes, NEW s \in Surfaces, FlushPending(s), NEW x \in Surfaces, Safe(x),
           UNCHANGED <<cpu_access_count[x], external_handle_count[x]>>, Calm(x)
    PROVE  Safe(x)'
  <1>1. CacheOnly(s) /\ cache'[s] = Flushed(s)
    BY FlushShape
  <1>2. CASE x # s
    BY <1>1, <1>2, SafeStays DEF CacheOnly, Calm, Safe
  <1>3. CASE x = s
    BY <1>1, <1>3, FlushedIsSafe DEF Calm, Safe
  <1> QED
    BY <1>2, <1>3

LEMMA SafeWhenCalm ==
    ASSUME CacheTypes, CacheInv, UNCHANGED <<cpu_access_count, external_handle_count>>,
           UNCHANGED cacheVars \/ \E s \in Surfaces : FlushPending(s),
           \A x \in Surfaces : Calm(x)
    PROVE  CacheInv'
  <1> SUFFICES ASSUME NEW x \in Surfaces PROVE Safe(x)'
    BY DEF CacheInv
  <1>1. Safe(x) /\ Calm(x)
    BY DEF CacheInv
  <1>2. CASE UNCHANGED cacheVars
    BY <1>1, <1>2, SafeStays DEF cacheVars, Calm, Safe
  <1> QED
    BY <1>1, <1>2, SafeWhenFlushed

(* Other surfaces than the one that the step is about.                     *)
LEMMA OthersAreSafe ==
    ASSUME CacheInv, NEW s \in Surfaces, CacheOnly(s), Safe(s)',
           \A x \in Surfaces : x # s => /\ cpu_access_count'[x] = cpu_access_count[x]
                                        /\ external_handle_count'[x] = external_handle_count[x]
                                        /\ Calm(x)
    PROVE  CacheInv'
  <1> SUFFICES ASSUME NEW x \in Surfaces, x # s PROVE Safe(x)'
    BY DEF CacheInv
  <1> QED
    BY SafeStays DEF CacheInv, CacheOnly, Calm, Safe

(* Whom a picture is begun with.                                           *)
LEMMA CalmComes ==
    ASSUME TypeOK, Next, NEW x \in Surfaces
    PROVE  \/ Calm(x)
           \/ /\ lock_count[x] = 0
              /\ BeginDecode(x) \/ \E e \in Encoders : BeginEncode(e, x)
  <1>1. CASE \E s \in Surfaces : BeginDecode(s)
    <2>1. PICK s \in Surfaces : BeginDecode(s)
      BY <1>1
    <2>2. CASE s = x
      BY <2>1, <2>2 DEF BeginDecode, MayBeTarget
    <2>3. CASE s # x
      BY <2>1, <2>3 DEF BeginDecode, Calm, HasActiveEncoder, encVars, TypeOK
    <2> QED
      BY <2>2, <2>3
  <1>2. CASE \E s \in Surfaces, e \in Encoders : BeginEncode(e, s)
    <2>1. PICK s \in Surfaces, e \in Encoders : BeginEncode(e, s)
      BY <1>2
    <2>2. CASE s = x
      BY <2>1, <2>2 DEF BeginEncode, MayBeTarget
    <2>3. CASE s # x
      BY <2>1, <2>3 DEF BeginEncode, Calm, HasActiveEncoder, decVars, TypeOK
    <2> QED
      BY <2>2, <2>3
  <1>3. CASE /\ UNCHANGED encVars
             /\ decode_pending'[x] => decode_pending[x]
    BY <1>3 DEF Calm, HasActiveEncoder, encVars
  <1>4. ASSUME NEW s \in Surfaces, SurfaceNext(s)
        PROVE  \/ BeginDecode(s) \/ \E e \in Encoders : BeginEncode(e, s)
               \/ UNCHANGED encVars /\ UNCHANGED decode_pending
    BY <1>4
    DEF SurfaceNext, CreateSurface, DestroySurface, CpuWrite, FlushThenFail, ExportSurface,
        GetImage, PutImage, LockSurface, UnlockSurface, DeriveImage, decVars
  <1>5. CASE SlotNext
    BY <1>5, <1>3, UsedStaysSlots DEF decVars
  <1>6. CASE HardwareNext
    <2>1. CASE EndDecode
      BY <2>1, <1>3 DEF EndDecode, TypeOK
    <2>2. CASE DeviceDone
      BY <2>2, <1>3 DEF DeviceDone, decVars
    <2>3. ASSUME NEW e \in Encoders, EndEncode(e) \/ InputConsumed(e)
          PROVE  Calm(x)
      <3>1. UNCHANGED decVars /\ lock_count' = lock_count
        BY <2>3 DEF EndEncode, InputConsumed, accessVars, countVars
      <3>2. ASSUME HasActiveEncoder(x)', ~HasActiveEncoder(x) PROVE FALSE
        <4>1. CASE EndEncode(e)
          <5>1. /\ encoding' = [encoding EXCEPT ![e] = NoSurface]
                /\ \E late \in BOOLEAN :
                      reading' = [reading EXCEPT ![e] = IF late THEN encoding[e] ELSE @]
            BY <4>1 DEF EndEncode
          <5> QED
            BY <3>2, <5>1, ConstantsAssumption DEF HasActiveEncoder, TypeOK
        <4>2. CASE InputConsumed(e)
          BY <3>2, <4>2, ConstantsAssumption DEF InputConsumed, HasActiveEncoder, TypeOK
        <4> QED
          BY <2>3, <4>1, <4>2
      <3> QED
        BY <3>1, <3>2 DEF Calm, decVars
    <2> QED
      BY <1>6, <2>1, <2>2, <2>3 DEF HardwareNext
  <1>7. ASSUME NEW t \in Threads, ThreadNext(t)
        PROVE  UNCHANGED encVars /\ (decode_pending'[x] => decode_pending[x])
    <2>1. MeetsPending(t) => UNCHANGED encVars /\ UNCHANGED decode_pending
      BY MeetsCases DEF Begins, Wait
    <2>2. ASSUME NEW y \in Surfaces, ResolveEarlier(t, y)
          PROVE  UNCHANGED encVars /\ (decode_pending'[x] => decode_pending[x])
      BY <2>2 DEF ResolveEarlier, TypeOK
    <2>3. CASE Resolve(t)
      <3>1. /\ UNCHANGED encVars
            /\ \/ decode_pending' = [decode_pending EXCEPT ![call[t].surf] = FALSE]
               \/ UNCHANGED decode_pending
        BY <2>3, Zenon DEF Resolve
      <3> QED
        BY <3>1 DEF TypeOK
    <2>4. Wake(t) => UNCHANGED encVars /\ UNCHANGED decode_pending
      BY DEF Wake
    <2> QED
      BY <1>7, <2>1, <2>2, <2>3, <2>4 DEF ThreadNext
  <1> QED
    BY <1>1, <1>2, <1>3, <1>4, <1>5, <1>6, <1>7 DEF Next

(* A picture is begun with a surface that nobody is in.                    *)
LEMMA SafeBegun ==
    ASSUME TypeOK, SlotInv, CountInv, CacheInv, NEW s \in Surfaces,
           BeginDecode(s) \/ \E e \in Encoders : BeginEncode(e, s)
    PROVE  CacheInv'
  <1>1. /\ FlushPending(s) /\ UNCHANGED countVars /\ lock_count[s] = 0
        /\ \A x \in Surfaces : x # s => Calm(x)
    <2>1. CASE BeginDecode(s)
      <3>1. decode_pending' = [decode_pending EXCEPT ![s] = TRUE] /\ UNCHANGED encVars
        BY <2>1 DEF BeginDecode
      <3> QED
        BY <2>1, <3>1 DEF BeginDecode, MayBeTarget, Calm, HasActiveEncoder, encVars, TypeOK
    <2>2. ASSUME NEW e \in Encoders, BeginEncode(e, s)
          PROVE  /\ FlushPending(s) /\ UNCHANGED countVars /\ lock_count[s] = 0
                 /\ \A x \in Surfaces : x # s => Calm(x)
      <3>1. /\ encoding' = [encoding EXCEPT ![e] = s] /\ UNCHANGED reading
            /\ UNCHANGED decVars
        BY <2>2 DEF BeginEncode
      <3> QED
        BY <2>2, <3>1 DEF BeginEncode, MayBeTarget, Calm, HasActiveEncoder, decVars, TypeOK
    <2> QED
      BY <2>1, <2>2
  <1>2. cpu_access_count[s] = 0
    BY <1>1, UnlockedIsQuiet
  <1>3. CacheTypes
    BY TypesInGroups
  <1>4. Safe(s)'
    BY <1>1, <1>2, <1>3, FlushShape, FlushedIsClean, SafeWhenClean DEF CacheInv, countVars
  <1> QED
    BY <1>1, <1>3, <1>4, FlushShape, OthersAreSafe DEF countVars

LEMMA SafeDestroyed ==
    ASSUME TypeOK, CacheInv, NEW s \in Surfaces, DestroySurface(s)
    PROVE  CacheInv'
  <1>1. /\ cpu_access_count' = [cpu_access_count EXCEPT ![s] = 0]
        /\ cpu_cache_flush_pending' = [cpu_cache_flush_pending EXCEPT ![s] = FALSE]
        /\ cache' = [cache EXCEPT ![s] = "clean"]
        /\ UNCHANGED <<external_handle_count, decode_pending, encVars>>
    BY DEF DestroySurface
  <1>2. Safe(s)'
    BY <1>1, SafeWhenClean DEF TypeOK
  <1>3. CacheOnly(s)
    BY <1>1 DEF CacheOnly, TypeOK
  <1>4. \A x \in Surfaces : Calm(x)
    BY <1>1 DEF Calm, HasActiveEncoder, encVars
  <1> QED
    BY <1>1, <1>2, <1>3, <1>4, OthersAreSafe DEF TypeOK

(* The CPU begins to work in s, or comes once more; no device has it.      *)
LEMMA SafeEntered ==
    ASSUME TypeOK, CacheInv, NEW s \in Surfaces,
           IF cpu_access_count[s] = 0 THEN StartCpuAccess(s) ELSE UNCHANGED cacheVars,
           cpu_access_count' = [cpu_access_count EXCEPT ![s] = @ + 1],
           external_handle_count[s] = 0,
           UNCHANGED <<external_handle_count, decode_pending, encVars>>
    PROVE  CacheInv'
  <1>t. CacheTypes /\ Safe(s) /\ cpu_access_count[s] \in Nat
    BY TypesInGroups DEF CacheInv, TypeOK
  <1>1. CacheOnly(s)
    BY <1>t, StartShape DEF CacheOnly, cacheVars
  <1>2. \A x \in Surfaces : Calm(x)
    BY DEF Calm, HasActiveEncoder, encVars
  <1>3. cpu_access_count'[s] = cpu_access_count[s] + 1
    BY DEF TypeOK
  <1>4. Safe(s)'
    <2>1. CASE cpu_access_count[s] = 0
      BY <1>t, <2>1, StartShape, FlushedIsClean, SafeWhenClean
    <2>2. CASE cpu_access_count[s] # 0
      BY <1>t, <1>2, <1>3, <2>2 DEF Safe, Calm, cacheVars
    <2> QED
      BY <2>1, <2>2
  <1> QED
    BY <1>1, <1>2, <1>4, OthersAreSafe DEF TypeOK

(* The CPU leaves s, or one of several leaves.                             *)
LEMMA SafeLeft ==
    ASSUME TypeOK, CacheInv, NEW s \in Surfaces, cpu_access_count[s] > 0,
           IF cpu_access_count[s] = 1 THEN EndCpuAccess(s) ELSE UNCHANGED cacheVars,
           cpu_access_count' = [cpu_access_count EXCEPT ![s] = @ - 1],
           UNCHANGED <<external_handle_count, decode_pending, encVars>>
    PROVE  CacheInv'
  <1>t. CacheTypes /\ Safe(s) /\ cpu_access_count[s] \in Nat /\ external_handle_count[s] \in Nat
    BY TypesInGroups DEF CacheInv, TypeOK
  <1>1. CacheOnly(s)
    BY <1>t, EndShape DEF CacheOnly, cacheVars
  <1>2. \A x \in Surfaces : Calm(x)
    BY DEF Calm, HasActiveEncoder, encVars
  <1>3. cpu_access_count'[s] = cpu_access_count[s] - 1
    BY DEF TypeOK
  <1>4. external_handle_count'[s] = 0
    BY <1>t DEF Safe
  <1>5. Safe(s)'
    <2>1. CASE cpu_access_count[s] = 1
      BY <1>t, <1>2, <1>4, <2>1, EndShape DEF Safe, Calm
    <2>2. CASE cpu_access_count[s] # 1
      BY <1>t, <1>2, <1>3, <1>4, <2>2 DEF Safe, Calm, cacheVars
    <2> QED
      BY <2>1, <2>2
  <1> QED
    BY <1>1, <1>2, <1>5, OthersAreSafe DEF TypeOK

(* The application writes only through locks and maps.                     *)
LEMMA SafeWritten ==
    ASSUME TypeOK, LifeInv, SlotInv, CountInv, EncoderInputUnlocked, CacheInv,
           NEW s \in Surfaces, CpuWrite(s)
    PROVE  CacheInv'
  <1>1. /\ cache' = [cache EXCEPT ![s] = "dirty"]
        /\ UNCHANGED <<cpu_cache_flush_pending, countVars, decVars, encVars>>
        /\ va_lock_count[s] > 0 \/ Mapped(s) # {}
    BY DEF CpuWrite, Mapped, Shows
  <1>2. Tally(s) /\ Safe(s)
    BY DEF CountInv, Tally, CacheInv
  <1>3. /\ va_lock_count[s] \in Nat /\ Cardinality(Mapped(s)) \in Nat
        /\ cpu_access_count[s] \in Nat /\ external_handle_count[s] \in Nat /\ lock_count[s] \in Nat
    BY CountedSetsAreFinite DEF TypeOK
  <1>4. Mapped(s) # {} => Cardinality(Mapped(s)) # 0
    BY CountedSetsAreFinite, FS_EmptySet
  <1>5. cpu_access_count[s] > 0
    BY <1>1, <1>2, <1>3, <1>4 DEF Tally
  <1>6. lock_count[s] # 0
    BY <1>5, UnlockedIsQuiet
  <1>7. ~decode_pending[s] /\ ~HasActiveEncoder(s) /\ external_handle_count[s] = 0
    BY <1>2, <1>3, <1>5, <1>6 DEF LifeInv, EncoderInputUnlocked, Safe
  <1>8. \A x \in Surfaces : Calm(x)
    BY <1>1 DEF Calm, HasActiveEncoder, encVars, decVars
  <1>9. Safe(s)'
    BY <1>1, <1>5, <1>7, <1>8 DEF Safe, Calm, countVars, TypeOK
  <1>10. CacheOnly(s)
    BY <1>1 DEF CacheOnly, TypeOK
  <1> QED
    BY <1>1, <1>8, <1>9, <1>10, OthersAreSafe DEF countVars

LEMMA MappedSafe ==
    ASSUME TypeOK, LifeInv, SlotInv, CountInv, EncoderInputUnlocked, OneView, CacheInv,
           NEW b \in Buffers, MapBuffer(b)
    PROVE  CacheInv'
  <1> DEFINE s == DerivedFrom(b)
  <1>1. /\ buffer[b] # NoBuffer /\ ~buffer[b].handle_acquired
        /\ UNCHANGED <<external_handle_count, decVars, encVars>>
        /\ \/ /\ IsDerived(b)
              /\ IF cpu_access_count[s] = 0 THEN StartCpuAccess(s) ELSE UNCHANGED cacheVars
              /\ cpu_access_count' = [cpu_access_count EXCEPT ![s] = @ + 1]
           \/ UNCHANGED <<cpu_access_count, cacheVars>>
    BY DEF MapBuffer
  <1>2. s = buffer[b].data /\ buffer[b] \in BufferStates
    BY <1>1, DerivedIsData DEF TypeOK
  <1> HIDE DEF s
  <1>3. CASE UNCHANGED <<cpu_access_count, cacheVars>>
    BY <1>1, <1>3, TypesInGroups, SafeWhenCalm DEF Calm, HasActiveEncoder, encVars, decVars
  <1>4. CASE /\ IsDerived(b)
             /\ IF cpu_access_count[s] = 0 THEN StartCpuAccess(s) ELSE UNCHANGED cacheVars
             /\ cpu_access_count' = [cpu_access_count EXCEPT ![s] = @ + 1]
    <2>1. s \in Surfaces /\ Shows(b, s)
      BY <1>2, <1>4 DEF IsDerived, BufferStates, Shows
    <2>2. external_handle_count[s] = 0
      BY <1>1, <2>1, ViewIsAlone
    <2> QED
      BY <1>1, <1>4, <2>1, <2>2, SafeEntered DEF decVars
  <1> QED
    BY <1>1, <1>3, <1>4

LEMMA UnmappedSafe ==
    ASSUME TypeOK, SlotInv, CacheInv, NEW b \in Buffers, UnmapBuffer(b)
    PROVE  CacheInv'
  <1> DEFINE s == DerivedFrom(b)
  <1>1. /\ buffer[b] # NoBuffer
        /\ UNCHANGED <<external_handle_count, decVars, encVars>>
        /\ \/ /\ s # NoSurface /\ cpu_access_count[s] > 0
              /\ IF cpu_access_count[s] = 1 THEN EndCpuAccess(s) ELSE UNCHANGED cacheVars
              /\ cpu_access_count' = [cpu_access_count EXCEPT ![s] = @ - 1]
           \/ UNCHANGED <<cpu_access_count, cacheVars>>
    BY DEF UnmapBuffer
  <1>2. s \in Targets
    BY <1>1, DerivedIsData DEF TypeOK, BufferStates, Targets
  <1> HIDE DEF s
  <1>3. CASE UNCHANGED <<cpu_access_count, cacheVars>>
    BY <1>1, <1>3, TypesInGroups, SafeWhenCalm DEF Calm, HasActiveEncoder, encVars, decVars
  <1>4. CASE ~UNCHANGED <<cpu_access_count, cacheVars>>
    BY <1>1, <1>2, <1>4, SafeLeft DEF Targets, decVars
  <1> QED
    BY <1>3, <1>4

LEMMA AcquiredSafe ==
    ASSUME TypeOK, CacheInv, NEW b \in Buffers, AcquireBufferHandle(b)
    PROVE  CacheInv'
  <1>1. PICK s \in Surfaces :
           /\ cpu_access_count[s] = 0 /\ FlushPending(s)
           /\ external_handle_count' = [external_handle_count EXCEPT ![s] = @ + 1]
           /\ UNCHANGED <<cpu_access_count, decVars, encVars>>
    BY ConstantsAssumption DEF AcquireBufferHandle, MayAcquire
  <1>2. CacheTypes /\ Safe(s)
    BY <1>1, TypesInGroups DEF CacheInv
  <1>3. CacheOnly(s) /\ cache'[s] = "clean"
    BY <1>1, <1>2, FlushShape, FlushedIsClean
  <1>4. Safe(s)'
    BY <1>1, <1>3, SafeWhenClean
  <1>5. \A x \in Surfaces : Calm(x)
    BY <1>1 DEF Calm, HasActiveEncoder, encVars, decVars
  <1> QED
    BY <1>1, <1>3, <1>4, <1>5, OthersAreSafe DEF TypeOK

LEMMA ReleasedSafe ==
    ASSUME TypeOK, SlotInv, CountInv, CacheInv, NEW b \in Buffers, ReleaseBufferHandle(b)
    PROVE  CacheInv'
  <1>1. /\ buffer[b] # NoBuffer /\ buffer[b].handle_acquired
        /\ DerivedFrom(b) = buffer[b].data /\ DerivedFrom(b) \in Surfaces
    BY DerivedIsData DEF ReleaseBufferHandle, TypeOK, BufferStates
  <1>2. PICK s \in Surfaces :
           /\ s = buffer[b].data
           /\ \E done \in BOOLEAN :
                 cache' = [cache EXCEPT ![s] = IF done THEN Invalidated(@) ELSE @]
           /\ external_handle_count' = [external_handle_count EXCEPT
                                           ![s] = IF @ > 0 THEN @ - 1 ELSE @]
           /\ UNCHANGED <<cpu_access_count, cpu_cache_flush_pending, decVars, encVars>>
    BY <1>1 DEF ReleaseBufferHandle
  <1>3. b \in Out(s)
    BY <1>1, <1>2 DEF Out, Shows
  <1>4. external_handle_count[s] \in Nat /\ external_handle_count[s] # 0
    BY <1>3, CountedSetsAreFinite, FS_EmptySet DEF CountInv, TypeOK
  <1>5. Safe(s)
    BY <1>3 DEF CacheInv
  <1>6. cache[s] # "dirty" /\ cpu_access_count[s] = 0
    BY <1>4, <1>5 DEF Safe
  <1>7. cache'[s] = cache[s]
    BY <1>2, <1>6 DEF Invalidated, TypeOK
  <1>8. \A x \in Surfaces : Calm(x)
    BY <1>2 DEF Calm, HasActiveEncoder, encVars, decVars
  <1>9. Safe(s)'
    BY <1>2, <1>5, <1>6, <1>7, <1>8 DEF Safe, Calm
  <1>10. CacheOnly(s)
    BY <1>2 DEF CacheOnly, TypeOK
  <1> QED
    BY <1>2, <1>9, <1>10, <1>8, OthersAreSafe DEF TypeOK

LEMMA SlotSafe ==
    ASSUME TypeOK, LifeInv, SlotInv, CountInv, EncoderInputUnlocked, OneView, CacheInv, SlotNext
    PROVE  CacheInv'
  <1>1. CASE UNCHANGED <<cpu_access_count, external_handle_count, cacheVars>>
    BY <1>1, UsedStaysSlots, TypesInGroups, SafeWhenCalm
    DEF Calm, HasActiveEncoder, encVars, decVars
  <1>2. ASSUME NEW i \in Images, DestroyImage(i) PROVE CacheInv'
    <2>1. UNCHANGED cacheVars \/ \E s \in Surfaces : FlushPending(s)
      <3>1. image[i].surface_id \in Targets
        BY <1>2 DEF DestroyImage, TypeOK, ImageStates, Targets
      <3> QED
        BY <1>2, <3>1 DEF DestroyImage, Targets
    <2>2. UNCHANGED <<cpu_access_count, external_handle_count, decVars, encVars>>
      BY <1>2 DEF DestroyImage
    <2> QED
      BY <2>1, <2>2, TypesInGroups, SafeWhenCalm DEF Calm, HasActiveEncoder, encVars, decVars
  <1> QED
    BY <1>1, <1>2, MappedSafe, UnmappedSafe, AcquiredSafe, ReleasedSafe
    DEF SlotNext, CreateBuffer, DestroyBuffer, CreateImage, countVars

(* The driver copies s into image i, which may be a view of d.             *)
LEMMA CopiedOutSafe ==
    ASSUME TypeOK, LifeInv, SlotInv, CountInv, EncoderInputUnlocked, OneView, CacheInv,
           NEW s \in Surfaces, NEW i \in Images, GrantGet(s, i), \A x \in Surfaces : Calm(x)
    PROVE  CacheInv'
  <1>t. CacheTypes
    BY TypesInGroups
  <1>1. /\ cpu_access_count[s] = 0 /\ ImageIsQuiet(i)
        /\ UNCHANGED <<cpu_access_count, external_handle_count>>
    BY DEF GrantGet, countVars
  <1>2. Safe(s) /\ Flushed(s) = "clean" /\ Invalidated(Flushed(s)) = "clean"
    BY <1>t, <1>1, FlushedIsClean DEF CacheInv
  <1>3. CASE /\ image[i].surface_id = NoSurface
             /\ cpu_cache_flush_pending' = [cpu_cache_flush_pending EXCEPT ![s] = FALSE]
             /\ cache' = [cache EXCEPT ![s] = "clean"]
    <2>1. cache'[s] = "clean" /\ CacheOnly(s)
      BY <1>3 DEF CacheOnly, TypeOK
    <2> QED
      BY <1>1, <2>1, SafeWhenClean, OthersAreSafe
  <1>4. CASE /\ image[i].surface_id # NoSurface
             /\ \E failed \in BOOLEAN :
                   LET d == DerivedFrom(image[i].buf_id)
                   IN  /\ cpu_cache_flush_pending' =
                             [cpu_cache_flush_pending EXCEPT ![s] = FALSE, ![d] = failed]
                       /\ cache' = [cache EXCEPT ![s] = "clean", ![d] = Rewritten(d, failed)]
    <2>1. PICK d \in Surfaces :
             /\ d = DerivedFrom(image[i].buf_id) /\ cpu_access_count[d] = 0
             /\ external_handle_count[d] = 0
             /\ ~decode_pending[d] /\ ~HasActiveEncoder(d)
      BY <1>1, <1>4, ImageIsAlone
    <2>2. PICK failed \in BOOLEAN :
             /\ cpu_cache_flush_pending' =
                   [cpu_cache_flush_pending EXCEPT ![s] = FALSE, ![d] = failed]
             /\ cache' = [cache EXCEPT ![s] = "clean", ![d] = Rewritten(d, failed)]
      BY <1>4, <2>1
    <2>3. Invalidated(Flushed(d)) = "clean"
      BY <1>t, <2>1, FlushedIsClean DEF CacheInv
    <2>4. /\ cache'[d] # "lost" /\ (cache'[d] = "dirty" => failed)
          /\ cpu_cache_flush_pending'[d] = failed
      BY <2>2, <2>3 DEF Rewritten, TypeOK
    <2>5. Safe(d)'
      BY <1>1, <2>1, <2>4 DEF Safe, Calm
    <2>6. CASE s = d
      <3>1. CacheOnly(d)
        BY <2>2, <2>6 DEF CacheOnly, TypeOK
      <3> QED
        BY <1>1, <2>5, <3>1, OthersAreSafe
    <2>7. CASE s # d
      <3> SUFFICES ASSUME NEW x \in Surfaces, x # d PROVE Safe(x)'
        BY <2>5 DEF CacheInv
      <3>1. CASE x = s
        <4>1. cache'[s] = "clean"
          BY <2>2, <2>7 DEF TypeOK
        <4> QED
          BY <1>1, <3>1, <4>1, SafeWhenClean
      <3>2. CASE x # s
        <4>1. UNCHANGED <<cache[x], cpu_cache_flush_pending[x]>>
          BY <2>2, <3>2 DEF TypeOK
        <4> QED
          BY <1>1, <4>1, SafeStays DEF CacheInv, Calm, Safe
      <3> QED
        BY <3>1, <3>2
    <2> QED
      BY <2>6, <2>7
  <1> QED
    BY <1>2, <1>3, <1>4 DEF GrantGet

(* The driver copies image i, which may be a view of d, into s.            *)
LEMMA CopiedInSafe ==
    ASSUME TypeOK, LifeInv, SlotInv, CountInv, EncoderInputUnlocked, OneView, CacheInv,
           NEW s \in Surfaces, NEW i \in Images, GrantPut(s, i), \A x \in Surfaces : Calm(x)
    PROVE  CacheInv'
  <1>t. CacheTypes
    BY TypesInGroups
  <1>1. /\ lock_count[s] = 0 /\ ImageIsQuiet(i)
        /\ UNCHANGED <<cpu_access_count, external_handle_count>>
    BY DEF GrantPut, AsksPut, countVars
  <1>2. CASE FlushPending(s)
    BY <1>t, <1>1, <1>2, SafeWhenCalm
  <1>3. CASE /\ image[i].surface_id # NoSurface
             /\ LET d == DerivedFrom(image[i].buf_id)
                IN  /\ cpu_cache_flush_pending' =
                          [cpu_cache_flush_pending EXCEPT ![s] = FALSE, ![d] = FALSE]
                    /\ cache' = [cache EXCEPT ![s] = Flushed(s),
                                              ![d] = Invalidated(Flushed(d))]
    <2>1. PICK d \in Surfaces :
             d = DerivedFrom(image[i].buf_id) /\ cpu_access_count[d] = 0
      BY <1>1, <1>3, ImageIsAlone
    <2>2. cpu_access_count[s] = 0
      BY <1>1, UnlockedIsQuiet
    <2>3. Flushed(s) = "clean" /\ Invalidated(Flushed(d)) = "clean"
      BY <1>t, <2>1, <2>2, FlushedIsClean DEF CacheInv
    <2>4. /\ cache' = [cache EXCEPT ![s] = "clean", ![d] = "clean"]
          /\ \A x \in Surfaces : x \notin {s, d} =>
                cpu_cache_flush_pending'[x] = cpu_cache_flush_pending[x]
      BY <1>3, <2>1, <2>3 DEF TypeOK
    <2> SUFFICES ASSUME NEW x \in Surfaces PROVE Safe(x)'
      BY DEF CacheInv
    <2>5. CASE x \in {s, d}
      <3>1. cache'[x] = "clean"
        BY <2>4, <2>5 DEF TypeOK
      <3> QED
        BY <1>1, <2>1, <2>2, <2>5, <3>1, SafeWhenClean
    <2>6. CASE x \notin {s, d}
      <3>1. UNCHANGED <<cache[x], cpu_cache_flush_pending[x]>>
        BY <2>4, <2>6 DEF TypeOK
      <3> QED
        BY <1>1, <3>1, SafeStays DEF CacheInv, Calm, Safe
    <2> QED
      BY <2>5, <2>6
  <1> QED
    BY <1>2, <1>3 DEF GrantPut

LEMMA ThreadSafe ==
    ASSUME SynchronisesFirst, TypeOK, CallInv, LifeInv, SlotInv, CountInv, EncoderInputUnlocked,
           OneView, CacheInv, NEW t \in Threads, ThreadNext(t), \A x \in Surfaces : Calm(x)
    PROVE  CacheInv'
  <1>1. UNCHANGED countVars
    BY ThreadKeepsCounts
  <1>2. CASE UNCHANGED cacheVars \/ \E s \in Surfaces : FlushPending(s)
    BY <1>1, <1>2, TypesInGroups, SafeWhenCalm DEF countVars
  <1>3. CASE WaitingCall(call[t]) /\ Continue(call[t])
    <2> DEFINE c == call[t]
    <2>1. c.surf \in Surfaces /\ (c.op \in {"get", "put"} => c.img \in Images)
      BY <1>3 DEF WaitingCall
    <2>2. c.op \notin {"lock", "derive"}
      BY <1>3 DEF SynchronisesFirst, WaitingCall
    <2> HIDE DEF c
    <2>3. \/ GrantExport(c.surf) \/ UNCHANGED accessVars
          \/ c.op = "get" /\ GrantGet(c.surf, c.img)
          \/ c.op = "put" /\ GrantPut(c.surf, c.img)
      BY <1>3, <2>2, ContinueCases DEF c
    <2> QED
      BY <1>2, <2>1, <2>3, CopiedOutSafe, CopiedInSafe DEF GrantExport, accessVars
  <1>4. CASE MeetsPending(t)
    BY <1>2, <1>4, MeetsCases DEF Begins, WaitingCall
  <1>5. CASE Resolve(t)
    BY <1>2, <1>3, <1>5, ResolveCases, WaitersCall DEF Fail, accessVars
  <1>6. CASE Wake(t)
    BY <1>2, <1>3, <1>6, WakeCases, WaitersCall DEF Fail, accessVars
  <1> QED
    BY <1>2, <1>4, <1>5, <1>6 DEF ThreadNext, ResolveEarlier, accessVars

LEMMA SurfaceSafe ==
    ASSUME TypeOK, LifeInv, SlotInv, CountInv, EncoderInputUnlocked, OneView, CacheInv,
           NEW s \in Surfaces, SurfaceNext(s), \A x \in Surfaces : Calm(x)
    PROVE  CacheInv'
  <1>1. CASE /\ UNCHANGED <<cpu_access_count, external_handle_count>>
             /\ UNCHANGED cacheVars \/ FlushPending(s)
    BY <1>1, TypesInGroups, SafeWhenCalm
  <1>2. CASE LockSurface(s)
    <2>1. /\ external_handle_count[s] = 0
          /\ IF cpu_access_count[s] = 0 THEN StartCpuAccess(s) ELSE UNCHANGED cacheVars
          /\ cpu_access_count' = [cpu_access_count EXCEPT ![s] = @ + 1]
          /\ UNCHANGED <<external_handle_count, decode_pending, encVars>>
      BY <1>2 DEF LockSurface, AsksLock, GrantLock, decVars
    <2> QED
      BY <2>1, SafeEntered
  <1>3. CASE UnlockSurface(s)
    BY <1>3, SafeLeft DEF UnlockSurface, MayUnlock, decVars
  <1>4. ASSUME NEW i \in Images, GetImage(s, i) PROVE CacheInv'
    BY <1>4, CopiedOutSafe DEF GetImage
  <1>5. ASSUME NEW i \in Images, PutImage(s, i) PROVE CacheInv'
    BY <1>5, CopiedInSafe DEF PutImage
  <1>6. ASSUME NEW e \in Encoders, BeginEncode(e, s) PROVE CacheInv'
    BY <1>6, SafeBegun
  <1> QED
    BY <1>1, <1>2, <1>3, <1>4, <1>5, <1>6, SafeDestroyed, SafeBegun, SafeWritten
    DEF SurfaceNext, CreateSurface, FlushThenFail, ExportSurface, DeriveImage, GrantDerive,
        accessVars, countVars

LEMMA CacheStep ==
    ASSUME SynchronisesFirst, TypeOK, CallInv, LifeInv, SlotInv, CountInv, EncoderInputUnlocked,
           OneView, CacheInv, [Next]_vars
    PROVE  CacheInv'
  <1>1. CASE /\ UNCHANGED accessVars
             /\ \A x \in Surfaces : Calm(x)
    BY <1>1, TypesInGroups, SafeWhenCalm DEF accessVars, countVars
  <1>2. CASE UNCHANGED vars
    BY <1>1, <1>2 DEF vars, Calm, HasActiveEncoder, decVars, encVars
  <1>3. CASE \E x \in Surfaces : BeginDecode(x) \/ \E e \in Encoders : BeginEncode(e, x)
    BY <1>3, SafeBegun
  <1>4. CASE Next /\ \A x \in Surfaces : Calm(x)
    BY <1>1, <1>4, SurfaceSafe, SlotSafe, ThreadSafe, UsedStaysHardware DEF Next
  <1> QED
    BY <1>2, <1>3, <1>4, CalmComes

LEMMA SynchronisesDerive == SynchronisesFirst => NothingDerived
  BY DEF SynchronisesFirst, NothingDerived

LEMMA InitCarefulUse == Init => CarefulUse
  <1> SUFFICES ASSUME Init PROVE CarefulUse
    OBVIOUS
  <1>1. EncoderInputUnlocked /\ OneView /\ CacheInv
    BY DEF Init, EncoderInputUnlocked, OneView, CacheInv, Safe
  <1> QED
    BY <1>1, InitDerivedUse DEF CarefulUse

LEMMA CarefulUseStep ==
    ASSUME SynchronisesFirst, SingleView, CarefulUse, [Next]_vars
    PROVE  CarefulUse'
  <1>1. AnyUse /\ TypeOK /\ CallInv /\ LifeInv /\ SlotInv /\ CountInv
    BY DEF CarefulUse, DerivedUse, AnyUse
  <1>2. EncoderInputUnlocked /\ OneView /\ CacheInv /\ DerivedUse
    BY DEF CarefulUse
  <1>3. DerivedUse'
    BY <1>2, SynchronisesDerive, DerivedUseStep
  <1>4. EncoderInputUnlocked' /\ OneView' /\ CacheInv'
    BY <1>1, <1>2, EncoderStep, OneViewStep, CacheStep
  <1> QED
    BY <1>3, <1>4 DEF CarefulUse

(* For an application that synchronises a surface before it locks it or    *)
(* derives an image, and keeps one derived image of a surface at a time:   *)
(* the inductive invariant.                                                *)
THEOREM CarefulUseInductive == SynchronisesFirst /\ SingleView /\ Spec => []CarefulUse
  <1> SUFFICES ASSUME SynchronisesFirst, SingleView PROVE Spec => []CarefulUse
    OBVIOUS
  <1>1. CarefulUse /\ [Next]_vars => CarefulUse'
    BY CarefulUseStep
  <1> QED
    BY InitCarefulUse, <1>1, PTL DEF Spec

(* Nothing such an application writes through a lock or a mapped image is  *)
(* thrown away by a cache invalidation of a later lock, map, copy or       *)
(* handle release.                                                         *)
THEOREM WritesSurvive == SynchronisesFirst /\ SingleView /\ Spec => []NoWriteLost
  <1>1. CarefulUse => NoWriteLost
    BY DEF CarefulUse, CacheInv, Safe, NoWriteLost
  <1> QED
    BY <1>1, CarefulUseInductive, PTL

(* A surface with writes of such an application still in the CPU cache is  *)
(* with no decoder, encoder or other device.                               *)
THEOREM WritesAreSeen == SynchronisesFirst /\ SingleView /\ Spec => []DevicesSeeWrites
  <1>1. CarefulUse => DevicesSeeWrites
    BY DEF CarefulUse, CacheInv, Safe, DevicesSeeWrites
  <1> QED
    BY <1>1, CarefulUseInductive, PTL

-----------------------------------------------------------------------------
(* Surfaces that devices get.                                              *)

(* A thread goes on waiting.                                               *)
LEMMA ThreadWaits ==
    ASSUME NEW t \in Threads, Wake(t) \/ MeetsPending(t)
    PROVE  /\ UNCHANGED <<decode_pending, decode_error, render_target, encVars, used>>
           /\ pc[t] # "dequeue"
           /\ \/ /\ pc' = [pc EXCEPT ![t] = "idle"] /\ call' = [call EXCEPT ![t] = NoCall]
                 /\ UNCHANGED sync_active
              \/ \E c : /\ pc' = [pc EXCEPT ![t] = "dequeue"] /\ call' = [call EXCEPT ![t] = c]
                        /\ decode_pending[c.surf]
                        /\ ~sync_active /\ render_target = NoSurface /\ sync_active' = TRUE
              \/ /\ pc' = [pc EXCEPT ![t] = "dequeue"] /\ UNCHANGED call
                 /\ decode_pending[call[t].surf]
                 /\ ~sync_active /\ render_target = NoSurface /\ sync_active' = TRUE
              \/ \E c : /\ pc' = [pc EXCEPT ![t] = "asleep"] /\ call' = [call EXCEPT ![t] = c]
                        /\ decode_pending[c.surf]
                        /\ UNCHANGED sync_active
  <1>1. CASE Wake(t)
    <2>1. UNCHANGED <<decode_pending, decode_error, render_target, encVars, used>>
      BY <1>1 DEF Wake
    <2> QED
      BY <1>1, <2>1, WakeCases DEF Return, Fail
  <1>2. CASE MeetsPending(t)
    <2>1. PICK c : Wait(t, c)
      BY <1>2, MeetsCases DEF Begins
    <2> QED
      BY <2>1 DEF Wait, lifeVars
  <1> QED
    BY <1>1, <1>2

LEMMA ThreadEnds ==
    ASSUME NEW t \in Threads, Resolve(t)
    PROVE  /\ UNCHANGED <<render_target, encVars, used>>
           /\ pc[t] = "dequeue" /\ sync_active' = FALSE
           /\ pc' = [pc EXCEPT ![t] = "idle"] /\ call' = [call EXCEPT ![t] = NoCall]
  BY Zenon DEF Resolve, Return, Fail

LEMMA DequeueThread ==
    ASSUME TypeOK, DequeueInv, NEW t \in Threads, ThreadNext(t)
    PROVE  DequeueInv'
  <1>1. CASE Wake(t) \/ MeetsPending(t)
    <2>1. UNCHANGED <<decode_pending, render_target>>
      BY <1>1, ThreadWaits
    <2>2. CASE /\ pc' = [pc EXCEPT ![t] = "idle"] /\ call' = [call EXCEPT ![t] = NoCall]
               /\ UNCHANGED sync_active
      BY <2>1, <2>2 DEF DequeueInv, TypeOK
    <2>3. ASSUME NEW c, pc' = [pc EXCEPT ![t] = "dequeue"], call' = [call EXCEPT ![t] = c],
                 decode_pending[c.surf], ~sync_active, render_target = NoSurface,
                 sync_active' = TRUE
          PROVE  DequeueInv'
      BY <2>1, <2>3 DEF DequeueInv, TypeOK
    <2>4. CASE /\ pc' = [pc EXCEPT ![t] = "dequeue"] /\ UNCHANGED call
               /\ decode_pending[call[t].surf]
               /\ ~sync_active /\ render_target = NoSurface /\ sync_active' = TRUE
      BY <2>1, <2>4 DEF DequeueInv, TypeOK
    <2>5. ASSUME NEW c, pc' = [pc EXCEPT ![t] = "asleep"], call' = [call EXCEPT ![t] = c],
                 UNCHANGED sync_active
          PROVE  DequeueInv'
      BY <2>1, <2>5 DEF DequeueInv, TypeOK
    <2> QED
      BY <1>1, <2>2, <2>3, <2>4, <2>5, ThreadWaits
  <1>2. CASE Resolve(t)
    <2>1. pc' = [pc EXCEPT ![t] = "idle"] /\ sync_active' = FALSE /\ pc[t] = "dequeue"
      BY <1>2, ThreadEnds
    <2>2. ASSUME NEW u \in Threads PROVE pc'[u] # "dequeue"
      <3>1. pc[u] = "dequeue" => u = t
        BY <2>1 DEF DequeueInv
      <3>2. u # t => pc'[u] = pc[u]
        BY <2>1 DEF TypeOK
      <3>3. u = t => pc'[u] = "idle"
        BY <2>1 DEF TypeOK
      <3> QED
        BY <3>1, <3>2, <3>3
    <2> QED
      BY <2>1, <2>2 DEF DequeueInv
  <1>3. ASSUME NEW x \in Surfaces, ResolveEarlier(t, x) PROVE DequeueInv'
    BY <1>3 DEF ResolveEarlier, thrVars, DequeueInv, TypeOK
  <1> QED
    BY <1>1, <1>2, <1>3 DEF ThreadNext

LEMMA DequeueStep ==
    ASSUME TypeOK, DequeueInv, [Next]_vars
    PROVE  DequeueInv'
  <1>1. CASE /\ UNCHANGED <<thrVars, sync_active>>
             /\ \/ UNCHANGED <<decode_pending, render_target>>
                \/ ~sync_active
    BY <1>1 DEF DequeueInv, thrVars
  <1>2. ASSUME NEW s \in Surfaces, SurfaceNext(s) PROVE DequeueInv'
    <2>1. UNCHANGED decVars \/ BeginDecode(s) \/ DestroySurface(s)
      BY <1>2
      DEF SurfaceNext, CreateSurface, BeginEncode, CpuWrite, FlushThenFail, ExportSurface,
          GetImage, PutImage, LockSurface, UnlockSurface, DeriveImage
    <2>2. CASE BeginDecode(s)
      BY <1>1, <2>2 DEF BeginDecode
    <2>3. CASE DestroySurface(s)
      BY <1>1, <2>3 DEF DestroySurface
    <2> QED
      BY <1>1, <1>2, <2>1, <2>2, <2>3, UsedStaysSurface DEF decVars
  <1>3. CASE SlotNext
    BY <1>1, <1>3, UsedStaysSlots DEF decVars
  <1>4. CASE HardwareNext
    <2>1. CASE EndDecode
      BY <1>1, <2>1 DEF EndDecode, DequeueInv
    <2> QED
      BY <1>1, <1>4, <2>1 DEF HardwareNext, DeviceDone, EndEncode, InputConsumed, decVars
  <1>5. CASE UNCHANGED vars
    BY <1>1, <1>5 DEF vars, decVars
  <1> QED
    BY <1>2, <1>3, <1>4, <1>5, DequeueThread DEF Next

LEMMA NotBothStep ==
    ASSUME TypeOK, NotBothInv, [Next]_vars
    PROVE  NotBothInv'
  <1> SUFFICES ASSUME NEW x \in Surfaces PROVE decode_pending'[x] => ~HasActiveEncoder(x)'
    BY DEF NotBothInv
  <1>1. CASE Calm(x)
    BY <1>1 DEF NotBothInv, Calm
  <1>2. CASE UNCHANGED vars
    BY <1>1, <1>2 DEF vars, decVars, encVars, Calm, HasActiveEncoder
  <1>3. CASE BeginDecode(x)
    BY <1>3 DEF BeginDecode, MayBeTarget, HasActiveEncoder, encVars
  <1>4. ASSUME NEW e \in Encoders, BeginEncode(e, x) PROVE ~decode_pending'[x]
    BY <1>4 DEF BeginEncode, decVars
  <1> QED
    BY <1>1, <1>2, <1>3, <1>4, CalmComes

LEMMA SleepStep ==
    ASSUME TypeOK, CallInv, SleepInv, [Next]_vars
    PROVE  SleepInv'
  <1> SUFFICES ASSUME SingleThread, NEW t \in Threads, pc'[t] = "asleep"
               PROVE  decode_pending'[call'[t].surf] \/ decode_error'[call'[t].surf]
    BY DEF SleepInv
  <1>1. CASE ThreadNext(t)
    <2>1. ~Resolve(t)
      BY ThreadEnds DEF TypeOK
    <2>2. ASSUME NEW x \in Surfaces, ResolveEarlier(t, x) PROVE FALSE
      BY <2>2 DEF ResolveEarlier, thrVars
    <2>3. Wake(t) \/ MeetsPending(t)
      BY <1>1, <2>1, <2>2 DEF ThreadNext
    <2>4. PICK c : call' = [call EXCEPT ![t] = c] /\ decode_pending[c.surf]
      <3>1. \A w : pc' = [pc EXCEPT ![t] = w] => w = "asleep"
        BY DEF TypeOK
      <3> QED
        BY <2>3, <3>1, ThreadWaits
    <2>5. call'[t] = c /\ UNCHANGED decode_pending
      BY <2>3, <2>4, ThreadWaits DEF TypeOK
    <2> QED
      BY <2>4, <2>5
  <1>2. CASE UNCHANGED thrVars
    <2> DEFINE s == call[t].surf
    <2>1. /\ call' = call /\ s \in Surfaces /\ used[s]
          /\ decode_pending[s] \/ decode_error[s]
      BY <1>2 DEF thrVars, CallInv, SleepInv
    <2> HIDE DEF s
    <2>2. decode_pending'[s] \/ decode_error'[s]
      <3>1. CASE UNCHANGED <<decode_pending, decode_error>>
        BY <2>1, <3>1
      <3>2. ASSUME NEW x \in Surfaces, SurfaceNext(x) PROVE decode_pending'[s] \/ decode_error'[s]
        <4>1. UNCHANGED decVars \/ BeginDecode(x) \/ DestroySurface(x)
          BY <3>2
          DEF SurfaceNext, CreateSurface, BeginEncode, CpuWrite, FlushThenFail, ExportSurface,
              GetImage, PutImage, LockSurface, UnlockSurface, DeriveImage
        <4>2. CASE BeginDecode(x)
          BY <2>1, <4>2 DEF BeginDecode, TypeOK
        <4>3. CASE DestroySurface(x)
          BY <2>1, <4>3 DEF DestroySurface, TypeOK
        <4> QED
          BY <3>1, <4>1, <4>2, <4>3 DEF decVars
      <3>3. CASE SlotNext
        BY <3>1, <3>3, UsedStaysSlots DEF decVars
      <3>4. CASE HardwareNext
        <4>1. CASE EndDecode
          BY <2>1, <4>1 DEF EndDecode, TypeOK
        <4> QED
          BY <3>1, <3>4, <4>1 DEF HardwareNext, DeviceDone, EndEncode, InputConsumed, decVars
      <3>5. ASSUME NEW u \in Threads, ThreadNext(u)
            PROVE  decode_pending'[s] \/ decode_error'[s]
        <4>1. ThreadNext(t)
          BY <3>5 DEF SingleThread
        <4>2. pc[t] = "asleep"
          BY <1>2 DEF thrVars
        <4>3. Wake(t) \/ MeetsPending(t)
          BY <4>1, <4>2, ThreadEnds DEF ThreadNext, ResolveEarlier
        <4> QED
          BY <3>1, <4>3, ThreadWaits
      <3>6. CASE UNCHANGED vars
        BY <3>1, <3>6 DEF vars, decVars
      <3> QED
        BY <3>2, <3>3, <3>4, <3>5, <3>6 DEF Next
    <2> QED
      BY <2>1, <2>2 DEF s
  <1>3. CASE \E u \in Threads : ThreadNext(u)
    BY <1>1, <1>3 DEF SingleThread
  <1> QED
    BY <1>2, <1>3, UsedStaysSurface, UsedStaysSlots, UsedStaysHardware DEF Next, vars

LEMMA WaitStep ==
    ASSUME TypeOK, CallInv, WaitInv, [Next]_vars
    PROVE  WaitInv'
  BY DequeueStep, NotBothStep, SleepStep DEF WaitInv

(* The calls by which a device gets a surface.                             *)
LEMMA HandedCases ==
    ASSUME SynchronisesFirst, TypeOK, CallInv, SlotInv, Next, NEW s \in Surfaces, Handed(s)
    PROVE  \/ \E b \in Buffers : AcquireBufferHandle(b) /\ DerivedFrom(b) = s
           \/ ExportSurface(s)
           \/ \E t \in Threads : /\ Resolve(t) \/ Wake(t)
                                 /\ Return(t) /\ call[t].op = "export" /\ call[t].surf = s
                                 /\ GrantExport(s) /\ WaitingCall(call[t])
  <1>e. external_handle_count \in Counts
    BY TypesInGroups DEF CountTypes
  <1>1. ASSUME NEW z \in Surfaces, SurfaceNext(z) PROVE ExportSurface(s)
    <2>1. UNCHANGED external_handle_count
      BY <1>1
      DEF SurfaceNext, CreateSurface, DestroySurface, BeginDecode, BeginEncode, CpuWrite,
          FlushThenFail, ExportSurface, GetImage, GrantGet, PutImage, GrantPut, LockSurface,
          GrantLock, UnlockSurface, DeriveImage, GrantDerive, accessVars, countVars
    <2>2. exported' = s /\ exported # s
      BY <1>e, <2>1 DEF Handed, Counts
    <2>3. ExportSurface(z) \/ exported' \in {exported, NoSurface}
      BY <1>1
      DEF SurfaceNext, CreateSurface, DestroySurface, BeginDecode, BeginEncode, CpuWrite,
          FlushThenFail, GetImage, PutImage, LockSurface, UnlockSurface, DeriveImage, lifeVars
    <2>4. ExportSurface(z) /\ z = s
      BY <2>2, <2>3, ConstantsAssumption DEF ExportSurface, Exported
    <2> QED
      BY <2>4
  <1>2. CASE SlotNext
    <2>1. external_handle_count'[s] > external_handle_count[s]
      BY <1>2, UsedStaysSlots DEF Handed, lifeVars
    <2>2. ~UNCHANGED external_handle_count
      BY <1>e, <2>1 DEF Counts
    <2>3. ASSUME NEW b \in Buffers, ReleaseBufferHandle(b) PROVE FALSE
      <3>1. external_handle_count' = [external_handle_count EXCEPT
                                         ![DerivedFrom(b)] = IF @ > 0 THEN @ - 1 ELSE @]
        BY <2>3 DEF ReleaseBufferHandle
      <3> QED
        BY <1>e, <2>1, <3>1 DEF Counts
    <2>4. PICK b \in Buffers : AcquireBufferHandle(b)
      BY <1>2, <2>2, <2>3
      DEF SlotNext, CreateBuffer, DestroyBuffer, MapBuffer, UnmapBuffer, DestroyImage,
          CreateImage, countVars
    <2>5. external_handle_count' = [external_handle_count EXCEPT ![DerivedFrom(b)] = @ + 1]
      BY <2>4 DEF AcquireBufferHandle
    <2>6. DerivedFrom(b) = s
      BY <1>e, <2>1, <2>5 DEF Counts
    <2> QED
      BY <2>4, <2>6
  <1>3. CASE HardwareNext
    <2>1. UNCHANGED external_handle_count
      BY <1>3, UsedStaysHardware DEF accessVars, countVars
    <2>2. exported' = s /\ exported # s
      BY <1>e, <2>1 DEF Handed, Counts
    <2>3. exported' \in {exported, NoSurface}
      BY <1>3 DEF HardwareNext, EndDecode, DeviceDone, EndEncode, InputConsumed, lifeVars
    <2> QED
      BY <2>2, <2>3, ConstantsAssumption
  <1>4. ASSUME NEW t \in Threads, ThreadNext(t)
        PROVE  /\ Resolve(t) \/ Wake(t)
               /\ Return(t) /\ call[t].op = "export" /\ call[t].surf = s
               /\ GrantExport(s) /\ WaitingCall(call[t])
    <2>1. UNCHANGED external_handle_count
      BY <1>4, ThreadKeepsCounts DEF countVars
    <2>2. exported' = s /\ exported # s
      BY <1>e, <2>1 DEF Handed, Counts
    <2>3. Resolve(t) \/ Wake(t)
      <3>1. MeetsPending(t) => UNCHANGED exported
        BY MeetsCases DEF Begins, Wait, lifeVars
      <3> QED
        BY <1>4, <2>2, <3>1 DEF ThreadNext, ResolveEarlier, lifeVars
    <2>4. Return(t) /\ Continue(call[t]) /\ WaitingCall(call[t])
      BY <2>2, <2>3, ResolveCases, WakeCases, WaitersCall DEF Fail
    <2>5. call[t].op = "export" /\ GrantExport(call[t].surf)
      BY <2>2, <2>4, ContinueCases
    <2>6. call[t].surf = s
      BY <2>2, <2>5 DEF GrantExport, Exported
    <2> QED
      BY <2>3, <2>4, <2>5, <2>6
  <1> QED
    BY <1>1, <1>2, <1>3, <1>4 DEF Next

(* A surface's memory is handed to another device, by vaExportSurfaceHandle*)
(* or vaAcquireBufferHandle, only while the CPU has no access to it in any *)
(* way, nothing the CPU wrote is left in the cache, and neither a decoder  *)
(* nor an encoder works with it.  That is so under the hypotheses of       *)
(* DevicesGetQuiet below, and not without them.                            *)
DevicesGetQuietSurfaces ==
    [][\A s \in Surfaces : Handed(s) =>
          /\ cpu_access_count[s] = 0 /\ cache'[s] # "dirty"
          /\ ~decode_pending'[s] /\ ~HasActiveEncoder(s)]_vars

(* What a device that gets s now may count on.                             *)
Quiet(s) ==
    /\ cpu_access_count[s] = 0 /\ cache'[s] # "dirty"
    /\ ~decode_pending'[s] /\ ~HasActiveEncoder(s)

LEMMA QuietExport ==
    ASSUME CarefulUse, WaitInv, SingleThread, NEW s \in Surfaces, NEW t \in Threads,
           Resolve(t) \/ Wake(t), Return(t), call[t].surf = s, exported' = s, exported # s,
           GrantExport(s)
    PROVE  Quiet(s)
  <1>1. TypeOK /\ LifeInv /\ SlotInv /\ CountInv /\ CacheTypes /\ Safe(s)
    BY TypesInGroups DEF CarefulUse, DerivedUse, AnyUse, CacheInv
  <1>2. CASE Resolve(t)
    <2>1. decode_pending[s]
      BY <1>2 DEF Resolve, WaitInv, DequeueInv
    <2>2. lock_count[s] = 0 /\ ~HasActiveEncoder(s)
      BY <1>1, <2>1 DEF LifeInv, TypeOK, WaitInv, NotBothInv
    <2>3. cpu_access_count[s] = 0 /\ cache[s] # "dirty"
      BY <1>1, <2>1, <2>2, UnlockedIsQuiet DEF Safe
    <2>4. cache'[s] # "dirty"
      BY <1>1, <2>3, FlushShape, FlushedIsClean DEF GrantExport, cacheVars
    <2>5. ~decode_pending'[s]
      <3>1. \/ decode_pending' = [decode_pending EXCEPT ![s] = FALSE]
            \/ Fail(t)
        BY <1>2, ResolveCases
      <3> QED
        BY <1>1, <3>1 DEF Fail, TypeOK
    <2> QED
      BY <2>2, <2>3, <2>4, <2>5 DEF Quiet
  (* A sleeper would go on with a settled surface.                         *)
  <1>3. CASE Wake(t)
    <2>1. pc[t] = "asleep" /\ ~decode_pending[s] /\ ~decode_error[s]
      BY <1>3, WakeCases DEF Fail
    <2> QED
      BY <2>1 DEF WaitInv, SleepInv
  <1> QED
    BY <1>2, <1>3

LEMMA QuietHands ==
    ASSUME SynchronisesFirst, SingleThread \/ "export" \notin Unsynced, CarefulUse, WaitInv,
           Next, NEW s \in Surfaces, Handed(s)
    PROVE  Quiet(s)
  <1>1. /\ TypeOK /\ CallInv /\ LifeInv /\ SlotInv /\ CountInv /\ CacheTypes /\ Safe(s)
        /\ EncoderInputUnlocked /\ OneView
    BY TypesInGroups DEF CarefulUse, DerivedUse, AnyUse, CacheInv
  <1>2. ASSUME NEW b \in Buffers, AcquireBufferHandle(b), DerivedFrom(b) = s
        PROVE  Quiet(s)
    <2>1. cpu_access_count[s] = 0 /\ FlushPending(s) /\ ~decode_pending[s] /\ UNCHANGED decVars
      BY <1>2 DEF AcquireBufferHandle, MayAcquire
    <2>2. cache'[s] = "clean"
      BY <1>1, <2>1, FlushShape, FlushedIsClean
    <2>3. Shows(b, s)
      BY <1>1, <1>2, DerivedIsData DEF AcquireBufferHandle, IsDerived, Shows
    <2> QED
      BY <1>1, <2>1, <2>2, <2>3, ViewIsAlone DEF Quiet, decVars
  <1>3. CASE ExportSurface(s)
    <2>1. /\ cpu_access_count[s] = 0 /\ FlushPending(s) /\ ~decode_pending[s] /\ UNCHANGED decVars
          /\ ~HasActiveEncoder(s)
      BY <1>3 DEF ExportSurface, AsksExport
    <2>2. cache'[s] = "clean"
      BY <1>1, <2>1, FlushShape, FlushedIsClean
    <2> QED
      BY <2>1, <2>2 DEF Quiet, decVars
  <1>4. ASSUME NEW t \in Threads, Resolve(t) \/ Wake(t), Return(t),
               call[t].op = "export", call[t].surf = s, GrantExport(s), WaitingCall(call[t])
        PROVE  Quiet(s)
    <2>1. "export" \in Unsynced
      BY <1>4 DEF WaitingCall
    <2>2. SingleThread
      BY <2>1
    <2>3. external_handle_count' = external_handle_count /\ external_handle_count[s] \in Nat
      BY <1>1, <1>4 DEF GrantExport, countVars, TypeOK
    <2>4. exported' = s /\ exported # s
      BY <2>3 DEF Handed
    <2> QED
      BY <1>4, <2>2, <2>4, QuietExport
  <1> QED
    BY <1>1, <1>2, <1>3, <1>4, HandedCases

(* The two invariants these theorems need, together.                       *)
LEMMA InitWaits == Init => CarefulUse /\ WaitInv
  <1>1. Init => WaitInv
    BY DEF Init, WaitInv, DequeueInv, NotBothInv, SleepInv
  <1> QED
    BY <1>1, InitCarefulUse

LEMMA CarefulWaits ==
    ASSUME SynchronisesFirst, SingleView, CarefulUse, WaitInv, [Next]_vars
    PROVE  CarefulUse' /\ WaitInv'
  <1>1. TypeOK /\ CallInv
    BY DEF CarefulUse, DerivedUse, AnyUse
  <1> QED
    BY <1>1, CarefulUseStep, WaitStep

(* A surface's memory is handed to another device only while the CPU has   *)
(* no access to it, nothing it wrote is left in the cache, and neither     *)
(* decoder nor encoder works with it: for an application that synchronises *)
(* first, keeps one derived image of a surface at a time, and has a single *)
(* thread or exports only surfaces it has synchronised.                    *)
THEOREM DevicesGetQuiet ==
    /\ SynchronisesFirst /\ SingleView
    /\ SingleThread \/ "export" \notin Unsynced
    /\ Spec
    => DevicesGetQuietSurfaces
  <1> SUFFICES ASSUME SynchronisesFirst, SingleView, SingleThread \/ "export" \notin Unsynced
               PROVE  Spec => DevicesGetQuietSurfaces
    OBVIOUS
  <1>1. Init => CarefulUse /\ WaitInv
    BY InitWaits
  <1>2. (CarefulUse /\ WaitInv) /\ [Next]_vars => (CarefulUse /\ WaitInv)'
    BY CarefulWaits
  <1>3. (CarefulUse /\ WaitInv) /\ [Next]_vars =>
           [\A s \in Surfaces : Handed(s) =>
               /\ cpu_access_count[s] = 0 /\ cache'[s] # "dirty"
               /\ ~decode_pending'[s] /\ ~HasActiveEncoder(s)]_vars
    BY QuietHands DEF Quiet
  <1> QED
    BY <1>1, <1>2, <1>3, PTL DEF Spec, DevicesGetQuietSurfaces

(* A lock on an unlocked encoder input comes from nowhere.                 *)
LEMMA InputStaysUnlocked ==
    ASSUME SynchronisesFirst, CarefulUse, Next, NEW s \in Surfaces, HasActiveEncoder(s)
    PROVE  lock_count'[s] <= lock_count[s]
  <1>1. TypeOK /\ CallInv /\ EncoderInputUnlocked
    BY DEF CarefulUse, DerivedUse, AnyUse
  <1>2. lock_count[s] = 0 /\ lock_count'[s] \in Nat
    BY <1>1, TypeStep DEF EncoderInputUnlocked, TypeOK
  <1>3. ASSUME NEW x \in Surfaces, SurfaceNext(x), lock_count'[s] > 0
        PROVE  FALSE
    BY <1>1, <1>2, <1>3, LockComes
  <1>4. CASE SlotNext
    BY <1>1, <1>2, <1>4, SlotLocks
  <1>5. CASE HardwareNext
    BY <1>2, <1>5, UsedStaysHardware DEF accessVars, countVars
  <1>6. ASSUME NEW t \in Threads, ThreadNext(t)
        PROVE  lock_count'[s] = 0
    BY <1>1, <1>2, <1>6, ThreadKeepsCounts DEF countVars
  <1> QED
    BY <1>2, <1>3, <1>4, <1>5, <1>6 DEF Next

(* While an encoder has a surface as its input no call lets the CPU or a   *)
(* device in: for an application that synchronises first, keeps one        *)
(* derived image of a surface at a time, and has a single thread or        *)
(* exports only surfaces it has synchronised.  (vaLockSurface and          *)
(* vaExportSurfaceHandle do not look for an encoder after their wait.)     *)
THEOREM InputsAreClosed ==
    /\ SynchronisesFirst /\ SingleView
    /\ SingleThread \/ "export" \notin Unsynced
    /\ Spec
    => EncoderInputIsClosed
  <1> SUFFICES ASSUME SynchronisesFirst, SingleView, SingleThread \/ "export" \notin Unsynced
               PROVE  Spec => EncoderInputIsClosed
    OBVIOUS
  <1>1. Init => CarefulUse /\ WaitInv
    BY InitWaits
  <1>2. (CarefulUse /\ WaitInv) /\ [Next]_vars => (CarefulUse /\ WaitInv)'
    BY CarefulWaits
  <1>3. (CarefulUse /\ WaitInv) /\ [Next]_vars =>
           [\A s \in Surfaces :
               HasActiveEncoder(s) => lock_count'[s] <= lock_count[s] /\ ~Handed(s)]_vars
    BY QuietHands, InputStaysUnlocked DEF Quiet
  <1> QED
    BY <1>1, <1>2, <1>3, PTL DEF Spec, EncoderInputIsClosed
=============================================================================
