---------------------------- MODULE SurfaceAccess ----------------------------
(***************************************************************************)
(* Who may touch the memory of a surface: vaLockSurface, vaDeriveImage,    *)
(* vaMapBuffer, vaAcquireBufferHandle, vaExportSurfaceHandle, vaGetImage,  *)
(* vaPutImage and their counterparts in hobot_drv_video.c, against the     *)
(* decoder that writes the surface and the encoders that read it.          *)
(*                                                                         *)
(* The driver decides by counters kept in the surface (lock_count,         *)
(* va_lock_count, cpu_access_count, external_handle_count) and keeps the   *)
(* CPU cache in step with them.  A call made on a surface that is still    *)
(* being decoded synchronises it first, and the driver mutex is dropped on *)
(* the way: what it checked before may have changed when it goes on.       *)
(*                                                                         *)
(* One decoder, always running, made all the pictures; how it pairs its    *)
(* outputs with surfaces is the subject of DecodeSync.  Calls that do not  *)
(* drop the mutex are single actions; a call that does belongs to a thread *)
(* and is in between "asleep" on sync_cond or in "dequeue".                *)
(***************************************************************************)
EXTENDS Naturals, FiniteSets

CONSTANTS
    Surfaces,
    Encoders,     \* encoder contexts
    Threads,      \* threads whose call may have to wait for a picture
    NumImages,    \* slots of drv->images
    NumBuffers,   \* slots of drv->buffers
    MaxLocks,     \* bound on lock_count at entry (UINT32_MAX in the code)
    MaxMaps,      \* bound on map_count (UINT32_MAX in the code)
    MaxAccesses,  \* bound on cpu_access_count (UINT32_MAX in the code)
    MaxViews,     \* images the application derives from one surface
    Shared,       \* surfaces whose buffer handles the application acquires
    Unsynced,     \* calls the application makes on surfaces that are pending
    NoSurface, NoImage, NoBuffer

ASSUME ConstantsAssumption ==
    /\ NoSurface \notin Surfaces
    /\ {NumImages, NumBuffers} \subseteq Nat \ {0}
    /\ {MaxLocks, MaxMaps, MaxAccesses, MaxViews} \subseteq Nat
    /\ Shared \subseteq Surfaces
    /\ Unsynced \subseteq {"sync", "lock", "derive", "get", "put", "export"}

Images  == 1 .. NumImages
Buffers == 1 .. NumBuffers

VARIABLES
    (* HobotSurface *)
    allocated,
    used,                   \* context_usage_mask is not empty
    decode_pending,
    decode_error,
    lock_count,
    va_lock_count,
    cpu_access_count,
    external_handle_count,
    cpu_cache_flush_pending,
    cache,                  \* CPU cache lines of its memory
    image,                  \* HobotImage, or NoImage
    buffer,                 \* HobotBuffer, or NoBuffer
    exported,               \* the surface a device got by export, or NoSurface
    (* the decoder *)
    sync_active,
    render_target,          \* of the open picture, or NoSurface
    (* each encoder *)
    encoding,               \* current_render_target of the open picture
    reading,                \* enc_external_surface while an input is pending
    encoder_failed,
    (* each thread *)
    pc,
    call

lifeVars   == <<allocated, used, exported>>
decVars    == <<decode_pending, decode_error, sync_active, render_target>>
encVars    == <<encoding, reading, encoder_failed>>
thrVars    == <<pc, call>>
countVars  == <<lock_count, va_lock_count, cpu_access_count, external_handle_count>>
cacheVars  == <<cpu_cache_flush_pending, cache>>
slotVars   == <<image, buffer>>
accessVars == <<countVars, cacheVars, slotVars>>
vars       == <<lifeVars, decVars, encVars, thrVars, accessVars>>

(* A buffer has memory of its own or is a view of a surface's memory       *)
(* (is_derived, data).                                                     *)
BufferStates == [data : Surfaces \cup {NoSurface}, map_count : 0 .. MaxMaps,
                 handle_acquired : BOOLEAN]

ImageStates == [buf_id : Buffers, surface_id : Surfaces \cup {NoSurface}]

ASSUME NullAssumption == NoImage \notin ImageStates /\ NoBuffer \notin BufferStates

(* What a waiting call carries across the wait: its surface and image, and *)
(* for vaDeriveImage the free slots it has chosen.                         *)
Calls == [op    : {"none", "sync", "lock", "derive", "get", "put", "export"},
          surf  : Surfaces \cup {NoSurface},
          img   : Images \cup {0},
          buf   : Buffers \cup {0}]

NoCall == [op |-> "none", surf |-> NoSurface, img |-> 0, buf |-> 0]

TypeOK ==
    /\ {allocated, used, decode_pending, decode_error, cpu_cache_flush_pending}
         \subseteq [Surfaces -> BOOLEAN]
    /\ {lock_count, va_lock_count, cpu_access_count, external_handle_count}
         \subseteq [Surfaces -> Nat]
    /\ cache \in [Surfaces -> {"clean", "dirty", "lost"}]
    /\ image \in [Images -> ImageStates \cup {NoImage}]
    /\ buffer \in [Buffers -> BufferStates \cup {NoBuffer}]
    /\ exported \in Surfaces \cup {NoSurface}
    /\ sync_active \in BOOLEAN
    /\ render_target \in Surfaces \cup {NoSurface}
    /\ encoding \in [Encoders -> Surfaces \cup {NoSurface}]
    /\ reading \in [Encoders -> Surfaces \cup {NoSurface}]
    /\ encoder_failed \in [Encoders -> BOOLEAN]
    /\ pc \in [Threads -> {"idle", "asleep", "dequeue"}]
    /\ call \in [Threads -> Calls]

Init ==
    /\ allocated = [s \in Surfaces |-> FALSE]
    /\ used = [s \in Surfaces |-> FALSE]
    /\ exported = NoSurface
    /\ decode_pending = [s \in Surfaces |-> FALSE]
    /\ decode_error = [s \in Surfaces |-> FALSE]
    /\ lock_count = [s \in Surfaces |-> 0]
    /\ va_lock_count = [s \in Surfaces |-> 0]
    /\ cpu_access_count = [s \in Surfaces |-> 0]
    /\ external_handle_count = [s \in Surfaces |-> 0]
    /\ cpu_cache_flush_pending = [s \in Surfaces |-> FALSE]
    /\ cache = [s \in Surfaces |-> "clean"]
    /\ image = [i \in Images |-> NoImage]
    /\ buffer = [b \in Buffers |-> NoBuffer]
    /\ sync_active = FALSE
    /\ render_target = NoSurface
    /\ encoding = [e \in Encoders |-> NoSurface]
    /\ reading = [e \in Encoders |-> NoSurface]
    /\ encoder_failed = [e \in Encoders |-> FALSE]
    /\ pc = [t \in Threads |-> "idle"]
    /\ call = [t \in Threads |-> NoCall]

-----------------------------------------------------------------------------
(* Helpers.                                                                *)

(* hobot_surface_has_active_encoder.                                       *)
HasActiveEncoder(s) == \E e \in Encoders : encoding[e] = s \/ reading[e] = s

(* The images derived from s.                                              *)
Views(s) == {i \in Images : image[i] # NoImage /\ image[i].surface_id = s}

(* A slot table is searched from its start for a free entry.               *)
IsFirstFree(table, none, i) ==
    /\ table[i] = none
    /\ \A j \in DOMAIN table : j < i => table[j] # none

(* hobot_get_derived_image_surface_locked: the derived image that shows    *)
(* buffer b, if there is one, leads to the surface.                        *)
DerivedFrom(b) ==
    LET shows == {i \in Images : /\ image[i] # NoImage
                                 /\ image[i].buf_id = b
                                 /\ image[i].surface_id # NoSurface}
    IN  IF shows = {} THEN NoSurface
        ELSE image[CHOOSE i \in shows : \A j \in shows : i <= j].surface_id

IsDerived(b) == buffer[b] # NoBuffer /\ buffer[b].data # NoSurface

(* A buffer nobody has mapped or handed out.                               *)
IsQuiet(b) == buffer[b].map_count = 0 /\ ~buffer[b].handle_acquired

(* A slip: nothing is written back.                                        *)
FlushedLate(s) == cache[s]

(* The cache after a call wrote back what an earlier one could not.        *)
Flushed(s) ==
    IF cpu_cache_flush_pending[s] /\ cache[s] = "dirty" THEN "clean" ELSE cache[s]

(* hb_mem_invalidate_buf throws away what has not been written back.       *)
Invalidated(c) == IF c = "dirty" THEN "lost" ELSE c

(* A slip: the surface is taken as it is.                                  *)
SkipFlush(s) == UNCHANGED cacheVars

(* A flush left over from an earlier call is done before anything else.    *)
FlushPending(s) ==
    /\ cpu_cache_flush_pending' = [cpu_cache_flush_pending EXCEPT ![s] = FALSE]
    /\ cache' = [cache EXCEPT ![s] = Flushed(s)]

(* The first CPU access: flush what is left over, then invalidate.         *)
StartCpuAccess(s) ==
    /\ cpu_cache_flush_pending' = [cpu_cache_flush_pending EXCEPT ![s] = FALSE]
    /\ cache' = [cache EXCEPT ![s] = Invalidated(Flushed(s))]

(* The last CPU access ends with a flush, or with the need for one.        *)
EndCpuAccess(s) ==
    \E failed \in BOOLEAN :
        /\ cpu_cache_flush_pending' = [cpu_cache_flush_pending EXCEPT ![s] = failed]
        /\ cache' = [cache EXCEPT ![s] = IF @ = "dirty" /\ ~failed THEN "clean" ELSE @]

-----------------------------------------------------------------------------
(* Surfaces, plain images and plain buffers.                               *)

(* vaCreateSurfaces2.                                                      *)
CreateSurface(s) ==
    /\ ~allocated[s]
    /\ allocated' = [allocated EXCEPT ![s] = TRUE]
    /\ UNCHANGED <<used, exported, decVars, encVars, thrVars, accessVars>>

(* vaDestroySurfaces on one surface that no context retains; its memory is *)
(* freed with it.  (A descriptor still held keeps the old memory alive.)   *)
DestroySurface(s) ==
    /\ allocated[s] /\ ~used[s]
    /\ Views(s) = {}
    /\ lock_count[s] = 0 /\ external_handle_count[s] = 0
    /\ ~HasActiveEncoder(s)
    /\ allocated' = [allocated EXCEPT ![s] = FALSE]
    /\ exported' = IF exported = s THEN NoSurface ELSE exported
    /\ decode_error' = [decode_error EXCEPT ![s] = FALSE]
    /\ va_lock_count' = [va_lock_count EXCEPT ![s] = 0]
    /\ cpu_access_count' = [cpu_access_count EXCEPT ![s] = 0]
    /\ cpu_cache_flush_pending' = [cpu_cache_flush_pending EXCEPT ![s] = FALSE]
    /\ cache' = [cache EXCEPT ![s] = "clean"]
    /\ UNCHANGED <<used, decode_pending, sync_active, render_target, encVars, thrVars,
                   lock_count, external_handle_count, slotVars>>

Plain == [data |-> NoSurface, map_count |-> 0, handle_acquired |-> FALSE]

(* vaCreateBuffer.                                                         *)
CreateBuffer(b) ==
    /\ IsFirstFree(buffer, NoBuffer, b)
    /\ buffer' = [buffer EXCEPT ![b] = Plain]
    /\ UNCHANGED <<lifeVars, decVars, encVars, thrVars, countVars, cacheVars, image>>

(* vaDestroyBuffer.                                                        *)
DestroyBuffer(b) ==
    /\ buffer[b] # NoBuffer
    /\ \A i \in Images : image[i] # NoImage => image[i].buf_id # b
    /\ IsQuiet(b)
    /\ buffer' = [buffer EXCEPT ![b] = NoBuffer]
    /\ UNCHANGED <<lifeVars, decVars, encVars, thrVars, countVars, cacheVars, image>>

(* vaCreateImage: an image with memory of its own.                         *)
CreateImage(i, b) ==
    /\ IsFirstFree(image, NoImage, i) /\ IsFirstFree(buffer, NoBuffer, b)
    /\ image' = [image EXCEPT ![i] = [buf_id |-> b, surface_id |-> NoSurface]]
    /\ buffer' = [buffer EXCEPT ![b] = Plain]
    /\ UNCHANGED <<lifeVars, decVars, encVars, thrVars, countVars, cacheVars>>

(* A slip: the lock the image held is kept.                                *)
KeepLock(s) == UNCHANGED lock_count

DropLock(s) == lock_count' = [lock_count EXCEPT ![s] = @ - 1]

(* vaDestroyImage: a derived image gives up its lock on the surface, after *)
(* a flush that is still due.                                              *)
DestroyImage(i) ==
    /\ image[i] # NoImage
    /\ LET b == image[i].buf_id
           s == image[i].surface_id
       IN  /\ buffer[b] # NoBuffer /\ IsQuiet(b)
           /\ \/ /\ s = NoSurface
                 /\ UNCHANGED <<lock_count, cacheVars>>
              \/ /\ s # NoSurface
                 /\ allocated[s] /\ lock_count[s] > 0
                 /\ IF cpu_access_count[s] = 0 THEN FlushPending(s)
                                               ELSE UNCHANGED cacheVars
                 /\ DropLock(s)
           /\ buffer' = [buffer EXCEPT ![b] = NoBuffer]
    /\ image' = [image EXCEPT ![i] = NoImage]
    /\ UNCHANGED <<lifeVars, decVars, encVars, thrVars, va_lock_count, cpu_access_count,
                   external_handle_count>>

(* A call that carries out the flush an earlier one left over and then     *)
(* fails for a reason of its own, as vaDeriveImage may; an export flushes  *)
(* before it looks at anything but CPU accesses.                           *)
FlushThenFail(s) ==
    /\ allocated[s] /\ cpu_cache_flush_pending[s]
    /\ \/ external_handle_count[s] = 0 /\ ~decode_error[s]
       \/ cpu_access_count[s] = 0
    /\ FlushPending(s)
    /\ UNCHANGED <<lifeVars, decVars, encVars, thrVars, countVars, slotVars>>

-----------------------------------------------------------------------------
(* The decoder writes surfaces and the encoders read them.                 *)

(* A slip: the lock is not looked at.                                      *)
MayBeTargetLocked(s) == allocated[s] /\ ~HasActiveEncoder(s)

(* What vaBeginPicture requires of a render target.                        *)
MayBeTarget(s) == allocated[s] /\ ~HasActiveEncoder(s) /\ lock_count[s] = 0

(* vaBeginPicture on the decoder.  (On a pending surface it first calls    *)
(* vaSyncSurface, drops the mutex and starts over.)                        *)
BeginDecode(s) ==
    /\ ~sync_active /\ render_target = NoSurface
    /\ MayBeTarget(s) /\ ~decode_pending[s]
    /\ FlushPending(s)
    /\ decode_pending' = [decode_pending EXCEPT ![s] = TRUE]
    /\ decode_error' = [decode_error EXCEPT ![s] = FALSE]
    /\ render_target' = s
    /\ used' = [used EXCEPT ![s] = TRUE]
    /\ UNCHANGED <<allocated, exported, sync_active, encVars, thrVars, countVars, slotVars>>

(* vaEndPicture on the decoder: the picture is queued, or abandoned by     *)
(* hobot_abort_pending_decode_picture.                                     *)
EndDecode ==
    /\ render_target # NoSurface
    /\ \/ UNCHANGED <<decode_pending, decode_error>>
       \/ /\ decode_pending' = [decode_pending EXCEPT ![render_target] = FALSE]
          /\ decode_error' = [decode_error EXCEPT ![render_target] = TRUE]
    /\ render_target' = NoSurface
    /\ UNCHANGED <<lifeVars, sync_active, encVars, thrVars, accessVars>>

(* vaBeginPicture on encoder e.                                            *)
BeginEncode(e, s) ==
    /\ encoding[e] = NoSurface /\ ~encoder_failed[e]
    /\ MayBeTarget(s) /\ ~decode_pending[s]
    /\ FlushPending(s)
    /\ encoding' = [encoding EXCEPT ![e] = s]
    /\ used' = [used EXCEPT ![s] = TRUE]
    /\ UNCHANGED <<allocated, exported, decVars, reading, encoder_failed, thrVars, countVars,
                   slotVars>>

(* vaEndPicture on encoder e: the hardware is done with the surface, or    *)
(* did not say so in time and may still read it; the picture or its        *)
(* buffers may have failed.                                                *)
EndEncode(e) ==
    /\ encoding[e] # NoSurface
    /\ encoding' = [encoding EXCEPT ![e] = NoSurface]
    /\ \E late, failed \in BOOLEAN :
          /\ late => failed
          /\ reading' = [reading EXCEPT ![e] = IF late THEN encoding[e] ELSE @]
          /\ encoder_failed' = [encoder_failed EXCEPT ![e] = failed]
    /\ UNCHANGED <<lifeVars, decVars, thrVars, accessVars>>

(* hobot_encoder_input_consumed, the hardware's late answer.               *)
InputConsumed(e) ==
    /\ reading[e] # NoSurface
    /\ reading' = [reading EXCEPT ![e] = NoSurface]
    /\ UNCHANGED <<lifeVars, decVars, encoding, encoder_failed, thrVars, accessVars>>

-----------------------------------------------------------------------------
(* CPU access through a lock or a mapped view.                             *)

(* The end of vaLockSurface, once the surface is synchronised.             *)
GrantLock(s) ==
    /\ lock_count[s] < MaxLocks /\ cpu_access_count[s] < MaxAccesses
    /\ IF cpu_access_count[s] = 0 THEN StartCpuAccess(s) ELSE UNCHANGED cacheVars
    /\ lock_count' = [lock_count EXCEPT ![s] = @ + 1]
    /\ va_lock_count' = [va_lock_count EXCEPT ![s] = @ + 1]
    /\ cpu_access_count' = [cpu_access_count EXCEPT ![s] = @ + 1]
    /\ UNCHANGED <<external_handle_count, slotVars>>

(* What vaLockSurface checks before it synchronises.                       *)
AsksLock(s) == allocated[s] /\ external_handle_count[s] = 0 /\ ~HasActiveEncoder(s)

LockSurface(s) ==
    /\ AsksLock(s) /\ ~decode_pending[s] /\ ~decode_error[s]
    /\ GrantLock(s)
    /\ UNCHANGED <<lifeVars, decVars, encVars, thrVars>>

(* A slip: any CPU access will do.                                         *)
MayUnlockViews(s) == cpu_access_count[s] > 0 /\ lock_count[s] > 0

(* A lock is ended only if there is one: mapped views are not.             *)
MayUnlock(s) == va_lock_count[s] > 0 /\ cpu_access_count[s] > 0 /\ lock_count[s] > 0

(* vaUnlockSurface.                                                        *)
UnlockSurface(s) ==
    /\ allocated[s] /\ MayUnlock(s)
    /\ IF cpu_access_count[s] = 1 THEN EndCpuAccess(s) ELSE UNCHANGED cacheVars
    /\ va_lock_count' = [va_lock_count EXCEPT ![s] = @ - 1]
    /\ cpu_access_count' = [cpu_access_count EXCEPT ![s] = @ - 1]
    /\ lock_count' = [lock_count EXCEPT ![s] = @ - 1]
    /\ UNCHANGED <<lifeVars, decVars, encVars, thrVars, external_handle_count, slotVars>>

(* The end of vaDeriveImage: image slot i and buffer slot b, chosen before *)
(* the surface was synchronised, become a view of it.                      *)
GrantDerive(s, i, b) ==
    /\ image' = [image EXCEPT ![i] = [buf_id |-> b, surface_id |-> s]]
    /\ buffer' = [buffer EXCEPT ![b] = [Plain EXCEPT !.data = s]]
    /\ lock_count' = [lock_count EXCEPT ![s] = @ + 1]
    /\ UNCHANGED <<va_lock_count, cpu_access_count, external_handle_count>>

(* What vaDeriveImage checks before it synchronises.                       *)
AsksDerive(s, i, b) ==
    /\ allocated[s] /\ external_handle_count[s] = 0 /\ ~decode_error[s]
    /\ ~HasActiveEncoder(s) /\ render_target # s
    /\ lock_count[s] < MaxLocks /\ Cardinality(Views(s)) < MaxViews
    /\ IsFirstFree(image, NoImage, i) /\ IsFirstFree(buffer, NoBuffer, b)

DeriveImage(s, i, b) ==
    /\ AsksDerive(s, i, b) /\ ~decode_pending[s]
    /\ FlushPending(s)
    /\ GrantDerive(s, i, b)
    /\ UNCHANGED <<lifeVars, decVars, encVars, thrVars>>

(* vaMapBuffer: the first map of a view is a CPU access to its surface.    *)
MapBuffer(b) ==
    /\ buffer[b] # NoBuffer
    /\ ~buffer[b].handle_acquired /\ buffer[b].map_count < MaxMaps
    /\ LET s == DerivedFrom(b)
       IN  \/ /\ IsDerived(b) /\ buffer[b].map_count = 0
              /\ s # NoSurface /\ cpu_access_count[s] < MaxAccesses
              /\ IF cpu_access_count[s] = 0 THEN StartCpuAccess(s)
                                            ELSE UNCHANGED cacheVars
              /\ cpu_access_count' = [cpu_access_count EXCEPT ![s] = @ + 1]
           \/ /\ ~(IsDerived(b) /\ buffer[b].map_count = 0)
              /\ UNCHANGED <<cpu_access_count, cacheVars>>
    /\ buffer' = [buffer EXCEPT ![b].map_count = @ + 1]
    /\ UNCHANGED <<lifeVars, decVars, encVars, thrVars, lock_count, va_lock_count,
                   external_handle_count, image>>

(* The unmap that ends a view's CPU access.                                *)
LastMap(b) == IsDerived(b) /\ buffer[b].map_count = 1

(* vaUnmapBuffer.                                                          *)
UnmapBuffer(b) ==
    /\ buffer[b] # NoBuffer /\ buffer[b].map_count > 0
    /\ LET s == DerivedFrom(b)
       IN  \/ /\ LastMap(b)
              /\ s # NoSurface /\ cpu_access_count[s] > 0
              /\ IF cpu_access_count[s] = 1 THEN EndCpuAccess(s)
                                            ELSE UNCHANGED cacheVars
              /\ cpu_access_count' = [cpu_access_count EXCEPT ![s] = @ - 1]
           \/ /\ ~LastMap(b)
              /\ UNCHANGED <<cpu_access_count, cacheVars>>
    /\ buffer' = [buffer EXCEPT ![b].map_count = @ - 1]
    /\ UNCHANGED <<lifeVars, decVars, encVars, thrVars, lock_count, va_lock_count,
                   external_handle_count, image>>

(* The application writes through a lock or a mapped view.                 *)
CpuWrite(s) ==
    /\ \/ va_lock_count[s] > 0
       \/ \E b \in Buffers : /\ buffer[b] # NoBuffer
                             /\ buffer[b].data = s /\ buffer[b].map_count > 0
    /\ cache[s] = "clean"
    /\ cache' = [cache EXCEPT ![s] = "dirty"]
    /\ UNCHANGED <<lifeVars, decVars, encVars, thrVars, countVars,
                   cpu_cache_flush_pending, slotVars>>

(* What vaAcquireBufferHandle requires of the surface behind the view.  A  *)
(* pending one is locked by the view, and vaSyncSurface refuses it.        *)
MayAcquire(s) ==
    /\ external_handle_count[s] = 0
    /\ cpu_access_count[s] = 0 /\ ~decode_error[s]
    /\ ~decode_pending[s]

(* vaAcquireBufferHandle: another device gets the view's memory.           *)
AcquireBufferHandle(b) ==
    /\ IsDerived(b) /\ IsQuiet(b)
    /\ LET s == DerivedFrom(b)
       IN  /\ s # NoSurface /\ s \in Shared
           /\ MayAcquire(s)
           /\ FlushPending(s)
           /\ external_handle_count' = [external_handle_count EXCEPT ![s] = @ + 1]
    /\ buffer' = [buffer EXCEPT ![b].handle_acquired = TRUE]
    /\ UNCHANGED <<lifeVars, decVars, encVars, thrVars, lock_count, va_lock_count,
                   cpu_access_count, image>>

(* vaReleaseBufferHandle: what the device wrote becomes visible.           *)
ReleaseBufferHandle(b) ==
    /\ buffer[b] # NoBuffer /\ buffer[b].handle_acquired
    /\ LET s == DerivedFrom(b)
       IN  /\ s # NoSurface
           /\ \E done \in BOOLEAN :
                 cache' = [cache EXCEPT ![s] = IF done THEN Invalidated(@) ELSE @]
           /\ external_handle_count' = [external_handle_count EXCEPT
                                           ![s] = IF @ > 0 THEN @ - 1 ELSE @]
    /\ buffer' = [buffer EXCEPT ![b].handle_acquired = FALSE]
    /\ UNCHANGED <<lifeVars, decVars, encVars, thrVars, lock_count, va_lock_count,
                   cpu_access_count, cpu_cache_flush_pending, image>>

-----------------------------------------------------------------------------
(* Export to another device.                                               *)

(* The end of vaExportSurfaceHandle, once the surface is synchronised: the *)
(* descriptor is given out; the driver keeps no account of it.             *)
Exported(s) == allocated[s] /\ ~decode_error[s] /\ exported' = s

(* What vaExportSurfaceHandle checks before it synchronises, with either   *)
(* memory type.                                                            *)
AsksExport(s) ==
    /\ allocated[s]
    /\ cpu_access_count[s] = 0 /\ external_handle_count[s] = 0
    /\ ~HasActiveEncoder(s)

ExportSurface(s) ==
    /\ AsksExport(s) /\ ~decode_pending[s]
    /\ FlushPending(s)
    /\ Exported(s)
    /\ UNCHANGED <<allocated, used, decVars, encVars, thrVars, countVars, slotVars>>

(* The flush of a pending surface comes after the wait for a DRM PRIME     *)
(* descriptor, before it for a graph buffer.                               *)
GrantExport(s) ==
    /\ Exported(s)
    /\ FlushPending(s) \/ UNCHANGED cacheVars
    /\ UNCHANGED <<countVars, slotVars>>

(* The device is done with the surface. *)
DeviceDone ==
    /\ exported # NoSurface
    /\ exported' = NoSurface
    /\ UNCHANGED <<allocated, used, decVars, encVars, thrVars, accessVars>>

-----------------------------------------------------------------------------
(* Copies between surfaces and images.                                     *)

(* The cache of a view's surface after the driver itself wrote it: the     *)
(* lines are written back or remembered as dirty.                          *)
Rewritten(d, failed) ==
    IF Invalidated(Flushed(d)) = "lost" THEN "lost"
    ELSE IF failed THEN "dirty" ELSE "clean"

(* vaGetImage and vaPutImage use the image's memory only while nobody maps *)
(* it, and through a view only if the CPU is nowhere else in its surface.  *)
ImageIsQuiet(i) ==
    /\ image[i] # NoImage
    /\ buffer[image[i].buf_id] # NoBuffer /\ IsQuiet(image[i].buf_id)
    /\ \/ image[i].surface_id = NoSurface
       \/ /\ IsDerived(image[i].buf_id)
          /\ DerivedFrom(image[i].buf_id) # NoSurface
          /\ cpu_access_count[DerivedFrom(image[i].buf_id)] = 0

(* The end of vaGetImage: surface s is copied into image i.  A decoded     *)
(* frame is invalidated before it is read, a staging copy is not.          *)
GrantGet(s, i) ==
    /\ allocated[s] /\ ~decode_error[s]
    /\ cpu_access_count[s] = 0
    /\ ImageIsQuiet(i)
    /\ \E read \in {Flushed(s), Invalidated(Flushed(s))} :
          LET d == DerivedFrom(image[i].buf_id)
          IN  \/ /\ image[i].surface_id = NoSurface
                 /\ cpu_cache_flush_pending' = [cpu_cache_flush_pending EXCEPT ![s] = FALSE]
                 /\ cache' = [cache EXCEPT ![s] = read]
              \/ /\ image[i].surface_id # NoSurface
                 /\ \E failed \in BOOLEAN :
                       /\ cpu_cache_flush_pending' =
                             [cpu_cache_flush_pending EXCEPT ![s] = FALSE, ![d] = failed]
                       /\ cache' = [cache EXCEPT ![s] = read, ![d] = Rewritten(d, failed)]
    /\ UNCHANGED <<countVars, slotVars>>

(* What vaGetImage checks before it synchronises.                          *)
AsksGet(s, i) ==
    /\ allocated[s] /\ image[i] # NoImage
    /\ external_handle_count[s] = 0 /\ ~HasActiveEncoder(s)
    /\ image[i].surface_id # s
    /\ ~decode_error[s]

GetImage(s, i) ==
    /\ AsksGet(s, i) /\ ~decode_pending[s]
    /\ GrantGet(s, i)
    /\ UNCHANGED <<lifeVars, decVars, encVars, thrVars>>

(* What vaPutImage checks each time around its loop.                       *)
AsksPut(s) == allocated[s] /\ lock_count[s] = 0 /\ ~HasActiveEncoder(s)

(* The end of vaPutImage: image i is copied into surface s, whose frame    *)
(* went back to the decoder if it had one.                                 *)
GrantPut(s, i) ==
    /\ AsksPut(s) /\ ~decode_error[s]
    /\ ImageIsQuiet(i)
    /\ LET d == DerivedFrom(image[i].buf_id)
       IN  \/ /\ image[i].surface_id = NoSurface
              /\ FlushPending(s)
           \/ /\ image[i].surface_id # NoSurface
              /\ cpu_cache_flush_pending' =
                    [cpu_cache_flush_pending EXCEPT ![s] = FALSE, ![d] = FALSE]
              /\ cache' = [cache EXCEPT ![s] = Flushed(s),
                                        ![d] = Invalidated(Flushed(d))]
    /\ UNCHANGED <<countVars, slotVars>>

PutImage(s, i) ==
    /\ ~decode_pending[s]
    /\ GrantPut(s, i)
    /\ UNCHANGED <<lifeVars, decVars, encVars, thrVars>>

-----------------------------------------------------------------------------
(* Calls that meet a pending surface.                                      *)

(* hobot_vaSyncSurfaceLocked is entered: the thread dequeues from the VPU, *)
(* which drops the mutex, or sleeps until the decoder is free.             *)
Wait(t, c) ==
    /\ pc[t] = "idle" /\ c.op \in Unsynced
    /\ LET s == c.surf
       IN  /\ allocated[s] /\ decode_pending[s] /\ ~decode_error[s]
           /\ external_handle_count[s] = 0 /\ ~HasActiveEncoder(s)
           /\ lock_count[s] = 0
    /\ call' = [call EXCEPT ![t] = c]
    /\ \/ /\ ~sync_active /\ render_target = NoSurface
          /\ pc' = [pc EXCEPT ![t] = "dequeue"]
          /\ sync_active' = TRUE
       \/ /\ sync_active \/ render_target # NoSurface
          /\ pc' = [pc EXCEPT ![t] = "asleep"]
          /\ UNCHANGED sync_active
    /\ UNCHANGED <<lifeVars, decode_pending, decode_error, render_target, encVars, countVars, slotVars>>

(* vaSyncSurface, vaLockSurface, vaExportSurfaceHandle, vaGetImage,        *)
(* vaPutImage and vaDeriveImage on a pending surface.                      *)
WaitToSync(t, s) ==
    /\ Wait(t, [op |-> "sync", surf |-> s, img |-> 0, buf |-> 0])
    /\ UNCHANGED cacheVars

WaitToLock(t, s) ==
    /\ AsksLock(s)
    /\ Wait(t, [op |-> "lock", surf |-> s, img |-> 0, buf |-> 0])
    /\ UNCHANGED cacheVars

WaitToExport(t, s) ==
    /\ AsksExport(s)
    /\ Wait(t, [op |-> "export", surf |-> s, img |-> 0, buf |-> 0])
    /\ FlushPending(s) \/ UNCHANGED cacheVars

WaitToGet(t, s, i) ==
    /\ AsksGet(s, i)
    /\ Wait(t, [op |-> "get", surf |-> s, img |-> i, buf |-> 0])
    /\ UNCHANGED cacheVars

WaitToPut(t, s, i) ==
    /\ AsksPut(s)
    /\ Wait(t, [op |-> "put", surf |-> s, img |-> i, buf |-> 0])
    /\ UNCHANGED cacheVars

WaitToDerive(t, s, i, b) ==
    /\ AsksDerive(s, i, b)
    /\ Wait(t, [op |-> "derive", surf |-> s, img |-> i, buf |-> b])
    /\ FlushPending(s)

(* The synchronised call goes on where it was, with what it chose before.  *)
Continue(c) ==
    \/ c.op = "export" /\ GrantExport(c.surf)
    \/ /\ c.op # "export"
       /\ UNCHANGED exported
       /\ CASE c.op = "sync"   -> UNCHANGED accessVars
            [] c.op = "lock"   -> GrantLock(c.surf)
            [] c.op = "derive" -> GrantDerive(c.surf, c.img, c.buf) /\ UNCHANGED cacheVars
            [] c.op = "get"    -> GrantGet(c.surf, c.img)
            [] c.op = "put"    -> GrantPut(c.surf, c.img)

(* Thread t returns to the application.                                    *)
Return(t) ==
    /\ pc' = [pc EXCEPT ![t] = "idle"]
    /\ call' = [call EXCEPT ![t] = NoCall]

(* A failed call leaves the surface as it is.                              *)
Fail(t) == Return(t) /\ UNCHANGED <<exported, accessVars>>

(* The dequeue gave the picture of an earlier surface x, and the thread    *)
(* goes on waiting for its own.                                            *)
ResolveEarlier(t, x) ==
    /\ pc[t] = "dequeue" /\ x # call[t].surf
    /\ decode_pending[x] /\ lock_count[x] = 0
    /\ decode_pending' = [decode_pending EXCEPT ![x] = FALSE]
    /\ \E failed \in BOOLEAN : decode_error' = [decode_error EXCEPT ![x] = failed]
    /\ UNCHANGED <<lifeVars, sync_active, render_target, encVars, thrVars, accessVars>>

(* The dequeue gave the surface's picture, a broken one, or none in all    *)
(* its attempts; the sync ends and the call goes on or fails.              *)
Resolve(t) ==
    /\ pc[t] = "dequeue"
    /\ sync_active' = FALSE
    /\ LET s == call[t].surf
       IN  \/ /\ decode_pending' = [decode_pending EXCEPT ![s] = FALSE]
              /\ UNCHANGED decode_error
              /\ \/ Return(t) /\ Continue(call[t])
                 \/ Fail(t)
           \/ /\ decode_pending' = [decode_pending EXCEPT ![s] = FALSE]
              /\ decode_error' = [decode_error EXCEPT ![s] = TRUE]
              /\ Fail(t)
           \/ /\ UNCHANGED <<decode_pending, decode_error>>
              /\ Fail(t)
    /\ UNCHANGED <<allocated, used, render_target, encVars>>

(* A sleeper that wakes, called or not, finds the surface settled, or the  *)
(* decoder free to dequeue from, or goes back to sleep.                    *)
Wake(t) ==
    /\ pc[t] = "asleep"
    /\ LET s == call[t].surf
       IN  \/ /\ ~allocated[s] \/ decode_error[s]
              /\ Fail(t)
              /\ UNCHANGED sync_active
           \/ /\ allocated[s] /\ ~decode_error[s] /\ ~decode_pending[s]
              /\ \/ Return(t) /\ Continue(call[t])
                 \/ Fail(t)
              /\ UNCHANGED sync_active
           \/ /\ allocated[s] /\ ~decode_error[s] /\ decode_pending[s]
              /\ ~sync_active /\ render_target = NoSurface
              /\ pc' = [pc EXCEPT ![t] = "dequeue"]
              /\ sync_active' = TRUE
              /\ UNCHANGED <<call, exported, accessVars>>
    /\ UNCHANGED <<allocated, used, decode_pending, decode_error, render_target, encVars>>

-----------------------------------------------------------------------------
SurfaceNext(s) ==
    \/ CreateSurface(s) \/ DestroySurface(s)
    \/ BeginDecode(s)
    \/ \E e \in Encoders : BeginEncode(e, s)
    \/ LockSurface(s) \/ UnlockSurface(s)
    \/ CpuWrite(s) \/ FlushThenFail(s)
    \/ ExportSurface(s)
    \/ \E i \in Images : GetImage(s, i) \/ PutImage(s, i)
    \/ \E i \in Images, b \in Buffers : DeriveImage(s, i, b)

SlotNext ==
    \/ \E b \in Buffers : \/ CreateBuffer(b) \/ DestroyBuffer(b)
                          \/ MapBuffer(b) \/ UnmapBuffer(b)
                          \/ AcquireBufferHandle(b) \/ ReleaseBufferHandle(b)
    \/ \E i \in Images : DestroyImage(i)
    \/ \E i \in Images, b \in Buffers : CreateImage(i, b)

HardwareNext ==
    \/ EndDecode \/ DeviceDone
    \/ \E e \in Encoders : EndEncode(e) \/ InputConsumed(e)

(* An idle thread's call meets a pending surface and waits.                *)
MeetsPending(t) ==
    /\ pc[t] = "idle"
    /\ \E s \in Surfaces :
          \/ WaitToSync(t, s) \/ WaitToLock(t, s) \/ WaitToExport(t, s)
          \/ \E i \in Images : WaitToGet(t, s, i) \/ WaitToPut(t, s, i)
          \/ \E i \in Images, b \in Buffers : WaitToDerive(t, s, i, b)

ThreadNext(t) ==
    \/ MeetsPending(t)
    \/ \E s \in Surfaces : ResolveEarlier(t, s)
    \/ Resolve(t) \/ Wake(t)

Next ==
    \/ \E s \in Surfaces : SurfaceNext(s)
    \/ SlotNext
    \/ HardwareNext
    \/ \E t \in Threads : ThreadNext(t)

Spec == Init /\ [][Next]_vars

-----------------------------------------------------------------------------
(* Properties.                                                             *)

(* The counters that every call decides by count what they stand for: the  *)
(* locks and derived images of a surface, the CPU accesses under way, and  *)
(* the handles given out.  A count too high blocks the surface for ever,   *)
(* one too low opens it too early.                                         *)
Counted ==
    \A s \in Surfaces :
        LET ofSurface == {b \in Buffers : buffer[b] # NoBuffer /\ buffer[b].data = s}
        IN  /\ lock_count[s] = va_lock_count[s] + Cardinality(Views(s))
            /\ cpu_access_count[s] = va_lock_count[s]
                 + Cardinality({b \in ofSurface : buffer[b].map_count > 0})
            /\ external_handle_count[s] =
                 Cardinality({b \in ofSurface : buffer[b].handle_acquired})

(* Memory the CPU may reach, through a lock or a derived image, belongs to *)
(* a surface that exists and that the decoder is not about to give other   *)
(* memory; its lock is what keeps it so.                                   *)
ReachableMemoryStays ==
    \A s \in Surfaces :
        (va_lock_count[s] > 0 \/ \E b \in Buffers : /\ buffer[b] # NoBuffer
                                                   /\ buffer[b].data = s)
            => allocated[s] /\ lock_count[s] > 0 /\ ~decode_pending[s]

(* While an encoder has a surface as its input nobody holds a lock or a    *)
(* derived image of it: calls that would give one answer SURFACE_BUSY.     *)
EncoderInputUnlocked ==
    \A s \in Surfaces : HasActiveEncoder(s) => lock_count[s] = 0

(* A device gets the surface in this step. *)
Handed(s) ==
    \/ external_handle_count'[s] > external_handle_count[s]
    \/ exported' = s /\ exported # s

(* While an encoder has a surface as its input no call lets anybody else   *)
(* in: vaLockSurface and vaDeriveImage grant no access to the CPU, and     *)
(* vaExportSurfaceHandle and vaAcquireBufferHandle give the memory to no   *)
(* device, whatever the call waited for.                                   *)
EncoderInputIsClosed ==
    [][\A s \in Surfaces :
          HasActiveEncoder(s) => lock_count'[s] <= lock_count[s] /\ ~Handed(s)]_vars

(* Nothing the CPU wrote is thrown away by a cache invalidation of a later *)
(* lock, map, copy or handle release.                                      *)
NoWriteLost == \A s \in Surfaces : cache[s] # "lost"

(* The decoder, an encoder or another device is never given a surface with *)
(* CPU writes still in the cache: they would be missed, or would land on   *)
(* the new picture later.                                                  *)
DevicesSeeWrites ==
    \A s \in Surfaces :
        cache[s] = "dirty" => /\ ~decode_pending[s]
                              /\ ~HasActiveEncoder(s)
                              /\ external_handle_count[s] = 0
=============================================================================
