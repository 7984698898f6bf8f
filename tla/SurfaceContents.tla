--------------------------- MODULE SurfaceContents ---------------------------
(***************************************************************************)
(* Where the picture of a surface is.  A surface may have three memories:  *)
(* the decoder's output buffer it was given (has_decoded_frame), a graph   *)
(* buffer that is imported or allocated when first needed                  *)
(* (has_preallocated), and the staging copy raw_data that vaPutImage       *)
(* writes and vaGetImage and the encoder read.  Two flags tell whether the *)
(* staging copy may be read (raw_data_valid) and whether the graph buffer  *)
(* has yet to be brought up to date from it (raw_data_dirty); dma_fd names *)
(* the memory that an export gives away.                                   *)
(*                                                                         *)
(* Every call of SurfaceAccess is taken with what it does to these.  A     *)
(* device that got a surface by export is taken to read it only.           *)
(***************************************************************************)
EXTENDS SurfaceAccess

VARIABLE contents

contentsVars == <<vars, contents>>

Memories == {"frame", "gbuf", "staging"}

(* The last field stands for no code: the memories that hold the picture.  *)
Contents == [has_decoded_frame : BOOLEAN, has_preallocated : BOOLEAN,
             raw_data_valid : BOOLEAN, raw_data_dirty : BOOLEAN,
             dma_fd : {"none", "frame", "gbuf"},
             newest : SUBSET Memories]

(* A new surface has the imported picture, or none: then any memory is as  *)
(* good as another.                                                        *)
Blank(imported) ==
    [has_decoded_frame |-> FALSE, has_preallocated |-> imported,
     raw_data_valid |-> FALSE, raw_data_dirty |-> FALSE,
     dma_fd |-> IF imported THEN "gbuf" ELSE "none",
     newest |-> IF imported THEN {"gbuf"} ELSE Memories]

ContentsInit == Init /\ contents = [s \in Surfaces |-> Blank(FALSE)]

-----------------------------------------------------------------------------
(* What the calls do to the contents r of one surface.                     *)

(* The memory a lock, a view or a device works with.                       *)
MemoryOf(r) == IF r.has_decoded_frame THEN "frame" ELSE "gbuf"

(* Memory "to" is overwritten with what memory "from" holds.               *)
Copied(r, from, to) ==
    [r EXCEPT !.newest = IF from \in @ THEN @ \cup {to} ELSE @ \ {to}]

(* Somebody writes through the memory itself.                              *)
Written(r) == [r EXCEPT !.newest = {MemoryOf(r)}]

(* A slip: the staging copy is used again.                                 *)
StagingKept(r) == r

(* The staging copy is out of date once the memory may have been written.  *)
StagingStale(r) == [r EXCEPT !.raw_data_valid = FALSE]

(* A decoded picture arrives in a decoder's output buffer.                 *)
FrameArrived(r) ==
    [r EXCEPT !.has_decoded_frame = TRUE, !.raw_data_valid = FALSE,
              !.raw_data_dirty = FALSE, !.dma_fd = "frame", !.newest = {"frame"}]

(* The decoder gets its output buffer back.                                *)
FrameReturned(r) ==
    IF r.has_decoded_frame
    THEN [r EXCEPT !.has_decoded_frame = FALSE, !.dma_fd = "none", !.newest = @ \ {"frame"}]
    ELSE r

(* hobot_copy_gbuf_to_staging, when there is no staging copy to read.      *)
Loaded(r) ==
    IF ~r.has_decoded_frame /\ ~r.raw_data_valid /\ r.has_preallocated
    THEN Copied([r EXCEPT !.raw_data_valid = TRUE, !.raw_data_dirty = FALSE],
                "gbuf", "staging")
    ELSE r

(* hobot_upload_staging_to_gbuf; it may fail on the way, and the buffer is *)
(* left half written.                                                      *)
NeedsUpload(r) == r.raw_data_dirty /\ r.has_preallocated

Uploaded(r) ==
    IF NeedsUpload(r) THEN Copied([r EXCEPT !.raw_data_dirty = FALSE], "staging", "gbuf")
                      ELSE r

UploadFailed(r) == IF NeedsUpload(r) THEN [r EXCEPT !.newest = @ \ {"gbuf"}] ELSE r

HasMemory(r) == r.has_decoded_frame \/ r.has_preallocated

(* hobot_fill_surface_info_locked gives a surface without memory a graph   *)
(* buffer and brings it up to date before anyone is let in.                *)
Allocated(r) ==
    IF HasMemory(r) THEN r ELSE [r EXCEPT !.has_preallocated = TRUE, !.dma_fd = "gbuf"]

Prepared(r) ==
    IF r.has_decoded_frame THEN r ELSE Uploaded(Allocated(r))

PrepareFailed(r) == IF r.has_decoded_frame THEN r ELSE UploadFailed(Allocated(r))

(* vaPutImage loads the picture into the staging copy and changes a part   *)
(* of it there; if the copy was out of date, no memory has the picture.    *)
Edited(r) ==
    [r EXCEPT !.raw_data_valid = TRUE, !.raw_data_dirty = TRUE,
              !.newest = IF "staging" \in @ THEN {"staging"} ELSE {}]

PutResults(r) ==
    LET staged == IF r.has_decoded_frame /\ ~r.raw_data_valid
                  THEN Copied([r EXCEPT !.raw_data_valid = TRUE], "frame", "staging")
                  ELSE Loaded(r)
        edited == Edited(FrameReturned(staged))
        cannotReturn == IF r.has_decoded_frame THEN {staged} ELSE {}
    IN  cannotReturn \cup {Uploaded(edited), UploadFailed(edited)}

(* vaEndPicture of an encoder: given up before it looked at the surface,   *)
(* copied to a buffer of the encoder, or handed over as it is.             *)
EncodeResults(r) ==
    {r, Loaded(r), Uploaded(Loaded(r)), UploadFailed(Loaded(r))}

(* vaGetImage has something to read.                                       *)
HasPicture(r) == HasMemory(r) \/ r.raw_data_valid

(* vaPutImage gives a frame back only to a decoder at rest.                *)
MayReturn(r) == r.has_decoded_frame => ~sync_active' /\ render_target' = NoSurface

-----------------------------------------------------------------------------
(* The calls.                                                              *)

Becomes(s, r) == contents' = [contents EXCEPT ![s] = r]

(* Of all contents, as in table, those of s become one of results.         *)
With(table, s, results) == {[table EXCEPT ![s] = r] : r \in results}

(* vaGetImage reads s into image i, and so writes the surface whose memory *)
(* a derived image shows.                                                  *)
Read(table, s, i) ==
    LET b       == image[i].buf_id
        loaded  == [table EXCEPT ![s] = Loaded(@)]
        written == [loaded EXCEPT ![buffer[b].data] = Written(@)]
    IN  IF image[i].surface_id = NoSurface THEN loaded
        ELSE [written EXCEPT ![DerivedFrom(b)] = StagingStale(@)]

(* vaLockSurface, vaDeriveImage and vaExportSurfaceHandle let nobody in    *)
(* before the memory is up to date.  (As DRM PRIME, a surface whose dma_fd *)
(* is "none" is refused; as a graph buffer it is exported.)                *)
Use(s) ==
    /\ \/ LockSurface(s) \/ ExportSurface(s)
       \/ \E i \in Images, b \in Buffers : DeriveImage(s, i, b)
    /\ Becomes(s, Prepared(contents[s]))

(* One of them fails: the memory it allocated stays, and what it uploaded. *)
(* So does what vaGetImage loaded when it then fails.                      *)
UseFails(s) ==
    /\ AsksLock(s) /\ ~decode_pending[s] /\ ~decode_error[s]
    /\ \/ \E r \in {Prepared(contents[s]), PrepareFailed(contents[s])} : Becomes(s, r)
       \/ /\ \E i \in Images : AsksGet(s, i)
          /\ cpu_access_count[s] = 0
          /\ Becomes(s, Loaded(contents[s]))
    /\ UNCHANGED vars

(* vaGetImage.                                                             *)
Get(s, i) ==
    /\ GetImage(s, i) /\ HasPicture(contents[s])
    /\ contents' = Read(contents, s, i)

Put(s, i) ==
    /\ PutImage(s, i) /\ MayReturn(contents[s])
    /\ \E r \in PutResults(contents[s]) : Becomes(s, r)

(* The end of a CPU access, and of a device's.                             *)
EndUse(b) ==
    \/ /\ UnmapBuffer(b)
       /\ IF LastMap(b) THEN Becomes(DerivedFrom(b), StagingStale(contents[DerivedFrom(b)]))
                        ELSE UNCHANGED contents
    \/ /\ ReleaseBufferHandle(b)
       /\ LET written == [contents EXCEPT ![buffer[b].data] = Written(@)]
          IN  contents' = [written EXCEPT ![DerivedFrom(b)].raw_data_valid = FALSE,
                                          ![DerivedFrom(b)].raw_data_dirty = FALSE]

(* A call that waited has looked at everything again and copies.  (The     *)
(* image may have become one of the surface itself; then a flush is left   *)
(* over if the copy's own fails.)                                          *)
CopiesNow(c) ==
    /\ ImageIsQuiet(c.img)
    /\ ~cpu_cache_flush_pending'[c.surf] \/ image[c.img].surface_id = c.surf
    /\ IF c.op = "put" THEN AsksPut(c.surf) ELSE cpu_access_count[c.surf] = 0

(* What the call c makes of the contents when it goes on after its wait,   *)
(* or fails at some point.  A lock or a view that waited for a picture     *)
(* does not allocate memory in its place.                                  *)
Continued(c, table) ==
    LET s        == c.surf
        r        == table[s]
        prepared == IF c.op = "export" \/ HasMemory(r)
                    THEN {Prepared(r), PrepareFailed(r)} ELSE {}
    IN  CASE c.op = "put"  -> {table} \cup IF CopiesNow(c) /\ MayReturn(r)
                                           THEN With(table, s, PutResults(r)) ELSE {}
          [] c.op = "get"  -> {table} \cup IF CopiesNow(c)
                                           THEN {Read(table, s, c.img)}
                                                \cup With(table, s, {Loaded(r)}) ELSE {}
          [] c.op = "sync" -> {table}
          [] OTHER -> IF lock_count' # lock_count \/ exported' # exported
                      THEN With(table, s, prepared \cap {Prepared(r)})
                      ELSE {table} \cup With(table, s, prepared)

(* The dequeue of a waiting thread settles a surface, its own or an        *)
(* earlier one, with a picture or without.                                 *)
Dequeued(t) ==
    \E s \in Surfaces :
        LET own     == s = call[t].surf
            arrived == [contents EXCEPT ![s] = FrameArrived(@)]
        IN  /\ IF own THEN Resolve(t) ELSE ResolveEarlier(t, s)
            /\ IF decode_pending'[s] \/ decode_error'[s] THEN UNCHANGED contents
               ELSE contents' \in IF own THEN Continued(call[t], arrived) ELSE {arrived}

(* A sleeper finds its surface settled and goes on.                        *)
Awoken(t) ==
    LET s == call[t].surf
    IN  /\ Wake(t)
        /\ IF pc'[t] # "idle" \/ decode_error[s] \/ ~allocated[s] THEN UNCHANGED contents
           ELSE contents' \in Continued(call[t], contents)

(* The calls that leave the contents alone.                                *)
Others ==
    /\ \/ \E s \in Surfaces, e \in Encoders : BeginEncode(e, s)
       \/ \E s \in Surfaces : FlushThenFail(s)
       \/ \E b \in Buffers : \/ CreateBuffer(b) \/ DestroyBuffer(b)
                             \/ MapBuffer(b) \/ AcquireBufferHandle(b)
       \/ \E i \in Images : DestroyImage(i)
       \/ \E i \in Images, b \in Buffers : CreateImage(i, b)
       \/ EndDecode \/ DeviceDone
       \/ \E e \in Encoders : InputConsumed(e)
       \/ \E t \in Threads : MeetsPending(t)
    /\ UNCHANGED contents

ContentsNext ==
    \/ \E s \in Surfaces :
          \/ CreateSurface(s) /\ \E imported \in BOOLEAN : Becomes(s, Blank(imported))
          \/ DestroySurface(s) /\ Becomes(s, Blank(FALSE))
          \/ BeginDecode(s)
             /\ Becomes(s, [FrameReturned(contents[s]) EXCEPT !.newest = {}])
          \/ Use(s) \/ UseFails(s)
          \/ UnlockSurface(s) /\ Becomes(s, StagingStale(contents[s]))
          \/ CpuWrite(s) /\ Becomes(s, Written(contents[s]))
          \/ \E i \in Images : Get(s, i) \/ Put(s, i)
    \/ \E e \in Encoders :
          EndEncode(e) /\ \E r \in EncodeResults(contents[encoding[e]]) :
                             Becomes(encoding[e], r)
    \/ \E b \in Buffers : EndUse(b)
    \/ \E t \in Threads : Dequeued(t) \/ Awoken(t)
    \/ Others

ContentsSpec == ContentsInit /\ [][ContentsNext]_contentsVars

-----------------------------------------------------------------------------
(* Whoever comes next to a surface that is at rest gets the picture that   *)
(* was last put there, whichever way it was written and is read: by        *)
(* decoder, lock, view, device, vaPutImage, vaGetImage, encoder or export. *)
(* Every memory that a call would read or build on holds it.               *)
CopiesAgree ==
    \A s \in Surfaces :
        LET r == contents[s]
            memory == MemoryOf(r)
        IN  ( /\ allocated[s] /\ ~decode_pending[s] /\ ~decode_error[s]
              /\ cpu_access_count[s] = 0 /\ external_handle_count[s] = 0 )
            => /\ r.raw_data_valid \/ r.raw_data_dirty => "staging" \in r.newest
               /\ r.has_decoded_frame \/ (r.has_preallocated /\ ~r.raw_data_dirty)
                     => memory \in r.newest
               /\ r.dma_fd \in {"none", memory}
=============================================================================
