# TLA+ models of libva-hobot-h264

This directory specifies, model-checks and proves properties of the VA-API
driver in `src/src/hobot_drv_video.c`, which decodes H.264, HEVC and JPEG and
encodes H.264, HEVC and JPEG through the media codec (VPU) of the D-Robotics
SDK. Line numbers below refer to that file; `PROJECT.json` maps every
definition that models code to the lines it models.

## 1. Inventory

The driver is one shared library. All its state hangs off `HobotDriverData`
(3589): fixed tables of configurations, contexts, surfaces, buffers and images,
one mutex and one condition variable. Applications call it from any thread.

| Component | State it keeps | Operations | How it interacts |
|---|---|---|---|
| Decode submit / synchronise | per context `submitted_surfaces`, `current_render_target`, `decode_picture_active`, `sync_active`, `decode_failed`, `dec_in_buf`, `dec_out_buf`; per surface `decode_pending`, `decode_error`, `vpu_out_buf`, `output_context_id` | `vaBeginPicture`, `vaRenderPicture`, `vaEndPicture`, `vaSyncSurface`, `vaSyncSurface2` | drops the mutex around the VPU's dequeue; sleeps on `sync_cond` |
| Decoder context life cycle | `allocated`, `vpu_initialized`, `vpu_running`, `cleanup_orphaned`, `jpeg_init_deferred` | `vaCreateContext`, `vaDestroyContext`, orphan reaping (6123) | returns frames from surfaces, detaches surfaces |
| Surface life cycle | `allocated`, `context_id`, `context_usage_mask`, preallocated or imported memory | `vaCreateSurfaces2`, `vaDestroySurfaces` | retained by contexts; frames belong to a VPU instance |
| CPU access | `lock_count`, `cpu_access_count`, `cpu_cache_flush_pending`, images, `map_count`, `handle_acquired`, `external_handle_count` | lock/unlock, derive/get/put image, map/unmap, acquire/release handle, export | may synchronise a surface first, which drops the mutex |
| Encoder pictures | `encoder_picture_active`, `encoder_failed`, `enc_in_buf`, `enc_out_buf`, `enc_coded_buf`, `enc_external_surface`, `enc_external_input_pending` | `vaBeginPicture` .. `vaEndPicture` of an encoder, the SDK's input-consumed callback (4060) | the callback runs without the mutex |
| Rate control | applied and wanted bitrates | `hobot_apply_encoder_rate_control` (4271) | two SDK calls with rollback |
| Parameter sets | cached SPS/PPS/VPS, `headers_sent` | `vaRenderPicture` (10498-10769) | reset when a picture is abandoned |
| Bitstream algorithms | none | escaping, Exp-Golomb, SPS/PPS/VPS generation, slice and reference-set validation | called by `vaRenderPicture` |
| Watchdog | an anomaly count, a sequence number, a file in `/dev/shm` | publication (6175), read by `misc/mpv_scripts/fallback-restart.lua` | atomic rename |
| Termination | `resources_terminated`, orphaned imports | `vaTerminate` (6222), driver init (13760) | releases everything, may be repeated |
| Configurations and queries | config slots | tables | none |

What is hard here:

* *Concurrency.* A synchronising thread drops the mutex while it waits for the
  VPU, and so does every call that synchronises on the way (`vaBeginPicture`,
  `vaDeriveImage`, `vaExportSurfaceHandle`, ...). State read before is used
  after.
* *Ordering.* A VPU output does not name a surface. It is paired with the head
  of `submitted_surfaces`.
* *Partial failure.* Giving a buffer back to the VPU can fail or time out at
  every place; the buffer is then kept, the decoder poisoned, or the call
  abandoned and retried later.
* *Two owners.* `context_id` is the context that used a surface last,
  `output_context_id` the decoder whose buffer it shows.
* *Timeouts.* `vaSyncSurface2` has a deadline for mutex, sleeps, dequeue and
  recycling; `vaSyncSurface` has a number of attempts instead.

`PROJECT.json` lists these hazards at their lines, with the properties that
would catch them.

What makes each part correct: a decoder shows every picture on its own surface,
once and in order; no VPU buffer is lost or returned twice; what the CPU holds
stays; a decoder can always be torn down; a sleeper is woken; a call with a
deadline returns; memory the hardware reads is not reused; a failed teardown can
be completed later; an encoder's configured and applied rate agree or the
encoder has failed.

## 2. Modules

| Module | What it is |
|---|---|
| `DecodeSync` | the decode protocol, contexts and surfaces as far as it needs them, the VPU as its environment; the properties |
| `PictureOrder` | what the protocol promises, without threads, buffers or VPU |
| `SurfaceAccess` | who may touch a surface's memory: locks, derived images, mapped views, acquired handles, copies and the CPU cache, against a decoder and encoders |
| `SurfaceContents` | every call of `SurfaceAccess` with what it does to the memories of a surface: decoder frame, graph buffer, staging copy |
| `EncodePicture` | encoders: their pictures, buffers, scratch memory and life cycle, with the VPU and its input-consumed callback as concurrent processes |
| `Teardown` | what the driver has borrowed from the SDK and how it gives it back: `vaTerminate`, destruction, orphans, and the import of surfaces, with SDK calls failing at any point |
| `RateControl` | the rate control of an encoder: what `vaRenderPicture` makes of it and what reaches the hardware, with rollback |
| `ParameterSets` | the parameter sets of a decoder: cached, written in front of a picture, sent again after a picture was given up |
| `RenderPicture` | one context that is an encoder (`RateControl`) or a decoder (`ParameterSets`) |
| `MCDecodeSync`, `MCSurfaceAccess`, `MCSurfaceContents`, `MCEncodePicture`, `MCTeardown`, `MCRenderPicture` | definitions for TLC (target and reference sets, the calls an application makes, symmetry) |
| `DecodeSyncInv` | the inductive invariant |
| `DecodeSyncLock` | proof that every step preserves the types, and that `sync_active` works as a lock |
| `DecodeSyncFifo` | proof that the FIFO and the surfaces' state agree, and the theorems that follow |
| `DecodeSyncPromise` | proof that pairing outputs with the VPU's queue by position is right and that buffers are conserved; that every step is one of `PictureOrder` |
| `RenderPictureProof` | proofs about `RateControl`, `ParameterSets` and the context that has one of them |
| `SurfaceAccessProof` | proofs about locks, images, counters and the CPU cache, for any application and for one that synchronises first |
| `SurfaceContentsProof` | proof that the copies of a surface's picture agree |
| `TeardownProof` | proof that every borrowed buffer has one holder and that `vaTerminate` leaves nothing |
| `EncodePictureProof` | proof that the hardware's input is left alone, the pending token tells the truth and no buffer is lost |

### DecodeSync and the code

One action is what a thread does between taking and dropping the mutex. Calls
that never drop it (`CreateSurface`, `DestroySurfaces`, `CreateContext`,
`DestroyContext`, `RenderPicture`, `EndPicture`, `LockSurface`, `PutImage`, ...)
are atomic and need no thread. `vaBeginPicture` and the two sync calls can
sleep, so they run on a thread with a program counter:

| `pc` | where in the code |
|---|---|
| `begin` | top of `vaBeginPicture` (8775) and its `retry_surface_sync` label |
| `enter` | entry of the sync call, before the mutex (11909, 11918) |
| `check` | the loop of checks at 11538-11604; in `waiters`: asleep on `sync_cond` |
| `loop` | the dequeue loop, mutex held (11611) |
| `dequeue` | in `hb_mm_mc_dequeue_output_buffer`, mutex dropped (11670) |
| `resume` | after the dequeue, about to take the mutex again (11672) |

`mutex` names the thread that keeps the mutex over several actions (`check`
after a successful retry, and `loop`). The deadline is a choice: any step that a
passed deadline permits may be taken by a call that has one. Attempts are
counted. Every call into the SDK that can fail is a choice between its
outcomes, followed by exactly what the code does on each.

`frame` is the VPU buffer a surface shows, with its owner (`output_context_id`)
and, as a history variable that no guard reads, the surface whose picture it
really is. `vpu_queue` and `vpu_bufs` are the VPU's own books.

Assumed of the VPU, from the way the driver uses it: an accepted picture is
answered at most once, in order of acceptance; a refused buffer stays with the
driver; an input that is recycled unsubmitted gives no output; it may answer
late, with nothing, with a buffer without a picture, with a corrupt one, or with
an error.

Left out, because no property here depends on it: slice contents and parameter
sets, the layout of frames, cache maintenance, imported memory, encoders other
than their effect on a decoder's surface (`EncoderTakes`), failure of the
condition variable itself, spurious wake-ups. `vaTerminate`, a failing
`vaCreateContext`, orphans and their reaping are in `Teardown` and, for
encoders, in `EncodePicture`; parameter sets are in `ParameterSets`.

### SurfaceAccess and the code

Every call that looks at `lock_count`, `va_lock_count`, `cpu_access_count` or
`external_handle_count` is an action. The four counters keep their names;
`image` and `buffer` are the driver's slot tables, searched from the start as in
the code (`IsFirstFree`), and a buffer's `data` is the surface it shows. `cache`
is what the code cannot read: whether the CPU cache holds writes that memory
lacks (`dirty`), and whether an invalidation threw some away (`lost`, for good).
`hb_mem_flush_buf` and `hb_mem_invalidate_buf` act on it and may fail.

A call on a surface that is not pending is one action: it never drops the mutex.
On a pending one (`WaitToLock`, `WaitToDerive`, ...) the thread synchronises,
asleep or dequeueing, and goes on (`Continue`) with what it had chosen before;
what the code checks again after the wait is a conjunct of the `Grant...`
operator, what it checked only before is a conjunct of `Asks...`. The decoder is
a sketch of `DecodeSync`: one context, always running, one open picture, pictures
resolved by the thread in the dequeue. An encoder has an open picture
(`encoding`), and an input the hardware did not answer in time (`reading`) until
the callback comes.

`ExportSurface` and `WaitToExport` are `vaExportSurfaceHandle` with either memory
type. The driver keeps no account of an exported descriptor; `exported` is the
surface a device got last that way, until it is done with it (`DeviceDone`), and
no guard of the driver reads it.

Left out: coded buffers, the destruction of contexts (so a surface that was a
target stays retained), and everything about pixels; the staging copy `raw_data`
and where the picture is are in `SurfaceContents`. What an application may do is
restricted by constants, named in each run: `Unsynced` are the calls it makes on
pending surfaces, `Shared` the surfaces it passes to other devices, `MaxViews`
the images it derives from one surface.

### SurfaceContents and the code

A surface may have three memories: the output buffer of a decoder, a graph
buffer, and the staging copy `raw_data`. The fields of `contents` are those of
`HobotSurface`; `newest` stands for no code, it is the set of memories that hold
the picture put there last. The specification takes each action of
`SurfaceAccess` together with its effect on `contents`:

| Operator | Code |
|---|---|
| `Prepared`, `PrepareFailed` | `hobot_fill_surface_info_locked` and the upload before it, for lock, derive and export (12026-12068) |
| `Loaded` | `hobot_copy_gbuf_to_staging` |
| `Uploaded`, `UploadFailed` | `hobot_upload_staging_to_gbuf`; a failure leaves the graph buffer half written and `raw_data_dirty` set |
| `Read` | `vaGetImage`: load the picture if it is only in the graph buffer, and write the surface behind the image if that is derived |
| `PutResults` | `vaPutImage`: stage the frame or the graph buffer, change it, give the frame back, upload |
| `EncodeResults` | what `vaEndPicture` of an encoder reads, however far it gets |
| `Continued` | any of these after a wait, with what the call looks at again |

A write through the memory (a lock, a view, a device with an acquired handle)
makes that memory the only one that is up to date, and the call that ends the
access must drop the staging copy (`StagingStale`). `CopiesAgree` says that this
and all the other settings of the two flags fit: at rest, every memory that some
call would read holds the picture.

Assumed: a device that got a surface by export only reads it. The driver is not
told when such a device writes, and a staging copy from before would be used
again; nothing in its interface asks for more. `dma_fd` stays "none" when
`vaPutImage` gives a frame back on a surface that has a graph buffer too, so an
export as DRM PRIME is refused (12290) until the next picture, while the other
memory type works; the model has the export as one action that may happen.
Strides are left out: the graph buffer may be allocated with another stride than
the decoder's frame had (12042), in which the staging copy was written.

### EncodePicture and the code

`vaEndPicture` of an encoder keeps the mutex from its first check to its return,
seconds later if need be, so no other call of the driver comes between; the
hardware and the SDK's callback do. It is therefore cut only where they matter:

| `call.at` | where in the code |
|---|---|
| `queue` | input described and token stored (11293), about to be queued (11295) |
| `output` | queued, in the dequeue of the output (11314) |
| `consume` | output taken or missing, waiting for the input to be consumed (4140) |
| `idle` | the mutex is free |

The first cut is preceded by `PassInPlace` (the surface's memory or the frame it
shows), `PassScratch` (a copy in the driver's scratch buffer) or `PassCopy`
(JPEG: a copy in the VPU's own buffer, no token), or by a start or an input that
fails (`StartFails`, `InputRejected`, `InputKept`). All other calls are atomic.

`pending` is the atomic `enc_external_input_pending`, `token` the process-wide
sequence. `vpu` is the VPU's own book: free input slots, inputs being read,
pictures to code, coded outputs, free output buffers. `callbacks` holds the
tokens of callbacks on their way to a slot, in no order; they outlive the
context. `memory` and `scratch` are stamps that change with each write, so that
`HardwareInputUntouched` can compare what the hardware reads before and after a
step; a frame is identified by its owner. `Known` says which contexts an
application has the id of: those whose creation succeeded. A failed start
leaves an orphan that the application still knows and the next
`vaCreateContext` reaps; the application may go on using its id, then another
context's.

Assumed of the VPU, from how the driver uses it: it reports each consumed input
once, at any time; a failed queueing leaves the buffer with the driver, though
its callback may come all the same; an input slot that is given back unused
yields no output; outputs come in order; a stopped instance forgets its buffers.

Left out: parameters, rate control except that its failure fails the encoder
with its picture open (`RateUpdateFails`), layouts, cache maintenance, locks and
derived images (they are `SurfaceAccess`), the decoder's protocol (it appears as
the owner of frames), and `vaTerminate`, which is `Teardown`.

### Teardown and the code

A context is a record of what it has: an initialised or running codec instance,
an input or output buffer it could not give back, a scratch buffer; a surface a
record of its memory, the owner of the frame in it and who uses it. `live` is the
memory allocator's own book, the file descriptors it has handed out; the lowest
free one comes first, so a descriptor freed too early is soon somebody else's.
How pictures come about is left to `DecodeSync` and `EncodePicture`: here a
context becomes busy (`BeginUse`), may show a frame (`ReceiveFrame`), may keep
a buffer (`KeepBuffer`) and is idle again (`EndUse`). A decoder that keeps an
output may be poisoned while its picture is open (`Wedge`, the finding `wedge`):
then nothing ends the picture, and `EndUse` is not possible any more (`InUse`).
`vaTerminate` refuses a busy context; it does so for good once every thread is
idle and a wedged decoder is left (`TerminateRefused`).

`vaTerminate` holds the mutex from its first check until all is given back; its
phases (`TerminateContext` for each slot, `ContextsDown`, `TerminateOrphans`,
`TerminateSurfaces`, `CloseModule`) are steps, during which nothing else that
needs the mutex moves (`Free`). `vaCreateSurfaces2` of imported surfaces takes
the mutex to reserve cleanup slots (`ReserveSlots`), imports without it
(`ImportBuffer`, and the ways in which it fails) and takes it again for the
surfaces (`ImportSurfaces`) or for what it could not undo (`RetainImport`,
`ImportFails`). So imports and `vaTerminate` interleave as in the code.

Every SDK call may fail, `MaxFaults` times in all. What is released is released
in the order of the code, and what a failing call leaves is a field of the
context: that is what a repeated call finds.

Left out: memory of `malloc`; `decode_pending` and `decode_error`, which
`vaTerminate` does not look at; mapped buffers, which hold a surface like a lock;
encoders that start in `vaCreateContext` (JPEG), which `EncodePicture` has. The
branch of `vaDestroySurfaces` that gives a frame back to a context other than a
user of the surface is never reached, because a frame's owner is among the
users. The application makes no new call once `vaTerminate` has given everything
back; calls that were already under way go on.

### RateControl and the code

`rc_params`, `encoder_max_bitrate` and `applied_max_bitrate` are the driver's
fields, `hardware` is what the encoder works with. `vaRenderPicture` keeps the
mutex, but its loop over the buffers may stop at any of them, so each buffer is a
step (`Sequence`, `UpdateVbr`, `UpdateCbr`, `FrameRate`), in any order, each kind
at most once; `Hrd`, `SetQp` and `EndRender` come after the loop. A buffer is
answered with success or an error, and an error ends the call (`Answered`,
`Refuse`). The first pass, which refuses malformed buffers before anything
changes, is left out but for the flag it sets (`vbr_seen`).

`Apply` is `hobot_apply_encoder_rate_control`: `ApplyLater` before the start,
`ApplyNow`, `ApplyTakenBack` when the maximum had been changed, `ApplyRefused`
when it had not. A failing `hb_mm_mc_set_rate_control_config` is taken to leave
the hardware alone and a failing `hb_mm_mc_set_max_bit_rate_config` to have
taken effect or not: with that the rollbacks of the code make sense, which undo
the second and not the first. The return for a VBR maximum of zero (4281) is
never taken, since a sequence below 1 kbps is refused.

Left out: intra periods, levels, resolutions and reference patterns; JPEG. The
HEVC slice and picture parameters a call had are kept even if a later buffer of
the call is refused (`early`), as in the code.

### ParameterSets and the code

A set of parameter sets is told apart by the picture parameters it is made from
and the reference counts its PPS gives. `cached` and `headers_sent` are the
driver's fields; `input` is what has been written to the input buffer, `vpu` what
the VPU has read last. `RenderParameters`, `RenderPictureAndSlices` and
`RenderSlices` are `vaRenderPicture` with the buffers their names say, the last
ones with the correction of a guessed PPS (`Corrected`, 10592-10616) and the way
an input is obtained, filled and given up (`SlicePass`). The second of two calls
whose slices imply other counts is refused when the PPS has been written
(10600-10604); the model has it as an action that is not enabled.

Assumed: the application sends picture parameters once per picture and no later
than its first slices; whether the VPU has read an input that was given back
unfinished is open (`Recycle`); the generators of HEVC parameter sets do not fail
on what passed the check before them (10505). JPEG, whose header goes with every
picture, is left out.

The definitions commented as a *slip* are faulty variants of the operator next
to them. No specification uses them; substituting one for its neighbour shows
that a property depends on that line.

## 3. Runs

| Run | Instance | What it shows |
|---|---|---|
| `one_decoder` | 1 context, 2 surfaces, 2 threads, 2 buffers, ring of 2, 1 attempt | two threads begin, abandon, complete and synchronise pictures of one decoder: the lock `sync_active`, pairing of outputs with surfaces, sleepers, leftover inputs, the refinement of `PictureOrder`, and the invariant the proofs use |
| `shared_surfaces` | 2 contexts, 2 surfaces, 1 thread, 1 buffer per decoder, ring of 1, references | surfaces pass between decoders and an encoder: buffers are conserved, frames have running owners, locked frames stay, the ring does not overflow |
| `liveness` | 1 context, 1 surface, 2 threads, 1 buffer | sleepers wake, deadlines hold, syncs end |
| `wedge` | as `liveness` | a poisoned decoder that cannot be torn down (violation) |
| `surface_access` | 2 surfaces, 1 encoder, 1 thread, 2 images, 2 buffers, 2 locks, 2 maps, 1 view per surface, handles | an application with one thread that synchronises a surface before it locks or derives: counters agree with what they count, encoder inputs are unlocked, no write is lost in the cache or missed by a device |
| `surface_contents` | 1 surface, 1 encoder, 2 threads, 1 image, 2 buffers, handles, every call also on pending surfaces | whatever the calls find after a wait, memory the CPU can reach stays with its surface, and no call reads or builds on a copy of the picture that is out of date |
| `encode_picture` | 1 encoder, 1 surface, 1 coded buffer, 2 input slots, 2 output buffers, 3 tokens, 3 frames | the memory the hardware reads is not written, freed or handed over by any call, not even after `vaEndPicture` gave up; the pending token is never wrong in either direction; buffers are conserved over all failures; no coded buffer gets an earlier picture; an input given up on is released when the hardware is done |
| `terminate` | 2 contexts, 2 surfaces, 3 descriptors, 2 importing threads, 2 cleanup slots, imports of 1 or 2, 4 calls, 3 faults | no buffer is lost or has two holders, no instance stops with buffers outside, no running instance has been released, nothing is left when `vaTerminate` closes the module, and repeating it ends unless a decoder is wedged |
| `render_picture` | 1 context, encoder or decoder; rates up to 2, QPs up to 2, 2 windows; 2 picture parameters, 2 reference counts | the hardware works with what the driver believes, through every failure and rollback; slices are decoded with their picture's own parameter sets, through every abandoned picture |
| `access_during_encode` | 2 surfaces, 1 encoder, 2 threads, 2 images, 2 buffers, locks and exports of pending surfaces | a lock or a descriptor granted on an encoder's input (violation) |
| `refused_sequence` | `RateControl` alone, same values | a refused sequence that changed the VBR maximum (violation) |
| `derive_slots` | 2 surfaces, 1 thread, derivations from pending surfaces | two derivations in one slot (violation) |

Bounds. `RingSize`, `MaxAttempts` and `MaxLocks` are the code's 128, 30 and an
unbounded counter, made small so that a full ring and spent attempts are
reached; two surfaces in a ring of one exercise the overflow check, two in a
ring of two the order of pictures. Two threads are enough for a pair to race;
the second decoder is needed for every rule about owners. `TargetSets` is empty
in the runs because retained targets only add usage bits, which `RefSets` also
does in `shared_surfaces`. Safety runs use symmetry over contexts, surfaces,
threads and buffers; the liveness run does not. Deadlock is checked in all runs
but `render_picture` and `refused_sequence`: there a poisoned encoder or decoder
refuses every call until it is destroyed, and destruction is in other modules.
In `SurfaceAccess`, `MaxLocks`, `MaxMaps` and `MaxAccesses` stand for the code's
`UINT32_MAX`; two locks and two maps distinguish the first, an inner and the last
access. `surface_contents` has one of each, which still lets a lock and a view
overlap, and one surface; `vaGetImage` into a view of another surface is not
reached there, but it is in the proof. Slots are not symmetric, because the tables are searched in order. Two
slots of each kind let a derived image and a plain one, or two derived images,
exist together.

In `EncodePicture`, `MaxToken` stops the token sequence (64 bits in the code) and
`MaxFrame` the frame counter; three of each let an encoder fail with a picture
in the VPU, be destroyed, and a second and third picture follow. `NumIn` and
`NumOut` are the code's 5 (7411): two let an input be read while another is in
hand, and an output be kept while another is coded. One encoder is enough for
every rule here but one: that a second encoder keeps away from what the first
reads, which is the same test (`HasActiveEncoder`) that keeps the decoder away.
`NumEncoders` is a parameter.

In `Teardown`, two contexts let a frame's owner differ from the surface's last
user, two surfaces let an import succeed for the first and fail for the second,
three descriptors let two imports and a scratch buffer compete, two cleanup slots
are filled by one import. `MaxCalls` stops the application from beginning new
work for ever; four calls make an encoder and a decoder, a surface and a use, or
two imports and what they collide with. `MaxFaults` makes failures finite, which
repetition needs to come to an end; three let both steps of a cleanup fail and
its retry again.

In `RateControl` the values stand for the code's 700000 kbps, 240 frames per
second, QPs up to 51 and windows from 10 to 3000 ms; with rates 0 to 2 one can be
too small, below, at or above the maximum. In `ParameterSets` two picture
parameters, one of which makes the code guess two references instead of none, and
two reference counts let each guess be right and wrong.

Fairness (`LiveSpec`). A thread that can take a step repeatedly takes it: this is
strong because the mutex is taken and released by others in between, and stands
for a kernel that grants a mutex to each thread waiting for it; the dequeue has
a timeout of 50 ms in the code, so it returns. A deadline passes: a timed call
that could repeatedly notice its deadline does. An application ends a picture it
began: without that, `vaSyncSurface` on the open picture may sleep for ever, by
design. Nothing is assumed of the VPU.

Fairness (`FairSpec` of `EncodePicture`): a thread inside `vaEndPicture` goes on,
since each of its waits has a timeout and it needs no lock. `InputReleased` also
supposes that the hardware consumes what it was given and reports it
(`HardwareFairness`): if it never does, surface and context stay busy for good,
by design.

`SleepersWake` and `TerminateSucceeds` except wedged decoders; that exception is
the finding.

Fairness (`Teardown`): the application ends the pictures it began where the
driver lets it (`EndUse` of a wedged decoder is never possible), the hardware
reports the inputs it was given, locks are released and `vaTerminate` is called
again as long as it fails; a `vaTerminate` that has
begun goes on, as it waits for nobody. A thread that imports goes on: strongly
fair, because it gets the mutex between two calls of `vaTerminate`, not during
one. `RateControl` and `ParameterSets` have safety properties only.

### The findings

*A decoder that cannot be torn down* (`wedge`). `vaSyncSurface` offers a retained output to the VPU again (11575) before it
looks whether a picture is open (11584). If the VPU refuses, the decoder is
poisoned (5954). `vaBeginPicture` does not look at `dec_out_buf_valid`, so a
picture can be open then, and `vaRenderPicture` (8986) and `vaEndPicture`
(10922) refuse a poisoned context before they would end it.
`decode_picture_active` stays set for good, and `vaDestroyContext`,
`vaDestroySurfaces` and `vaTerminate` all refuse the context. The comment at
11493-11494 expects a poisoned decoder to reach its teardown. The trace: a sync
keeps an output the VPU does not take back before the deadline; a picture is
begun on the same context; a second sync retries the output, the VPU refuses.
`TerminateSucceeds`, in the run `terminate`, shows that nothing else in that
model, no other order of failures, stops `vaTerminate` for good.

*Access to an encoder's input* (`access_during_encode`). Two calls look for an
active encoder, wait for the surface's picture and do not look again. The helper
behind `vaLockSurface`, `vaDeriveImage` and `vaGetHobotSurfaceInfo` checks at
11993-11997 and synchronises at 12002; `vaExportSurfaceHandle` checks at 12237
and synchronises at 12243. The trace: the picture of a surface is being
synchronised by one thread; another thread's lock or export of it is asleep; the
picture arrives; an encoder begins a picture with the surface; the sleeper wakes
and is granted the lock, or exports the memory. TLC finds either in nine states
when `Unsynced` has only one of "lock" and "export" beside "sync". The test at
`src/tools/test_va_surface_state.c:8531` expects `VA_STATUS_ERROR_SURFACE_BUSY`
while an encoder is active. In the same way a lock may be granted while another
device has the surface's handle.

*Two images in one slot* (`derive_slots`). `vaDeriveImage` chooses its slots
(13136-13149) before it synchronises (13152) and fills them after. If another
image is derived meanwhile it is overwritten: its surface keeps a lock that no
`vaDestroyImage` takes back, and can never be decoded into again, nor destroyed.

*A refused sequence that changes the maximum* (`refused_sequence`). A sequence of
a VBR encoder is prepared in a copy of `rc_params`, but its bit rate goes to
`encoder_max_bitrate_kbps` at once (10266; 10166 for HEVC). When the frame rate
is refused after that (10273-10277; 10177), the call fails and the maximum stays.
If the encoder is then started without another sequence, its start may find a bit
rate above the maximum (4832) and poison the encoder. The test at
`src/tools/test_va_surface_state.c:5422` expects nothing to be changed, for CBR.

A remark that is no run. `vaMapBuffer` does not look at the surface's
`external_handle_count`, only at the buffer's own `handle_acquired` (7880): with
two images of one surface (`MaxViews = 2`), one may be mapped while the other's
handle is out, and the release of the handle invalidates the cache under the
mapping. `surface_access` therefore bounds the views of a surface by one, and the
theorems that need this say so with `SingleView`. No run checks
`DevicesGetQuietSurfaces`, that a device gets a surface only when nobody works on
it: it fails with two threads (`access_during_encode`) and with two views, and is
a theorem under the hypotheses that exclude both.

## 4. Proofs

`tlapm` checks the theorems below, and the lemmas they rest on, for every value
of the constants that satisfies the assumptions of the modules that declare
them:

* `ConstantsAssumption` of `DecodeSync`, `EncodePicture` and `Teardown`: the null
  values are distinct from the values they stand in for, the bounds are naturals,
  target and reference lists are lists of surfaces;
* `ConstantsAssumption` and `NullAssumption` of `SurfaceAccess`: there are slots,
  the bounds are naturals, the calls on pending surfaces are among the six that
  exist, an empty slot differs from every image and buffer;
* `RateAssumption` of `RateControl`: the ranges are naturals and there is a
  longest window, `SetsAssumption` of `ParameterSets`: reference counts are
  naturals.

Nothing else is assumed. TLC evaluates these assumptions in every run.

| Theorem | Property |
|---|---|
| *DecodeSync* | |
| `TypeCorrect` | `TypeOK` |
| `OneSyncerHolds` | `OneSyncer` |
| `SyncExclusion` | `SyncExcludesPicture` |
| `RetainedSlotIsFree` | `RetainedSlotFree` |
| `FifoCorrect` | `FifoIsPending` |
| `PendingCorrect` | `PendingIsClean` |
| `RecheckPasses` | `SurfaceStaysMine` |
| `LocksProtectFrames` | `LockedFrameStays` (an action property) |
| `PairingHolds` | `PairingInv`, the lower three layers of `Inductive` |
| `InductiveHolds` | `Inductive` |
| `InputsAreOwn` | `NoLeftoverInput` |
| `FramesHaveOwners` | `FrameOwnerRuns` |
| `PairingByPosition` | `FifoMatchesVpu` |
| `FramesBelong` | `FramesAreOwn` |
| `BuffersStayConserved` | `BuffersConserved` |
| `PicturesInOrder` | `ResolvedInOrder`: refinement of `PictureOrder` |
| *EncodePicture* | |
| `EncodeInductive` | `Inductive` of `EncodePictureProof` |
| `EncodeTypes` | `TypeOK` |
| `PendingTellsTheTruth` | `PendingIsTracked` |
| `NoBufferIsLost` | `BuffersConserved` |
| `StopsWhenRead` | `StoppedWhenRead` (an action property) |
| `ReadMemoryIsLeftAlone` | `HardwareInputUntouched` (an action property) |
| `DeliversItsOwn` | `DeliversOwnPicture` (an action property) |
| *Teardown* | |
| `TeardownInductive` | `Inductive` of `TeardownProof` |
| `TeardownTypes` | `TypeOK` |
| `BuffersHaveOneHolder` | `EveryBufferHasOneHolder` |
| `BuffersBack` | `BuffersBackBeforeStop` |
| `NothingIsLeft` | `NothingLeftBehind` |
| *RenderPicture* | |
| `ContextInductive` | `Inductive` of `RenderPictureProof` |
| `ContextTypes` | `TypeOK` |
| `HardwareAgrees` | `HardwareFollows` |
| `OwnSetsDecode` | `DecodedWithItsSets` |
| *SurfaceAccess* | |
| `AnyUseInductive` | `AnyUse` |
| `AccessTypesHold` | `TypeOK` |
| `ReachableMemoryHeld` | `ReachableMemoryStays` |
| `DerivedUseInductive` (1) | `DerivedUse` |
| `CountersCount` (1) | `Counted` |
| `InputsAreUnlocked` (2) | `EncoderInputUnlocked` |
| `CarefulUseInductive` (2, 3) | `CarefulUse` |
| `WritesSurvive` (2, 3) | `NoWriteLost` |
| `WritesAreSeen` (2, 3) | `DevicesSeeWrites` |
| `InputsAreClosed` (2, 3, 4) | `EncoderInputIsClosed` (an action property; `access_during_encode` shows that it fails without 2 and 4) |
| `DevicesGetQuiet` (2, 3, 4) | `DevicesGetQuietSurfaces` (an action property of `SurfaceAccessProof`, in no run) |
| *SurfaceContents* | |
| `ContentsAreAccess` | `ContentsSpec => Spec` |
| `CopyInvariant` (1) | `CopyInv` |
| `CopiesAlwaysAgree` (1) | `CopiesAgree` |

The theorems about `SurfaceAccess` and `SurfaceContents` that are marked suppose something of the
application: (1) `NothingDerived`, it derives no image from a pending surface;
(2) `SynchronisesFirst`, nor locks one; (3) `SingleView`, it keeps one image of a
surface at a time; (4) it has one thread or exports no pending surface. See below.

None of the safety properties is inductive alone.

### DecodeSync

`Inductive` (in `DecodeSyncInv`) has four layers, each proved with the help of
those below it. TLC checks it as an invariant of `one_decoder`.

1. `TypeInv`. Types are preserved only if the locals a step reads are set, so
   it adds `CallShape` (which fields of a call are set at which `pc`; a reply
   with a buffer has one) and `PictureShape` (an open picture has a surface).
2. `SyncInv`. `OneSyncer` needs `LoopHoldsMutex`: a thread in the loop holds
   the mutex, so nobody else moves. `SyncRuns`, `SyncExcludesPicture` and
   `RetainedSlotFree` say what a set `sync_active` excludes; every action that
   could break them looks at the flag. Steps fall into four kinds, each with
   its lemma: `QuietStep`, `StartStep`, `StayStep`, `FinishStep`.
3. `FifoInv`. `FifoIsPending` needs that an open picture is the last entry
   (`PictureIsLast`: an abort removes the right one), that nothing refers to a
   destroyed context (`FreeUnused`: a new context starts with an empty FIFO),
   that a free surface slot is clean (`UnallocatedEmpty`), and that the surface
   a thread synchronises is still pending in its decoder (`SyncerSurface`: the
   FIFO is not empty and its head is the thread's target, by
   `SyncExcludesPicture`). The sequence lemmas (`FifoAppends`, `FifoPops`,
   `FifoDropsLast`) reduce the FIFO to a set without repetition.
4. `VpuInv`. The heart is `FifoIsPipeline`: while a decoder works, its FIFO is
   the `Pipeline`, that is the output a thread has in hand, then what the VPU has
   accepted and not answered, then the open picture. It is not inductive,
   because an input buffer that a context keeps would be submitted as a later
   picture (`NoLeftoverInput`, `DeferredIsFresh`), because a decoder that was
   poisoned goes on popping its FIFO (`PoisonedIsQuiet`: nothing is asked of its
   pipeline any more), and because a frame that is handed over must be the one
   the head is waiting for (`HandIsMine`, `KeptIsOwn`). `FramesAreOwn` follows
   when the output in hand meets the head of the FIFO. `EachHeldOnce` is
   `BuffersConserved` place by place: each buffer of a running instance is in one
   of the VPU, a dequeue's reply, the retained slot and the surfaces, so giving a
   buffer back cannot put it in two.

`PicturesInOrder` maps the steps of `DecodeSync` to those of `PictureOrder`:

| Step | of `PictureOrder` |
|---|---|
| `BeginAccepts` | `BeginNew`: the picture joins the FIFO's end |
| `SyncKeepsFrame`, `SyncDropsBad` | `Resolve`, of the FIFO's head |
| `SyncLost` | `BreakDown` |
| `RenderPictureAborts`, `EndPictureAborts` | `Abandon`, of the FIFO's last |
| `DestroyContext` | `Close` |
| `CreateSurface`, `PutImage`, `DestroySurfaces`, `DestroyContextFails` | `Replace`: what a surface shows changes, not what is awaited |
| all others | a stutter |

It uses `Inductive`: `SyncerSurface` makes the surface that is resolved the head
of the FIFO, `PictureIsLast` makes the abandoned one its last, and
`PoisonedIsQuiet` keeps a picture that was given up with its decoder from being
shown or abandoned later as if it were still in progress. `PictureOrder` does not
say whose picture a surface shows; that is `FramesAreOwn`.

### EncodePicture

One encoder's state is only ever touched by its own calls, its VPU and its
callbacks, and memory by all. The invariant is therefore `LocalInv`, about one
encoder (`c` its context, `p` its pending token, `v` its VPU, `cb` its callbacks,
`k` the `vaEndPicture` that works on it), for each of them, and `SurfaceInv`
about the frames surfaces show. A step changes one encoder by a lemma on these
six values and leaves the others alone.

* `ContextInv`: which states of a context exclude which others.
* `PendingInv`: at most one input outside the driver's memory is being read, it
  is the one `pending` names, and its token is not yet among the callbacks. A
  token is about to be queued, being read or on its way back: a late callback of
  an earlier picture (or of a context that is gone) carries an older token, so
  the compare-and-exchange (4071) leaves the newer one alone. For this tokens
  must be fresh: no callback and no pending token exceeds `token`.
* `CallInv`, `OrderInv`: between calls the pipeline of an encoder that has not
  failed is empty, so the output that `vaEndPicture` dequeues is that of the
  input it queued. The code relies on it without a check: it poisons the encoder
  whenever an output does not come, so that none is left for the next picture.
* `VpuInv` counts the input slots and output buffers over their places.

`StopsWhenRead` and `ReadMemoryIsLeftAlone` follow from it action by action
(the lemmas `Steady` and `Shown`, and what the actions that write look at).

### Teardown

* `SlotInv`, `FrameInv`, `BackInv`: what a free slot, an orphan and a context
  that does not run cannot have, and that one that runs is initialised.
* `ImportInv`, `RoomInv`: the cleanup slots. A thread that imports reserves as
  many slots as it may need before it drops the mutex; `reserved` is the sum of
  what all threads have left of that, and with the orphans in the table it never
  exceeds the table. So `RetainImport` finds room whenever an import has failed and
  cannot be undone.
* `HolderInv`: `EveryBufferHasOneHolder`, with the threads' half-done imports as
  holders. The allocator hands out the lowest free descriptor, so the invariant
  must say of every live descriptor who holds it and of each free one that nobody
  does.
* `PhaseInv`: what each phase of `vaTerminate` may rely on from the phases
  before it. `NothingIsLeft` follows in the last.

### SurfaceAccess

The driver guards a surface by counters that it checks before a wait and not
always after it, so what holds depends on what the application does on pending
surfaces. The invariants are stacked accordingly.

* `AnyUse` holds for every application. `CallInv` says what a waiting call
  carries, `LifeInv` that surfaces in use exist and are unlocked while their
  picture is pending. `PinInv` counts: the images of a surface, the buffers that
  show it though no image leads to them any more (`Stray`), and its own locks are
  together at most `lock_count`. That survives `derive_slots`: an image put in a
  slot that was filled meanwhile takes its predecessor's place among the pins as
  its stray buffer (`DerivePins`). So memory that can be reached is always
  locked, and what that finding costs is a lock too many, never one too few.
* `DerivedUse` adds `SlotInv`, that an image has its own buffer and a view its
  image, so that the search in `hobot_get_derived_image_surface_locked` finds the
  surface the buffer shows (`DerivedIsData`); and `CountInv`, that the counters
  count exactly.
* `CarefulUse` adds `EncoderInputUnlocked` and, for one image of a surface at a
  time, `CacheInv`: where the CPU wrote lastly it still works, or a flush is noted
  in `cpu_cache_flush_pending`, so the next call's flush comes before its
  invalidation (`FlushedIsClean`). A device with a handle is alone, because the
  view it was given is the only one (`ViewIsAlone`).
* `WaitInv` serves `DevicesGetQuiet` and `InputsAreClosed`: one thread at a time is in the dequeue, its
  surface stays pending until it resolves it itself, and no surface is decoded
  and encoded at the same time. An export that dequeued its picture therefore
  goes on with a surface nobody has touched; one that slept does so only if there
  is no other thread.

Each hypothesis is needed, and TLC shows it. Without (1) `Counted` fails, the
finding `derive_slots`; without (2) `EncoderInputIsClosed`, the finding
`access_during_encode`; without (3) `NoWriteLost` and `DevicesSeeWrites` fail on
the instance of `surface_access` within eight states; and without (4) the run of
`access_during_encode` with exports alone fails in nine.

### SurfaceContents

`ContentsAreAccess` drops `contents`: every step is one of `SurfaceAccess` or
leaves its variables alone, so `DerivedUse` holds here too, and with it the exact
counts of locks and accesses. `CopyInv` then says of each surface whose picture
is there, with `Good`, what `CopiesAgree` leaves out, the time while somebody is
in the memory:

* a dirty staging copy is valid, has the picture, and no frame hides it, so the
  next upload restores the graph buffer; memory that is not waiting for an upload
  has the picture, and `dma_fd` names no other memory;
* a locked surface has memory, and nothing waits to be uploaded to it: a write
  through the lock makes that memory the only one with the picture, and would
  leave nothing for a later upload to be right about;
* the staging copy may be valid and behind only while the CPU or a device works
  in the memory, because the call that ends this drops it (`StagingStale`).

The first part of the proof is about one surface's contents: what each of
`Prepared`, `Loaded`, `PutResults`, `Read`, ... makes of good ones. The second
finds for each call what it may meet: a copy (`vaGetImage`, `vaPutImage`, an
encoder) finds the surface not in use, a write finds it locked and in use, and
the last unmap is the one that ends the use. After a wait all this is true of the
counters as they are then.

Hypothesis (1) is needed. When two images are derived at the same time from a
pending surface, `derive_slots` leaves an image that leads to the buffer of
another: when that buffer becomes the view of the second surface, its mapping is
counted for the first (7894), `vaGetImage` finds the second surface at rest and
stages it, and what is then written through the view leaves that copy valid but
out of date for the next call. TLC finds the violation along these calls, with two
surfaces, two threads, three images and three buffers, in 17 steps; the instance
of `surface_contents`, with one surface, has no room for it.

### RenderPicture

`RateInv` adds to `HardwareFollows` that an encoder that waits for its first
picture does not run (`NotYetRunning`), and that a QP the slices and the picture
imply is in range (`QpFits`). `SetsInv` has what `headers_sent` claims: unless the
decoder is poisoned, the VPU has the cached sets or will have read them with the
input (`SentSetsAreRead`); and what has been written for a picture are its own
sets, sent (`WrittenIsOwn`).

### How the invariants were found

TLC has checked each invariant on the instance of its run before it was proved:
`Inductive` of `DecodeSync` is a property of `one_decoder`. Those of `Teardown`,
`EncodePicture` and `RenderPicture` contain the properties that `terminate`,
`encode_picture` and `render_picture` check, and their strengthening parts have
held in all states of these instances too; the theorems make a standing run of
them unnecessary. `AnyUse` held in 301,906 states with every call made on pending
surfaces and two images of one surface, `DerivedUse` in 335,048; of `CarefulUse`
TLC visited two million states of the instance of `surface_access` without a
violation before it was proved.

### Only model-checked

* What happens to the copies of a picture when images are derived from a pending
  surface, as far as `surface_contents` reaches: see hypothesis (1) above.
* Liveness: `SleepersWake`, `TimedSyncReturns`, `SyncEnds`, `TerminateSucceeds`,
  `InputReleased`. The prover does not handle `ENABLED`, on which fairness rests.
* What a recursive definition computes: it would need induction over data, whose
  theorems take operators that no installed prover instantiates. No theorem here
  depends on one; the FIFO and the imports use the library's sequences.

## 5. Plan and limits

Every safety invariant and action property that a passing run checks is proved,
some under what they suppose of the application. What would say more:

1. `SurfaceContents` with a device that writes a surface it got by export, if the
   driver is ever told when it does.
2. `DevicesGetQuiet` and `InputsAreClosed` with several threads that export, once the export looks for an encoder
   again after its wait.

Not modelled:

* *The watchdog.* A counter, a temporary file and a rename under the mutex, and a
  script that polls the file. Nothing the driver does depends on it.
* *Bit readers and writers, escaping, JPEG headers, layouts.* Conversions of one
  buffer without state; a model of them would be their text again.
  `ParameterSets` assumes that equal picture parameters give equal sets.
* *Validation of slices and reference sets.* It decides whether a call is
  refused; the models have both outcomes, and a refused call changes nothing.
* *Configurations and capability queries.* Tables.
* *Strides* of frames, graph buffers and staging copies (see `SurfaceContents`).
* *Reuse of a context id* by the driver while the application still uses it,
  after a deferred start whose cleanup failed (5007-5013): which context an
  application means by an id is not part of the models. `EncodePicture` and
  `Teardown` show that nothing is lost by the reaping itself.

## 6. Running

    tlc -workers 2 -config DecodeSync.cfg MCDecodeSync
    tlc -workers 2 -config DecodeSyncShared.cfg MCDecodeSync
    tlc -workers 2 -config DecodeSyncLive.cfg MCDecodeSync
    tlc -workers 2 -config DecodeSyncWedge.cfg MCDecodeSync     (finds the violation)
    tlc -workers 2 -config SurfaceAccess.cfg MCSurfaceAccess
    tlc -workers 2 -config SurfaceContents.cfg MCSurfaceContents
    tlc -workers 2 -config SurfaceAccessEncode.cfg MCSurfaceAccess   (finds the violation)
    tlc -workers 2 -config SurfaceAccessSlots.cfg MCSurfaceAccess    (finds the violation)
    tlc -workers 2 -config EncodePicture.cfg MCEncodePicture
    tlc -workers 2 -config Teardown.cfg MCTeardown
    tlc -workers 2 -config RenderPicture.cfg MCRenderPicture
    tlc -workers 2 -config RateControl.cfg RateControl           (finds the violation)
    for m in DecodeSyncLock DecodeSyncFifo DecodeSyncPromise RenderPictureProof TeardownProof \
             EncodePictureProof SurfaceAccessProof SurfaceContentsProof; do tlapm $m.tla; done
