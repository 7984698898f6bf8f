------------------------------ MODULE Teardown ------------------------------
(***************************************************************************)
(* Giving back what the driver has borrowed: vaTerminate, vaDestroyContext *)
(* and vaDestroySurfaces, and the import of surfaces by vaCreateSurfaces2, *)
(* against an SDK whose calls may fail.                                    *)
(*                                                                         *)
(* From hb_mem the driver has buffers: memory of surfaces, scratch buffers *)
(* of encoders, and imports that are not yet a surface or could not be     *)
(* undone.  From hb_mm it has codec instances and, of each instance,       *)
(* buffers it has dequeued.  A call that fails half way keeps the rest for *)
(* a later call.                                                           *)
(*                                                                         *)
(* vaTerminate holds the driver mutex from its first check until all has   *)
(* been given back; its phases are steps here, and what other threads do   *)
(* without the mutex happens between them.  How pictures are decoded and   *)
(* encoded is the subject of DecodeSync and EncodePicture: here a context  *)
(* is in use, and then left with the buffers it could not return.          *)
(***************************************************************************)
EXTENDS Naturals, FiniteSets, Sequences

CONSTANTS
    NumContexts,  \* slots of drv->contexts
    NumSurfaces,  \* slots of drv->surfaces
    NumFds,       \* file descriptors of hb_mem buffers
    Threads,      \* threads that import surfaces
    OrphanSlots,  \* length of drv->orphaned_import_fds
    MaxImport,    \* surfaces of one vaCreateSurfaces2
    MaxCalls,     \* calls of the application that begin something
    MaxFaults     \* SDK calls that may fail

ASSUME ConstantsAssumption ==
    /\ {NumContexts, NumSurfaces, NumFds, MaxImport} \subseteq Nat \ {0}
    /\ {OrphanSlots, MaxCalls, MaxFaults} \subseteq Nat
    /\ MaxImport <= NumSurfaces

Contexts == 1 .. NumContexts
Surfaces == 1 .. NumSurfaces
Fds      == 1 .. NumFds

NoContext == 0
NoFd      == 0

VARIABLES
    context,        \* HobotContext of each slot
    surface,        \* HobotSurface of each slot
    orphans,        \* fds still to be freed in drv->orphaned_import_fds
    orphan_count,   \* drv->orphaned_import_count
    reserved,       \* drv->orphaned_import_reserved
    importing,      \* vaCreateSurfaces2 of each thread
    term,           \* the vaTerminate in progress
    live,           \* fds of the buffers hb_mem has handed out
    calls,          \* calls the application may still begin
    faults          \* SDK calls that may still fail

ctxVars  == <<context, surface>>
listVars == <<orphans, orphan_count, reserved>>
boundVars == <<calls, faults>>
vars     == <<ctxVars, listVars, importing, term, live, boundVars>>

(* busy: sync_active, decode_picture_active, or an external input pending. *)
(* wedged: decode_failed was set while decode_picture_active is.           *)
(* input, output: a buffer of the instance is with the driver.             *)
ContextStates ==
    [allocated : BOOLEAN, is_encoder : BOOLEAN, vpu_initialized : BOOLEAN,
     vpu_running : BOOLEAN, deferred : BOOLEAN, busy : BOOLEAN, wedged : BOOLEAN,
     input : BOOLEAN, output : BOOLEAN, scratch : Fds \cup {NoFd},
     cleanup_orphaned : BOOLEAN]

FreeContext ==
    [allocated |-> FALSE, is_encoder |-> FALSE, vpu_initialized |-> FALSE,
     vpu_running |-> FALSE, deferred |-> FALSE, busy |-> FALSE, wedged |-> FALSE,
     input |-> FALSE, output |-> FALSE, scratch |-> NoFd,
     cleanup_orphaned |-> FALSE]

(* context_id used the surface last; output_context_id owns the frame in   *)
(* it, if there is one (has_decoded_frame); users is context_usage_mask;   *)
(* gbuf is preallocated_gbuf; locked says that lock_count is not 0.        *)
SurfaceStates ==
    [allocated : BOOLEAN, gbuf : Fds \cup {NoFd},
     context_id : Contexts \cup {NoContext},
     output_context_id : Contexts \cup {NoContext},
     users : SUBSET Contexts, locked : BOOLEAN]

FreeSurface ==
    [allocated |-> FALSE, gbuf |-> NoFd, context_id |-> NoContext,
     output_context_id |-> NoContext, users |-> {}, locked |-> FALSE]

(* num: surfaces asked for; got: buffers imported; fd: the one being freed *)
(* or retained.                                                            *)
ImportStates ==
    [at : {"out", "import", "drop", "retain", "undo"}, num : 0 .. MaxImport,
     got : UNION {[1 .. n -> Fds] : n \in 0 .. MaxImport}, fd : Fds \cup {NoFd}]

NoImport == [at |-> "out", num |-> 0, got |-> << >>, fd |-> NoFd]

TermStates ==
    [at : {"out", "contexts", "orphans", "surfaces", "closing", "closed"},
     next : 1 .. NumContexts + 1, failed : BOOLEAN]

NoTerm == [at |-> "out", next |-> 1, failed |-> FALSE]

(* Every variable keeps its type: the lists of imports to be freed do not  *)
(* overflow, and no step of vaTerminate visits a context that is not there.*)
TypeOK ==
    /\ context \in [Contexts -> ContextStates]
    /\ surface \in [Surfaces -> SurfaceStates]
    /\ orphans \subseteq Fds
    /\ orphan_count \in 0 .. OrphanSlots
    /\ reserved \in 0 .. OrphanSlots
    /\ importing \in [Threads -> ImportStates]
    /\ term \in TermStates
    /\ live \subseteq Fds
    /\ calls \in 0 .. MaxCalls
    /\ faults \in 0 .. MaxFaults

Init ==
    /\ context = [c \in Contexts |-> FreeContext]
    /\ surface = [s \in Surfaces |-> FreeSurface]
    /\ orphans = {} /\ orphan_count = 0 /\ reserved = 0
    /\ importing = [t \in Threads |-> NoImport]
    /\ term = NoTerm
    /\ live = {}
    /\ calls = MaxCalls
    /\ faults = MaxFaults

-----------------------------------------------------------------------------
(* The SDK.                                                                *)

(* The driver mutex is held by nobody: vaTerminate is the only call that   *)
(* keeps it for several steps.                                             *)
Free == term.at \in {"out", "closing", "closed"}

resources_terminated == term.at \in {"closing", "closed"}

(* The application begins something new, but not once a vaTerminate has    *)
(* given everything back.                                                  *)
Call ==
    /\ Free /\ ~resources_terminated
    /\ calls > 0
    /\ calls' = calls - 1

(* A new buffer of hb_mem comes with the lowest free file descriptor.      *)
HasFd == live # Fds
NewFd == CHOOSE fd \in Fds \ live : \A other \in Fds \ live : fd <= other

(* n calls fail.                                                           *)
Fail(n) == n <= faults /\ faults' = faults - n

(* hb_mem_free_buf of the descriptors of freed, failing on those of F.     *)
(* Freeing what is not there always fails.                                 *)
FreeBufs(freed, F) ==
    /\ F \subseteq freed
    /\ freed \ live \subseteq F
    /\ Fail(Cardinality(F \cap live))
    /\ live' = live \ (freed \ F)

-----------------------------------------------------------------------------
(* Taking a context down.                                                  *)

FramesOf(c) == {s \in Surfaces : surface[s].allocated /\ surface[s].output_context_id = c}

(* The buffers of its running instance that are with the driver.           *)
Borrowed(c) == {b \in {"input", "output"} : context[c].vpu_running /\ context[c][b]}

BorrowedFrames(c) == {s \in FramesOf(c) : context[c].vpu_running}

(* The calls made once all buffers are back, in their order.               *)
Stages(c) == {stage \in {"stop", "release", "scratch"} :
                 \/ stage = "stop" /\ context[c].vpu_running
                 \/ stage = "release" /\ context[c].vpu_initialized
                 \/ stage = "scratch" /\ context[c].scratch # NoFd}

(* What is left of a context: all of it while a buffer is kept, or what    *)
(* the stage that failed has not undone.                                   *)
Remains(c, kept, back, stage) ==
    LET h == context[c]
    IN  [h EXCEPT !.input  = @ /\ ("input" \in kept \/ ~h.vpu_running),
                  !.output = @ /\ ("output" \in kept \/ ~h.vpu_running),
                  !.vpu_running     = @ /\ ~(back /\ stage # "stop"),
                  !.vpu_initialized = @ /\ ~(back /\ stage \notin {"stop", "release"})]

(* hobot_detach_context_surfaces.                                          *)
Detached(c) ==
    [s \in Surfaces |->
        [surface[s] EXCEPT !.users = @ \ {c},
                           !.context_id = IF @ = c THEN NoContext ELSE @,
                           !.output_context_id = IF @ = c THEN NoContext ELSE @]]

FramesReturned(c, kept) ==
    [s \in Surfaces |->
        IF s \in BorrowedFrames(c) \ kept
        THEN [surface[s] EXCEPT !.output_context_id = NoContext] ELSE surface[s]]

Refusals(kept, keptFrames, stage) ==
    Cardinality(kept) + Cardinality(keptFrames) + (IF stage = "none" THEN 0 ELSE 1)

(* A slip: a frame the VPU does not take is not counted as a failure.      *)
FramesForgotten(c, kept, keptFrames, stage, sound) ==
    LET back == sound /\ kept = {}
        gone == back /\ stage = "none"
    IN  /\ kept \subseteq Borrowed(c)
        /\ keptFrames \subseteq BorrowedFrames(c)
        /\ stage \in {"none"} \cup (IF back THEN Stages(c) ELSE {})
        /\ Fail(Refusals(kept, keptFrames, stage))
        /\ context' = [context EXCEPT
                         ![c] = IF gone THEN FreeContext
                                ELSE Remains(c, kept, back, stage)]
        /\ surface' = IF gone THEN Detached(c) ELSE FramesReturned(c, keptFrames)
        /\ live' = IF gone THEN live \ {context[c].scratch} ELSE live

(* The body of vaDestroyContext, and of vaTerminate for each context: the  *)
(* buffers of a running instance go back, and when all did, and nothing    *)
(* failed before, the instance is stopped and released and the scratch     *)
(* buffer freed.  The SDK refuses the buffers of kept and the frames of    *)
(* keptFrames, or fails at a stage.                                        *)
TearDown(c, kept, keptFrames, stage, sound) ==
    LET back == sound /\ kept = {} /\ keptFrames = {}
        gone == back /\ stage = "none"
    IN  /\ kept \subseteq Borrowed(c)
        /\ keptFrames \subseteq BorrowedFrames(c)
        /\ stage \in {"none"} \cup (IF back THEN Stages(c) ELSE {})
        /\ Fail(Refusals(kept, keptFrames, stage))
        /\ context' = [context EXCEPT
                         ![c] = IF gone THEN FreeContext
                                ELSE Remains(c, kept, back, stage)]
        /\ surface' = IF gone THEN Detached(c) ELSE FramesReturned(c, keptFrames)
        /\ live' = IF gone THEN live \ {context[c].scratch} ELSE live

HasLockedSurfaces(c) ==
    \E s \in Surfaces : /\ surface[s].locked
                        /\ c \in {surface[s].context_id, surface[s].output_context_id}

(* hobot_context_surface_used_by_other_encoder: a surface an encoder works *)
(* on was used by that encoder last.                                       *)
UsedByOtherEncoder(c) ==
    \E s \in FramesOf(c), e \in Contexts \ {c} :
        /\ context[e].is_encoder /\ context[e].busy
        /\ surface[s].context_id = e

(* vaDestroyContext.                                                       *)
DestroyContext(c) ==
    /\ Free /\ ~resources_terminated
    /\ context[c].allocated /\ ~context[c].busy
    /\ ~HasLockedSurfaces(c) /\ ~UsedByOtherEncoder(c)
    /\ \E kept \in SUBSET Borrowed(c), frames \in SUBSET BorrowedFrames(c),
          stage \in Stages(c) \cup {"none"} :
            TearDown(c, kept, frames, stage, TRUE)
    /\ UNCHANGED <<listVars, importing, term, calls>>

-----------------------------------------------------------------------------
(* Creating and using a context.                                           *)

Orphaned == {c \in Contexts : context[c].allocated /\ context[c].cleanup_orphaned}

Reaped(gone) == [c \in Contexts |-> IF c \in gone THEN FreeContext ELSE context[c]]

Unused(gone) == [s \in Surfaces |-> [surface[s] EXCEPT !.users = @ \ gone]]

ScratchOf(gone) == {context[c].scratch : c \in gone}

(* vaCreateContext first reaps the orphans, and takes the first free slot. *)
TakeSlot(c, new) ==
    /\ Call
    /\ ~Reaped(Orphaned)[c].allocated
    /\ \A d \in 1 .. c - 1 : Reaped(Orphaned)[d].allocated
    /\ context' = [Reaped(Orphaned) EXCEPT ![c] = new]
    /\ surface' = Unused(Orphaned)
    /\ live' = live \ ScratchOf(Orphaned)
    /\ UNCHANGED <<listVars, importing, term>>

(* The VPU of a decoder starts now, that of an encoder with its first      *)
(* picture.                                                                *)
CreateContext(c) ==
    /\ \E enc \in BOOLEAN :
          TakeSlot(c, [FreeContext EXCEPT
                         !.allocated = TRUE, !.is_encoder = enc, !.deferred = enc,
                         !.vpu_initialized = ~enc, !.vpu_running = ~enc])
    /\ UNCHANGED faults

(* The VPU of a decoder does not start, and cannot be released either: the *)
(* context is kept without the application knowing of it.                  *)
CreateContextFails(c) ==
    /\ TakeSlot(c, [FreeContext EXCEPT !.allocated = TRUE, !.vpu_initialized = TRUE,
                                       !.cleanup_orphaned = TRUE])
    /\ Fail(2)

(* hobot_reap_orphan_contexts stops at the first failure.                  *)
ReapFails(c) ==
    LET gone == {d \in Orphaned : d < c}
    IN  /\ Call
        /\ c \in Orphaned
        /\ \E stage \in Stages(c) :
              context' = [Reaped(gone) EXCEPT ![c] = Remains(c, {}, TRUE, stage)]
        /\ Fail(1)
        /\ surface' = Unused(gone)
        /\ live' = live \ ScratchOf(gone)
        /\ UNCHANGED <<listVars, importing, term>>

(* The deferred start of an encoder with its first picture, and with a     *)
(* scratch buffer when it takes external input.                            *)
StartEncoder(c, s) ==
    /\ Call /\ context[c].deferred
    /\ surface[s].allocated
    /\ surface' = [surface EXCEPT ![s].users = @ \cup {c}, ![s].context_id = c]
    /\ \E scratch \in {NoFd} \cup (IF HasFd THEN {NewFd} ELSE {}) :
          /\ context' = [context EXCEPT ![c].deferred = FALSE,
                                        ![c].vpu_initialized = TRUE,
                                        ![c].vpu_running = TRUE,
                                        ![c].scratch = scratch]
          /\ live' = live \cup ({scratch} \ {NoFd})
    /\ UNCHANGED <<listVars, importing, term, faults>>

(* The start fails; what cannot be undone orphans the context.             *)
StartEncoderFails(c, s) ==
    /\ Call /\ context[c].deferred
    /\ surface[s].allocated
    /\ surface' = [surface EXCEPT ![s].users = @ \cup {c}, ![s].context_id = c]
    /\ \E scratch \in {NoFd} \cup (IF HasFd THEN {NewFd} ELSE {}),
          stage \in {"none", "stop", "release", "scratch"} :
          LET left == IF stage = "none" THEN NoFd ELSE scratch
          IN  /\ stage = "scratch" => scratch # NoFd
              /\ context' = [context EXCEPT
                               ![c].deferred = FALSE,
                               ![c].vpu_running = stage = "stop",
                               ![c].vpu_initialized = stage \in {"stop", "release"},
                               ![c].scratch = left,
                               ![c].cleanup_orphaned = stage # "none"]
              /\ live' = live \cup ({left} \ {NoFd})
              /\ Fail(IF stage = "none" THEN 1 ELSE 2)
    /\ UNCHANGED <<listVars, importing, term>>

(* vaBeginPicture: a decoder takes the surface and gives the frame in it   *)
(* back, an encoder keeps the frame and reads it.                          *)
BeginUse(c, s) ==
    /\ Call
    /\ context[c].vpu_running /\ ~context[c].cleanup_orphaned /\ ~context[c].busy
    /\ surface[s].allocated
    /\ context' = [context EXCEPT ![c].busy = TRUE]
    /\ surface' = [surface EXCEPT
                     ![s].users = @ \cup {c}, ![s].context_id = c,
                     ![s].output_context_id = IF context[c].is_encoder THEN @ ELSE NoContext]
    /\ UNCHANGED <<listVars, importing, term, live, faults>>

(* A context that is in use, and can still be used.                        *)
InUse(c) == context[c].busy /\ ~context[c].wedged

(* A frame of the decoder arrives in a surface it uses.                    *)
ReceiveFrame(c, s) ==
    /\ Free
    /\ InUse(c) /\ ~context[c].is_encoder /\ c \in surface[s].users
    /\ surface[s].allocated /\ surface[s].output_context_id = NoContext
    /\ surface' = [surface EXCEPT ![s].output_context_id = c]
    /\ UNCHANGED <<context, listVars, importing, term, live, boundVars>>

(* A buffer of the VPU could not be given back.                            *)
KeepBuffer(c, b) ==
    /\ Free
    /\ context[c].vpu_running /\ InUse(c) /\ ~context[c][b]
    /\ context' = [context EXCEPT ![c][b] = TRUE]
    /\ Fail(1)
    /\ UNCHANGED <<surface, listVars, importing, term, live, calls>>

(* A sync offers a kept output to the VPU while a picture is open, and the *)
(* VPU refuses it: the decoder is poisoned, and vaRenderPicture and        *)
(* vaEndPicture refuse it before they would end the picture.               *)
Wedge(c) ==
    /\ Free
    /\ InUse(c) /\ ~context[c].is_encoder /\ context[c].output
    /\ context' = [context EXCEPT ![c].wedged = TRUE]
    /\ Fail(1)
    /\ UNCHANGED <<surface, listVars, importing, term, live, calls>>

(* The picture ends, or the sync; the hardware has read an encoder's input.*)
EndUse(c) ==
    /\ Free
    /\ InUse(c)
    /\ context' = [context EXCEPT ![c].busy = FALSE]
    /\ UNCHANGED <<surface, listVars, importing, term, live, boundVars>>

-----------------------------------------------------------------------------
(* Surfaces.                                                               *)

FreeSlots == {s \in Surfaces : ~surface[s].allocated}

(* vaCreateSurfaces2 takes the first free slots, in order: the place of s  *)
(* among them.                                                             *)
Place(s) == Cardinality({r \in FreeSlots : r <= s})

Created(bufs) ==
    [s \in Surfaces |->
        IF s \in FreeSlots /\ Place(s) <= Len(bufs)
        THEN [FreeSurface EXCEPT !.allocated = TRUE, !.gbuf = bufs[Place(s)]]
        ELSE surface[s]]

(* vaCreateSurfaces2 without external buffers.                             *)
CreateSurfaces(n) ==
    /\ Call
    /\ Cardinality(FreeSlots) >= n
    /\ surface' = Created([i \in 1 .. n |-> NoFd])
    /\ UNCHANGED <<context, listVars, importing, term, live, faults>>

(* A surface without memory gets a graph buffer when it is first exported, *)
(* locked or filled.                                                       *)
Preallocate(s) ==
    /\ Call
    /\ surface[s].allocated /\ surface[s].gbuf = NoFd
    /\ surface[s].output_context_id = NoContext
    /\ HasFd
    /\ surface' = [surface EXCEPT ![s].gbuf = NewFd]
    /\ live' = live \cup {NewFd}
    /\ UNCHANGED <<context, listVars, importing, term, faults>>

Lock(s) ==
    /\ Call
    /\ surface[s].allocated /\ ~surface[s].locked
    /\ surface' = [surface EXCEPT ![s].locked = TRUE]
    /\ UNCHANGED <<context, listVars, importing, term, live, faults>>

Unlock(s) ==
    /\ Free
    /\ surface[s].locked
    /\ surface' = [surface EXCEPT ![s].locked = FALSE]
    /\ UNCHANGED <<context, listVars, importing, term, live, boundVars>>

Destroyable(s) ==
    /\ surface[s].allocated /\ ~surface[s].locked /\ surface[s].users = {}
    /\ \A c \in {surface[s].context_id, surface[s].output_context_id} \cap Contexts :
          ~context[c].busy

BuffersOf(S) == {surface[s].gbuf : s \in S} \ {NoFd}

(* The surfaces of S, but not those whose buffer is in F, are cleared.     *)
Cleared(S, F) ==
    [s \in Surfaces |-> IF s \in S /\ surface[s].gbuf \notin F
                       THEN FreeSurface ELSE surface[s]]

(* vaDestroySurfaces: the whole list is checked first.  A surface whose    *)
(* buffer cannot be freed stays.  A frame in it would have an owner that   *)
(* uses the surface.                                                       *)
DestroySurfaces(S) ==
    /\ Free /\ ~resources_terminated
    /\ \A s \in S : Destroyable(s)
    /\ \E F \in SUBSET BuffersOf(S) :
          /\ FreeBufs(BuffersOf(S), F)
          /\ surface' = Cleared(S, F)
    /\ UNCHANGED <<context, listVars, importing, term, calls>>

-----------------------------------------------------------------------------
(* Importing surfaces: vaCreateSurfaces2 of thread t with external         *)
(* buffers.  The imports are made without the mutex.                       *)

Importing(t, at) == importing[t].at = at

(* A slip: each call counts only its own imports.                          *)
ReservesAlone(n) == n <= OrphanSlots

(* A slip: the fds that are retained already are not counted.              *)
ReservesAnyway(n) == reserved + n <= OrphanSlots

(* hobot_reserve_import_cleanup_slots.                                     *)
MayReserve(n) == orphan_count + reserved + n <= OrphanSlots

ReserveSlots(t, n) ==
    /\ Call
    /\ Importing(t, "out")
    /\ MayReserve(n)
    /\ reserved' = reserved + n
    /\ importing' = [importing EXCEPT ![t] = [NoImport EXCEPT !.at = "import", !.num = n]]
    /\ UNCHANGED <<ctxVars, orphans, orphan_count, term, live, faults>>

(* hobot_import_prime2_nv12.                                               *)
ImportBuffer(t) ==
    LET i == importing[t]
    IN  /\ Importing(t, "import") /\ Len(i.got) < i.num
        /\ HasFd
        /\ live' = live \cup {NewFd}
        /\ importing' = [importing EXCEPT ![t].got = Append(@, NewFd)]
        /\ UNCHANGED <<ctxVars, listVars, term, boundVars>>

(* The descriptor is refused before it is imported, or what was imported   *)
(* does not match it and is freed again.                                   *)
ImportRefused(t) ==
    LET i == importing[t]
    IN  /\ Importing(t, "import") /\ Len(i.got) < i.num
        /\ importing' = [importing EXCEPT ![t].at = "undo"]
        /\ UNCHANGED <<ctxVars, listVars, term, live, boundVars>>

ImportMismatch(t) ==
    LET i == importing[t]
    IN  /\ Importing(t, "import") /\ Len(i.got) < i.num
        /\ HasFd
        /\ live' = live \cup {NewFd}
        /\ importing' = [importing EXCEPT ![t].at = "drop", ![t].fd = NewFd]
        /\ UNCHANGED <<ctxVars, listVars, term, boundVars>>

(* hobot_release_import_fd first tries to free the buffer.                 *)
DropImport(t) ==
    LET fd == importing[t].fd
    IN  /\ Importing(t, "drop")
        /\ \E F \in SUBSET {fd} :
              /\ FreeBufs({fd}, F)
              /\ importing' = IF F = {}
                             THEN [importing EXCEPT ![t].at = "undo", ![t].fd = NoFd]
                             ELSE [importing EXCEPT ![t].at = "retain"]
        /\ UNCHANGED <<ctxVars, listVars, term, calls>>

(* Then it keeps the fd for vaTerminate, if there is room.                 *)
RetainImport(t) ==
    LET room == orphan_count < OrphanSlots
    IN  /\ Free
        /\ Importing(t, "retain")
        /\ orphans' = IF room THEN orphans \cup {importing[t].fd} ELSE orphans
        /\ orphan_count' = IF room THEN orphan_count + 1 ELSE orphan_count
        /\ importing' = [importing EXCEPT ![t].at = "undo", ![t].fd = NoFd]
        /\ UNCHANGED <<ctxVars, reserved, term, live, boundVars>>

(* hobot_release_imported_graph_bufs goes through the earlier imports.     *)
UndoImport(t) ==
    LET i == importing[t]
    IN  /\ Importing(t, "undo") /\ i.got # << >>
        /\ importing' = [importing EXCEPT ![t].at = "drop", ![t].fd = Head(i.got),
                                         ![t].got = Tail(i.got)]
        /\ UNCHANGED <<ctxVars, listVars, term, live, boundVars>>

(* A slip: one slot is released for all the buffers of the call.           *)
ReleasesOne(n) == IF reserved >= n THEN reserved - 1 ELSE 0

(* hobot_release_import_cleanup_slots.                                     *)
Released(n) == IF reserved >= n THEN reserved - n ELSE 0

ImportFails(t) ==
    /\ Free
    /\ Importing(t, "undo") /\ importing[t].got = << >>
    /\ reserved' = Released(importing[t].num)
    /\ importing' = [importing EXCEPT ![t] = NoImport]
    /\ UNCHANGED <<ctxVars, orphans, orphan_count, term, live, boundVars>>

AllImported(t) == Importing(t, "import") /\ Len(importing[t].got) = importing[t].num

(* The surfaces have run out meanwhile.                                    *)
SurfacesFull(t) ==
    /\ Free /\ AllImported(t)
    /\ Cardinality(FreeSlots) < importing[t].num
    /\ importing' = [importing EXCEPT ![t].at = "undo"]
    /\ UNCHANGED <<ctxVars, listVars, term, live, boundVars>>

(* The imports become surfaces.                                            *)
ImportSurfaces(t) ==
    /\ Free /\ AllImported(t)
    /\ Cardinality(FreeSlots) >= importing[t].num
    /\ surface' = Created(importing[t].got)
    /\ reserved' = Released(importing[t].num)
    /\ importing' = [importing EXCEPT ![t] = NoImport]
    /\ UNCHANGED <<context, orphans, orphan_count, term, live, boundVars>>

-----------------------------------------------------------------------------
(* vaTerminate.                                                            *)

(* It refuses while a call or a lock is open (a mapped buffer counts as a  *)
(* lock).                                                                  *)
Terminate ==
    /\ term.at = "out"
    /\ \A c \in Contexts : ~context[c].busy
    /\ \A s \in Surfaces : ~surface[s].locked
    /\ term' = [NoTerm EXCEPT !.at = "contexts"]
    /\ UNCHANGED <<ctxVars, listVars, importing, live, boundVars>>

(* Each vaTerminate is refused for good while a picture cannot be ended.   *)
TerminateRefused ==
    /\ term.at = "out"
    /\ \E c \in Contexts : context[c].busy /\ context[c].wedged
    /\ UNCHANGED vars

(* The contexts are visited in order, free slots are passed over.          *)
LeftToVisit == {c \in Contexts : c >= term.next /\ context[c].allocated}

(* After a failure the buffers of the other contexts still go back, but no *)
(* instance is stopped any more.                                           *)
TerminateContext(c) ==
    /\ term.at = "contexts"
    /\ c \in LeftToVisit /\ \A d \in LeftToVisit : c <= d
    /\ \E kept \in SUBSET Borrowed(c), frames \in SUBSET BorrowedFrames(c),
          stage \in Stages(c) \cup {"none"} :
            TearDown(c, kept, frames, stage, ~term.failed)
    /\ term' = [term EXCEPT !.next = c + 1, !.failed = context'[c].allocated]
    /\ UNCHANGED <<listVars, importing, calls>>

(* A slip: imports in progress are not waited for.                         *)
ContextsDownEarly ==
    /\ term.at = "contexts" /\ LeftToVisit = {}
    /\ term' = IF term.failed THEN NoTerm ELSE [NoTerm EXCEPT !.at = "orphans"]
    /\ UNCHANGED <<ctxVars, listVars, importing, live, boundVars>>

(* It gives up when a context is left or an import is in progress.         *)
ContextsDown ==
    /\ term.at = "contexts" /\ LeftToVisit = {}
    /\ term' = IF term.failed \/ reserved # 0 THEN NoTerm
                                              ELSE [NoTerm EXCEPT !.at = "orphans"]
    /\ UNCHANGED <<ctxVars, listVars, importing, live, boundVars>>

(* The fds that could not be freed keep their place in the list; it is     *)
(* emptied when all have been.                                             *)
TerminateOrphans ==
    /\ term.at = "orphans"
    /\ \E F \in SUBSET orphans :
          /\ FreeBufs(orphans, F)
          /\ orphans' = F
          /\ orphan_count' = IF F = {} THEN 0 ELSE orphan_count
          /\ term' = IF F = {} THEN [NoTerm EXCEPT !.at = "surfaces"] ELSE NoTerm
    /\ UNCHANGED <<ctxVars, reserved, importing, calls>>

TerminateSurfaces ==
    LET S == Surfaces \ FreeSlots
    IN  /\ term.at = "surfaces"
        /\ \E F \in SUBSET BuffersOf(S) :
              /\ FreeBufs(BuffersOf(S), F)
              /\ surface' = Cleared(S, F)
              /\ term' = IF F = {} THEN [NoTerm EXCEPT !.at = "closing"] ELSE NoTerm
        /\ UNCHANGED <<context, listVars, importing, calls>>

(* hb_mem_module_close, without the mutex.  When it fails, the next        *)
(* vaTerminate tries nothing else.                                         *)
CloseModule ==
    /\ term.at = "closing"
    /\ \/ term' = [NoTerm EXCEPT !.at = "closed"] /\ UNCHANGED faults
       \/ Fail(1) /\ UNCHANGED term
    /\ UNCHANGED <<ctxVars, listVars, importing, live, calls>>

Closed == term.at = "closed" /\ UNCHANGED vars

-----------------------------------------------------------------------------
ContextCall(c) ==
    \/ CreateContext(c) \/ CreateContextFails(c) \/ ReapFails(c)
    \/ \E s \in Surfaces : \/ StartEncoder(c, s) \/ StartEncoderFails(c, s)
                          \/ BeginUse(c, s) \/ ReceiveFrame(c, s)
    \/ Wedge(c) \/ EndUse(c)
    \/ \E b \in {"input", "output"} : KeepBuffer(c, b)
    \/ DestroyContext(c)

SurfaceCall ==
    \/ \E n \in 1 .. NumSurfaces : CreateSurfaces(n)
    \/ \E s \in Surfaces : Preallocate(s) \/ Lock(s) \/ Unlock(s)
    \/ \E S \in SUBSET Surfaces \ {{}} : DestroySurfaces(S)

ImportStep(t) ==
    \/ ImportBuffer(t) \/ ImportRefused(t) \/ ImportMismatch(t)
    \/ DropImport(t) \/ RetainImport(t) \/ UndoImport(t) \/ ImportFails(t)
    \/ SurfacesFull(t) \/ ImportSurfaces(t)

TerminateStep ==
    \/ \E c \in Contexts : TerminateContext(c)
    \/ ContextsDown \/ TerminateOrphans \/ TerminateSurfaces \/ CloseModule

Next ==
    \/ \E c \in Contexts : ContextCall(c)
    \/ SurfaceCall
    \/ \E t \in Threads : ImportStep(t) \/ \E n \in 1 .. MaxImport : ReserveSlots(t, n)
    \/ Terminate \/ TerminateRefused \/ TerminateStep \/ Closed

(* The application ends what it has open and can end, the hardware reports *)
(* the inputs it has read, and vaTerminate is called again as long as it   *)
(* fails; imports that have begun go on, and get the mutex between two     *)
(* calls of vaTerminate.                                                   *)
Fairness ==
    /\ \A c \in Contexts : WF_vars(EndUse(c))
    /\ \A s \in Surfaces : WF_vars(Unlock(s))
    /\ \A t \in Threads : SF_vars(ImportStep(t))
    /\ WF_vars(Terminate)
    /\ WF_vars(TerminateStep)

Spec == Init /\ [][Next]_vars /\ Fairness

-----------------------------------------------------------------------------
(* Properties.                                                             *)

(* The buffers the driver has a reference to, by their holder.             *)
ScratchBuffers == {context[c].scratch : c \in Contexts} \ {NoFd}
SurfaceBuffers == {surface[s].gbuf : s \in Surfaces} \ {NoFd}
ImportBuffers(t) ==
    ({importing[t].fd} \cup {importing[t].got[i] : i \in 1 .. Len(importing[t].got)}) \ {NoFd}

Holdings == {ScratchBuffers, SurfaceBuffers, orphans} \cup {ImportBuffers(t) : t \in Threads}

(* Every buffer hb_mem has handed out is known to the driver, and by one   *)
(* holder only, wherever a call has failed: in no order of failing imports *)
(* and repeated clean-ups is a buffer lost, or freed behind the back of a  *)
(* holder that would free it again (vaCreateSurfaces2,                     *)
(* hobot_release_import_fd, vaDestroySurfaces, vaTerminate).               *)
EveryBufferHasOneHolder ==
    /\ UNION Holdings = live
    /\ \A c, d \in Contexts : c # d /\ context[c].scratch # NoFd
                                => context[c].scratch # context[d].scratch
    /\ \A r, s \in Surfaces : r # s /\ surface[r].gbuf # NoFd
                                => surface[r].gbuf # surface[s].gbuf
    /\ ScratchBuffers \cap (SurfaceBuffers \cup orphans) = {}
    /\ SurfaceBuffers \cap orphans = {}
    /\ \A t \in Threads :
          /\ ImportBuffers(t) \cap (ScratchBuffers \cup SurfaceBuffers \cup orphans) = {}
          /\ \A u \in Threads \ {t} : ImportBuffers(t) \cap ImportBuffers(u) = {}

(* A codec instance is stopped only after the driver has returned every    *)
(* buffer it had dequeued from it, those in the surfaces included, however *)
(* often vaDestroyContext and vaTerminate have failed before; and it is    *)
(* released only after it was stopped (hb_mm_mc_stop, hb_mm_mc_release).   *)
BuffersBackBeforeStop ==
    \A c \in Contexts :
        /\ ~context[c].vpu_running =>
              /\ ~context[c].input /\ ~context[c].output
              /\ FramesOf(c) = {}
        /\ context[c].vpu_running => context[c].vpu_initialized

(* When vaTerminate starts to close the memory module, nothing is left     *)
(* open: no context, surface, import, or buffer of hb_mem.                 *)
NothingLeftBehind ==
    resources_terminated =>
        /\ \A c \in Contexts : ~context[c].allocated
        /\ \A s \in Surfaces : ~surface[s].allocated
        /\ live = {} /\ orphans = {} /\ orphan_count = 0
        /\ \A t \in Threads : Importing(t, "out")

(* When the SDK fails finitely often, repeating vaTerminate comes to an    *)
(* end, unless a decoder is wedged: a poisoned decoder with an open        *)
(* picture is the only thing left behind by an order of failures that can  *)
(* never be given back (the retries of vaTerminate, vaDestroyContext and   *)
(* vaCreateContext).                                                       *)
TerminateSucceeds == <>(term.at = "closed" \/ \E c \in Contexts : context[c].wedged)
=============================================================================
