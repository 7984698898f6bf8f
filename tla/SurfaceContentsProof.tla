------------------------ MODULE SurfaceContentsProof ------------------------
(***************************************************************************)
(* Proof that the copies of a surface's picture agree (CopiesAgree of      *)
(* SurfaceContents), for any number of surfaces, images, buffers, threads  *)
(* and encoders.  What each call makes of one surface's contents comes     *)
(* first; then which calls a surface may meet, from the invariant of       *)
(* SurfaceAccess that the counters count.                                  *)
(***************************************************************************)
EXTENDS SurfaceContents, SurfaceAccessProof

-----------------------------------------------------------------------------
(* The inductive invariant.                                                *)

(* Contents r of a surface that is locked or not, and in use by the CPU or *)
(* a device or not.  A dirty staging copy is valid and the newest there    *)
(* is, and no decoded frame hides it; memory that is up to date has the    *)
(* picture; without memory any will do; an export gives away the memory    *)
(* that has it.  A locked surface has memory that is up to date.  The      *)
(* staging copy may only be behind while somebody works in the memory.     *)
Good(r, locked, inUse) ==
    /\ r.raw_data_dirty => /\ r.raw_data_valid /\ ~r.has_decoded_frame
                           /\ "staging" \in r.newest
    /\ HasMemory(r) /\ ~r.raw_data_dirty => MemoryOf(r) \in r.newest
    /\ ~HasMemory(r) /\ ~r.raw_data_dirty => {"staging", "gbuf"} \subseteq r.newest
    /\ r.dma_fd \in {"none", MemoryOf(r)}
    /\ locked => HasMemory(r) /\ ~r.raw_data_dirty
    /\ r.raw_data_valid => inUse \/ "staging" \in r.newest

(* A surface whose contents count: its picture is there, and whole.        *)
Settled(s) == allocated[s] /\ ~decode_pending[s] /\ ~decode_error[s]

Locked(s) == lock_count[s] > 0
InUse(s)  == cpu_access_count[s] > 0 \/ external_handle_count[s] > 0

Tables == [Surfaces -> Contents]

CopyInv ==
    /\ contents \in Tables
    /\ \A s \in Surfaces : Settled(s) => Good(contents[s], Locked(s), InUse(s))

-----------------------------------------------------------------------------
(* What the calls make of good contents.                                   *)

LEMMA GoodWeakens ==
    ASSUME NEW r \in Contents, NEW l \in BOOLEAN, NEW u \in BOOLEAN,
           NEW l2 \in BOOLEAN, NEW u2 \in BOOLEAN,
           Good(r, l, u), l2 => l, u => u2
    PROVE  Good(r, l2, u2)
  BY DEF Good

LEMMA BlankIsGood ==
    ASSUME NEW imported \in BOOLEAN, NEW u \in BOOLEAN
    PROVE  Blank(imported) \in Contents /\ Good(Blank(imported), FALSE, u)
  BY DEF Blank, Contents, Memories, Good, HasMemory, MemoryOf

LEMMA ArrivedIsGood ==
    ASSUME NEW r \in Contents, NEW l \in BOOLEAN, NEW u \in BOOLEAN
    PROVE  FrameArrived(r) \in Contents /\ Good(FrameArrived(r), l, u)
  BY DEF FrameArrived, Contents, Memories, Good, HasMemory, MemoryOf

(* The calls leave contents that are not good with their type.             *)
LEMMA ResultTypes ==
    ASSUME NEW r \in Contents
    PROVE  /\ [FrameReturned(r) EXCEPT !.newest = {}] \in Contents
           /\ Loaded(r) \in Contents
           /\ Uploaded(r) \in Contents /\ UploadFailed(r) \in Contents
           /\ StagingStale(r) \in Contents /\ Written(r) \in Contents
           /\ [Written(r) EXCEPT !.raw_data_valid = FALSE, !.raw_data_dirty = FALSE]
                 \in Contents
  <1>2. /\ [FrameReturned(r) EXCEPT !.newest = {}] \in Contents
        /\ StagingStale(r) \in Contents /\ Written(r) \in Contents
    BY DEF FrameReturned, StagingStale, Written, MemoryOf, Contents, Memories
  <1>3. Loaded(r) \in Contents
    BY DEF Loaded, Copied, Contents, Memories
  <1>4. Uploaded(r) \in Contents /\ UploadFailed(r) \in Contents
    BY DEF Uploaded, UploadFailed, NeedsUpload, Copied, Contents, Memories
  <1>5. [Written(r) EXCEPT !.raw_data_valid = FALSE, !.raw_data_dirty = FALSE] \in Contents
    BY <1>2 DEF Contents
  <1> QED
    BY <1>2, <1>3, <1>4, <1>5

LEMMA LoadedIsGood ==
    ASSUME NEW r \in Contents, NEW l \in BOOLEAN, NEW u \in BOOLEAN, Good(r, l, u)
    PROVE  Good(Loaded(r), l, u)
  BY DEF Loaded, Copied, Contents, Memories, Good, HasMemory, MemoryOf

LEMMA UploadedIsGood ==
    ASSUME NEW r \in Contents, NEW l \in BOOLEAN, NEW u \in BOOLEAN, Good(r, l, u)
    PROVE  /\ Good(Uploaded(r), l, u) /\ Good(UploadFailed(r), l, u)
           /\ HasMemory(Uploaded(r)) => ~Uploaded(r).raw_data_dirty \/ r.has_decoded_frame
  <1>2. Good(Uploaded(r), l, u)
    BY DEF Uploaded, NeedsUpload, Copied, Contents, Memories, Good, HasMemory, MemoryOf
  <1>3. Good(UploadFailed(r), l, u)
    BY DEF UploadFailed, NeedsUpload, Contents, Memories, Good, HasMemory, MemoryOf
  <1>4. HasMemory(Uploaded(r)) => ~Uploaded(r).raw_data_dirty \/ r.has_decoded_frame
    BY DEF Uploaded, NeedsUpload, Copied, Contents, HasMemory
  <1> QED
    BY <1>2, <1>3, <1>4

LEMMA AllocatedIsGood ==
    ASSUME NEW r \in Contents, NEW l \in BOOLEAN, NEW u \in BOOLEAN, Good(r, l, u)
    PROVE  /\ Allocated(r) \in Contents /\ Good(Allocated(r), l, u)
           /\ HasMemory(Allocated(r))
           /\ Allocated(r).has_decoded_frame = r.has_decoded_frame
  BY DEF Allocated, Contents, Memories, Good, HasMemory, MemoryOf

(* Nobody is let in before there is memory that is up to date.             *)
LEMMA PreparedIsGood ==
    ASSUME NEW r \in Contents, NEW l \in BOOLEAN, NEW u \in BOOLEAN, Good(r, l, u)
    PROVE  /\ Prepared(r) \in Contents /\ Good(Prepared(r), TRUE, u)
           /\ PrepareFailed(r) \in Contents /\ Good(PrepareFailed(r), l, u)
  <1>1. CASE r.has_decoded_frame
    BY <1>1 DEF Prepared, PrepareFailed, Good, HasMemory
  <1>2. CASE ~r.has_decoded_frame
    <2> DEFINE a == Allocated(r)
    <2>1. a \in Contents /\ Good(a, l, u) /\ HasMemory(a) /\ ~a.has_decoded_frame
      BY <1>2, AllocatedIsGood
    <2>2. Prepared(r) = Uploaded(a) /\ PrepareFailed(r) = UploadFailed(a)
      BY <1>2 DEF Prepared, PrepareFailed
    <2> HIDE DEF a
    <2>3. HasMemory(Uploaded(a))
      BY <2>1 DEF Uploaded, Copied, HasMemory, Contents
    <2>4. ~Uploaded(a).raw_data_dirty
      BY <2>1, <2>3, UploadedIsGood
    <2>5. Uploaded(a) \in Contents /\ Good(Uploaded(a), l, u)
      BY <2>1, UploadedIsGood, ResultTypes
    <2>6. Good(Uploaded(a), TRUE, u)
      BY <2>3, <2>4, <2>5 DEF Good
    <2> QED
      BY <2>1, <2>2, <2>5, <2>6, UploadedIsGood, ResultTypes
  <1> QED
    BY <1>1, <1>2

(* Who works in a locked surface's memory may write it, and the staging    *)
(* copy is dropped when he leaves.                                         *)
LEMMA StaleIsGood ==
    ASSUME NEW r \in Contents, NEW l \in BOOLEAN, NEW u \in BOOLEAN, NEW u2 \in BOOLEAN,
           Good(r, TRUE, u)
    PROVE  Good(StagingStale(r), l, u2)
  BY DEF StagingStale, Contents, Memories, Good, HasMemory, MemoryOf

LEMMA WrittenIsGood ==
    ASSUME NEW r \in Contents, NEW l \in BOOLEAN, NEW u \in BOOLEAN, NEW u2 \in BOOLEAN,
           Good(r, TRUE, u)
    PROVE  /\ Good(Written(r), l, TRUE)
           /\ Good(StagingStale(Written(r)), l, u2)
           /\ Good([Written(r) EXCEPT !.raw_data_valid = FALSE, !.raw_data_dirty = FALSE],
                   l, u2)
  <1>1. Written(r) \in Contents /\ Good(Written(r), TRUE, TRUE)
    BY DEF Written, Contents, Memories, Good, HasMemory, MemoryOf
  <1>2. [Written(r) EXCEPT !.raw_data_valid = FALSE, !.raw_data_dirty = FALSE]
              = StagingStale(Written(r))
    BY DEF Written, StagingStale, Contents, Good
  <1>3. Good(Written(r), l, TRUE)
    BY <1>1, GoodWeakens
  <1> QED
    BY <1>1, <1>2, <1>3, StaleIsGood

(* vaPutImage builds on the newest picture there is.                       *)
LEMMA PutIsGood ==
    ASSUME NEW r \in Contents, Good(r, FALSE, FALSE), NEW q \in PutResults(r)
    PROVE  q \in Contents /\ Good(q, FALSE, FALSE)
  <1> DEFINE staged == IF r.has_decoded_frame /\ ~r.raw_data_valid
                       THEN Copied([r EXCEPT !.raw_data_valid = TRUE], "frame", "staging")
                       ELSE Loaded(r)
             edited == Edited(FrameReturned(staged))
  <1>1. q \in {staged, Uploaded(edited), UploadFailed(edited)}
    BY DEF PutResults
  <1>2. staged \in Contents /\ Good(staged, FALSE, FALSE)
    <2>1. CASE r.has_decoded_frame /\ ~r.raw_data_valid
      BY <2>1 DEF Copied, Contents, Memories, Good, HasMemory, MemoryOf
    <2>2. CASE ~(r.has_decoded_frame /\ ~r.raw_data_valid)
      BY <2>2, LoadedIsGood, ResultTypes
    <2> QED
      BY <2>1, <2>2
  <1>3. "staging" \in staged.newest
    BY DEF Copied, Loaded, Contents, Memories, Good, HasMemory, MemoryOf
  <1> HIDE DEF staged
  <1>4. edited \in Contents /\ Good(edited, FALSE, FALSE)
    BY <1>2, <1>3 DEF Edited, FrameReturned, Contents, Memories, Good, HasMemory, MemoryOf
  <1> HIDE DEF edited
  <1> QED
    BY <1>1, <1>2, <1>4, UploadedIsGood, ResultTypes

LEMMA EncodeIsGood ==
    ASSUME NEW r \in Contents, NEW q \in EncodeResults(r)
    PROVE  /\ q \in Contents
           /\ \A l, u \in BOOLEAN : Good(r, l, u) => Good(q, l, u)
  <1>1. Loaded(r) \in Contents
    BY ResultTypes
  <1>2. q \in Contents
    BY <1>1, ResultTypes DEF EncodeResults
  <1>3. ASSUME NEW l \in BOOLEAN, NEW u \in BOOLEAN, Good(r, l, u) PROVE Good(q, l, u)
    <2>1. Good(Loaded(r), l, u)
      BY <1>3, LoadedIsGood
    <2> QED
      BY <1>1, <1>3, <2>1, UploadedIsGood DEF EncodeResults
  <1> QED
    BY <1>2, <1>3

-----------------------------------------------------------------------------
(* How a step disturbs a surface.                                          *)

(* A step that settles, locks or leaves s does more than is stated here.   *)
Undisturbed(s) ==
    Settled(s)' => /\ Settled(s)
                   /\ Locked(s)' => Locked(s)
                   /\ InUse(s) => InUse(s)'

LEMMA FlagsAreBoolean ==
    ASSUME NEW s
    PROVE  /\ Locked(s) \in BOOLEAN /\ Locked(s)' \in BOOLEAN
           /\ InUse(s) \in BOOLEAN /\ InUse(s)' \in BOOLEAN
  BY DEF Locked, InUse

LEMMA CopiesStay ==
    ASSUME CopyInv, UNCHANGED contents, \A s \in Surfaces : Undisturbed(s)
    PROVE  CopyInv'
  <1> SUFFICES ASSUME NEW s \in Surfaces, Settled(s)'
               PROVE  Good(contents[s], Locked(s)', InUse(s)')
    BY DEF CopyInv
  <1>1. contents[s] \in Contents /\ Good(contents[s], Locked(s), InUse(s))
    BY DEF CopyInv, Undisturbed, Tables
  <1> QED
    BY <1>1 DEF Undisturbed, Good

LEMMA CopiesChange ==
    ASSUME CopyInv, NEW x \in Surfaces, NEW r \in Contents, Becomes(x, r),
           Settled(x)' => Good(r, Locked(x)', InUse(x)'),
           \A s \in Surfaces : s # x => Undisturbed(s)
    PROVE  CopyInv'
  <1>1. /\ contents' \in Tables /\ contents'[x] = r
        /\ \A s \in Surfaces : s # x => contents'[s] = contents[s]
    BY DEF CopyInv, Becomes, Tables
  <1> SUFFICES ASSUME NEW s \in Surfaces, Settled(s)'
               PROVE  Good(contents'[s], Locked(s)', InUse(s)')
    BY <1>1 DEF CopyInv
  <1>2. CASE s = x
    BY <1>1, <1>2
  <1>3. CASE s # x
    <2>1. contents[s] \in Contents /\ Good(contents[s], Locked(s), InUse(s))
      BY <1>3 DEF CopyInv, Undisturbed, Tables
    <2> QED
      BY <1>1, <1>3, <2>1 DEF Undisturbed, Good
  <1> QED
    BY <1>2, <1>3

LEMMA StateStays ==
    ASSUME UNCHANGED <<allocated, decode_pending, decode_error, lock_count, cpu_access_count,
                       external_handle_count>>
    PROVE  \A s \in Surfaces : /\ Undisturbed(s) /\ Settled(s)' = Settled(s)
                              /\ Locked(s)' = Locked(s) /\ InUse(s)' = InUse(s)
  BY DEF Undisturbed, Settled, Locked, InUse

(* A lock, an image or a buffer of a surface shows in its counters.        *)
LEMMA WhoIsIn ==
    ASSUME DerivedUse, NEW s \in Surfaces
    PROVE  /\ Views(s) # {} \/ va_lock_count[s] > 0 \/ (\E b \in Buffers : Shows(b, s))
                 => Locked(s)
           /\ ~Locked(s) => ~InUse(s)
           /\ va_lock_count[s] > 0 \/ Mapped(s) # {} => InUse(s)
  <1>1. TypeOK /\ SlotInv /\ CountInv
    BY DEF DerivedUse, AnyUse
  <1>2. /\ lock_count[s] \in Nat /\ cpu_access_count[s] \in Nat /\ va_lock_count[s] \in Nat
        /\ external_handle_count[s] \in Nat
    BY <1>1 DEF TypeOK
  <1>3. ASSUME ~Locked(s)
        PROVE  /\ Views(s) = {} /\ va_lock_count[s] = 0 /\ \A b \in Buffers : ~Shows(b, s)
               /\ ~InUse(s)
    <2>1. lock_count[s] = 0
      BY <1>2, <1>3 DEF Locked
    <2> QED
      BY <1>1, <2>1, UnlockedIsQuiet DEF InUse
  <1>4. cpu_access_count[s] = va_lock_count[s] + Cardinality(Mapped(s))
    BY <1>1 DEF CountInv
  <1>5. Cardinality(Mapped(s)) \in Nat /\ (Mapped(s) # {} => Cardinality(Mapped(s)) # 0)
    BY CountedSetsAreFinite, FS_EmptySet
  <1> QED
    BY <1>2, <1>3, <1>4, <1>5 DEF InUse

-----------------------------------------------------------------------------
(* The steps.                                                              *)

LEMMA CreatedCopies ==
    ASSUME DerivedUse, CopyInv, NEW x \in Surfaces, CreateSurface(x),
           NEW imported \in BOOLEAN, Becomes(x, Blank(imported))
    PROVE  CopyInv'
  <1>1. TypeOK /\ LifeInv
    BY DEF DerivedUse, AnyUse
  <1>2. lock_count[x] = 0
    BY <1>1 DEF CreateSurface, LifeInv, TypeOK
  <1>3. /\ allocated' = [allocated EXCEPT ![x] = TRUE]
        /\ UNCHANGED <<decode_pending, decode_error, lock_count, cpu_access_count,
                       external_handle_count>>
    BY DEF CreateSurface, decVars, accessVars, countVars
  <1>4. \A s \in Surfaces : s # x => Undisturbed(s)
    BY <1>1, <1>3 DEF Undisturbed, Settled, Locked, InUse, TypeOK
  <1>5. ~Locked(x)'
    BY <1>2, <1>3 DEF Locked
  <1>6. Blank(imported) \in Contents /\ Good(Blank(imported), Locked(x)', InUse(x)')
    BY <1>5, BlankIsGood, FlagsAreBoolean DEF Good
  <1> QED
    BY <1>4, <1>6, CopiesChange

LEMMA DestroyedCopies ==
    ASSUME DerivedUse, CopyInv, NEW x \in Surfaces, DestroySurface(x), Becomes(x, Blank(FALSE))
    PROVE  CopyInv'
  <1>1. TypeOK
    BY DEF DerivedUse, AnyUse
  <1>2. /\ allocated' = [allocated EXCEPT ![x] = FALSE]
        /\ decode_error' = [decode_error EXCEPT ![x] = FALSE]
        /\ cpu_access_count' = [cpu_access_count EXCEPT ![x] = 0]
        /\ UNCHANGED <<decode_pending, lock_count, external_handle_count>>
    BY DEF DestroySurface
  <1>3. \A s \in Surfaces : s # x => Undisturbed(s)
    BY <1>1, <1>2 DEF Undisturbed, Settled, Locked, InUse, TypeOK
  <1>4. ~Settled(x)'
    BY <1>1, <1>2 DEF Settled, TypeOK
  <1> QED
    BY <1>3, <1>4, BlankIsGood, CopiesChange

LEMMA BegunCopies ==
    ASSUME DerivedUse, CopyInv, NEW x \in Surfaces, BeginDecode(x),
           Becomes(x, [FrameReturned(contents[x]) EXCEPT !.newest = {}])
    PROVE  CopyInv'
  <1>1. TypeOK
    BY DEF DerivedUse, AnyUse
  <1>2. /\ decode_pending' = [decode_pending EXCEPT ![x] = TRUE]
        /\ decode_error' = [decode_error EXCEPT ![x] = FALSE]
        /\ UNCHANGED <<allocated, lock_count, cpu_access_count, external_handle_count>>
    BY DEF BeginDecode, countVars
  <1>3. \A s \in Surfaces : s # x => Undisturbed(s)
    BY <1>1, <1>2 DEF Undisturbed, Settled, Locked, InUse, TypeOK
  <1>4. ~Settled(x)'
    BY <1>1, <1>2 DEF Settled, TypeOK
  <1>5. [FrameReturned(contents[x]) EXCEPT !.newest = {}] \in Contents
    BY ResultTypes DEF CopyInv, Tables
  <1> QED
    BY <1>3, <1>4, <1>5, CopiesChange

(* A lock, a view or an export: the memory is up to date first.            *)
LEMMA UsedCopies ==
    ASSUME DerivedUse, CopyInv, NEW x \in Surfaces, Use(x)
    PROVE  CopyInv'
  <1>1. TypeOK
    BY DEF DerivedUse, AnyUse
  <1>2. /\ UNCHANGED <<allocated, decode_pending, decode_error, external_handle_count>>
        /\ Settled(x)
        /\ cpu_access_count' \in {cpu_access_count, [cpu_access_count EXCEPT ![x] = @ + 1]}
        /\ lock_count' \in {lock_count, [lock_count EXCEPT ![x] = @ + 1]}
    <2>1. CASE LockSurface(x)
      BY <2>1 DEF LockSurface, AsksLock, GrantLock, Settled, lifeVars, decVars
    <2>2. CASE ExportSurface(x)
      BY <2>2 DEF ExportSurface, AsksExport, Exported, Settled, decVars, countVars
    <2>3. CASE \E i \in Images, b \in Buffers : DeriveImage(x, i, b)
      BY <2>3 DEF DeriveImage, AsksDerive, GrantDerive, Settled, lifeVars, decVars
    <2> QED
      BY <2>1, <2>2, <2>3 DEF Use
  <1>3. \A s \in Surfaces : s # x => Undisturbed(s)
    BY <1>1, <1>2 DEF Undisturbed, Settled, Locked, InUse, TypeOK
  <1> DEFINE r == contents[x]
  <1>4. r \in Contents /\ Good(r, Locked(x), InUse(x))
    BY <1>2 DEF CopyInv, Tables
  <1>5. InUse(x) => InUse(x)'
    BY <1>1, <1>2 DEF InUse, TypeOK
  <1> HIDE DEF r
  <1>6. Prepared(r) \in Contents /\ Good(Prepared(r), TRUE, InUse(x))
    BY <1>4, PreparedIsGood, FlagsAreBoolean
  <1>7. Good(Prepared(r), Locked(x)', InUse(x)')
    BY <1>5, <1>6 DEF Good
  <1> QED
    BY <1>3, <1>6, <1>7, CopiesChange DEF Use, r

LEMMA FailedCopies ==
    ASSUME DerivedUse, CopyInv, NEW x \in Surfaces, UseFails(x)
    PROVE  CopyInv'
  <1>1. UNCHANGED <<allocated, decode_pending, decode_error, lock_count, cpu_access_count,
                   external_handle_count>>
    BY DEF UseFails, vars, lifeVars, decVars, accessVars, countVars
  <1>2. Settled(x)
    BY DEF UseFails, AsksLock, Settled
  <1> DEFINE r == contents[x]
  <1>3. r \in Contents /\ Good(r, Locked(x), InUse(x))
    BY <1>2 DEF CopyInv, Tables
  <1> HIDE DEF r
  <1>4. PICK q \in {Prepared(r), PrepareFailed(r), Loaded(r)} : Becomes(x, q)
    BY DEF UseFails, r
  <1>5. q \in Contents /\ Good(q, Locked(x), InUse(x))
    <2>1. /\ Prepared(r) \in Contents /\ Good(Prepared(r), TRUE, InUse(x))
          /\ PrepareFailed(r) \in Contents /\ Good(PrepareFailed(r), Locked(x), InUse(x))
      BY <1>3, PreparedIsGood, FlagsAreBoolean
    <2>2. Good(Prepared(r), Locked(x), InUse(x))
      BY <2>1 DEF Good
    <2>3. Loaded(r) \in Contents /\ Good(Loaded(r), Locked(x), InUse(x))
      BY <1>3, LoadedIsGood, ResultTypes, FlagsAreBoolean
    <2> QED
      BY <1>4, <2>1, <2>2, <2>3
  <1>6. Good(q, Locked(x)', InUse(x)')
    BY <1>1, <1>5, StateStays
  <1> QED
    BY <1>1, <1>4, <1>5, <1>6, StateStays, CopiesChange

LEMMA UnlockedCopies ==
    ASSUME DerivedUse, CopyInv, NEW x \in Surfaces, UnlockSurface(x),
           Becomes(x, StagingStale(contents[x]))
    PROVE  CopyInv'
  <1>1. TypeOK
    BY DEF DerivedUse, AnyUse
  <1>2. /\ UNCHANGED <<allocated, decode_pending, decode_error, external_handle_count>>
        /\ lock_count' = [lock_count EXCEPT ![x] = @ - 1]
        /\ cpu_access_count' = [cpu_access_count EXCEPT ![x] = @ - 1]
    BY DEF UnlockSurface, lifeVars, decVars
  <1>3. \A s \in Surfaces : s # x => Undisturbed(s)
    BY <1>1, <1>2 DEF Undisturbed, Settled, Locked, InUse, TypeOK
  <1>4. Locked(x)
    BY DEF UnlockSurface, MayUnlock, Locked
  <1> DEFINE r == contents[x]
  <1>5. r \in Contents /\ StagingStale(r) \in Contents
    BY ResultTypes DEF CopyInv, Tables
  <1>6. ASSUME Settled(x)' PROVE Good(StagingStale(r), Locked(x)', InUse(x)')
    <2>1. Settled(x)
      BY <1>2, <1>6 DEF Settled
    <2>2. Good(r, TRUE, InUse(x))
      BY <1>4, <2>1 DEF CopyInv, Good
    <2> HIDE DEF r
    <2> QED
      BY <1>5, <2>2, StaleIsGood, FlagsAreBoolean
  <1> QED
    BY <1>3, <1>5, <1>6, CopiesChange

LEMMA WrittenCopies ==
    ASSUME DerivedUse, CopyInv, NEW x \in Surfaces, CpuWrite(x),
           Becomes(x, Written(contents[x]))
    PROVE  CopyInv'
  <1>1. UNCHANGED <<allocated, decode_pending, decode_error, lock_count, cpu_access_count,
                   external_handle_count>>
    BY DEF CpuWrite, lifeVars, decVars, countVars
  <1>2. va_lock_count[x] > 0 \/ \E b \in Mapped(x) : Shows(b, x)
    BY DEF CpuWrite, Mapped, Shows
  <1>3. Locked(x) /\ InUse(x)
    BY <1>2, WhoIsIn DEF Mapped
  <1> DEFINE r == contents[x]
  <1>4. r \in Contents /\ Written(r) \in Contents
    BY ResultTypes DEF CopyInv, Tables
  <1>5. ASSUME Settled(x) PROVE Good(Written(r), Locked(x), InUse(x))
    <2>1. Good(r, TRUE, InUse(x))
      BY <1>3, <1>5 DEF CopyInv, Good
    <2> HIDE DEF r
    <2>2. Good(Written(r), TRUE, TRUE)
      BY <1>4, <2>1, WrittenIsGood, FlagsAreBoolean
    <2> QED
      BY <1>3, <2>2 DEF Good
  <1> QED
    BY <1>1, <1>4, <1>5, StateStays, CopiesChange

LEMMA EncodedCopies ==
    ASSUME DerivedUse, CopyInv, NEW e \in Encoders, EndEncode(e),
           NEW q \in EncodeResults(contents[encoding[e]]), Becomes(encoding[e], q)
    PROVE  CopyInv'
  <1> DEFINE x == encoding[e]
             r == contents[x]
  <1>1. UNCHANGED <<allocated, decode_pending, decode_error, lock_count, cpu_access_count,
                   external_handle_count>>
    BY DEF EndEncode, lifeVars, decVars, accessVars, countVars
  <1>2. x \in Surfaces
    BY DEF DerivedUse, AnyUse, TypeOK, EndEncode
  <1>3. r \in Contents
    BY <1>2 DEF CopyInv, Tables
  <1>4. q \in Contents /\ \A l, u \in BOOLEAN : Good(r, l, u) => Good(q, l, u)
    BY <1>3, EncodeIsGood
  <1>5. Settled(x) => Good(q, Locked(x), InUse(x))
    BY <1>2, <1>4, FlagsAreBoolean DEF CopyInv
  <1> HIDE DEF x, r
  <1> QED
    BY <1>1, <1>2, <1>4, <1>5, StateStays, CopiesChange DEF x

(* vaGetImage and vaPutImage, called or going on after a wait: of the      *)
(* contents as in table, which are good where the surface is settled, they *)
(* make good contents.                                                     *)
Ready(table) ==
    /\ table \in Tables
    /\ \A s \in Surfaces : Settled(s)' => Good(table[s], Locked(s), InUse(s))

LEMMA ReadyIsEnough ==
    ASSUME Ready(contents'),
           UNCHANGED <<lock_count, cpu_access_count, external_handle_count>>
    PROVE  CopyInv'
  BY DEF Ready, CopyInv, Locked, InUse

LEMMA ReadyChanges ==
    ASSUME NEW table, Ready(table), NEW x \in Surfaces, NEW q \in Contents,
           Settled(x)' => Good(q, Locked(x), InUse(x))
    PROVE  Ready([table EXCEPT ![x] = q])
  BY DEF Ready, Tables

LEMMA ViewIsWritten ==
    ASSUME NEW table, Ready(table), NEW d \in Surfaces, Locked(d)
    PROVE  Ready([table EXCEPT ![d] = StagingStale(Written(@))])
  <1> DEFINE r == table[d]
  <1>1. r \in Contents
    BY DEF Ready, Tables
  <1>2. StagingStale(Written(r)) \in Contents
    BY <1>1, ResultTypes
  <1>3. ASSUME Settled(d)' PROVE Good(StagingStale(Written(r)), Locked(d), InUse(d))
    <2>1. Good(r, TRUE, InUse(d))
      BY <1>3 DEF Ready, Good
    <2> HIDE DEF r
    <2> QED
      BY <1>1, <2>1, WrittenIsGood, FlagsAreBoolean
  <1> QED
    BY <1>2, <1>3, ReadyChanges

LEMMA LoadIsGood ==
    ASSUME NEW table, Ready(table), NEW x \in Surfaces
    PROVE  /\ Loaded(table[x]) \in Contents
           /\ Settled(x)' => Good(Loaded(table[x]), Locked(x), InUse(x))
           /\ Ready([table EXCEPT ![x] = Loaded(@)])
  <1> DEFINE r == table[x]
  <1>1. r \in Contents /\ Loaded(r) \in Contents
    BY ResultTypes DEF Ready, Tables
  <1>2. ASSUME Settled(x)' PROVE Good(Loaded(r), Locked(x), InUse(x))
    <2>1. Good(r, Locked(x), InUse(x))
      BY <1>2 DEF Ready
    <2> HIDE DEF r
    <2> QED
      BY <1>1, <2>1, LoadedIsGood, FlagsAreBoolean
  <1> QED
    BY <1>1, <1>2, ReadyChanges

LEMMA ReadIsGood ==
    ASSUME DerivedUse, NEW table, Ready(table), NEW x \in Surfaces, NEW i \in Images,
           ImageIsQuiet(i)
    PROVE  Ready(Read(table, x, i))
  <1> DEFINE b == image[i].buf_id
             loaded == [table EXCEPT ![x] = Loaded(@)]
  <1>1. Ready(loaded)
    BY LoadIsGood
  <1>2. CASE image[i].surface_id = NoSurface
    BY <1>1, <1>2 DEF Read
  <1>3. CASE image[i].surface_id # NoSurface
    <2>1. b \in Buffers /\ buffer[b] # NoBuffer /\ IsDerived(b)
      BY <1>3 DEF ImageIsQuiet, DerivedUse, AnyUse, TypeOK, ImageStates
    <2>2. PICK d \in Surfaces : buffer[b].data = d /\ DerivedFrom(b) = d
      BY <2>1, DerivedIsData DEF IsDerived, DerivedUse, AnyUse, TypeOK, BufferStates, Targets
    <2>3. Locked(d)
      <3>1. Shows(b, d)
        BY <2>1, <2>2 DEF Shows
      <3> QED
        BY <2>1, <3>1, WhoIsIn
    <2>4. Read(table, x, i) = [[loaded EXCEPT ![d] = Written(@)]
                                       EXCEPT ![d] = StagingStale(@)]
      BY <1>3, <2>2 DEF Read
    <2> HIDE DEF loaded
    <2>5. Read(table, x, i) = [loaded EXCEPT ![d] = StagingStale(Written(@))]
      BY <1>1, <2>4 DEF Ready, Tables
    <2>6. Ready([loaded EXCEPT ![d] = StagingStale(Written(@))])
      BY <1>1, <2>3, ViewIsWritten
    <2> QED
      BY <2>5, <2>6
  <1> QED
    BY <1>2, <1>3

LEMMA StoredIsGood ==
    ASSUME DerivedUse, NEW table, Ready(table), NEW x \in Surfaces, Settled(x)', AsksPut(x),
           NEW q \in PutResults(table[x])
    PROVE  q \in Contents /\ Good(q, Locked(x), InUse(x))
  <1>1. ~Locked(x) /\ ~InUse(x)
    <2>1. ~Locked(x)
      BY DEF AsksPut, Locked
    <2> QED
      BY <2>1, WhoIsIn
  <1> DEFINE r == table[x]
  <1>2. r \in Contents /\ Good(r, Locked(x), InUse(x))
    BY DEF Ready, Tables
  <1> HIDE DEF r
  <1>3. Good(r, FALSE, FALSE)
    BY <1>1, <1>2 DEF Good
  <1>4. q \in Contents /\ Good(q, FALSE, FALSE)
    BY <1>2, <1>3, PutIsGood DEF r
  <1> QED
    BY <1>1, <1>4 DEF Good

(* The state before a step that settles no surface is ready.               *)
LEMMA ReadyStays ==
    ASSUME CopyInv, UNCHANGED <<allocated, decode_pending, decode_error>>
    PROVE  Ready(contents)
  BY DEF CopyInv, Ready, Settled

LEMMA ReadCopies ==
    ASSUME DerivedUse, CopyInv, NEW x \in Surfaces, NEW i \in Images, Get(x, i)
    PROVE  CopyInv'
  <1>1. UNCHANGED <<allocated, decode_pending, decode_error, lock_count, cpu_access_count,
                   external_handle_count>>
    BY DEF Get, GetImage, GrantGet, lifeVars, decVars, countVars
  <1>2. ImageIsQuiet(i) /\ contents' = Read(contents, x, i)
    BY DEF Get, GetImage, GrantGet
  <1>3. Ready(contents')
    BY <1>1, <1>2, ReadyStays, ReadIsGood
  <1> QED
    BY <1>1, <1>3, ReadyIsEnough

LEMMA StoredCopies ==
    ASSUME DerivedUse, CopyInv, NEW x \in Surfaces, NEW i \in Images, Put(x, i)
    PROVE  CopyInv'
  <1>1. UNCHANGED <<allocated, decode_pending, decode_error, lock_count, cpu_access_count,
                   external_handle_count>>
    BY DEF Put, PutImage, GrantPut, lifeVars, decVars, countVars
  <1>2. Settled(x)' /\ AsksPut(x)
    BY <1>1 DEF Put, PutImage, GrantPut, AsksPut, Settled
  <1>3. PICK q \in PutResults(contents[x]) : contents' = [contents EXCEPT ![x] = q]
    BY DEF Put, Becomes
  <1>4. Ready(contents)
    BY <1>1, ReadyStays
  <1>5. q \in Contents /\ Good(q, Locked(x), InUse(x))
    BY <1>2, <1>4, StoredIsGood
  <1>6. Ready(contents')
    BY <1>3, <1>4, <1>5, ReadyChanges
  <1> QED
    BY <1>1, <1>6, ReadyIsEnough

(* The end of a view's CPU access, and of a device's.                      *)
LEMMA EndedCopies ==
    ASSUME DerivedUse, CopyInv, NEW b \in Buffers, EndUse(b)
    PROVE  CopyInv'
  <1>t. TypeOK /\ SlotInv
    BY DEF DerivedUse, AnyUse
  <1>1. buffer[b] # NoBuffer /\ UNCHANGED <<allocated, decode_pending, decode_error, lock_count>>
    BY DEF EndUse, UnmapBuffer, ReleaseBufferHandle, lifeVars, decVars
  <1>2. ASSUME NEW x \in Surfaces, DerivedFrom(b) = x,
               UNCHANGED cpu_access_count \/ UNCHANGED external_handle_count,
               \A s \in Surfaces : s # x =>
                  /\ cpu_access_count'[s] = cpu_access_count[s]
                  /\ external_handle_count'[s] = external_handle_count[s],
               NEW q \in {StagingStale(contents[x]),
                          [Written(contents[x]) EXCEPT !.raw_data_valid = FALSE,
                                                       !.raw_data_dirty = FALSE]},
               Becomes(x, q)
        PROVE  CopyInv'
    <2> DEFINE r == contents[x]
    <2>1. \A s \in Surfaces : Settled(s)' = Settled(s) /\ Locked(s)' = Locked(s)
      BY <1>1 DEF Settled, Locked
    <2>2. \A s \in Surfaces : s # x => Undisturbed(s)
      BY <1>2, <2>1 DEF Undisturbed, InUse
    <2>3. Locked(x)
      <3>1. Shows(b, x)
        BY <1>t, <1>1, <1>2, DerivedIsData DEF Shows
      <3> QED
        BY <3>1, WhoIsIn
    <2>4. r \in Contents /\ q \in Contents
      BY <1>2, ResultTypes DEF CopyInv, Tables
    <2>5. ASSUME Settled(x)' PROVE Good(q, Locked(x)', InUse(x)')
      <3>1. Good(r, TRUE, InUse(x))
        BY <2>1, <2>3, <2>5 DEF CopyInv, Good
      <3> HIDE DEF r
      <3>2. q \in {StagingStale(r), [Written(r) EXCEPT !.raw_data_valid = FALSE,
                                                      !.raw_data_dirty = FALSE]}
        BY <1>2 DEF r
      <3> QED
        BY <2>4, <3>1, <3>2, StaleIsGood, WrittenIsGood, FlagsAreBoolean
    <2> QED
      BY <1>2, <2>2, <2>4, <2>5, CopiesChange
  <1>3. buffer[b].data \in Targets /\ DerivedFrom(b) = buffer[b].data
    BY <1>t, <1>1, DerivedIsData DEF TypeOK, BufferStates, Targets
  <1>4. CASE UnmapBuffer(b) /\ ~LastMap(b) /\ UNCHANGED contents
    <2>1. UNCHANGED <<cpu_access_count, external_handle_count>>
      BY <1>4 DEF UnmapBuffer
    <2> QED
      BY <1>1, <1>4, <2>1, StateStays, CopiesStay
  <1>5. CASE /\ UnmapBuffer(b) /\ LastMap(b)
             /\ Becomes(DerivedFrom(b), StagingStale(contents[DerivedFrom(b)]))
    <2>1. PICK x \in Surfaces : DerivedFrom(b) = x
      BY <1>3, <1>5 DEF UnmapBuffer, Targets
    <2>2. /\ UNCHANGED external_handle_count
          /\ cpu_access_count' = [cpu_access_count EXCEPT ![x] = @ - 1]
      BY <1>5, <2>1 DEF UnmapBuffer
    <2> QED
      BY <1>2, <1>5, <1>t, <2>1, <2>2 DEF TypeOK
  <1>6. CASE /\ ReleaseBufferHandle(b)
             /\ LET written == [contents EXCEPT ![buffer[b].data] = Written(@)]
                IN  contents' = [written EXCEPT ![DerivedFrom(b)].raw_data_valid = FALSE,
                                                ![DerivedFrom(b)].raw_data_dirty = FALSE]
    <2>1. PICK x \in Surfaces : DerivedFrom(b) = x
      BY <1>3, <1>6 DEF ReleaseBufferHandle, Targets
    <2>2. /\ UNCHANGED cpu_access_count
          /\ external_handle_count' = [external_handle_count EXCEPT
                                           ![x] = IF @ > 0 THEN @ - 1 ELSE @]
      BY <1>6, <2>1 DEF ReleaseBufferHandle
    <2>3. Becomes(x, [Written(contents[x]) EXCEPT !.raw_data_valid = FALSE,
                                                  !.raw_data_dirty = FALSE])
      <3> DEFINE written == [contents EXCEPT ![x] = Written(contents[x])]
      <3>1. contents' = [written EXCEPT ![x] = [@ EXCEPT !.raw_data_valid = FALSE,
                                                         !.raw_data_dirty = FALSE]]
        BY <1>3, <1>6, <2>1
      <3>2. written[x] = Written(contents[x])
        BY DEF CopyInv, Tables
      <3> QED
        BY <3>1, <3>2 DEF Becomes, CopyInv, Tables
    <2> QED
      BY <1>2, <1>t, <2>1, <2>2, <2>3 DEF TypeOK
  <1> QED
    BY <1>4, <1>5, <1>6 DEF EndUse

(* Calls that leave the contents alone settle and lock nothing, and begin  *)
(* uses but end none.                                                      *)
LEMMA OtherCopies ==
    ASSUME DerivedUse, CopyInv, Others
    PROVE  CopyInv'
  <1>t. TypeOK
    BY DEF DerivedUse, AnyUse
  <1>c. UNCHANGED contents
    BY DEF Others
  <1>1. CASE UNCHANGED <<allocated, decode_pending, decode_error, lock_count, cpu_access_count,
                         external_handle_count>>
    BY <1>c, <1>1, StateStays, CopiesStay
  <1>2. ASSUME NEW i \in Images, DestroyImage(i) PROVE CopyInv'
    <2>1. /\ UNCHANGED <<allocated, decode_pending, decode_error, cpu_access_count,
                         external_handle_count>>
          /\ UNCHANGED lock_count
                \/ \E s : lock_count' = [lock_count EXCEPT ![s] = @ - 1]
      BY <1>2 DEF DestroyImage, DropLock, lifeVars, decVars
    <2>2. \A s \in Surfaces : Undisturbed(s)
      BY <1>t, <2>1 DEF Undisturbed, Settled, Locked, InUse, TypeOK
    <2> QED
      BY <1>c, <2>2, CopiesStay
  <1>3. ASSUME NEW b \in Buffers, MapBuffer(b) \/ AcquireBufferHandle(b) PROVE CopyInv'
    <2>1. /\ UNCHANGED <<allocated, decode_pending, decode_error, lock_count>>
          /\ \/ UNCHANGED <<cpu_access_count, external_handle_count>>
             \/ /\ \E s : cpu_access_count' = [cpu_access_count EXCEPT ![s] = @ + 1]
                /\ UNCHANGED external_handle_count
             \/ /\ \E s : external_handle_count' = [external_handle_count EXCEPT ![s] = @ + 1]
                /\ UNCHANGED cpu_access_count
      BY <1>3 DEF MapBuffer, AcquireBufferHandle, lifeVars, decVars
    <2>2. \A s \in Surfaces : Undisturbed(s)
      BY <1>t, <2>1 DEF Undisturbed, Settled, Locked, InUse, TypeOK
    <2> QED
      BY <1>c, <2>2, CopiesStay
  <1>4. CASE EndDecode
    <2>1. /\ UNCHANGED <<allocated, lock_count, cpu_access_count, external_handle_count>>
          /\ \/ UNCHANGED <<decode_pending, decode_error>>
             \/ /\ decode_pending' = [decode_pending EXCEPT ![render_target] = FALSE]
                /\ decode_error' = [decode_error EXCEPT ![render_target] = TRUE]
      BY <1>4 DEF EndDecode, lifeVars, accessVars, countVars
    <2>2. \A s \in Surfaces : Undisturbed(s)
      BY <1>t, <2>1 DEF Undisturbed, Settled, Locked, InUse, TypeOK
    <2> QED
      BY <1>c, <2>2, CopiesStay
  <1>5. ASSUME NEW u \in Threads, MeetsPending(u) PROVE CopyInv'
    <2>1. UNCHANGED <<allocated, decode_pending, decode_error, lock_count, cpu_access_count,
                     external_handle_count>>
      BY <1>5, MeetsCases DEF Begins, Wait, lifeVars, countVars
    <2> QED
      BY <1>1, <2>1
  <1>6. ASSUME NEW s \in Surfaces, FlushThenFail(s) \/ \E e \in Encoders : BeginEncode(e, s)
        PROVE  CopyInv'
    BY <1>1, <1>6 DEF FlushThenFail, BeginEncode, lifeVars, decVars, countVars
  <1>7. ASSUME NEW b \in Buffers,
               \/ CreateBuffer(b) \/ DestroyBuffer(b)
               \/ \E i \in Images : CreateImage(i, b)
        PROVE  CopyInv'
    BY <1>1, <1>7 DEF CreateBuffer, DestroyBuffer, CreateImage, lifeVars, decVars, countVars
  <1>8. CASE DeviceDone \/ \E e \in Encoders : InputConsumed(e)
    BY <1>1, <1>8 DEF DeviceDone, InputConsumed, lifeVars, decVars, accessVars, countVars
  <1> QED
    BY <1>2, <1>3, <1>4, <1>5, <1>6, <1>7, <1>8 DEF Others

-----------------------------------------------------------------------------
(* Calls that waited.                                                      *)

(* A call that goes on, or fails, without a lock being granted.            *)
LEMMA ContinuedReady ==
    ASSUME NothingDerived, DerivedUse, NEW c, WaitingCall(c), NEW x \in Surfaces, c.surf = x,
           NEW table, Ready(table), Settled(x)', contents' \in Continued(c, table)
    PROVE  Ready(contents')
  <1> DEFINE r == table[x]
             prepared == IF c.op = "export" \/ HasMemory(r)
                         THEN {Prepared(r), PrepareFailed(r)} ELSE {}
  <1>1. r \in Contents /\ Good(r, Locked(x), InUse(x))
    BY DEF Ready, Tables
  <1>2. ASSUME NEW q \in Contents, Good(q, Locked(x), InUse(x)),
               contents' = [table EXCEPT ![x] = q]
        PROVE  Ready(contents')
    BY <1>2, ReadyChanges
  <1>3. CASE contents' = table
    BY <1>3
  <1>4. CASE c.op = "put" /\ contents' # table
    <2>1. CopiesNow(c) /\ \E q \in PutResults(r) : contents' = [table EXCEPT ![x] = q]
      BY <1>4 DEF Continued, With
    <2>2. AsksPut(x)
      BY <1>4, <2>1 DEF CopiesNow
    <2>3. PICK q \in PutResults(r) : contents' = [table EXCEPT ![x] = q]
      BY <2>1
    <2>4. q \in Contents /\ Good(q, Locked(x), InUse(x))
      BY <2>2, <2>3, StoredIsGood
    <2> QED
      BY <1>2, <2>3, <2>4
  <1>5. CASE c.op = "get" /\ contents' # table
    <2>1. /\ CopiesNow(c)
          /\ \/ contents' = Read(table, x, c.img)
             \/ contents' = [table EXCEPT ![x] = Loaded(r)]
      BY <1>5 DEF Continued, With
    <2>2. c.img \in Images /\ ImageIsQuiet(c.img)
      BY <1>5, <2>1 DEF CopiesNow, WaitingCall
    <2>3. CASE contents' = Read(table, x, c.img)
      BY <2>2, <2>3, ReadIsGood
    <2>4. CASE contents' = [table EXCEPT ![x] = Loaded(r)]
      BY <2>4, LoadIsGood
    <2> QED
      BY <2>1, <2>3, <2>4
  <1>6. CASE c.op \in {"lock", "export"} /\ contents' # table
    <2>1. PICK q \in {Prepared(r), PrepareFailed(r)} : contents' = [table EXCEPT ![x] = q]
      BY <1>6 DEF Continued, With
    <2> HIDE DEF r
    <2>2. /\ Prepared(r) \in Contents /\ Good(Prepared(r), TRUE, InUse(x))
          /\ PrepareFailed(r) \in Contents /\ Good(PrepareFailed(r), Locked(x), InUse(x))
      BY <1>1, PreparedIsGood, FlagsAreBoolean
    <2>3. Good(Prepared(r), Locked(x), InUse(x))
      BY <2>2 DEF Good
    <2> QED
      BY <1>2, <2>1, <2>2, <2>3
  <1>7. c.op \in {"sync", "lock", "get", "put", "export"}
    BY ConstantsAssumption DEF WaitingCall, NothingDerived
  <1>8. c.op = "sync" => contents' = table
    BY DEF Continued
  <1> QED
    BY <1>3, <1>4, <1>5, <1>6, <1>7, <1>8

(* A lock is granted once the memory is up to date.                        *)
LEMMA GrantedCopies ==
    ASSUME DerivedUse, NEW c, c.op = "lock", NEW x \in Surfaces, c.surf = x,
           NEW table, Ready(table), Settled(x)', GrantLock(x), contents' \in Continued(c, table)
    PROVE  CopyInv'
  <1> DEFINE r == table[x]
  <1>1. r \in Contents /\ Good(r, Locked(x), InUse(x))
    BY DEF Ready, Tables
  <1>2. /\ lock_count' = [lock_count EXCEPT ![x] = @ + 1]
        /\ cpu_access_count' = [cpu_access_count EXCEPT ![x] = @ + 1]
        /\ UNCHANGED external_handle_count /\ TypeOK
    BY DEF GrantLock, DerivedUse, AnyUse
  <1>3. lock_count'[x] # lock_count[x] /\ InUse(x)'
    BY <1>2 DEF TypeOK, InUse
  <1>4. contents' = [table EXCEPT ![x] = Prepared(r)]
    BY <1>3 DEF Continued, With
  <1> HIDE DEF r
  <1>5. Prepared(r) \in Contents /\ Good(Prepared(r), TRUE, InUse(x))
    BY <1>1, PreparedIsGood, FlagsAreBoolean
  <1>6. contents' \in Tables /\ contents'[x] = Prepared(r)
    BY <1>4, <1>5 DEF Ready, Tables
  <1>7. Good(contents'[x], Locked(x)', InUse(x)')
    BY <1>3, <1>5, <1>6 DEF Good
  <1>8. ASSUME NEW s \in Surfaces, s # x, Settled(s)'
        PROVE  Good(contents'[s], Locked(s)', InUse(s)')
    <2>1. contents'[s] = table[s]
      BY <1>4, <1>8 DEF Ready, Tables
    <2>2. Locked(s)' = Locked(s) /\ InUse(s)' = InUse(s)
      BY <1>2, <1>8 DEF Locked, InUse, TypeOK
    <2> QED
      BY <1>8, <2>1, <2>2 DEF Ready
  <1> QED
    BY <1>6, <1>7, <1>8 DEF CopyInv

LEMMA ContinuedCopies ==
    ASSUME NothingDerived, DerivedUse, NEW c, WaitingCall(c), NEW x \in Surfaces, c.surf = x,
           NEW table, Ready(table), Settled(x)', Continue(c) \/ UNCHANGED accessVars,
           contents' \in Continued(c, table)
    PROVE  CopyInv'
  <1>1. CASE UNCHANGED <<lock_count, cpu_access_count, external_handle_count>>
    BY <1>1, ContinuedReady, ReadyIsEnough
  <1>2. CASE c.op = "lock" /\ GrantLock(c.surf)
    BY <1>2, GrantedCopies
  <1>3. c.op # "derive"
    BY DEF WaitingCall, NothingDerived
  <1> QED
    BY <1>1, <1>2, <1>3, ContinueCases
    DEF GrantExport, GrantGet, GrantPut, accessVars, countVars

(* The counters of other surfaces than a thread's own stay.                *)
LEMMA OwnCounts ==
    ASSUME NothingDerived, TypeOK, NEW c, WaitingCall(c), Continue(c) \/ UNCHANGED accessVars,
           NEW s \in Surfaces, s # c.surf
    PROVE  Locked(s)' = Locked(s) /\ InUse(s)' = InUse(s)
  <1>1. UNCHANGED countVars \/ GrantLock(c.surf)
    BY ContinueSlots DEF accessVars
  <1> QED
    BY <1>1 DEF GrantLock, countVars, Locked, InUse, TypeOK

(* The picture of x arrives; nothing else is settled.                      *)
LEMMA ArrivedIsReady ==
    ASSUME CopyInv, NEW x \in Surfaces, UNCHANGED allocated,
           \A s \in Surfaces : s # x => /\ decode_pending'[s] = decode_pending[s]
                                       /\ decode_error'[s] = decode_error[s]
    PROVE  Ready([contents EXCEPT ![x] = FrameArrived(@)])
  <1> DEFINE q == FrameArrived(contents[x])
  <1>1. q \in Contents /\ Good(q, Locked(x), InUse(x))
    BY ArrivedIsGood, FlagsAreBoolean DEF CopyInv, Tables
  <1> HIDE DEF q
  <1>2. \A s \in Surfaces : s # x => Settled(s)' = Settled(s)
    BY DEF Settled
  <1>3. Ready([contents EXCEPT ![x] = q])
    BY <1>1, <1>2 DEF CopyInv, Ready, Tables
  <1> QED
    BY <1>3 DEF q

LEMMA DequeuedCopies ==
    ASSUME NothingDerived, DerivedUse, CopyInv, NEW t \in Threads, Dequeued(t)
    PROVE  CopyInv'
  <1>t. TypeOK /\ CallInv /\ LifeInv
    BY DEF DerivedUse, AnyUse
  <1> PICK c : c = call[t]
    OBVIOUS
  <1>1. PICK x \in Surfaces :
          LET own     == x = c.surf
              arrived == [contents EXCEPT ![x] = FrameArrived(@)]
          IN  /\ IF own THEN Resolve(t) ELSE ResolveEarlier(t, x)
              /\ IF decode_pending'[x] \/ decode_error'[x] THEN UNCHANGED contents
                 ELSE contents' \in IF own THEN Continued(c, arrived) ELSE {arrived}
    BY DEF Dequeued
  <1> DEFINE arrived == [contents EXCEPT ![x] = FrameArrived(@)]
  <1>2. CASE x # c.surf
    <2>1. /\ UNCHANGED <<allocated, lock_count, cpu_access_count, external_handle_count>>
          /\ decode_pending' = [decode_pending EXCEPT ![x] = FALSE]
          /\ \E failed : decode_error' = [decode_error EXCEPT ![x] = failed]
      BY <1>1, <1>2 DEF ResolveEarlier, lifeVars, accessVars, countVars
    <2>2. \A s \in Surfaces : s # x => /\ decode_pending'[s] = decode_pending[s]
                                      /\ decode_error'[s] = decode_error[s]
      BY <1>t, <2>1 DEF TypeOK
    <2>3. CASE decode_pending'[x] \/ decode_error'[x]
      <3>1. UNCHANGED contents
        BY <1>1, <2>3
      <3>2. \A s \in Surfaces : Undisturbed(s)
        BY <2>1, <2>2, <2>3 DEF Undisturbed, Settled, Locked, InUse
      <3> QED
        BY <3>1, <3>2, CopiesStay
    <2>4. CASE ~(decode_pending'[x] \/ decode_error'[x])
      <3>1. contents' = arrived
        BY <1>1, <1>2, <2>4
      <3> QED
        BY <2>1, <2>2, <3>1, ArrivedIsReady, ReadyIsEnough
    <2> QED
      BY <2>3, <2>4
  <1>3. CASE x = c.surf
    <2>1. Resolve(t)
      BY <1>1, <1>3
    <2>2. WaitingCall(c) /\ used[x] /\ (Continue(c) \/ UNCHANGED accessVars)
      BY <1>t, <1>3, <2>1, ResolveCases, WaitersCall DEF Fail
    <2>3. /\ UNCHANGED allocated
          /\ decode_pending' \in {decode_pending, [decode_pending EXCEPT ![x] = FALSE]}
          /\ decode_error' \in {decode_error, [decode_error EXCEPT ![x] = TRUE]}
      <3>1. /\ decode_pending' \in {decode_pending, [decode_pending EXCEPT ![call[t].surf] = FALSE]}
            /\ decode_error' \in {decode_error, [decode_error EXCEPT ![call[t].surf] = TRUE]}
            /\ UNCHANGED allocated
        BY <2>1 DEF Resolve
      <3> QED
        BY <1>3, <3>1
    <2>4. \A s \in Surfaces : s # x => /\ decode_pending'[s] = decode_pending[s]
                                      /\ decode_error'[s] = decode_error[s]
      BY <1>t, <2>3 DEF TypeOK
    <2>5. CASE decode_pending'[x] \/ decode_error'[x]
      <3>1. UNCHANGED contents
        BY <1>1, <2>5
      <3>2. ASSUME NEW s \in Surfaces PROVE Undisturbed(s)
        <4>1. CASE s = x
          BY <2>5, <4>1 DEF Undisturbed, Settled
        <4>2. CASE s # x
          <5>1. Locked(s)' = Locked(s) /\ InUse(s)' = InUse(s)
            BY <1>t, <1>3, <2>2, <4>2, OwnCounts
          <5> QED
            BY <2>3, <2>4, <4>2, <5>1 DEF Undisturbed, Settled
        <4> QED
          BY <4>1, <4>2
      <3> QED
        BY <3>1, <3>2, CopiesStay
    <2>6. CASE ~(decode_pending'[x] \/ decode_error'[x])
      <3>1. contents' \in Continued(c, arrived)
        BY <1>1, <1>3, <2>6
      <3>2. Settled(x)'
        BY <1>t, <2>2, <2>3, <2>6 DEF LifeInv, Settled
      <3>3. Ready(arrived)
        BY <2>3, <2>4, ArrivedIsReady
      <3> QED
        BY <1>3, <2>2, <3>1, <3>2, <3>3, ContinuedCopies
    <2> QED
      BY <2>5, <2>6
  <1> QED
    BY <1>2, <1>3

LEMMA AwokenCopies ==
    ASSUME NothingDerived, DerivedUse, CopyInv, NEW t \in Threads, Awoken(t)
    PROVE  CopyInv'
  <1>t. TypeOK /\ CallInv
    BY DEF DerivedUse, AnyUse
  <1> PICK c : c = call[t]
    OBVIOUS
  <1>1. Wake(t) /\ UNCHANGED <<allocated, decode_pending, decode_error>>
    BY DEF Awoken, Wake
  <1>2. IF pc'[t] # "idle" \/ decode_error[c.surf] \/ ~allocated[c.surf]
        THEN UNCHANGED contents ELSE contents' \in Continued(c, contents)
    BY DEF Awoken
  <1>3. WaitingCall(c) /\ c.surf \in Surfaces
    BY <1>t, <1>1, WakeCases, WaitersCall DEF WaitingCall
  <1>4. Continue(c) \/ UNCHANGED accessVars
    BY <1>1, WakeCases DEF Fail
  <1>5. CASE pc'[t] # "idle"
    <2>1. UNCHANGED accessVars
      <3>1. ~Return(t)
        BY <1>t, <1>5 DEF Return, TypeOK
      <3> QED
        BY <1>1, <3>1, WakeCases DEF Fail
    <2> QED
      BY <1>1, <1>2, <1>5, <2>1, StateStays, CopiesStay DEF accessVars, countVars
  <1>6. CASE decode_error[c.surf] \/ ~allocated[c.surf]
    <2>1. UNCHANGED contents
      BY <1>2, <1>6
    <2>2. ASSUME NEW s \in Surfaces PROVE Undisturbed(s)
      <3>1. CASE s = c.surf
        BY <1>1, <1>6, <3>1 DEF Undisturbed, Settled
      <3>2. CASE s # c.surf
        <4>1. Locked(s)' = Locked(s) /\ InUse(s)' = InUse(s)
          BY <1>t, <1>3, <1>4, <3>2, OwnCounts
        <4> QED
          BY <1>1, <4>1 DEF Undisturbed, Settled
      <3> QED
        BY <3>1, <3>2
    <2> QED
      BY <2>1, <2>2, CopiesStay
  <1>7. CASE pc'[t] = "idle" /\ ~decode_error[c.surf] /\ allocated[c.surf]
    <2>1. contents' \in Continued(c, contents)
      BY <1>2, <1>7
    <2>2. ~decode_pending[c.surf]
      <3>1. pc' # [pc EXCEPT ![t] = "dequeue"]
        BY <1>t, <1>7 DEF TypeOK
      <3> QED
        BY <1>1, <1>7, <3>1 DEF Wake
    <2>3. PICK x \in Surfaces : c.surf = x
      BY <1>3
    <2>4. Settled(x)' /\ Ready(contents)
      BY <1>1, <1>7, <2>2, <2>3, ReadyStays DEF Settled
    <2> QED
      BY <1>3, <1>4, <2>1, <2>3, <2>4, ContinuedCopies
  <1> QED
    BY <1>5, <1>6, <1>7

-----------------------------------------------------------------------------
(* Every step of SurfaceContents is one of SurfaceAccess, and keeps the    *)
(* copies.                                                                 *)

LEMMA ContentsImplementsAccess == [ContentsNext]_contentsVars => [Next]_vars
  <1>1. ASSUME NEW s \in Surfaces, Use(s) PROVE SurfaceNext(s)
    BY <1>1 DEF Use, SurfaceNext
  <1>2. ASSUME NEW s \in Surfaces, NEW i \in Images, Get(s, i) \/ Put(s, i)
        PROVE  SurfaceNext(s)
    BY <1>2 DEF Get, Put, SurfaceNext
  <1>3. ASSUME NEW b \in Buffers, EndUse(b) PROVE SlotNext
    BY <1>3 DEF EndUse, SlotNext
  <1>4. ASSUME NEW t \in Threads, Dequeued(t) \/ Awoken(t) PROVE ThreadNext(t)
    BY <1>4 DEF Dequeued, Awoken, ThreadNext
  <1>5. CASE Others
    BY <1>5 DEF Others, Next, SurfaceNext, SlotNext, HardwareNext, ThreadNext
  <1>6. ASSUME NEW s \in Surfaces, UseFails(s) PROVE UNCHANGED vars
    BY <1>6 DEF UseFails
  <1>7. CASE ContentsNext
    BY <1>1, <1>2, <1>3, <1>4, <1>5, <1>6, <1>7
    DEF ContentsNext, Next, SurfaceNext, HardwareNext
  <1>8. CASE UNCHANGED contentsVars
    BY <1>8 DEF contentsVars
  <1> QED
    BY <1>7, <1>8

LEMMA CopyStep ==
    ASSUME NothingDerived, DerivedUse, CopyInv, [ContentsNext]_contentsVars
    PROVE  CopyInv'
  <1>1. CASE UNCHANGED contentsVars
    BY <1>1, StateStays, CopiesStay
    DEF contentsVars, vars, lifeVars, decVars, accessVars, countVars
  <1>2. ASSUME NEW s \in Surfaces,
               \/ Use(s) \/ UseFails(s)
               \/ \E i \in Images : Get(s, i) \/ Put(s, i)
        PROVE  CopyInv'
    BY <1>2, UsedCopies, FailedCopies, ReadCopies, StoredCopies
  <1> QED
    BY <1>1, <1>2, CreatedCopies, DestroyedCopies, BegunCopies, UnlockedCopies, WrittenCopies,
       EncodedCopies, EndedCopies, DequeuedCopies, AwokenCopies, OtherCopies
    DEF ContentsNext

LEMMA InitCopies == ContentsInit => CopyInv
  <1> SUFFICES ASSUME ContentsInit PROVE CopyInv
    OBVIOUS
  <1>1. contents = [s \in Surfaces |-> Blank(FALSE)] /\ Init
    BY DEF ContentsInit
  <1>2. Blank(FALSE) \in Contents
    BY BlankIsGood
  <1>3. \A s \in Surfaces : ~Settled(s)
    BY <1>1 DEF Init, Settled
  <1> QED
    BY <1>1, <1>2, <1>3 DEF CopyInv, Tables

(* The calls, taken with what they do to the contents, are calls of        *)
(* SurfaceAccess: what is proved of it holds here too.                     *)
THEOREM ContentsAreAccess == ContentsSpec => Spec
  BY ContentsImplementsAccess, PTL DEF ContentsSpec, ContentsInit, Spec

(* The contents of every surface that is settled are good: the inductive   *)
(* invariant.                                                              *)
THEOREM CopyInvariant == NothingDerived /\ ContentsSpec => []CopyInv
  <1> SUFFICES ASSUME NothingDerived PROVE ContentsSpec => []CopyInv
    OBVIOUS
  <1>1. NothingDerived /\ Spec => []DerivedUse
    BY DerivedUseInductive
  <1>2. Spec => []DerivedUse
    BY <1>1
  <1>3. DerivedUse /\ CopyInv /\ [ContentsNext]_contentsVars => CopyInv'
    BY CopyStep
  <1> QED
    BY <1>2, <1>3, InitCopies, ContentsAreAccess, PTL DEF ContentsSpec

(* Whoever comes next to a surface at rest gets the picture that was last  *)
(* put there, whichever way it was written and is read, on any number of   *)
(* surfaces, images and threads: for an application that synchronises a    *)
(* surface before it derives an image.                                     *)
THEOREM CopiesAlwaysAgree == NothingDerived /\ ContentsSpec => []CopiesAgree
  <1>1. CopyInv => CopiesAgree
    <2> SUFFICES ASSUME CopyInv, NEW s \in Surfaces, Settled(s),
                        cpu_access_count[s] = 0, external_handle_count[s] = 0
                 PROVE  LET r == contents[s]
                            memory == MemoryOf(r)
                        IN  /\ r.raw_data_valid \/ r.raw_data_dirty => "staging" \in r.newest
                            /\ r.has_decoded_frame
                                  \/ (r.has_preallocated /\ ~r.raw_data_dirty)
                                  => memory \in r.newest
                            /\ r.dma_fd \in {"none", memory}
      BY DEF CopiesAgree, Settled
    <2>1. Good(contents[s], Locked(s), InUse(s)) /\ ~InUse(s)
      BY DEF CopyInv, InUse
    <2> QED
      BY <2>1 DEF Good, HasMemory
  <1> QED
    BY <1>1, CopyInvariant, PTL
=============================================================================
