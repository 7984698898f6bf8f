--------------------------- MODULE TeardownProof ---------------------------
(***************************************************************************)
(* Proofs about Teardown: that every variable keeps its type, that every   *)
(* buffer of hb_mem has one holder, that no codec instance is stopped with *)
(* a buffer outstanding or released while it runs, and that a vaTerminate  *)
(* that succeeds leaves nothing behind.  They share one inductive          *)
(* invariant.                                                              *)
(***************************************************************************)
EXTENDS Teardown, FiniteSetTheorems, FunctionTheorems, TLAPS

-----------------------------------------------------------------------------
(* The inductive invariant, part by part.                                  *)

(* What thread t has imported and neither given back nor made a surface.   *)
Carries(t, fd) ==
    \/ importing[t].fd = fd
    \/ \E k \in 1 .. Len(importing[t].got) : importing[t].got[k] = fd

(* A slot that is not in use is empty.  A context that is in use runs; one *)
(* that waits for its first picture has nothing yet; one that is kept      *)
(* without the application knowing has no picture and no frame.            *)
SlotInv ==
    /\ \A s \in Surfaces : ~surface[s].allocated => surface[s] = FreeSurface
    /\ \A c \in Contexts :
          /\ ~context[c].allocated => context[c] = FreeContext
          /\ context[c].busy => context[c].vpu_running
          /\ context[c].deferred => /\ ~context[c].vpu_running
                                    /\ context[c].scratch = NoFd
                                    /\ ~context[c].cleanup_orphaned
          /\ context[c].cleanup_orphaned => /\ ~context[c].busy
                                            /\ ~context[c].input /\ ~context[c].output

(* A frame in a surface is of a context that runs and is known.            *)
FrameInv ==
    \A c \in Contexts : ~context[c].vpu_running \/ context[c].cleanup_orphaned =>
        \A s \in Surfaces : surface[s].output_context_id # c

(* An instance that does not run has its buffers back, and one that runs   *)
(* is there.                                                               *)
BackInv ==
    \A c \in Contexts :
        /\ ~context[c].vpu_running => ~context[c].input /\ ~context[c].output
        /\ context[c].vpu_running => context[c].vpu_initialized

(* An import that is not in progress has nothing, one that drops a buffer  *)
(* names it, and none has more buffers than it asked for.                  *)
Pending(i) == IF i.at = "import" THEN i.num
              ELSE IF i.at \in {"drop", "retain"} THEN Len(i.got) + 1 ELSE Len(i.got)

ImportInv ==
    \A t \in Threads :
        /\ importing[t].at = "out" => importing[t] = NoImport
        /\ importing[t].at # "out" => importing[t].num > 0
        /\ (importing[t].at \in {"drop", "retain"}) = (importing[t].fd # NoFd)
        /\ Len(importing[t].got) <= importing[t].num
        /\ Pending(importing[t]) <= importing[t].num

(* The places n imports of t take in the list of orphans.                  *)
Places(t, n) == {t} \X (1 .. n)

Taken == UNION {Places(t, importing[t].num) : t \in Threads}
Wanted == UNION {Places(t, Pending(importing[t])) : t \in Threads}

(* reserved counts what the imports in progress have asked for, and there  *)
(* is room for all that they may still have to retain.                     *)
RoomInv ==
    /\ IsFiniteSet(Taken) /\ reserved = Cardinality(Taken)
    /\ IsFiniteSet(Wanted) /\ orphan_count + Cardinality(Wanted) <= OrphanSlots

(* The buffers of an import are different ones.                            *)
Distinct(i) ==
    \A j, k \in 1 .. Len(i.got) : i.got[j] # i.fd /\ (i.got[j] = i.got[k] => j = k)

(* Every buffer has a holder, and no two places hold the same one.         *)
HolderInv ==
    /\ \A fd \in Fds : fd \in live <=>
          \/ \E c \in Contexts : context[c].scratch = fd
          \/ \E s \in Surfaces : surface[s].gbuf = fd
          \/ fd \in orphans
          \/ \E t \in Threads : Carries(t, fd)
    /\ \A fd \in Fds, c, d \in Contexts :
          context[c].scratch = fd /\ context[d].scratch = fd => c = d
    /\ \A fd \in Fds, r, s \in Surfaces :
          surface[r].gbuf = fd /\ surface[s].gbuf = fd => r = s
    /\ \A fd \in Fds, t, u \in Threads : Carries(t, fd) /\ Carries(u, fd) => t = u
    /\ \A fd \in Fds, c \in Contexts, s \in Surfaces :
          ~(context[c].scratch = fd /\ surface[s].gbuf = fd)
    /\ \A c \in Contexts : context[c].scratch \notin orphans
    /\ \A s \in Surfaces : surface[s].gbuf \notin orphans
    /\ \A fd \in Fds, t \in Threads : Carries(t, fd) =>
          /\ fd \notin orphans
          /\ \A c \in Contexts : context[c].scratch # fd
          /\ \A s \in Surfaces : surface[s].gbuf # fd
    /\ \A t \in Threads : Distinct(importing[t])

(* What vaTerminate has given back so far.                                 *)
PhaseInv ==
    /\ term.at = "contexts" =>
          /\ \A c \in Contexts : ~context[c].busy
          /\ ~term.failed => \A c \in Contexts : c < term.next => ~context[c].allocated
    /\ term.at \in {"orphans", "surfaces", "closing", "closed"} =>
          /\ \A c \in Contexts : ~context[c].allocated
          /\ \A t \in Threads : Importing(t, "out")
    /\ term.at \in {"surfaces", "closing", "closed"} => orphans = {} /\ orphan_count = 0
    /\ resources_terminated => live = {} /\ \A s \in Surfaces : ~surface[s].allocated

Inductive ==
    /\ TypeOK /\ SlotInv /\ FrameInv /\ BackInv
    /\ ImportInv /\ RoomInv /\ HolderInv /\ PhaseInv
-----------------------------------------------------------------------------
(* The operators of the model.                                             *)

(* The buffers an import has are a sequence of at most MaxImport of them.  *)
LEMMA GotTypes ==
    \A i \in ImportStates : i.got \in Seq(Fds) /\ Len(i.got) \in 0 .. MaxImport
<1> SUFFICES ASSUME NEW i \in ImportStates
             PROVE  i.got \in Seq(Fds) /\ Len(i.got) \in 0 .. MaxImport
  OBVIOUS
<1>1. PICK n \in 0 .. MaxImport : i.got \in [1 .. n -> Fds]
  BY DEF ImportStates
<1>2. n \in Nat
  BY ConstantsAssumption
<1> QED
  BY <1>1, <1>2, ConstantsAssumption DEF Fds

(* And every such sequence may be what an import has.                      *)
LEMMA GotIsSeq ==
    ASSUME NEW q \in Seq(Fds), Len(q) <= MaxImport
    PROVE  q \in UNION {[1 .. n -> Fds] : n \in 0 .. MaxImport}
<1>1. Len(q) \in 0 .. MaxImport /\ q \in [1 .. Len(q) -> Fds]
  BY ConstantsAssumption
<1> QED
  BY <1>1

(* hb_mem hands out a descriptor that is not in use.                       *)
LEMMA NewFdFacts ==
    ASSUME TypeOK, HasFd
    PROVE  NewFd \in Fds /\ NewFd \notin live
<1> DEFINE T == {1 .. fd : fd \in Fds \ live}
           R == StrictSubsetOrdering(Fds)
<1>1. Fds \ live # {} /\ Fds \subseteq Nat
  <2>1. NumFds \in Nat
    BY ConstantsAssumption
  <2>2. live \subseteq Fds /\ live # Fds
    BY DEF TypeOK, HasFd
  <2>3. Fds \ live # {}
    BY <2>2, Zenon
  <2>4. Fds \subseteq Nat
    BY <2>1 DEF Fds
  <2> QED
    BY <2>3, <2>4
<1>2. IsWellFoundedOn(R, FiniteSubsetsOf(Fds))
  BY FS_StrictSubsetOrderingWellFounded
<1>3. T \subseteq FiniteSubsetsOf(Fds) /\ T # {}
  <2>1. IsFiniteSet(Fds)
    BY FS_Interval, ConstantsAssumption DEF Fds
  <2>2. \A fd \in Fds : 1 .. fd \subseteq Fds
    BY ConstantsAssumption DEF Fds
  <2>3. FiniteSubsetsOf(Fds) = SUBSET Fds
    BY <2>1, FS_FiniteSubsetsOfFinite, Zenon
  <2>4. T \subseteq SUBSET Fds
    BY <2>2
  <2>5. T # {}
    BY <1>1, Zenon
  <2> QED
    BY <2>3, <2>4, <2>5
<1>4. PICK least \in T : \A other \in T : <<other, least>> \notin R
  BY <1>2, <1>3, WFMin
<1>5. PICK fd \in Fds \ live : least = 1 .. fd
  BY <1>4
<1>6. \A other \in Fds \ live : fd <= other
  <2> SUFFICES ASSUME NEW other \in Fds \ live, other < fd
               PROVE  FALSE
    BY <1>1
  <2>1. 1 .. other \subseteq 1 .. fd /\ 1 .. fd \subseteq Fds
    BY ConstantsAssumption DEF Fds
  <2>2. fd \in 1 .. fd /\ fd \notin 1 .. other
    BY ConstantsAssumption DEF Fds
  <2>3. <<1 .. other, 1 .. fd>> \in R
    BY <2>1, <2>2 DEF StrictSubsetOrdering
  <2> QED
    BY <1>4, <1>5, <2>3
<1> QED
  BY <1>6 DEF NewFd

(* n places of an import are n.                                            *)
LEMMA PlacesCount ==
    ASSUME NEW t, NEW n \in Nat
    PROVE  IsFiniteSet(Places(t, n)) /\ Cardinality(Places(t, n)) = n
<1>1. IsFiniteSet({t}) /\ Cardinality({t}) = 1
  BY FS_Singleton
<1>2. IsFiniteSet(1 .. n) /\ Cardinality(1 .. n) = n
  BY FS_Interval
<1> DEFINE one == {t}
           many == 1 .. n
<1>3. IsFiniteSet(one \X many) /\ Cardinality(one \X many) = Cardinality(one) * Cardinality(many)
  <2> HIDE DEF one, many
  <2> QED
    BY <1>1, <1>2, FS_Product DEF one, many
<1> QED
  BY <1>1, <1>2, <1>3 DEF Places

(* Two sets without a common element have the sum of their sizes.          *)
LEMMA DisjointCount ==
    ASSUME NEW S, NEW T, IsFiniteSet(S), IsFiniteSet(T), S \cap T = {}
    PROVE  IsFiniteSet(S \cup T) /\ Cardinality(S \cup T) = Cardinality(S) + Cardinality(T)
<1>1. Cardinality(S \cap T) = 0
  BY FS_EmptySet
<1> QED
  BY <1>1, FS_Union, FS_CardinalityType

(* The places of all imports, when t takes f[t] of them.                   *)
AllPlaces(f) == UNION {Places(t, f[t]) : t \in Threads}

(* Their number changes with what one import takes.                        *)
LEMMA PlacesOfAll ==
    ASSUME NEW f, NEW g, NEW t \in Threads, f[t] \in Nat, g[t] \in Nat,
           \A u \in Threads \ {t} : g[u] = f[u], IsFiniteSet(AllPlaces(f))
    PROVE  /\ IsFiniteSet(AllPlaces(g))
           /\ Cardinality(AllPlaces(f)) \in Nat /\ Cardinality(AllPlaces(g)) \in Nat
           /\ Cardinality(AllPlaces(g)) + f[t] = Cardinality(AllPlaces(f)) + g[t]
           /\ f[t] <= Cardinality(AllPlaces(f))
<1> DEFINE n == f[t]
           m == g[t]
           F == AllPlaces(f)
           G == AllPlaces(g)
           Rest == UNION {Places(u, f[u]) : u \in Threads \ {t}}
<1>1. F = Rest \cup Places(t, n) /\ G = Rest \cup Places(t, m)
  BY DEF AllPlaces
<1>2. Rest \cap Places(t, n) = {} /\ Rest \cap Places(t, m) = {}
  BY DEF Places
<1>3. IsFiniteSet(Rest)
  BY <1>1, FS_Subset
<1>4. /\ IsFiniteSet(Places(t, n)) /\ Cardinality(Places(t, n)) = n
      /\ IsFiniteSet(Places(t, m)) /\ Cardinality(Places(t, m)) = m
  BY PlacesCount
<1>0. n \in Nat /\ m \in Nat
  OBVIOUS
<1> HIDE DEF Rest, F, G, n, m
<1>5. Cardinality(F) = Cardinality(Rest) + n
  BY <1>1, <1>2, <1>3, <1>4, DisjointCount
<1>6. IsFiniteSet(G) /\ Cardinality(G) = Cardinality(Rest) + m
  BY <1>1, <1>2, <1>3, <1>4, DisjointCount
<1>7. Cardinality(Rest) \in Nat
  BY <1>3, FS_CardinalityType
<1>8. /\ IsFiniteSet(G) /\ Cardinality(G) \in Nat /\ Cardinality(F) \in Nat
      /\ Cardinality(G) + n = Cardinality(F) + m /\ n <= Cardinality(F)
  BY <1>5, <1>6, <1>7, <1>0
<1> QED
  BY <1>8 DEF F, G, n, m

(* Every free slot has a place of its own, and every place is taken.       *)
LEMMA PlaceFacts ==
    /\ IsFiniteSet(FreeSlots) /\ Cardinality(FreeSlots) \in Nat
    /\ \A s \in FreeSlots : Place(s) \in 1 .. Cardinality(FreeSlots)
    /\ \A r, s \in FreeSlots : Place(r) = Place(s) => r = s
    /\ \A k \in 1 .. Cardinality(FreeSlots) : \E s \in FreeSlots : Place(s) = k
<1> DEFINE Up(s) == {r \in FreeSlots : r <= s}
           N == Cardinality(FreeSlots)
           P == [s \in FreeSlots |-> Place(s)]
<1>0. NumSurfaces \in Nat
  BY ConstantsAssumption
<1>1. FreeSlots \subseteq Surfaces /\ Surfaces \subseteq Nat /\ IsFiniteSet(Surfaces)
  BY <1>0, FS_Interval DEF FreeSlots, Surfaces
<1>2. IsFiniteSet(FreeSlots) /\ N \in Nat
  BY <1>1, FS_Subset, FS_CardinalityType
<1>3. \A s \in FreeSlots : /\ IsFiniteSet(Up(s)) /\ Cardinality(Up(s)) \in 1 .. N
                           /\ Place(s) = Cardinality(Up(s))
  <2> SUFFICES ASSUME NEW s \in FreeSlots
               PROVE  /\ IsFiniteSet(Up(s)) /\ Cardinality(Up(s)) \in 1 .. N
                      /\ Place(s) = Cardinality(Up(s))
    OBVIOUS
  <2>1. Up(s) \in SUBSET FreeSlots /\ s \in Up(s)
    BY <1>1
  <2>2. IsFiniteSet(Up(s)) /\ Cardinality(Up(s)) <= N
    BY <1>2, <2>1, FS_Subset
  <2>3. Cardinality(Up(s)) # 0 /\ Cardinality(Up(s)) \in Nat
    BY <2>1, <2>2, FS_EmptySet, FS_CardinalityType
  <2> QED
    BY <1>2, <2>2, <2>3 DEF Place
<1>4. \A r, s \in FreeSlots : r < s => Place(r) # Place(s)
  <2> SUFFICES ASSUME NEW r \in FreeSlots, NEW s \in FreeSlots, r < s, Place(r) = Place(s)
               PROVE  FALSE
    OBVIOUS
  <2>0. r \in Nat /\ s \in Nat /\ \A q \in FreeSlots : q \in Nat
    BY <1>1
  <2>1. s \in Up(s) /\ s \notin Up(r)
    BY <2>0
  <2>3. Up(r) \subseteq Up(s)
    <3> SUFFICES ASSUME NEW q \in FreeSlots, q <= r
                 PROVE  q <= s
      OBVIOUS
    <3> QED
      BY <2>0
  <2>2. Cardinality(Up(r)) = Cardinality(Up(s)) /\ IsFiniteSet(Up(s))
    BY <1>3
  <2> HIDE DEF Up
  <2> QED
    BY <2>1, <2>2, <2>3, FS_Subset
<1>5. \A r, s \in FreeSlots : Place(r) = Place(s) => r = s
  BY <1>1, <1>4
<1>6. P \in [FreeSlots -> 1 .. N] /\ \A r, s \in FreeSlots : P[r] = P[s] => r = s
  BY <1>3, <1>5
<1>7. IsFiniteSet(1 .. N) /\ Cardinality(1 .. N) = N
  BY <1>2, FS_Interval
<1>8. P \in Injection(FreeSlots, 1 .. N)
  <2> DEFINE T == 1 .. N
  <2> HIDE DEF P, T
  <2> QED
    BY <1>6, Fun_IsInj DEF T
<1>9. P \in Surjection(FreeSlots, 1 .. N)
  <2> DEFINE T == 1 .. N
  <2> HIDE DEF P, T
  <2> QED
    BY <1>7, <1>8, FS_Injection DEF T
<1>10. \A k \in 1 .. N : \E s \in FreeSlots : P[s] = k
  <2> DEFINE T == 1 .. N
  <2> HIDE DEF P, T
  <2> QED
    BY <1>9, Fun_SurjectionProperties DEF T
<1> QED
  BY <1>2, <1>3, <1>5, <1>10

(* A surface that is new and has the buffer fd, or none.                   *)
Fresh(fd) == [FreeSurface EXCEPT !.allocated = TRUE, !.gbuf = fd]

(* n new surfaces are n free slots, each with the buffer of its turn.      *)
LEMMA CreatedFacts ==
    ASSUME NEW n \in Nat, NEW bufs, Len(bufs) = n, n <= Cardinality(FreeSlots)
    PROVE  \E f \in [1 .. n -> FreeSlots] :
              /\ \A j, k \in 1 .. n : f[j] = f[k] => j = k
              /\ \A k \in 1 .. n :
                    Created(bufs)[f[k]] = Fresh(bufs[k])
              /\ \A s \in Surfaces : (\A k \in 1 .. n : f[k] # s)
                                        => Created(bufs)[s] = surface[s]
<1> DEFINE f == [k \in 1 .. n |-> CHOOSE s \in FreeSlots : Place(s) = k]
<1>1. \A k \in 1 .. n : f[k] \in FreeSlots /\ Place(f[k]) = k
  BY PlaceFacts
<1>2. f \in [1 .. n -> FreeSlots] /\ FreeSlots \subseteq Surfaces
  BY <1>1 DEF FreeSlots
<1>3. \A j, k \in 1 .. n : f[j] = f[k] => j = k
  BY <1>1
<1>4. \A k \in 1 .. n : Created(bufs)[f[k]] = Fresh(bufs[k])
  <2> SUFFICES ASSUME NEW k \in 1 .. n
               PROVE  Created(bufs)[f[k]] = Fresh(bufs[k])
    OBVIOUS
  <2>1. f[k] \in FreeSlots /\ f[k] \in Surfaces /\ Place(f[k]) = k /\ k <= Len(bufs)
    BY <1>1, <1>2
  <2> HIDE DEF f
  <2>2. Created(bufs)[f[k]] = Fresh(bufs[Place(f[k])])
    BY <2>1, Zenon DEF Created, Fresh
  <2> QED
    BY <2>1, <2>2
<1>5. \A s \in Surfaces : (\A k \in 1 .. n : f[k] # s) => Created(bufs)[s] = surface[s]
  <2> SUFFICES ASSUME NEW s \in Surfaces, \A k \in 1 .. n : f[k] # s,
                      s \in FreeSlots, Place(s) <= n
               PROVE  FALSE
    BY DEF Created
  <2>1. Place(s) \in 1 .. n
    BY PlaceFacts
  <2>2. f[Place(s)] = s
    <3> HIDE DEF f
    <3> QED
      BY <1>1, <2>1, PlaceFacts
  <2> QED
    BY <2>1, <2>2
<1> QED
  BY <1>2, <1>3, <1>4, <1>5

-----------------------------------------------------------------------------
(* What the operations leave.                                              *)

LEMMA Sizes ==
    /\ NumContexts \in Nat /\ NumSurfaces \in Nat /\ NumFds \in Nat /\ MaxImport \in Nat
    /\ OrphanSlots \in Nat /\ MaxCalls \in Nat /\ MaxFaults \in Nat
    /\ IsFiniteSet(Contexts) /\ IsFiniteSet(Surfaces) /\ IsFiniteSet(Fds)
    /\ Contexts \subseteq Nat /\ Surfaces \subseteq Nat /\ Fds \subseteq Nat
    /\ NoFd \notin Fds /\ NoContext \notin Contexts
<1>1. /\ NumContexts \in Nat /\ NumSurfaces \in Nat /\ NumFds \in Nat /\ MaxImport \in Nat
      /\ OrphanSlots \in Nat /\ MaxCalls \in Nat /\ MaxFaults \in Nat
  BY ConstantsAssumption
<1> QED
  BY <1>1, FS_Interval DEF Contexts, Surfaces, Fds, NoFd, NoContext

LEMMA FailFacts ==
    ASSUME TypeOK, NEW n \in Nat, Fail(n)
    PROVE  faults' \in 0 .. MaxFaults
BY ConstantsAssumption DEF TypeOK, Fail

LEMMA CallFacts == TypeOK /\ Call => calls' \in 0 .. MaxCalls
BY ConstantsAssumption DEF TypeOK, Call

LEMMA FreeBufsFacts ==
    ASSUME TypeOK, NEW freed, NEW F, FreeBufs(freed, F)
    PROVE  /\ F \subseteq freed /\ freed \ live \subseteq F
           /\ live' = live \ (freed \ F) /\ live' \subseteq Fds
           /\ faults' \in 0 .. MaxFaults
<1>1. IsFiniteSet(Fds) /\ live \subseteq Fds
  BY Sizes DEF TypeOK
<1>2. IsFiniteSet(F \cap live)
  BY <1>1, FS_Subset, FS_Intersection
<1>3. Cardinality(F \cap live) \in Nat
  BY <1>2, FS_CardinalityType
<1> QED
  BY <1>1, <1>3, FailFacts DEF FreeBufs

(* r is what a failure leaves of a context h: nothing is stopped that did  *)
(* not run, and no buffer comes to it.                                     *)
Leaves(h, r) ==
    /\ r \in ContextStates
    /\ r.allocated = h.allocated /\ r.is_encoder = h.is_encoder
    /\ r.deferred = h.deferred /\ r.busy = h.busy /\ r.wedged = h.wedged
    /\ r.scratch = h.scratch /\ r.cleanup_orphaned = h.cleanup_orphaned
    /\ r.vpu_initialized => h.vpu_initialized
    /\ r.vpu_running /\ h.vpu_initialized => r.vpu_initialized
    /\ r.vpu_running => h.vpu_running
    /\ r.input => h.input
    /\ r.output => h.output

LEMMA RemainsFacts ==
    ASSUME TypeOK, NEW c \in Contexts, NEW kept, NEW back \in BOOLEAN, NEW stage
    PROVE  /\ Leaves(context[c], Remains(c, kept, back, stage))
           /\ back /\ kept = {} /\ context[c].vpu_running =>
                /\ ~Remains(c, kept, back, stage).input
                /\ ~Remains(c, kept, back, stage).output
           /\ context[c].vpu_running /\ ~back => Remains(c, kept, back, stage).vpu_running
<1> DEFINE h == context[c]
           r == Remains(c, kept, back, stage)
<1>1. h \in ContextStates
  BY DEF TypeOK
<1> DEFINE in == h.input /\ ("input" \in kept \/ ~h.vpu_running)
           out == h.output /\ ("output" \in kept \/ ~h.vpu_running)
           run == h.vpu_running /\ ~(back /\ stage # "stop")
           ini == h.vpu_initialized /\ ~(back /\ stage \notin {"stop", "release"})
<1>2. r = [h EXCEPT !.input = in, !.output = out, !.vpu_running = run,
                    !.vpu_initialized = ini]
  BY DEF Remains
<1>3. in \in BOOLEAN /\ out \in BOOLEAN /\ run \in BOOLEAN /\ ini \in BOOLEAN
  BY <1>1 DEF ContextStates
<1>4. /\ r \in ContextStates
      /\ r.allocated = h.allocated /\ r.is_encoder = h.is_encoder
      /\ r.deferred = h.deferred /\ r.busy = h.busy /\ r.wedged = h.wedged
      /\ r.scratch = h.scratch /\ r.cleanup_orphaned = h.cleanup_orphaned
      /\ r.input = in /\ r.output = out /\ r.vpu_running = run /\ r.vpu_initialized = ini
  <2> DEFINE h1 == [h EXCEPT !.input = in]
             h2 == [h1 EXCEPT !.output = out]
             h3 == [h2 EXCEPT !.vpu_running = run]
             h4 == [h3 EXCEPT !.vpu_initialized = ini]
             Others(x, y) ==
                /\ x.allocated = y.allocated /\ x.is_encoder = y.is_encoder
                /\ x.deferred = y.deferred /\ x.busy = y.busy /\ x.wedged = y.wedged
                /\ x.scratch = y.scratch /\ x.cleanup_orphaned = y.cleanup_orphaned
  <2>1. r = h4
    BY <1>2
  <2> HIDE DEF h, r, in, out, run, ini
  <2>2. h1 \in ContextStates /\ Others(h1, h) /\ h1.input = in
    BY <1>1, <1>3 DEF ContextStates
  <2> HIDE DEF h1
  <2>3. h2 \in ContextStates /\ Others(h2, h1) /\ h2.input = h1.input /\ h2.output = out
    BY <1>3, <2>2 DEF ContextStates
  <2> HIDE DEF h2
  <2>4. /\ h3 \in ContextStates /\ Others(h3, h2) /\ h3.vpu_running = run
        /\ h3.input = h2.input /\ h3.output = h2.output
    BY <1>3, <2>3 DEF ContextStates
  <2> HIDE DEF h3
  <2>5. /\ h4 \in ContextStates /\ Others(h4, h3) /\ h4.vpu_running = h3.vpu_running
        /\ h4.input = h3.input /\ h4.output = h3.output /\ h4.vpu_initialized = ini
    BY <1>3, <2>4 DEF ContextStates
  <2> HIDE DEF h4
  <2> QED
    BY <2>1, <2>2, <2>3, <2>4, <2>5
<1> HIDE DEF h, r
<1>6. /\ Leaves(h, r)
      /\ back /\ kept = {} /\ h.vpu_running => ~r.input /\ ~r.output
      /\ h.vpu_running /\ ~back => r.vpu_running
  BY <1>4 DEF Leaves
<1> QED
  BY <1>6 DEF h, r

(* Taking a context down frees it with all it has, or leaves what it does  *)
(* not stop before everything borrowed is back.                            *)
TearDownEnds(c, frames) ==
    /\ context' = [context EXCEPT ![c] = FreeContext]
    /\ surface' = Detached(c)
    /\ live' = live \ {context[c].scratch}

TearDownLeaves(c, frames) ==
    /\ \E r \in ContextStates :
          /\ Leaves(context[c], r)
          /\ context' = [context EXCEPT ![c] = r]
          /\ context[c].vpu_running /\ ~r.vpu_running =>
                ~r.input /\ ~r.output /\ frames = {}
    /\ surface' = FramesReturned(c, frames)
    /\ live' = live

LEMMA TearDownFacts ==
    ASSUME TypeOK, NEW c \in Contexts, NEW kept, NEW frames, NEW stage,
           NEW sound \in BOOLEAN, TearDown(c, kept, frames, stage, sound)
    PROVE  /\ faults' \in 0 .. MaxFaults
           /\ (sound /\ TearDownEnds(c, frames)) \/ TearDownLeaves(c, frames)
<1> DEFINE back == sound /\ kept = {} /\ frames = {}
           gone == back /\ stage = "none"
           r == Remains(c, kept, back, stage)
<1>1. faults' \in 0 .. MaxFaults
  <2>1. IsFiniteSet({"input", "output"}) /\ IsFiniteSet(Surfaces)
    <3>1. IsFiniteSet({} \cup {"input"})
      BY FS_EmptySet, FS_AddElement
    <3>2. IsFiniteSet(({} \cup {"input"}) \cup {"output"})
      BY <3>1, FS_AddElement
    <3> QED
      BY <3>2, Sizes
  <2>2. kept \subseteq {"input", "output"} /\ frames \subseteq Surfaces
    BY DEF TearDown, Borrowed, BorrowedFrames, FramesOf
  <2>3. Cardinality(kept) \in Nat /\ Cardinality(frames) \in Nat
    BY <2>1, <2>2, FS_Subset, FS_CardinalityType
  <2>4. Refusals(kept, frames, stage) \in Nat
    BY <2>3 DEF Refusals
  <2> QED
    BY <2>4, FailFacts DEF TearDown
<1>2. CASE gone
  BY <1>1, <1>2 DEF TearDown, TearDownEnds
<1>3. CASE ~gone
  <2>1. /\ context' = [context EXCEPT ![c] = r]
        /\ surface' = FramesReturned(c, frames)
        /\ live' = live
    BY <1>3 DEF TearDown
  <2>2. back \in BOOLEAN
    OBVIOUS
  <2>3. /\ Leaves(context[c], r) /\ r \in ContextStates
        /\ back /\ kept = {} /\ context[c].vpu_running => ~r.input /\ ~r.output
        /\ context[c].vpu_running /\ ~back => r.vpu_running
    <3> HIDE DEF back
    <3> QED
      BY <2>2, RemainsFacts DEF Leaves
  <2>4. context[c].vpu_running /\ ~r.vpu_running => ~r.input /\ ~r.output /\ frames = {}
    <3> HIDE DEF r
    <3> QED
      BY <2>3
  <2> HIDE DEF r
  <2> QED
    BY <1>1, <2>1, <2>3, <2>4 DEF TearDownLeaves
<1> QED
  BY <1>2, <1>3

(* The import of t goes on as at, num, got and fd say.                     *)
Becomes(t, at, num, got, fd) ==
    /\ importing' \in [Threads -> ImportStates]
    /\ importing'[t].at = at /\ importing'[t].num = num
    /\ importing'[t].got = got /\ importing'[t].fd = fd
    /\ \A u \in Threads \ {t} : importing'[u] = importing[u]

LEMMA BecomesRecord ==
    ASSUME importing \in [Threads -> ImportStates], NEW t \in Threads,
           NEW at \in {"out", "import", "drop", "retain", "undo"}, NEW num \in 0 .. MaxImport,
           NEW got \in Seq(Fds), Len(got) <= MaxImport, NEW fd \in Fds \cup {NoFd},
           importing' = [importing EXCEPT ![t] = [at |-> at, num |-> num, got |-> got, fd |-> fd]]
    PROVE  Becomes(t, at, num, got, fd)
<1>1. [at |-> at, num |-> num, got |-> got, fd |-> fd] \in ImportStates
  BY GotIsSeq DEF ImportStates
<1> QED
  BY <1>1 DEF Becomes

(* An import as a record of its four fields.                               *)
LEMMA ImportFields ==
    ASSUME NEW i \in ImportStates
    PROVE  /\ i = [at |-> i.at, num |-> i.num, got |-> i.got, fd |-> i.fd]
           /\ i.at \in {"out", "import", "drop", "retain", "undo"}
           /\ i.num \in 0 .. MaxImport /\ i.fd \in Fds \cup {NoFd}
           /\ i.got \in Seq(Fds) /\ Len(i.got) \in 0 .. MaxImport
<1>1. i.got \in Seq(Fds) /\ Len(i.got) \in 0 .. MaxImport
  BY GotTypes
<1> QED
  BY <1>1 DEF ImportStates

LEMMA SeqFacts ==
    ASSUME NEW q \in Seq(Fds)
    PROVE  /\ \A x \in Fds : /\ Append(q, x) \in Seq(Fds)
                            /\ Len(Append(q, x)) = Len(q) + 1
                            /\ \A k \in 1 .. Len(q) : Append(q, x)[k] = q[k]
                            /\ Append(q, x)[Len(q) + 1] = x
           /\ q # << >> => /\ Len(q) > 0
                           /\ Head(q) \in Fds /\ Head(q) = q[1]
                           /\ Tail(q) \in Seq(Fds)
                           /\ Len(Tail(q)) = Len(q) - 1
                           /\ \A k \in 1 .. Len(q) - 1 : Tail(q)[k] = q[k + 1]
<1>1. ASSUME NEW x \in Fds
      PROVE  /\ Append(q, x) \in Seq(Fds) /\ Len(Append(q, x)) = Len(q) + 1
             /\ \A k \in 1 .. Len(q) : Append(q, x)[k] = q[k]
             /\ Append(q, x)[Len(q) + 1] = x
  OBVIOUS
<1>2. ASSUME q # << >>
      PROVE  /\ Len(q) > 0
             /\ Head(q) \in Fds /\ Head(q) = q[1]
             /\ Tail(q) \in Seq(Fds) /\ Len(Tail(q)) = Len(q) - 1
             /\ \A k \in 1 .. Len(q) - 1 : Tail(q)[k] = q[k + 1]
  BY <1>2
<1> QED
  BY <1>1, <1>2

LEMMA ImportSteps ==
    ASSUME TypeOK, ImportInv, NEW t \in Threads
    PROVE  LET i == importing[t] IN
           /\ \A n \in 1 .. MaxImport : ReserveSlots(t, n) => Becomes(t, "import", n, << >>, NoFd)
           /\ ImportBuffer(t) => Becomes(t, "import", i.num, Append(i.got, NewFd), NoFd)
           /\ ImportRefused(t) \/ SurfacesFull(t) => Becomes(t, "undo", i.num, i.got, NoFd)
           /\ ImportMismatch(t) => Becomes(t, "drop", i.num, i.got, NewFd)
           /\ DropImport(t) => \/ Becomes(t, "undo", i.num, i.got, NoFd) /\ FreeBufs({i.fd}, {})
                               \/ Becomes(t, "retain", i.num, i.got, i.fd)
                                  /\ FreeBufs({i.fd}, {i.fd})
           /\ RetainImport(t) => Becomes(t, "undo", i.num, i.got, NoFd)
           /\ UndoImport(t) => Becomes(t, "drop", i.num, Tail(i.got), Head(i.got))
           /\ ImportFails(t) \/ ImportSurfaces(t) => Becomes(t, "out", 0, << >>, NoFd)
<1> DEFINE i == importing[t]
<1>1. importing \in [Threads -> ImportStates] /\ i \in ImportStates
  BY DEF TypeOK
<1>2. /\ i.num \in 0 .. MaxImport /\ i.fd \in Fds \cup {NoFd}
      /\ i.got \in Seq(Fds) /\ Len(i.got) \in 0 .. MaxImport
  BY <1>1, ImportFields
<1>3. i.at \notin {"drop", "retain"} => i.fd = NoFd
  BY DEF ImportInv
<1>4. ASSUME NEW n \in 1 .. MaxImport, ReserveSlots(t, n)
      PROVE  Becomes(t, "import", n, << >>, NoFd)
  <2>1. importing' = [importing EXCEPT ![t] = [at |-> "import", num |-> n,
                                               got |-> << >>, fd |-> NoFd]]
    <3>1. [NoImport EXCEPT !.at = "import", !.num = n]
            = [at |-> "import", num |-> n, got |-> << >>, fd |-> NoFd]
      <4> DEFINE j == [NoImport EXCEPT !.at = "import"]
      <4>1. j = [at |-> "import", num |-> 0, got |-> << >>, fd |-> NoFd]
        BY DEF NoImport
      <4> HIDE DEF j
      <4>2. [j EXCEPT !.num = n] = [at |-> "import", num |-> n, got |-> << >>, fd |-> NoFd]
        BY <4>1
      <4> QED
        BY <4>2, Zenon DEF j
    <3> QED
      BY <1>4, <3>1, Zenon DEF ReserveSlots
  <2>2. << >> \in Seq(Fds) /\ Len(<< >>) <= MaxImport /\ n \in 0 .. MaxImport
    BY Sizes
  <2> QED
    BY <1>1, <2>1, <2>2, BecomesRecord
<1>5. ASSUME ImportBuffer(t)
      PROVE  Becomes(t, "import", i.num, Append(i.got, NewFd), NoFd)
  <2>1. NewFd \in Fds
    BY <1>5, NewFdFacts DEF ImportBuffer
  <2> DEFINE q == Append(i.got, NewFd)
  <2>2. q \in Seq(Fds) /\ Len(q) <= MaxImport
    <3>1. Len(i.got) < i.num
      BY <1>5 DEF ImportBuffer
    <3> HIDE DEF i
    <3>2. q \in Seq(Fds) /\ Len(q) = Len(i.got) + 1
      BY <1>2, <2>1, SeqFacts
    <3> QED
      BY <1>2, <3>1, <3>2, Sizes
  <2>3. importing' = [importing EXCEPT ![t].got = q] /\ i.at = "import" /\ i.fd = NoFd
    BY <1>3, <1>5 DEF ImportBuffer, Importing
  <2> HIDE DEF q
  <2>4. [i EXCEPT !.got = q] = [at |-> "import", num |-> i.num, got |-> q, fd |-> NoFd]
    <3>1. i = [at |-> "import", num |-> i.num, got |-> i.got, fd |-> NoFd]
      BY <1>1, <2>3, ImportFields
    <3> HIDE DEF i
    <3> QED
      BY <3>1
  <2>5. importing' = [importing EXCEPT ![t] = [at |-> "import", num |-> i.num,
                                               got |-> q, fd |-> NoFd]]
    BY <2>3, <2>4, Zenon
  <2>6. Becomes(t, "import", i.num, q, NoFd)
    <3> HIDE DEF i
    <3> QED
      BY <1>1, <1>2, <2>2, <2>5, BecomesRecord
  <2> QED
    BY <2>6 DEF q
<1>6. ASSUME ImportRefused(t) \/ SurfacesFull(t)
      PROVE  Becomes(t, "undo", i.num, i.got, NoFd)
  <2>1. importing' = [importing EXCEPT ![t].at = "undo"] /\ i.fd = NoFd
    BY <1>3, <1>6 DEF ImportRefused, SurfacesFull, AllImported, Importing
  <2> QED
    BY <1>1, <2>1 DEF Becomes, ImportStates
<1>7. ASSUME ImportMismatch(t)
      PROVE  Becomes(t, "drop", i.num, i.got, NewFd)
  <2>1. NewFd \in Fds
    BY <1>7, NewFdFacts DEF ImportMismatch
  <2>2. importing' = [importing EXCEPT ![t].at = "drop", ![t].fd = NewFd]
    BY <1>7 DEF ImportMismatch
  <2> QED
    BY <1>1, <2>1, <2>2 DEF Becomes, ImportStates
<1>8. ASSUME DropImport(t)
      PROVE  \/ Becomes(t, "undo", i.num, i.got, NoFd) /\ FreeBufs({i.fd}, {})
             \/ Becomes(t, "retain", i.num, i.got, i.fd) /\ FreeBufs({i.fd}, {i.fd})
  <2>1. PICK F \in SUBSET {i.fd} :
           /\ FreeBufs({i.fd}, F)
           /\ importing' = IF F = {}
                           THEN [importing EXCEPT ![t].at = "undo", ![t].fd = NoFd]
                           ELSE [importing EXCEPT ![t].at = "retain"]
    BY <1>8 DEF DropImport
  <2>2. CASE F = {}
    BY <1>1, <2>1, <2>2 DEF Becomes, ImportStates
  <2>3. CASE F # {}
    <3>1. F = {i.fd}
      BY <2>3
    <3>2. Becomes(t, "retain", i.num, i.got, i.fd)
      BY <1>1, <2>1, <2>3 DEF Becomes, ImportStates
    <3> QED
      BY <2>1, <3>1, <3>2
  <2> QED
    BY <2>2, <2>3
<1>9. ASSUME RetainImport(t)
      PROVE  Becomes(t, "undo", i.num, i.got, NoFd)
  BY <1>1, <1>9 DEF RetainImport, Becomes, ImportStates
<1>10. ASSUME UndoImport(t)
       PROVE  Becomes(t, "drop", i.num, Tail(i.got), Head(i.got))
  <2> DEFINE q == Tail(i.got)
             fd == Head(i.got)
  <2>1. fd \in Fds /\ q \in Seq(Fds) /\ Len(q) <= MaxImport
    <3>1. i.got # << >>
      BY <1>10 DEF UndoImport
    <3> HIDE DEF i
    <3> QED
      BY <1>2, <3>1, SeqFacts, Sizes
  <2>2. importing' = [importing EXCEPT ![t].at = "drop", ![t].fd = fd, ![t].got = q]
    BY <1>10 DEF UndoImport
  <2> DEFINE j == [i EXCEPT !.at = "drop", !.fd = fd]
  <2> HIDE DEF q, fd
  <2>3. [j EXCEPT !.got = q] = [at |-> "drop", num |-> i.num, got |-> q, fd |-> fd]
    <3>1. i = [at |-> i.at, num |-> i.num, got |-> i.got, fd |-> i.fd]
      BY <1>1, ImportFields
    <3> HIDE DEF i
    <3>2. j = [at |-> "drop", num |-> i.num, got |-> i.got, fd |-> fd]
      <4> DEFINE k == [i EXCEPT !.at = "drop"]
      <4>1. k = [at |-> "drop", num |-> i.num, got |-> i.got, fd |-> i.fd]
        BY <3>1
      <4> HIDE DEF k
      <4>2. [k EXCEPT !.fd = fd] = [at |-> "drop", num |-> i.num, got |-> i.got, fd |-> fd]
        BY <4>1
      <4> QED
        BY <4>2, Zenon DEF j, k
    <3> HIDE DEF j
    <3> QED
      BY <3>2
  <2>4. importing' = [importing EXCEPT ![t] = [at |-> "drop", num |-> i.num,
                                               got |-> q, fd |-> fd]]
    BY <2>2, <2>3, Zenon
  <2>5. Becomes(t, "drop", i.num, q, fd)
    <3> HIDE DEF i
    <3> QED
      BY <1>1, <1>2, <2>1, <2>4, BecomesRecord
  <2> QED
    BY <2>5 DEF q, fd
<1>11. ASSUME ImportFails(t) \/ ImportSurfaces(t)
       PROVE  Becomes(t, "out", 0, << >>, NoFd)
  <2>1. importing' = [importing EXCEPT ![t] = [at |-> "out", num |-> 0,
                                               got |-> << >>, fd |-> NoFd]]
    BY <1>11 DEF ImportFails, ImportSurfaces, NoImport
  <2>2. << >> \in Seq(Fds) /\ Len(<< >>) <= MaxImport /\ 0 \in 0 .. MaxImport
    BY Sizes
  <2> QED
    BY <1>1, <2>1, <2>2, BecomesRecord
<1> QED
  BY <1>4, <1>5, <1>6, <1>7, <1>8, <1>9, <1>10, <1>11

-----------------------------------------------------------------------------
(* Imports and the room for what they leave.                               *)

(* An import that goes on keeps the imports well formed.                   *)
LEMMA BecomesInv ==
    ASSUME TypeOK, ImportInv, NEW t \in Threads, NEW at, NEW num, NEW got, NEW fd,
           Becomes(t, at, num, got, fd),
           at = "out" => num = 0 /\ got = << >> /\ fd = NoFd,
           at # "out" => num > 0,
           at \in {"drop", "retain"} <=> fd # NoFd,
           at \in {"drop", "retain"} => Len(got) + 1 <= num,
           Len(got) <= num
    PROVE  ImportInv'
<1> SUFFICES ASSUME NEW u \in Threads
             PROVE  /\ importing'[u].at = "out" => importing'[u] = NoImport
                    /\ importing'[u].at # "out" => importing'[u].num > 0
                    /\ (importing'[u].at \in {"drop", "retain"}) = (importing'[u].fd # NoFd)
                    /\ Len(importing'[u].got) <= importing'[u].num
                    /\ Pending(importing'[u]) <= importing'[u].num
  BY DEF ImportInv
<1>1. CASE u # t
  BY <1>1 DEF ImportInv, Becomes
<1>2. CASE u = t
  <2>1. /\ importing'[t] \in ImportStates
        /\ importing'[t].at = at /\ importing'[t].num = num
        /\ importing'[t].got = got /\ importing'[t].fd = fd
    BY DEF Becomes
  <2>2. /\ importing'[t] = [at |-> at, num |-> num, got |-> got, fd |-> fd]
        /\ num \in Nat /\ Len(got) \in Nat
    BY <2>1, ImportFields, Sizes
  <2>3. at = "out" => importing'[t] = NoImport
    BY <2>2 DEF NoImport
  <2>4. Pending(importing'[t]) <= num
    BY <2>1, <2>2 DEF Pending
  <2> QED
    BY <1>2, <2>1, <2>2, <2>3, <2>4
<1> QED
  BY <1>1, <1>2

(* What an import that goes on does to the places counted.                 *)
LEMMA BecomesRoom ==
    ASSUME TypeOK, ImportInv, RoomInv, NEW t \in Threads,
           NEW at, NEW num, NEW got, NEW fd, Becomes(t, at, num, got, fd)
    PROVE  LET i == importing[t]
               j == importing'[t]
           IN  /\ IsFiniteSet(Taken') /\ IsFiniteSet(Wanted')
               /\ Cardinality(Taken) \in Nat /\ Cardinality(Taken') \in Nat
               /\ Cardinality(Wanted) \in Nat /\ Cardinality(Wanted') \in Nat
               /\ Cardinality(Taken') + i.num = Cardinality(Taken) + j.num
               /\ Cardinality(Wanted') + Pending(i) = Cardinality(Wanted) + Pending(j)
               /\ i.num <= Cardinality(Taken) /\ Pending(i) <= Cardinality(Wanted)
<1> DEFINE f == [u \in Threads |-> importing[u].num]
           g == [u \in Threads |-> importing'[u].num]
           p == [u \in Threads |-> Pending(importing[u])]
           q == [u \in Threads |-> Pending(importing'[u])]
<1>1. /\ importing[t] \in ImportStates /\ importing'[t] \in ImportStates
      /\ \A u \in Threads \ {t} : importing'[u] = importing[u]
  BY DEF TypeOK, Becomes
<1>2. /\ f[t] \in Nat /\ g[t] \in Nat /\ p[t] \in Nat /\ q[t] \in Nat
      /\ f[t] = importing[t].num /\ g[t] = importing'[t].num
      /\ p[t] = Pending(importing[t]) /\ q[t] = Pending(importing'[t])
  BY <1>1, ImportFields, Sizes DEF Pending
<1>3. (\A u \in Threads \ {t} : g[u] = f[u]) /\ (\A u \in Threads \ {t} : q[u] = p[u])
  BY <1>1
<1>4. /\ Taken = AllPlaces(f) /\ Taken' = AllPlaces(g)
      /\ Wanted = AllPlaces(p) /\ Wanted' = AllPlaces(q)
  BY DEF Taken, Wanted, Places, AllPlaces
<1>5. IsFiniteSet(Taken) /\ IsFiniteSet(Wanted)
  BY DEF RoomInv
<1> HIDE DEF f, g, p, q
<1>6. /\ IsFiniteSet(Taken') /\ Cardinality(Taken) \in Nat /\ Cardinality(Taken') \in Nat
      /\ Cardinality(Taken') + f[t] = Cardinality(Taken) + g[t] /\ f[t] <= Cardinality(Taken)
  BY <1>2, <1>3, <1>4, <1>5, PlacesOfAll
<1>7. /\ IsFiniteSet(Wanted') /\ Cardinality(Wanted) \in Nat /\ Cardinality(Wanted') \in Nat
      /\ Cardinality(Wanted') + p[t] = Cardinality(Wanted) + q[t]
      /\ p[t] <= Cardinality(Wanted)
  BY <1>2, <1>3, <1>4, <1>5, PlacesOfAll
<1> QED
  BY <1>2, <1>6, <1>7

(* An import never wants more room than it has reserved.                   *)
LEMMA WantedIsTaken ==
    ASSUME TypeOK, ImportInv, RoomInv
    PROVE  Cardinality(Wanted) \in Nat /\ Cardinality(Wanted) <= reserved
<1>1. \A t \in Threads : Places(t, Pending(importing[t])) \subseteq Places(t, importing[t].num)
  <2> SUFFICES ASSUME NEW t \in Threads
               PROVE  1 .. Pending(importing[t]) \subseteq 1 .. importing[t].num
    BY DEF Places
  <2>1. importing[t] \in ImportStates /\ Pending(importing[t]) <= importing[t].num
    BY DEF TypeOK, ImportInv
  <2>2. importing[t].num \in Nat /\ Pending(importing[t]) \in Nat
    BY <2>1, ImportFields, Sizes DEF Pending
  <2> QED
    BY <2>1, <2>2
<1>2. Wanted \subseteq Taken
  BY <1>1 DEF Wanted, Taken
<1>3. IsFiniteSet(Taken) /\ reserved = Cardinality(Taken)
  BY DEF RoomInv
<1> QED
  BY <1>2, <1>3, FS_Subset, FS_CardinalityType

RoomTypes == orphan_count \in 0 .. OrphanSlots /\ reserved \in 0 .. OrphanSlots

(* The room stays counted when reserved and the list change with t: an fd  *)
(* retained needs less room from then on, and a reservation was allowed.   *)
LEMMA RoomKept ==
    ASSUME TypeOK, ImportInv, RoomInv, NEW t \in Threads,
           NEW at, NEW num, NEW got, NEW fd, Becomes(t, at, num, got, fd),
           NEW p \in Nat, NEW q \in Nat, NEW n \in Nat, NEW m \in Nat,
           importing[t].num = n, importing'[t].num = m,
           Pending(importing[t]) = p, Pending(importing'[t]) = q,
           \/ reserved' = reserved /\ m = n
           \/ reserved' = reserved + m /\ n = 0 /\ reserved + m <= OrphanSlots
           \/ reserved' = Released(n) /\ m = 0,
           \/ orphan_count' = orphan_count /\ q <= p
           \/ orphan_count' \in {orphan_count, orphan_count + 1} /\ p = q + 1
           \/ orphan_count' = orphan_count /\ p = 0 /\ orphan_count + reserved + q <= OrphanSlots
    PROVE  RoomInv' /\ RoomTypes'
<1>1. PICK w \in Nat, w2 \in Nat, k \in Nat, k2 \in Nat :
         /\ w = Cardinality(Wanted) /\ w2 = Cardinality(Wanted')
         /\ k = Cardinality(Taken) /\ k2 = Cardinality(Taken')
  BY BecomesRoom
<1>2. /\ IsFiniteSet(Taken') /\ IsFiniteSet(Wanted')
      /\ k2 + n = k + m /\ w2 + p = w + q /\ p <= w /\ n <= k
  BY <1>1, BecomesRoom
<1>3. PICK o \in Nat, r \in Nat, room \in Nat :
         o = orphan_count /\ r = reserved /\ room = OrphanSlots /\ r <= room
  BY Sizes DEF TypeOK
<1>4. r = k /\ w <= r /\ o + w <= room
  BY <1>1, <1>3, WantedIsTaken DEF RoomInv
<1>5. \/ reserved' = r /\ m = n
      \/ reserved' = r + m /\ n = 0 /\ r + m <= room
      \/ reserved' = r - n /\ m = 0
  BY <1>2, <1>3, <1>4 DEF Released
<1>6. reserved' = k2 /\ k2 <= room
  BY <1>2, <1>3, <1>4, <1>5
<1>7. PICK o2 \in {o, o + 1} : o2 = orphan_count'
  BY <1>3
<1>8. \/ o2 = o /\ q <= p
      \/ o2 \in {o, o + 1} /\ p = q + 1
      \/ o2 = o /\ p = 0 /\ o + r + q <= room
  BY <1>3, <1>7
<1>9. o2 + w2 <= room
  BY <1>2, <1>4, <1>8
<1>10. RoomInv'
  BY <1>1, <1>2, <1>3, <1>6, <1>7, <1>9 DEF RoomInv
<1>11. o2 \in 0 .. room /\ k2 \in 0 .. room
  BY <1>6, <1>9
<1> QED
  BY <1>3, <1>6, <1>7, <1>10, <1>11 DEF RoomTypes

(* The imports go on within the room they have reserved.                   *)
LEMMA ImportRoom ==
    ASSUME TypeOK, ImportInv, RoomInv, NEW t \in Threads,
           ImportStep(t) \/ \E n \in 1 .. MaxImport : ReserveSlots(t, n)
    PROVE  ImportInv' /\ RoomInv' /\ RoomTypes'
<1> DEFINE i == importing[t]
           j == importing'[t]
<1>1. /\ i \in ImportStates /\ i.num \in Nat /\ Len(i.got) \in Nat /\ i.got \in Seq(Fds)
      /\ i.fd \in Fds \cup {NoFd}
  BY ImportFields, Sizes DEF TypeOK
<1>2. /\ i.at = "out" => i = NoImport
      /\ i.at # "out" => i.num > 0
      /\ i.at \in {"drop", "retain"} <=> i.fd # NoFd
      /\ Len(i.got) <= i.num /\ Pending(i) <= i.num
  BY DEF ImportInv
<1>3. /\ orphan_count \in Nat /\ reserved \in Nat /\ reserved <= OrphanSlots
      /\ OrphanSlots \in Nat
  BY Sizes DEF TypeOK
<1>4. /\ reserved = Cardinality(Taken)
      /\ orphan_count + Cardinality(Wanted) <= OrphanSlots
      /\ Cardinality(Wanted) \in Nat /\ Cardinality(Wanted) <= reserved
  BY WantedIsTaken DEF RoomInv
<1>0. PICK num \in Nat, len \in Nat :
         num = i.num /\ len = Len(i.got) /\ len <= num
  BY <1>1, <1>2
<1>5. ASSUME NEW n \in 1 .. MaxImport, ReserveSlots(t, n)
      PROVE  ImportInv' /\ RoomInv' /\ RoomTypes'
  <2>1. /\ Becomes(t, "import", n, << >>, NoFd) /\ i.at = "out"
        /\ reserved' = reserved + n /\ orphan_count' = orphan_count
        /\ orphan_count + reserved + n <= OrphanSlots
    <3>1. Becomes(t, "import", n, << >>, NoFd)
      BY <1>5, ImportSteps
    <3>2. importing[t].at = "out" /\ reserved' = reserved + n
      BY <1>5, Zenon DEF ReserveSlots, Importing
    <3>3. orphan_count' = orphan_count
      BY <1>5, Zenon DEF ReserveSlots
    <3>4. orphan_count + reserved + n <= OrphanSlots
      BY <1>5, Zenon DEF ReserveSlots, MayReserve
    <3> QED
      BY <3>1, <3>2, <3>3, <3>4
  <2>2. /\ i.num = 0 /\ Pending(i) = 0 /\ j.num = n /\ Pending(j) = n
        /\ n \in Nat /\ reserved + n <= OrphanSlots
    <3>0. n \in Nat
      BY Sizes
    <3>1. n \in Nat /\ reserved + n <= OrphanSlots
      BY <1>3, <2>1, <3>0
    <3> QED
      BY <1>2, <2>1, <3>1 DEF NoImport, Pending, Becomes
  <2>3. ImportInv'
    BY <2>1, Sizes, BecomesInv
  <2> QED
    BY <2>1, <2>2, <2>3, <1>0, RoomKept
<1>6. ASSUME ImportBuffer(t)
      PROVE  ImportInv' /\ RoomInv' /\ RoomTypes'
  <2> DEFINE q == Append(i.got, NewFd)
  <2>1. /\ Becomes(t, "import", i.num, q, NoFd) /\ i.at = "import" /\ Len(i.got) < i.num
        /\ reserved' = reserved /\ orphan_count' = orphan_count
    BY <1>6, ImportSteps DEF ImportBuffer, Importing, listVars
  <2>2. Len(q) = Len(i.got) + 1
    <3>1. NewFd \in Fds
      BY <1>6, NewFdFacts DEF ImportBuffer
    <3> HIDE DEF i
    <3> QED
      BY <1>1, <3>1, SeqFacts
  <2> HIDE DEF q
  <2>3. ImportInv'
    BY <1>1, <1>2, <2>1, <2>2, BecomesInv
  <2>4. j.num = i.num /\ Pending(j) = i.num /\ Pending(i) = i.num
    BY <2>1 DEF Pending, Becomes
  <2> QED
    BY <2>1, <2>3, <2>4, <1>0, RoomKept
<1>7. ASSUME ImportRefused(t) \/ SurfacesFull(t)
      PROVE  ImportInv' /\ RoomInv' /\ RoomTypes'
  <2>1. /\ Becomes(t, "undo", i.num, i.got, NoFd) /\ i.at = "import"
        /\ reserved' = reserved /\ orphan_count' = orphan_count
    BY <1>7, ImportSteps DEF ImportRefused, SurfacesFull, AllImported, Importing, listVars
  <2>3. ImportInv'
    BY <1>1, <1>2, <2>1, BecomesInv
  <2>4. j.num = i.num /\ Pending(j) = Len(i.got) /\ Pending(i) = i.num
    BY <2>1 DEF Pending, Becomes
  <2> QED
    BY <2>1, <2>3, <2>4, <1>0, RoomKept
<1>8. ASSUME ImportMismatch(t)
      PROVE  ImportInv' /\ RoomInv' /\ RoomTypes'
  <2>1. /\ Becomes(t, "drop", i.num, i.got, NewFd) /\ i.at = "import" /\ Len(i.got) < i.num
        /\ reserved' = reserved /\ orphan_count' = orphan_count
    BY <1>8, ImportSteps DEF ImportMismatch, Importing, listVars
  <2>2. NewFd # NoFd
    BY <1>8, NewFdFacts, Sizes DEF ImportMismatch
  <2>3. ImportInv'
    BY <1>1, <1>2, <2>1, <2>2, BecomesInv
  <2>4. j.num = i.num /\ Pending(j) = Len(i.got) + 1 /\ Pending(i) = i.num
    BY <2>1 DEF Pending, Becomes
  <2> QED
    BY <2>1, <2>3, <2>4, <1>0, RoomKept
<1>9. ASSUME DropImport(t)
      PROVE  ImportInv' /\ RoomInv' /\ RoomTypes'
  <2>1. /\ i.at = "drop" /\ Pending(i) = Len(i.got) + 1
        /\ reserved' = reserved /\ orphan_count' = orphan_count
    BY <1>9 DEF DropImport, Importing, Pending, listVars
  <2>2. CASE Becomes(t, "undo", i.num, i.got, NoFd)
    <3>1. ImportInv'
      BY <1>1, <1>2, <2>1, <2>2, BecomesInv
    <3>2. j.num = i.num /\ Pending(j) = Len(i.got)
      BY <2>2 DEF Pending, Becomes
    <3> QED
      BY <2>1, <2>2, <3>1, <3>2, <1>0, RoomKept
  <2>3. CASE Becomes(t, "retain", i.num, i.got, i.fd)
    <3>1. ImportInv'
      BY <1>1, <1>2, <2>1, <2>3, BecomesInv
    <3>2. j.num = i.num /\ Pending(j) = Len(i.got) + 1
      BY <2>3 DEF Pending, Becomes
    <3> QED
      BY <2>1, <2>3, <3>1, <3>2, <1>0, RoomKept
  <2> QED
    BY <1>9, <2>2, <2>3, ImportSteps
<1>10. ASSUME RetainImport(t)
       PROVE  ImportInv' /\ RoomInv' /\ RoomTypes'
  <2>1. /\ Becomes(t, "undo", i.num, i.got, NoFd)
        /\ i.at = "retain" /\ Pending(i) = Len(i.got) + 1
        /\ reserved' = reserved /\ orphan_count' \in {orphan_count, orphan_count + 1}
    BY <1>10, ImportSteps DEF RetainImport, Importing, Pending
  <2>2. ImportInv'
    BY <1>1, <1>2, <2>1, BecomesInv
  <2>3. j.num = i.num /\ Pending(j) = Len(i.got)
    BY <2>1 DEF Pending, Becomes
  <2> QED
    BY <2>1, <2>2, <2>3, <1>0, RoomKept
<1>11. ASSUME UndoImport(t)
       PROVE  ImportInv' /\ RoomInv' /\ RoomTypes'
  <2> DEFINE q == Tail(i.got)
             fd == Head(i.got)
  <2>1. /\ Becomes(t, "drop", i.num, q, fd) /\ i.at = "undo" /\ i.got # << >>
        /\ reserved' = reserved /\ orphan_count' = orphan_count
    <3>1. Becomes(t, "drop", i.num, q, fd)
      BY <1>11, ImportSteps
    <3> HIDE DEF q, fd
    <3> QED
      BY <1>11, <3>1 DEF UndoImport, Importing, listVars
  <2>2. fd \in Fds /\ Len(q) + 1 = Len(i.got) /\ Len(q) \in Nat
    BY <1>1, <2>1, SeqFacts
  <2> HIDE DEF q, fd
  <2>3. ImportInv'
    BY <1>1, <1>2, <2>1, <2>2, BecomesInv, Sizes
  <2>4. j.num = i.num /\ Pending(j) = Len(i.got) /\ Pending(i) = Len(i.got)
    BY <2>1, <2>2 DEF Pending, Becomes
  <2> QED
    BY <2>1, <2>3, <2>4, <1>0, RoomKept
<1>12. ASSUME ImportFails(t) \/ ImportSurfaces(t)
       PROVE  ImportInv' /\ RoomInv' /\ RoomTypes'
  <2>1. /\ Becomes(t, "out", 0, << >>, NoFd)
        /\ reserved' = Released(i.num)
        /\ orphan_count' = orphan_count
    BY <1>12, ImportSteps DEF ImportFails, ImportSurfaces
  <2>2. ImportInv'
    BY <2>1, BecomesInv
  <2>3. j.num = 0 /\ Pending(j) = 0 /\ Pending(i) \in Nat
    BY <1>1, <2>1 DEF Pending, Becomes
  <2> QED
    BY <2>1, <2>2, <2>3, <1>0, RoomKept
<1> QED
  BY <1>5, <1>6, <1>7, <1>8, <1>9, <1>10, <1>11, <1>12 DEF ImportStep

-----------------------------------------------------------------------------
(* Contexts and surfaces.                                                  *)

CtxTypes ==
    /\ context \in [Contexts -> ContextStates]
    /\ surface \in [Surfaces -> SurfaceStates]

CtxInv == SlotInv /\ FrameInv /\ BackInv

LEMMA FreeSlotTypes == FreeContext \in ContextStates /\ FreeSurface \in SurfaceStates
BY DEF FreeContext, FreeSurface, ContextStates, SurfaceStates

(* q is the surface r with the three fields about its contexts changed.    *)
Reassigned(r, q, users, id, out) ==
    /\ q \in SurfaceStates
    /\ q.allocated = r.allocated /\ q.gbuf = r.gbuf /\ q.locked = r.locked
    /\ q.users = users /\ q.context_id = id /\ q.output_context_id = out

LEMMA ReassignedFacts ==
    ASSUME NEW r \in SurfaceStates, NEW users \in SUBSET Contexts,
           NEW id \in Contexts \cup {NoContext}, NEW out \in Contexts \cup {NoContext}
    PROVE  /\ Reassigned(r, [r EXCEPT !.users = users, !.context_id = id,
                                      !.output_context_id = out], users, id, out)
           /\ Reassigned(r, [r EXCEPT !.users = users, !.context_id = id],
                         users, id, r.output_context_id)
           /\ Reassigned(r, [r EXCEPT !.users = users], users, r.context_id, r.output_context_id)
           /\ Reassigned(r, [r EXCEPT !.output_context_id = out], r.users, r.context_id, out)
<1> DEFINE r1 == [r EXCEPT !.users = users]
           r2 == [r1 EXCEPT !.context_id = id]
           r3 == [r2 EXCEPT !.output_context_id = out]
<1>1. Reassigned(r, r1, users, r.context_id, r.output_context_id)
  BY DEF Reassigned, SurfaceStates
<1>2. Reassigned(r, [r EXCEPT !.output_context_id = out], r.users, r.context_id, out)
  BY DEF Reassigned, SurfaceStates
<1> HIDE DEF r1
<1>3. Reassigned(r, r2, users, id, r.output_context_id)
  BY <1>1 DEF Reassigned, SurfaceStates
<1> HIDE DEF r2
<1>4. Reassigned(r, r3, users, id, out)
  BY <1>3 DEF Reassigned, SurfaceStates
<1> QED
  BY <1>1, <1>2, <1>3, <1>4 DEF r1, r2

(* A surface that is free and changed in nothing is still free.            *)
LEMMA ReassignedFree ==
    ASSUME NEW q, Reassigned(FreeSurface, q, {}, NoContext, NoContext)
    PROVE  q = FreeSurface
BY DEF Reassigned, FreeSurface, SurfaceStates

LEMMA DetachedFacts ==
    ASSUME TypeOK, NEW c \in Contexts, NEW s \in Surfaces
    PROVE  Reassigned(surface[s], Detached(c)[s], surface[s].users \ {c},
                      IF surface[s].context_id = c THEN NoContext ELSE surface[s].context_id,
                      IF surface[s].output_context_id = c THEN NoContext
                                                          ELSE surface[s].output_context_id)
<1> DEFINE r == surface[s]
           id == IF r.context_id = c THEN NoContext ELSE r.context_id
           out == IF r.output_context_id = c THEN NoContext ELSE r.output_context_id
<1>1. r \in SurfaceStates
  BY DEF TypeOK
<1>2. /\ r.users \ {c} \in SUBSET Contexts /\ id \in Contexts \cup {NoContext}
      /\ out \in Contexts \cup {NoContext}
  BY <1>1 DEF SurfaceStates
<1>3. Detached(c)[s] = [r EXCEPT !.users = r.users \ {c}, !.context_id = id,
                                 !.output_context_id = out]
  BY Zenon DEF Detached
<1> DEFINE users == r.users \ {c}
<1> HIDE DEF r, id, out, users
<1>4. Reassigned(r, [r EXCEPT !.users = users, !.context_id = id, !.output_context_id = out],
                 users, id, out)
  BY <1>1, <1>2, ReassignedFacts DEF users
<1>5. Reassigned(r, Detached(c)[s], users, id, out)
  BY <1>3, <1>4, Zenon DEF users
<1> QED
  BY <1>5 DEF r, id, out, users

LEMMA UnusedFacts ==
    ASSUME TypeOK, NEW gone, NEW s \in Surfaces
    PROVE  Reassigned(surface[s], Unused(gone)[s], surface[s].users \ gone,
                      surface[s].context_id, surface[s].output_context_id)
<1>1. surface[s] \in SurfaceStates /\ surface[s].users \ gone \in SUBSET Contexts
  BY DEF TypeOK, SurfaceStates
<1>2. Unused(gone)[s] = [surface[s] EXCEPT !.users = surface[s].users \ gone]
  BY Zenon DEF Unused
<1> QED
  BY <1>1, <1>2 DEF Reassigned, SurfaceStates

LEMMA FramesReturnedFacts ==
    ASSUME TypeOK, NEW c \in Contexts, NEW kept, NEW s \in Surfaces
    PROVE  \/ /\ s \in BorrowedFrames(c) \ kept
              /\ Reassigned(surface[s], FramesReturned(c, kept)[s], surface[s].users,
                            surface[s].context_id, NoContext)
           \/ /\ s \notin BorrowedFrames(c) \ kept
              /\ FramesReturned(c, kept)[s] = surface[s]
<1>1. surface[s] \in SurfaceStates /\ surface[s].users \in SUBSET Contexts
  BY DEF TypeOK, SurfaceStates
<1>2. NoContext \in Contexts \cup {NoContext}
  OBVIOUS
<1>3. CASE s \in BorrowedFrames(c) \ kept
  <2>1. FramesReturned(c, kept)[s] = [surface[s] EXCEPT !.output_context_id = NoContext]
    BY <1>3, Zenon DEF FramesReturned
  <2> QED
    BY <1>1, <1>2, <1>3, <2>1 DEF Reassigned, SurfaceStates
<1>4. CASE s \notin BorrowedFrames(c) \ kept
  BY <1>4, Zenon DEF FramesReturned
<1> QED
  BY <1>3, <1>4

(* The parts of the invariant, for the context h in its slot.              *)
ContextSound(h) ==
    /\ ~h.allocated => h = FreeContext
    /\ h.busy => h.vpu_running
    /\ h.deferred => ~h.vpu_running /\ h.scratch = NoFd /\ ~h.cleanup_orphaned
    /\ h.cleanup_orphaned => ~h.busy /\ ~h.input /\ ~h.output
    /\ ~h.vpu_running => ~h.input /\ ~h.output
    /\ h.vpu_running => h.vpu_initialized

(* h may own no frame.                                                     *)
Frameless(h) == ~h.vpu_running \/ h.cleanup_orphaned

LEMMA SoundMeans ==
    CtxInv <=> /\ \A s \in Surfaces : ~surface[s].allocated => surface[s] = FreeSurface
               /\ \A c \in Contexts : ContextSound(context[c])
               /\ \A c \in Contexts : Frameless(context[c]) =>
                     \A s \in Surfaces : surface[s].output_context_id # c
BY DEF CtxInv, SlotInv, FrameInv, BackInv, ContextSound, Frameless

LEMMA SoundMeansNext ==
    CtxInv' <=> /\ \A s \in Surfaces : ~surface'[s].allocated => surface'[s] = FreeSurface
                /\ \A c \in Contexts : ContextSound(context'[c])
                /\ \A c \in Contexts : Frameless(context'[c]) =>
                      \A s \in Surfaces : surface'[s].output_context_id # c
BY DEF CtxInv, SlotInv, FrameInv, BackInv, ContextSound, Frameless

LEMMA FreeIsSound == ContextSound(FreeContext) /\ Frameless(FreeContext)
BY DEF ContextSound, Frameless, FreeContext

(* One context changes, and surfaces whose frame is of another keep it.    *)
LEMMA OneContext ==
    ASSUME TypeOK, CtxInv, NEW c \in Contexts, NEW r \in ContextStates,
           context' = [context EXCEPT ![c] = r], ContextSound(r),
           surface' \in [Surfaces -> SurfaceStates],
           \A s \in Surfaces : ~surface'[s].allocated => surface'[s] = FreeSurface,
           \A s \in Surfaces : surface'[s].output_context_id
                                  \in {surface[s].output_context_id, NoContext, c},
           Frameless(r) => \A s \in Surfaces : surface'[s].output_context_id # c
    PROVE  CtxTypes' /\ CtxInv'
<1>1. context \in [Contexts -> ContextStates]
  BY DEF TypeOK
<1>2. context' \in [Contexts -> ContextStates]
  BY <1>1
<1>3. ASSUME NEW d \in Contexts
      PROVE  /\ ContextSound(context'[d])
             /\ Frameless(context'[d]) => \A s \in Surfaces : surface'[s].output_context_id # d
  <2>1. CASE d = c
    BY <1>1, <2>1
  <2>2. CASE d # c
    <3>1. context'[d] = context[d] /\ d # NoContext
      BY <1>1, <2>2, Sizes
    <3> QED
      BY <2>2, <3>1, SoundMeans
  <2> QED
    BY <2>1, <2>2
<1> QED
  BY <1>2, <1>3, SoundMeansNext DEF CtxTypes

(* Surfaces alone change.                                                  *)
LEMMA OnlySurfaces ==
    ASSUME TypeOK, CtxInv, context' = context,
           surface' \in [Surfaces -> SurfaceStates],
           \A s \in Surfaces : ~surface'[s].allocated => surface'[s] = FreeSurface,
           \A s \in Surfaces : surface'[s].output_context_id
                                  \in {surface[s].output_context_id, NoContext}
    PROVE  CtxTypes' /\ CtxInv'
<1>1. context' \in [Contexts -> ContextStates]
  BY DEF TypeOK
<1>2. \A c \in Contexts : c # NoContext
  BY Sizes
<1> QED
  BY <1>1, <1>2, SoundMeans, SoundMeansNext DEF CtxTypes

LEMMA TearDownKeeps ==
    ASSUME TypeOK, CtxInv, NEW c \in Contexts, NEW kept, NEW frames, NEW stage,
           NEW sound \in BOOLEAN, TearDown(c, kept, frames, stage, sound), ~context[c].busy
    PROVE  CtxTypes' /\ CtxInv'
<1>1. CASE TearDownEnds(c, frames)
  <2>1. /\ context' = [context EXCEPT ![c] = FreeContext]
        /\ surface' = Detached(c)
    BY <1>1 DEF TearDownEnds
  <2>2. \A s \in Surfaces : /\ Detached(c)[s] \in SurfaceStates
                            /\ Detached(c)[s].output_context_id
                                  \in {surface[s].output_context_id, NoContext}
                            /\ Detached(c)[s].output_context_id # c
    BY DetachedFacts, Sizes DEF Reassigned
  <2>3. \A s \in Surfaces : ~Detached(c)[s].allocated => Detached(c)[s] = FreeSurface
    <3> SUFFICES ASSUME NEW s \in Surfaces, ~Detached(c)[s].allocated
                 PROVE  Detached(c)[s] = FreeSurface
      OBVIOUS
    <3>1. surface[s] = FreeSurface
      BY DetachedFacts, SoundMeans DEF Reassigned
    <3>2. Reassigned(FreeSurface, Detached(c)[s], {}, NoContext, NoContext)
      <4>1. /\ FreeSurface.users = {} /\ FreeSurface.context_id = NoContext
            /\ FreeSurface.output_context_id = NoContext
        BY DEF FreeSurface
      <4>2. {} \ {c} = {}
        OBVIOUS
      <4> QED
        BY <3>1, <4>1, <4>2, DetachedFacts
    <3> QED
      BY <3>2, ReassignedFree
  <2>4. surface' \in [Surfaces -> SurfaceStates]
    <3>1. surface' = [s \in Surfaces |-> Detached(c)[s]]
      BY <2>1, Zenon DEF Detached
    <3> QED
      BY <2>2, <3>1
  <2> QED
    BY <2>1, <2>2, <2>3, <2>4, FreeIsSound, FreeSlotTypes, OneContext
<1>2. CASE TearDownLeaves(c, frames)
  <2>1. PICK r \in ContextStates :
           /\ Leaves(context[c], r)
           /\ context' = [context EXCEPT ![c] = r]
           /\ context[c].vpu_running /\ ~r.vpu_running =>
                 ~r.input /\ ~r.output /\ frames = {}
    BY <1>2 DEF TearDownLeaves
  <2>2. surface' = FramesReturned(c, frames)
    BY <1>2 DEF TearDownLeaves
  <2>3. \A s \in Surfaces :
           /\ surface'[s] \in SurfaceStates
           /\ surface'[s].allocated = surface[s].allocated
           /\ surface'[s].output_context_id \in {surface[s].output_context_id, NoContext}
           /\ surface'[s] = surface[s] \/ surface[s].allocated
    BY <2>2, FramesReturnedFacts DEF Reassigned, TypeOK, BorrowedFrames, FramesOf
  <2>4. \A s \in Surfaces : ~surface'[s].allocated => surface'[s] = FreeSurface
    BY <2>3, SoundMeans
  <2>5. surface' \in [Surfaces -> SurfaceStates]
    <3>1. surface' = [s \in Surfaces |-> surface'[s]]
      BY <2>2 DEF FramesReturned
    <3> QED
      BY <2>3, <3>1
  <2>6. ContextSound(context[c])
    BY SoundMeans
  <2>7. ContextSound(r)
    <3>1. ~r.allocated => r = FreeContext
      <4> SUFFICES ASSUME ~r.allocated
                   PROVE  r = FreeContext
        OBVIOUS
      <4>1. context[c] = FreeContext
        BY <2>1, <2>6 DEF Leaves, ContextSound
      <4> DEFINE h == FreeContext
      <4>2. /\ ~h.allocated /\ ~h.is_encoder /\ ~h.vpu_initialized /\ ~h.vpu_running
            /\ ~h.deferred /\ ~h.busy /\ ~h.wedged /\ ~h.input /\ ~h.output
            /\ ~h.cleanup_orphaned
            /\ h.scratch = NoFd /\ h \in ContextStates /\ Leaves(h, r)
        BY <2>1, <4>1, FreeSlotTypes DEF FreeContext
      <4> HIDE DEF h
      <4>3. /\ ~r.allocated /\ ~r.is_encoder /\ ~r.vpu_initialized /\ ~r.vpu_running
            /\ ~r.deferred /\ ~r.busy /\ ~r.wedged /\ ~r.input /\ ~r.output
            /\ ~r.cleanup_orphaned
            /\ r.scratch = NoFd
        BY <4>2 DEF Leaves, ContextStates
      <4>4. r = h
        BY <4>2, <4>3 DEF ContextStates
      <4> QED
        BY <4>4 DEF h
    <3> QED
      BY <2>1, <2>6, <3>1 DEF Leaves, ContextSound
  <2>8. Frameless(r) => \A s \in Surfaces : surface'[s].output_context_id # c
    <3> SUFFICES ASSUME Frameless(r), NEW s \in Surfaces,
                        surface'[s].output_context_id = c
                 PROVE  FALSE
      OBVIOUS
    <3>1. surface[s].output_context_id = c
      BY <2>3, Sizes
    <3>2. context[c].vpu_running /\ ~context[c].cleanup_orphaned
      BY <3>1, SoundMeans DEF Frameless
    <3>3. frames = {}
      BY <2>1, <3>2 DEF Frameless, Leaves
    <3>4. surface[s].allocated
      BY <3>1, SoundMeans, Sizes DEF FreeSurface
    <3>5. s \in BorrowedFrames(c) \ frames
      BY <3>1, <3>2, <3>3, <3>4 DEF BorrowedFrames, FramesOf
    <3> QED
      BY <2>2, <3>5, FramesReturnedFacts, Sizes DEF Reassigned
  <2> QED
    BY <2>1, <2>3, <2>4, <2>5, <2>7, <2>8, OneContext
<1> QED
  BY <1>1, <1>2, TearDownFacts

(* r is the encoder h after its deferred start.                            *)
Started(h, r, run, scratch, orphaned) ==
    /\ r \in ContextStates
    /\ r.allocated = h.allocated /\ r.is_encoder = h.is_encoder
    /\ r.busy = h.busy /\ r.input = h.input /\ r.output = h.output
    /\ ~r.deferred /\ r.vpu_running = run /\ (run => r.vpu_initialized)
    /\ r.scratch = scratch /\ r.cleanup_orphaned = orphaned

LEMMA StartedFacts ==
    ASSUME NEW h \in ContextStates, NEW scratch \in Fds \cup {NoFd}
    PROVE  Started(h, [h EXCEPT !.deferred = FALSE, !.vpu_initialized = TRUE,
                                !.vpu_running = TRUE, !.scratch = scratch],
                   TRUE, scratch, h.cleanup_orphaned)
<1> DEFINE Same(x, y) == /\ x \in ContextStates
                         /\ x.allocated = y.allocated /\ x.is_encoder = y.is_encoder
                         /\ x.busy = y.busy /\ x.input = y.input /\ x.output = y.output
                         /\ x.cleanup_orphaned = y.cleanup_orphaned
           h1 == [h EXCEPT !.deferred = FALSE]
           h2 == [h1 EXCEPT !.vpu_initialized = TRUE]
           h3 == [h2 EXCEPT !.vpu_running = TRUE]
           h4 == [h3 EXCEPT !.scratch = scratch]
<1>1. Same(h1, h) /\ ~h1.deferred
  BY DEF ContextStates
<1> HIDE DEF h1
<1>2. Same(h2, h) /\ ~h2.deferred /\ h2.vpu_initialized
  BY <1>1 DEF ContextStates
<1> HIDE DEF h2
<1>3. Same(h3, h) /\ ~h3.deferred /\ h3.vpu_running = TRUE /\ h3.vpu_initialized
  BY <1>2 DEF ContextStates
<1> HIDE DEF h3
<1>4. Started(h, h4, TRUE, scratch, h.cleanup_orphaned)
  BY <1>3 DEF ContextStates, Started
<1> QED
  BY <1>4 DEF h1, h2, h3

LEMMA StartFailedFacts ==
    ASSUME NEW h \in ContextStates, NEW scratch \in Fds \cup {NoFd},
           NEW run \in BOOLEAN, NEW ini \in BOOLEAN, NEW orphaned \in BOOLEAN,
           run => ini
    PROVE  Started(h, [h EXCEPT !.deferred = FALSE, !.vpu_running = run,
                                !.vpu_initialized = ini, !.scratch = scratch,
                                !.cleanup_orphaned = orphaned],
                   run, scratch, orphaned)
<1> DEFINE Same(x, y) == /\ x \in ContextStates
                         /\ x.allocated = y.allocated /\ x.is_encoder = y.is_encoder
                         /\ x.busy = y.busy /\ x.input = y.input /\ x.output = y.output
           h1 == [h EXCEPT !.deferred = FALSE]
           h2 == [h1 EXCEPT !.vpu_running = run]
           h3 == [h2 EXCEPT !.vpu_initialized = ini]
           h4 == [h3 EXCEPT !.scratch = scratch]
           h5 == [h4 EXCEPT !.cleanup_orphaned = orphaned]
<1>1. Same(h1, h) /\ ~h1.deferred
  BY DEF ContextStates
<1> HIDE DEF h1
<1>2. Same(h2, h) /\ ~h2.deferred /\ h2.vpu_running = run
  BY <1>1 DEF ContextStates
<1> HIDE DEF h2
<1>3. Same(h3, h) /\ ~h3.deferred /\ h3.vpu_running = run /\ h3.vpu_initialized = ini
  BY <1>2 DEF ContextStates
<1> HIDE DEF h3
<1>4. /\ Same(h4, h) /\ ~h4.deferred /\ h4.vpu_running = run
      /\ h4.vpu_initialized = ini /\ h4.scratch = scratch
  BY <1>3 DEF ContextStates
<1> HIDE DEF h4
<1>5. Started(h, h5, run, scratch, orphaned)
  BY <1>4 DEF ContextStates, Started
<1> QED
  BY <1>5 DEF h1, h2, h3, h4

(* The surface an operation takes: its users and its contexts change.      *)
LEMMA Takes ==
    ASSUME TypeOK, CtxInv, NEW c \in Contexts, NEW s \in Surfaces, surface[s].allocated,
           NEW out \in Contexts \cup {NoContext}, NEW q,
           Reassigned(surface[s], q, surface[s].users \cup {c}, c, out),
           surface' = [surface EXCEPT ![s] = q]
    PROVE  /\ surface' \in [Surfaces -> SurfaceStates]
           /\ \A z \in Surfaces : ~surface'[z].allocated => surface'[z] = FreeSurface
           /\ \A z \in Surfaces \ {s} : surface'[z] = surface[z]
           /\ surface'[s] = q
<1>1. surface \in [Surfaces -> SurfaceStates] /\ q \in SurfaceStates /\ q.allocated
  BY DEF TypeOK, Reassigned
<1> QED
  BY <1>1, SoundMeans

(* Either start leaves the context as Started says, and the surface taken. *)
StartShape(c, s, r, run, scratch, orphaned) ==
    /\ context' = [context EXCEPT ![c] = r]
    /\ Started(context[c], r, run, scratch, orphaned)
    /\ scratch \in {NoFd} \cup (IF HasFd THEN {NewFd} ELSE {})
    /\ live' = live \cup ({scratch} \ {NoFd})

LEMMA StartFacts ==
    ASSUME TypeOK, NEW c \in Contexts, NEW s \in Surfaces,
           StartEncoder(c, s) \/ StartEncoderFails(c, s)
    PROVE  /\ \E r, run, scratch, orphaned : StartShape(c, s, r, run, scratch, orphaned)
           /\ faults' \in 0 .. MaxFaults
           /\ surface' = [surface EXCEPT ![s] =
                             [surface[s] EXCEPT !.users = surface[s].users \cup {c},
                                                !.context_id = c]]
<1>1. context[c] \in ContextStates
  BY DEF TypeOK
<1>2. CASE StartEncoder(c, s)
  <2>1. PICK scratch \in {NoFd} \cup (IF HasFd THEN {NewFd} ELSE {}) :
           /\ context' = [context EXCEPT ![c].deferred = FALSE,
                                         ![c].vpu_initialized = TRUE,
                                         ![c].vpu_running = TRUE,
                                         ![c].scratch = scratch]
           /\ live' = live \cup ({scratch} \ {NoFd})
    BY <1>2, Zenon DEF StartEncoder
  <2> DEFINE r == [context[c] EXCEPT !.deferred = FALSE, !.vpu_initialized = TRUE,
                                     !.vpu_running = TRUE, !.scratch = scratch]
  <2>2. context' = [context EXCEPT ![c] = r]
    BY <2>1, Zenon
  <2>3. scratch \in Fds \cup {NoFd}
    BY <2>1, NewFdFacts
  <2>4. Started(context[c], r, TRUE, scratch, context[c].cleanup_orphaned)
    BY <1>1, <2>3, StartedFacts, Zenon
  <2> HIDE DEF r
  <2>5. StartShape(c, s, r, TRUE, scratch, context[c].cleanup_orphaned)
    BY <2>1, <2>2, <2>4 DEF StartShape
  <2>6. faults' \in 0 .. MaxFaults
    BY <1>2, Zenon DEF StartEncoder, TypeOK
  <2> QED
    BY <1>2, <2>5, <2>6, Zenon DEF StartEncoder
<1>3. CASE StartEncoderFails(c, s)
  <2>1. PICK scratch \in {NoFd} \cup (IF HasFd THEN {NewFd} ELSE {}),
             stage \in {"none", "stop", "release", "scratch"} :
           /\ context' = [context EXCEPT
                             ![c].deferred = FALSE,
                             ![c].vpu_running = stage = "stop",
                             ![c].vpu_initialized = stage \in {"stop", "release"},
                             ![c].scratch = IF stage = "none" THEN NoFd ELSE scratch,
                             ![c].cleanup_orphaned = stage # "none"]
           /\ live' = live \cup ({IF stage = "none" THEN NoFd ELSE scratch} \ {NoFd})
           /\ Fail(IF stage = "none" THEN 1 ELSE 2)
    BY <1>3, Zenon DEF StartEncoderFails
  <2> DEFINE run == stage = "stop"
             ini == stage \in {"stop", "release"}
             left == IF stage = "none" THEN NoFd ELSE scratch
             orphaned == stage # "none"
             r == [context[c] EXCEPT !.deferred = FALSE, !.vpu_running = run,
                                     !.vpu_initialized = ini, !.scratch = left,
                                     !.cleanup_orphaned = orphaned]
  <2>2. context' = [context EXCEPT ![c] = r] /\ live' = live \cup ({left} \ {NoFd})
    BY <2>1, Zenon
  <2>3. left \in Fds \cup {NoFd} /\ left \in {NoFd} \cup (IF HasFd THEN {NewFd} ELSE {})
    BY <2>1, NewFdFacts
  <2>4. run \in BOOLEAN /\ ini \in BOOLEAN /\ orphaned \in BOOLEAN /\ (run => ini)
    OBVIOUS
  <2>5. Started(context[c], r, run, left, orphaned)
    <3> HIDE DEF run, ini, orphaned, left
    <3> QED
      BY <1>1, <2>3, <2>4, StartFailedFacts, Zenon
  <2> HIDE DEF r, run, left, orphaned
  <2>6. StartShape(c, s, r, run, left, orphaned)
    BY <2>2, <2>3, <2>5 DEF StartShape
  <2>7. faults' \in 0 .. MaxFaults
    BY <2>1, FailFacts
  <2> QED
    BY <1>3, <2>6, <2>7, Zenon DEF StartEncoderFails
<1> QED
  BY <1>2, <1>3

LEMMA TakenFacts ==
    ASSUME TypeOK, NEW c \in Contexts, NEW s \in Surfaces
    PROVE  Reassigned(surface[s], [surface[s] EXCEPT !.users = surface[s].users \cup {c},
                                                     !.context_id = c],
                      surface[s].users \cup {c}, c, surface[s].output_context_id)
<1> DEFINE users == surface[s].users \cup {c}
           q1 == [surface[s] EXCEPT !.users = users]
<1>1. surface[s] \in SurfaceStates
  BY DEF TypeOK
<1>2. users \in SUBSET Contexts /\ c \in Contexts \cup {NoContext}
  BY <1>1 DEF SurfaceStates
<1>3. Reassigned(surface[s], q1, users, surface[s].context_id, surface[s].output_context_id)
  BY <1>1, <1>2 DEF Reassigned, SurfaceStates
<1> HIDE DEF q1
<1>4. Reassigned(surface[s], [q1 EXCEPT !.context_id = c], users, c,
                 surface[s].output_context_id)
  BY <1>2, <1>3 DEF Reassigned, SurfaceStates
<1> QED
  BY <1>4, Zenon DEF q1

LEMMA StartKeeps ==
    ASSUME TypeOK, CtxInv, NEW c \in Contexts, NEW s \in Surfaces,
           StartEncoder(c, s) \/ StartEncoderFails(c, s)
    PROVE  CtxTypes' /\ CtxInv'
<1>1. context[c].deferred /\ surface[s].allocated
  BY Zenon DEF StartEncoder, StartEncoderFails
<1>2. surface[s] \in SurfaceStates
  BY DEF TypeOK
<1>3. ContextSound(context[c]) /\ context[c].allocated /\ ~context[c].vpu_running
  BY <1>1, SoundMeans DEF ContextSound, FreeContext
<1>4. PICK r, run, scratch, orphaned : StartShape(c, s, r, run, scratch, orphaned)
  BY StartFacts, Zenon
<1>5. context' = [context EXCEPT ![c] = r] /\ Started(context[c], r, run, scratch, orphaned)
  BY <1>4 DEF StartShape
<1>6. r \in ContextStates /\ ContextSound(r)
  BY <1>3, <1>5 DEF Started, ContextSound
<1> DEFINE q == [surface[s] EXCEPT !.users = surface[s].users \cup {c}, !.context_id = c]
<1>7. surface' = [surface EXCEPT ![s] = q]
  BY StartFacts, Zenon
<1>8. Reassigned(surface[s], q, surface[s].users \cup {c}, c, surface[s].output_context_id)
  BY TakenFacts, Zenon
<1>9. surface[s].output_context_id \in Contexts \cup {NoContext}
  BY <1>2 DEF SurfaceStates
<1> HIDE DEF q
<1>10. /\ surface' \in [Surfaces -> SurfaceStates]
       /\ \A z \in Surfaces : ~surface'[z].allocated => surface'[z] = FreeSurface
       /\ \A z \in Surfaces \ {s} : surface'[z] = surface[z]
       /\ surface'[s] = q
  BY <1>1, <1>7, <1>8, <1>9, Takes
<1>11. \A z \in Surfaces : surface'[z].output_context_id = surface[z].output_context_id
  BY <1>8, <1>10 DEF Reassigned
<1>12. \A z \in Surfaces : surface[z].output_context_id # c
  BY <1>3, SoundMeans DEF Frameless
<1> QED
  BY <1>5, <1>6, <1>10, <1>11, <1>12, OneContext

(* Beginning and ending to use a surface, and what arrives meanwhile.      *)
LEMMA UseKeeps ==
    ASSUME TypeOK, CtxInv, NEW c \in Contexts,
           \/ \E s \in Surfaces : BeginUse(c, s) \/ ReceiveFrame(c, s)
           \/ \E b \in {"input", "output"} : KeepBuffer(c, b)
           \/ Wedge(c) \/ EndUse(c)
    PROVE  CtxTypes' /\ CtxInv'
<1> DEFINE h == context[c]
<1>1. /\ context \in [Contexts -> ContextStates] /\ h \in ContextStates
      /\ surface \in [Surfaces -> SurfaceStates]
  BY DEF TypeOK
<1>2. ContextSound(h)
  BY SoundMeans
<1>3. h.busy => /\ h.vpu_running /\ ~h.cleanup_orphaned /\ h.allocated
  BY <1>2 DEF ContextSound, FreeContext
<1>4. ASSUME NEW s \in Surfaces, BeginUse(c, s)
      PROVE  CtxTypes' /\ CtxInv'
  <2> DEFINE r == [h EXCEPT !.busy = TRUE]
             users == surface[s].users \cup {c}
             out == IF h.is_encoder THEN surface[s].output_context_id ELSE NoContext
             q == [surface[s] EXCEPT !.users = users, !.context_id = c,
                                     !.output_context_id = out]
  <2>1. h.vpu_running /\ ~h.cleanup_orphaned /\ ~h.busy /\ surface[s].allocated
    BY <1>4, Zenon DEF BeginUse
  <2>2. context' = [context EXCEPT ![c] = r] /\ surface' = [surface EXCEPT ![s] = q]
    BY <1>4, Zenon DEF BeginUse
  <2>3. h.allocated
    BY <1>2, <2>1 DEF ContextSound, FreeContext
  <2>4. r \in ContextStates /\ ContextSound(r) /\ ~Frameless(r)
    BY <1>1, <1>2, <2>1, <2>3 DEF ContextSound, Frameless, ContextStates
  <2>5. /\ surface[s] \in SurfaceStates /\ users \in SUBSET Contexts
        /\ c \in Contexts \cup {NoContext} /\ out \in Contexts \cup {NoContext}
    BY <1>1 DEF SurfaceStates
  <2>6. out \in {surface[s].output_context_id, NoContext}
    OBVIOUS
  <2> HIDE DEF r, h, users, out
  <2>7. Reassigned(surface[s], q, users, c, out)
    BY <2>5, ReassignedFacts, Zenon
  <2> HIDE DEF q
  <2>8. /\ surface' \in [Surfaces -> SurfaceStates]
        /\ \A z \in Surfaces : ~surface'[z].allocated => surface'[z] = FreeSurface
        /\ \A z \in Surfaces \ {s} : surface'[z] = surface[z]
        /\ surface'[s] = q
    BY <2>1, <2>2, <2>5, <2>7, Takes DEF users
  <2>9. \A z \in Surfaces : surface'[z].output_context_id
                               \in {surface[z].output_context_id, NoContext, c}
    BY <2>6, <2>7, <2>8 DEF Reassigned
  <2> QED
    BY <2>2, <2>4, <2>8, <2>9, OneContext
<1>5. ASSUME NEW s \in Surfaces, ReceiveFrame(c, s)
      PROVE  CtxTypes' /\ CtxInv'
  <2> DEFINE q == [surface[s] EXCEPT !.output_context_id = c]
  <2>1. /\ h.busy /\ surface[s].allocated
        /\ surface' = [surface EXCEPT ![s] = q] /\ context' = [context EXCEPT ![c] = h]
    <3>1. h.busy /\ surface[s].allocated /\ surface' = [surface EXCEPT ![s] = q]
      BY <1>5, Zenon DEF ReceiveFrame, InUse
    <3>2. context' = context
      BY <1>5 DEF ReceiveFrame
    <3>3. context = [context EXCEPT ![c] = context[c]]
      BY <1>1
    <3> QED
      BY <3>1, <3>2, <3>3, Zenon
  <2>2. ~Frameless(h)
    BY <1>3, <2>1 DEF Frameless
  <2>3. q \in SurfaceStates /\ q.allocated = surface[s].allocated /\ q.output_context_id = c
    BY <1>1 DEF SurfaceStates
  <2> HIDE DEF q, h
  <2>4. /\ surface' \in [Surfaces -> SurfaceStates]
        /\ \A z \in Surfaces : ~surface'[z].allocated => surface'[z] = FreeSurface
        /\ \A z \in Surfaces : surface'[z].output_context_id
                                  \in {surface[z].output_context_id, NoContext, c}
    BY <1>1, <2>1, <2>3, SoundMeans
  <2> QED
    BY <1>1, <1>2, <2>1, <2>2, <2>4, OneContext
<1>6. ASSUME NEW r \in ContextStates, context' = [context EXCEPT ![c] = r], surface' = surface,
             ContextSound(r), Frameless(r) => Frameless(h)
      PROVE  CtxTypes' /\ CtxInv'
  <2>1. \A s \in Surfaces : /\ ~surface'[s].allocated => surface'[s] = FreeSurface
                            /\ Frameless(h) => surface'[s].output_context_id # c
    BY <1>6, SoundMeans
  <2> QED
    BY <1>1, <1>6, <2>1, OneContext
<1>7. ASSUME NEW b \in {"input", "output"}, KeepBuffer(c, b)
      PROVE  CtxTypes' /\ CtxInv'
  <2> DEFINE r == [h EXCEPT ![b] = TRUE]
  <2>1. /\ h.busy /\ context' = [context EXCEPT ![c] = r] /\ surface' = surface
    BY <1>7, Zenon DEF KeepBuffer, InUse
  <2>2. r \in ContextStates /\ ContextSound(r) /\ ~Frameless(r)
    <3>1. CASE b = "input"
      BY <1>1, <1>2, <1>3, <2>1, <3>1 DEF ContextStates, ContextSound, Frameless
    <3>2. CASE b = "output"
      BY <1>1, <1>2, <1>3, <2>1, <3>2 DEF ContextStates, ContextSound, Frameless
    <3> QED
      BY <3>1, <3>2
  <2> HIDE DEF r, h
  <2> QED
    BY <1>6, <2>1, <2>2
<1>8. ASSUME EndUse(c)
      PROVE  CtxTypes' /\ CtxInv'
  <2> DEFINE r == [h EXCEPT !.busy = FALSE]
  <2>1. /\ h.busy /\ context' = [context EXCEPT ![c] = r] /\ surface' = surface
    BY <1>8, Zenon DEF EndUse, InUse
  <2>2. r \in ContextStates /\ ContextSound(r) /\ ~Frameless(r)
    BY <1>1, <1>2, <1>3, <2>1 DEF ContextStates, ContextSound, Frameless
  <2> HIDE DEF r, h
  <2> QED
    BY <1>6, <2>1, <2>2
<1>9. ASSUME Wedge(c)
      PROVE  CtxTypes' /\ CtxInv'
  <2> DEFINE r == [h EXCEPT !.wedged = TRUE]
  <2>1. /\ h.busy /\ context' = [context EXCEPT ![c] = r] /\ surface' = surface
    BY <1>9, Zenon DEF Wedge, InUse
  <2>2. r \in ContextStates /\ ContextSound(r) /\ ~Frameless(r)
    BY <1>1, <1>2, <1>3, <2>1 DEF ContextStates, ContextSound, Frameless
  <2> HIDE DEF r, h
  <2> QED
    BY <1>6, <2>1, <2>2
<1> QED
  BY <1>4, <1>5, <1>7, <1>8, <1>9

(* Contexts kept without the application knowing are reaped, and then one  *)
(* context becomes r.                                                      *)
LEMMA ReapKeeps ==
    ASSUME TypeOK, CtxInv, NEW gone \in SUBSET Orphaned, NEW c \in Contexts,
           NEW r \in ContextStates, ContextSound(r),
           context' = [Reaped(gone) EXCEPT ![c] = r], surface' = Unused(gone),
           ~context[c].allocated \/ Frameless(context[c])
    PROVE  CtxTypes' /\ CtxInv'
<1>1. context \in [Contexts -> ContextStates] /\ gone \subseteq Contexts
  BY DEF TypeOK, Orphaned
<1>2. Reaped(gone) \in [Contexts -> ContextStates]
  BY <1>1, FreeSlotTypes DEF Reaped
<1>3. context' \in [Contexts -> ContextStates]
  BY <1>2
<1>4. \A d \in Contexts :
         context'[d] = IF d = c THEN r ELSE IF d \in gone THEN FreeContext ELSE context[d]
  BY <1>1, <1>2 DEF Reaped
<1>5. \A d \in gone : Frameless(context[d])
  BY DEF Orphaned, Frameless
<1>6. Frameless(context[c])
  BY SoundMeans, FreeIsSound DEF ContextSound
<1>7. \A d \in Contexts : ContextSound(context'[d])
  BY <1>4, SoundMeans, FreeIsSound
<1>8. \A d \in Contexts : Frameless(context'[d]) =>
         \A s \in Surfaces : surface[s].output_context_id # d
  BY <1>4, <1>5, <1>6, SoundMeans
<1>9. \A s \in Surfaces : /\ surface'[s] \in SurfaceStates
                          /\ surface'[s].output_context_id = surface[s].output_context_id
  BY UnusedFacts DEF Reassigned
<1>10. surface' \in [Surfaces -> SurfaceStates]
  <2>1. surface' = [s \in Surfaces |-> surface'[s]]
    BY Zenon DEF Unused
  <2> QED
    BY <1>9, <2>1
<1>11. ASSUME NEW s \in Surfaces, ~surface'[s].allocated
       PROVE  surface'[s] = FreeSurface
  <2>1. surface[s] = FreeSurface
    BY <1>11, UnusedFacts, SoundMeans DEF Reassigned
  <2>2. Reassigned(FreeSurface, surface'[s], {}, NoContext, NoContext)
    <3>1. /\ FreeSurface.users = {} /\ FreeSurface.context_id = NoContext
          /\ FreeSurface.output_context_id = NoContext
      BY DEF FreeSurface
    <3>2. {} \ gone = {}
      OBVIOUS
    <3> QED
      BY <2>1, <3>1, <3>2, UnusedFacts
  <2> QED
    BY <2>2, ReassignedFree
<1> QED
  BY <1>3, <1>7, <1>8, <1>9, <1>10, <1>11, SoundMeansNext DEF CtxTypes

(* What vaCreateContext puts into the slot it takes.                       *)
NewContexts ==
    {[FreeContext EXCEPT !.allocated = TRUE, !.is_encoder = enc, !.deferred = enc,
                         !.vpu_initialized = ~enc, !.vpu_running = ~enc] : enc \in BOOLEAN}
    \cup {[FreeContext EXCEPT !.allocated = TRUE, !.vpu_initialized = TRUE,
                              !.cleanup_orphaned = TRUE]}

(* x is a context that is new, but for what enc, ini, run and orphaned say *)
(* of it.                                                                  *)
NewShape(x, enc, deferred, ini, run, orphaned) ==
    /\ x \in ContextStates
    /\ x.allocated /\ ~x.busy /\ ~x.input /\ ~x.output /\ x.scratch = NoFd
    /\ x.is_encoder = enc /\ x.deferred = deferred
    /\ x.vpu_initialized = ini /\ x.vpu_running = run /\ x.cleanup_orphaned = orphaned

LEMMA NewContextFacts ==
    ASSUME NEW r \in NewContexts
    PROVE  r \in ContextStates /\ ContextSound(r) /\ r.scratch = NoFd
<1> DEFINE h == FreeContext
           h1 == [h EXCEPT !.allocated = TRUE]
<1>0. /\ h \in ContextStates /\ ~h.busy /\ ~h.input /\ ~h.output /\ h.scratch = NoFd
      /\ h.is_encoder = FALSE /\ h.deferred = FALSE
      /\ h.vpu_initialized = FALSE /\ h.vpu_running = FALSE /\ h.cleanup_orphaned = FALSE
  BY FreeSlotTypes DEF FreeContext
<1> HIDE DEF h
<1>1. NewShape(h1, FALSE, FALSE, FALSE, FALSE, FALSE)
  BY <1>0 DEF NewShape, ContextStates
<1> HIDE DEF h1
<1>2. ASSUME NEW enc \in BOOLEAN,
             r = [h1 EXCEPT !.is_encoder = enc, !.deferred = enc,
                            !.vpu_initialized = ~enc, !.vpu_running = ~enc]
      PROVE  NewShape(r, enc, enc, ~enc, ~enc, FALSE)
  <2> DEFINE no == ~enc
             h2 == [h1 EXCEPT !.is_encoder = enc]
             h3 == [h2 EXCEPT !.deferred = enc]
             h4 == [h3 EXCEPT !.vpu_initialized = no]
             h5 == [h4 EXCEPT !.vpu_running = no]
  <2>0. no \in BOOLEAN
    OBVIOUS
  <2>1. r = h5
    BY <1>2, Zenon
  <2> HIDE DEF no
  <2>2. NewShape(h2, enc, FALSE, FALSE, FALSE, FALSE)
    BY <1>1 DEF NewShape, ContextStates
  <2> HIDE DEF h2
  <2>3. NewShape(h3, enc, enc, FALSE, FALSE, FALSE)
    BY <2>2 DEF NewShape, ContextStates
  <2> HIDE DEF h3
  <2>4. NewShape(h4, enc, enc, no, FALSE, FALSE)
    BY <2>0, <2>3 DEF NewShape, ContextStates
  <2> HIDE DEF h4
  <2>5. NewShape(h5, enc, enc, no, no, FALSE)
    BY <2>0, <2>4 DEF NewShape, ContextStates
  <2> QED
    BY <2>1, <2>5, Zenon DEF no
<1>3. ASSUME r = [h1 EXCEPT !.vpu_initialized = TRUE, !.cleanup_orphaned = TRUE]
      PROVE  NewShape(r, FALSE, FALSE, TRUE, FALSE, TRUE)
  <2> DEFINE h2 == [h1 EXCEPT !.vpu_initialized = TRUE]
             h3 == [h2 EXCEPT !.cleanup_orphaned = TRUE]
  <2>1. r = h3
    BY <1>3, Zenon
  <2>2. NewShape(h2, FALSE, FALSE, TRUE, FALSE, FALSE)
    BY <1>1 DEF NewShape, ContextStates
  <2> HIDE DEF h2
  <2>3. NewShape(h3, FALSE, FALSE, TRUE, FALSE, TRUE)
    BY <2>2 DEF NewShape, ContextStates
  <2> QED
    BY <2>1, <2>3, Zenon
<1>4. \/ \E enc \in BOOLEAN : r = [h1 EXCEPT !.is_encoder = enc, !.deferred = enc,
                                             !.vpu_initialized = ~enc, !.vpu_running = ~enc]
      \/ r = [h1 EXCEPT !.vpu_initialized = TRUE, !.cleanup_orphaned = TRUE]
  BY Zenon DEF NewContexts, h1, h
<1>5. \/ \E enc \in BOOLEAN : NewShape(r, enc, enc, ~enc, ~enc, FALSE)
      \/ NewShape(r, FALSE, FALSE, TRUE, FALSE, TRUE)
  BY <1>2, <1>3, <1>4, Zenon
<1> QED
  BY <1>5 DEF NewShape, ContextSound

LEMMA CreateContextShape ==
    ASSUME NEW c \in Contexts, CreateContext(c) \/ CreateContextFails(c)
    PROVE  \E r \in NewContexts : TakeSlot(c, r)
<1>1. CASE CreateContext(c)
  BY <1>1, Zenon DEF CreateContext, NewContexts
<1>2. CASE CreateContextFails(c)
  BY <1>2, Zenon DEF CreateContextFails, NewContexts
<1> QED
  BY <1>1, <1>2

LEMMA CreateKeeps ==
    ASSUME TypeOK, CtxInv, NEW c \in Contexts, CreateContext(c) \/ CreateContextFails(c)
    PROVE  CtxTypes' /\ CtxInv'
<1>1. PICK r \in NewContexts : TakeSlot(c, r)
  BY CreateContextShape
<1>2. /\ context' = [Reaped(Orphaned) EXCEPT ![c] = r] /\ surface' = Unused(Orphaned)
      /\ ~Reaped(Orphaned)[c].allocated
  BY <1>1, Zenon DEF TakeSlot
<1>3. ~context[c].allocated \/ Frameless(context[c])
  BY <1>2 DEF Reaped, Orphaned, Frameless
<1> QED
  BY <1>2, <1>3, NewContextFacts, ReapKeeps

LEMMA ReapFailsKeeps ==
    ASSUME TypeOK, CtxInv, NEW c \in Contexts, ReapFails(c)
    PROVE  CtxTypes' /\ CtxInv'
<1> DEFINE gone == {d \in Orphaned : d < c}
<1>1. PICK stage \in Stages(c) :
         context' = [Reaped(gone) EXCEPT ![c] = Remains(c, {}, TRUE, stage)]
  BY Zenon DEF ReapFails
<1>2. surface' = Unused(gone) /\ c \in Orphaned /\ gone \in SUBSET Orphaned
  BY Zenon DEF ReapFails
<1> DEFINE r == Remains(c, {}, TRUE, stage)
<1>3. /\ Leaves(context[c], r)
      /\ context[c].vpu_running => ~r.input /\ ~r.output
  BY RemainsFacts
<1>4. ContextSound(context[c]) /\ Frameless(context[c]) /\ context[c].allocated
      /\ context[c].cleanup_orphaned
  BY <1>2, SoundMeans DEF Orphaned, Frameless
<1> HIDE DEF r, gone
<1>5. r \in ContextStates /\ ContextSound(r)
  BY <1>3, <1>4 DEF Leaves, ContextSound
<1> QED
  BY <1>1, <1>2, <1>4, <1>5, ReapKeeps DEF r

(* Surfaces are cleared, created, given memory, locked and unlocked.       *)
LEMMA ClearedKeeps ==
    ASSUME TypeOK, CtxInv, NEW S, NEW F, context' = context, surface' = Cleared(S, F)
    PROVE  CtxTypes' /\ CtxInv'
<1>1. \A s \in Surfaces : surface'[s] \in {FreeSurface, surface[s]}
  BY DEF Cleared
<1>2. surface \in [Surfaces -> SurfaceStates] /\ FreeSurface.output_context_id = NoContext
  BY DEF TypeOK, FreeSurface
<1>3. surface' \in [Surfaces -> SurfaceStates]
  <2>1. surface' = [s \in Surfaces |-> surface'[s]]
    BY Zenon DEF Cleared
  <2> QED
    BY <1>1, <1>2, <2>1, FreeSlotTypes
<1>4. \A s \in Surfaces : ~surface'[s].allocated => surface'[s] = FreeSurface
  BY <1>1, SoundMeans
<1>5. \A s \in Surfaces : surface'[s].output_context_id
                             \in {surface[s].output_context_id, NoContext}
  BY <1>1, <1>2
<1> QED
  BY <1>3, <1>4, <1>5, OnlySurfaces

(* What is known of a surface that is new.                                 *)
NewSurface(q, fd) ==
    /\ q \in SurfaceStates /\ q.allocated /\ q.gbuf = fd
    /\ q.output_context_id = NoContext

LEMMA NewSurfaceFacts ==
    ASSUME NEW fd \in Fds \cup {NoFd}
    PROVE  NewSurface(Fresh(fd), fd)
<1> DEFINE h == FreeSurface
           h1 == [h EXCEPT !.allocated = TRUE]
           h2 == [h1 EXCEPT !.gbuf = fd]
<1>1. h \in SurfaceStates /\ h.output_context_id = NoContext
  BY FreeSlotTypes DEF FreeSurface
<1> HIDE DEF h
<1>2. h1 \in SurfaceStates /\ h1.output_context_id = NoContext /\ h1.allocated
  BY <1>1 DEF SurfaceStates
<1> HIDE DEF h1
<1>3. NewSurface(h2, fd)
  BY <1>2 DEF NewSurface, SurfaceStates
<1> QED
  BY <1>3, Zenon DEF Fresh, h1, h

(* The slots that are taken, by the turn in which they are.                *)
NewSlots(n, bufs, f) ==
    /\ f \in [1 .. n -> FreeSlots]
    /\ \A j, k \in 1 .. n : f[j] = f[k] => j = k
    /\ \A k \in 1 .. n : NewSurface(surface'[f[k]], bufs[k])
    /\ \A s \in Surfaces : (\A k \in 1 .. n : f[k] # s) => surface'[s] = surface[s]

LEMMA NewSlotsFacts ==
    ASSUME NEW n \in Nat, NEW bufs, Len(bufs) = n, n <= Cardinality(FreeSlots),
           \A k \in 1 .. n : bufs[k] \in Fds \cup {NoFd}, surface' = Created(bufs)
    PROVE  \E f : NewSlots(n, bufs, f)
<1>1. PICK f \in [1 .. n -> FreeSlots] :
         /\ \A j, k \in 1 .. n : f[j] = f[k] => j = k
         /\ \A k \in 1 .. n :
               surface'[f[k]] = Fresh(bufs[k])
         /\ \A s \in Surfaces : (\A k \in 1 .. n : f[k] # s) => surface'[s] = surface[s]
  <2>1. \E f \in [1 .. n -> FreeSlots] :
           /\ \A j, k \in 1 .. n : f[j] = f[k] => j = k
           /\ \A k \in 1 .. n :
                 Created(bufs)[f[k]] = Fresh(bufs[k])
           /\ \A s \in Surfaces : (\A k \in 1 .. n : f[k] # s)
                                     => Created(bufs)[s] = surface[s]
    BY CreatedFacts
  <2> QED
    BY <2>1, Zenon
<1>2. \A k \in 1 .. n : NewSurface(surface'[f[k]], bufs[k])
  BY <1>1, NewSurfaceFacts, Zenon
<1>3. NewSlots(n, bufs, f)
  BY <1>1, <1>2, Zenon DEF NewSlots
<1> QED
  BY <1>3

LEMMA CreatedKeeps ==
    ASSUME TypeOK, CtxInv, NEW n \in Nat, NEW bufs, Len(bufs) = n, n <= Cardinality(FreeSlots),
           \A k \in 1 .. n : bufs[k] \in Fds \cup {NoFd},
           context' = context, surface' = Created(bufs)
    PROVE  CtxTypes' /\ CtxInv'
<1>1. PICK f : NewSlots(n, bufs, f)
  BY NewSlotsFacts
<1>2. \A s \in Surfaces : \/ surface'[s] = surface[s]
                          \/ \E fd : NewSurface(surface'[s], fd)
  BY <1>1 DEF NewSlots
<1>3. surface' \in [Surfaces -> SurfaceStates]
  <2>1. surface' = [s \in Surfaces |-> surface'[s]]
    BY Zenon DEF Created
  <2>2. \A s \in Surfaces : surface'[s] \in SurfaceStates
    BY <1>2 DEF NewSurface, TypeOK
  <2> QED
    BY <2>1, <2>2
<1>4. \A s \in Surfaces : ~surface'[s].allocated => surface'[s] = FreeSurface
  BY <1>2, SoundMeans DEF NewSurface
<1>5. \A s \in Surfaces : surface'[s].output_context_id
                             \in {surface[s].output_context_id, NoContext}
  BY <1>2 DEF NewSurface
<1> QED
  BY <1>3, <1>4, <1>5, OnlySurfaces

LEMMA SurfaceKeeps ==
    ASSUME TypeOK, CtxInv, NEW s \in Surfaces, Preallocate(s) \/ Lock(s) \/ Unlock(s)
    PROVE  CtxTypes' /\ CtxInv'
<1>1. PICK q : /\ surface' = [surface EXCEPT ![s] = q]
               /\ q \in SurfaceStates /\ q.allocated
               /\ q.output_context_id = surface[s].output_context_id
  <2> DEFINE Fits(q) == /\ q \in SurfaceStates /\ q.allocated
                        /\ q.output_context_id = surface[s].output_context_id
  <2>1. surface[s] \in SurfaceStates
    BY DEF TypeOK
  <2>2. CASE Preallocate(s)
    <3> DEFINE fd == NewFd
               q == [surface[s] EXCEPT !.gbuf = fd]
    <3>1. surface' = [surface EXCEPT ![s] = q] /\ surface[s].allocated
      BY <2>2, Zenon DEF Preallocate
    <3>2. fd \in Fds
      BY <2>2, NewFdFacts DEF Preallocate
    <3> HIDE DEF fd
    <3>3. Fits(q)
      BY <2>1, <3>1, <3>2 DEF SurfaceStates
    <3> QED
      BY <3>1, <3>3, Zenon
  <2>3. ASSUME NEW locked \in BOOLEAN, surface[s].allocated,
               surface' = [surface EXCEPT ![s].locked = locked]
        PROVE  \E q : surface' = [surface EXCEPT ![s] = q] /\ Fits(q)
    <3> DEFINE q == [surface[s] EXCEPT !.locked = locked]
    <3>1. surface' = [surface EXCEPT ![s] = q]
      BY <2>3, Zenon
    <3>2. Fits(q)
      BY <2>1, <2>3 DEF SurfaceStates
    <3> QED
      BY <3>1, <3>2, Zenon
  <2>4. CASE Lock(s)
    BY <2>3, <2>4, Zenon DEF Lock
  <2>5. CASE Unlock(s)
    <3>1. surface[s].allocated
      BY <2>5, SoundMeans DEF Unlock, FreeSurface
    <3> QED
      BY <2>3, <2>5, <3>1, Zenon DEF Unlock
  <2> QED
    BY <2>2, <2>4, <2>5
<1>2. context' = context /\ surface \in [Surfaces -> SurfaceStates]
  BY DEF Preallocate, Lock, Unlock, TypeOK
<1>3. surface' \in [Surfaces -> SurfaceStates]
  BY <1>1, <1>2
<1>4. \A z \in Surfaces : z # s => surface'[z] = surface[z]
  BY <1>1, <1>2
<1>5. surface'[s] = q
  BY <1>1, <1>2
<1>6. \A z \in Surfaces : ~surface'[z].allocated => surface'[z] = FreeSurface
  BY <1>1, <1>4, <1>5, SoundMeans
<1>7. \A z \in Surfaces : surface'[z].output_context_id = surface[z].output_context_id
  BY <1>1, <1>4, <1>5
<1> QED
  BY <1>2, <1>3, <1>6, <1>7, OnlySurfaces

(* All operations on contexts and surfaces.                                *)
LEMMA CallKeeps ==
    ASSUME TypeOK, CtxInv, (\E c \in Contexts : ContextCall(c)) \/ SurfaceCall
    PROVE  CtxTypes' /\ CtxInv'
<1>1. ASSUME NEW c \in Contexts, ContextCall(c)
      PROVE  CtxTypes' /\ CtxInv'
  <2>1. CASE DestroyContext(c)
    BY <2>1, TearDownKeeps DEF DestroyContext
  <2> QED
    BY <1>1, <2>1, CreateKeeps, ReapFailsKeeps, StartKeeps, UseKeeps, Zenon DEF ContextCall
<1>2. ASSUME NEW n \in 1 .. NumSurfaces, CreateSurfaces(n)
      PROVE  CtxTypes' /\ CtxInv'
  <2> DEFINE bufs == [i \in 1 .. n |-> NoFd]
  <2>1. n \in Nat /\ Len(bufs) = n /\ \A k \in 1 .. n : bufs[k] \in Fds \cup {NoFd}
    BY Sizes
  <2>2. n <= Cardinality(FreeSlots)
    <3>1. Cardinality(FreeSlots) >= n /\ Cardinality(FreeSlots) \in Nat
      BY <1>2, PlaceFacts DEF CreateSurfaces
    <3> QED
      BY <2>1, <3>1
  <2>3. context' = context /\ surface' = Created(bufs)
    BY <1>2 DEF CreateSurfaces
  <2> HIDE DEF bufs
  <2> QED
    BY <2>1, <2>2, <2>3, CreatedKeeps
<1>3. ASSUME NEW S, DestroySurfaces(S)
      PROVE  CtxTypes' /\ CtxInv'
  BY <1>3, ClearedKeeps DEF DestroySurfaces
<1> QED
  BY <1>1, <1>2, <1>3, SurfaceKeeps, Zenon DEF SurfaceCall

-----------------------------------------------------------------------------
(* Who holds a buffer.                                                     *)

(* Those who hold a buffer of gone lose it, the others keep theirs, and    *)
(* hb_mem takes back just these.                                           *)
GivesBack(gone) ==
    /\ \A c \in Contexts :
          \/ context'[c].scratch = context[c].scratch /\ context[c].scratch \notin gone
          \/ context'[c].scratch = NoFd /\ context[c].scratch \in gone \cup {NoFd}
    /\ \A s \in Surfaces :
          \/ surface'[s].gbuf = surface[s].gbuf /\ surface[s].gbuf \notin gone
          \/ surface'[s].gbuf = NoFd /\ surface[s].gbuf \in gone \cup {NoFd}
    /\ orphans' = orphans \ gone
    /\ \A t \in Threads : /\ Distinct(importing'[t])
                          /\ \A fd \in Fds : Carries(t, fd)' <=> Carries(t, fd) /\ fd \notin gone
    /\ live' = live \ gone

LEMMA HolderLess ==
    ASSUME TypeOK, HolderInv, NEW gone, GivesBack(gone)
    PROVE  HolderInv'
<1>0. NoFd \notin Fds /\ orphans \subseteq Fds
  BY Sizes DEF TypeOK
<1>1. /\ \A fd \in Fds, c \in Contexts :
            context'[c].scratch = fd <=> context[c].scratch = fd /\ fd \notin gone
      /\ \A fd \in Fds, s \in Surfaces :
            surface'[s].gbuf = fd <=> surface[s].gbuf = fd /\ fd \notin gone
      /\ \A fd \in Fds, t \in Threads :
            Carries(t, fd)' <=> Carries(t, fd) /\ fd \notin gone
      /\ \A fd \in Fds : fd \in orphans' <=> fd \in orphans /\ fd \notin gone
      /\ \A fd \in Fds : fd \in live' <=> fd \in live /\ fd \notin gone
      /\ \A t \in Threads : Distinct(importing'[t])
      /\ orphans' \subseteq Fds
  BY <1>0 DEF GivesBack
<1> QED
  BY <1>1, <1>0 DEF HolderInv

(* A buffer that is new comes to one holder that has none in its place.    *)
LEMMA HolderMore ==
    ASSUME TypeOK, HolderInv, NEW new \in Fds \ live, live' = live \cup {new},
           orphans' = orphans,
           \/ /\ \E c \in Contexts :
                    /\ context[c].scratch = NoFd /\ context'[c].scratch = new
                    /\ \A d \in Contexts \ {c} : context'[d].scratch = context[d].scratch
              /\ \A s \in Surfaces : surface'[s].gbuf = surface[s].gbuf
              /\ importing' = importing
           \/ /\ \A c \in Contexts : context'[c].scratch = context[c].scratch
              /\ \E s \in Surfaces :
                    /\ surface[s].gbuf = NoFd /\ surface'[s].gbuf = new
                    /\ \A r \in Surfaces \ {s} : surface'[r].gbuf = surface[r].gbuf
              /\ importing' = importing
           \/ /\ \A c \in Contexts : context'[c].scratch = context[c].scratch
              /\ \A s \in Surfaces : surface'[s].gbuf = surface[s].gbuf
              /\ \E t \in Threads :
                    /\ \A fd \in Fds : Carries(t, fd)' <=> Carries(t, fd) \/ fd = new
                    /\ \A u \in Threads \ {t} : importing'[u] = importing[u]
                    /\ Distinct(importing'[t])
    PROVE  HolderInv'
<1>0. NoFd \notin Fds /\ orphans \subseteq Fds
  BY Sizes DEF TypeOK
<1>1. \A u \in Threads : importing'[u] = importing[u] =>
         \A fd \in Fds : Carries(u, fd)' <=> Carries(u, fd)
  BY DEF Carries
<1>2. /\ \A c \in Contexts : context[c].scratch # new
      /\ \A s \in Surfaces : surface[s].gbuf # new
      /\ new \notin orphans
      /\ \A t \in Threads : ~Carries(t, new)
  BY DEF HolderInv
<1>3. CASE \E c \in Contexts :
              /\ context[c].scratch = NoFd /\ context'[c].scratch = new
              /\ \A d \in Contexts \ {c} : context'[d].scratch = context[d].scratch
              /\ \A s \in Surfaces : surface'[s].gbuf = surface[s].gbuf
              /\ importing' = importing
  BY <1>0, <1>1, <1>2, <1>3 DEF HolderInv
<1>4. CASE \E s \in Surfaces :
              /\ \A c \in Contexts : context'[c].scratch = context[c].scratch
              /\ surface[s].gbuf = NoFd /\ surface'[s].gbuf = new
              /\ \A r \in Surfaces \ {s} : surface'[r].gbuf = surface[r].gbuf
              /\ importing' = importing
  BY <1>0, <1>1, <1>2, <1>4 DEF HolderInv
<1>5. CASE \E t \in Threads :
              /\ \A c \in Contexts : context'[c].scratch = context[c].scratch
              /\ \A s \in Surfaces : surface'[s].gbuf = surface[s].gbuf
              /\ \A fd \in Fds : Carries(t, fd)' <=> Carries(t, fd) \/ fd = new
              /\ \A u \in Threads \ {t} : importing'[u] = importing[u]
              /\ Distinct(importing'[t])
  BY <1>0, <1>1, <1>2, <1>5 DEF HolderInv
<1> QED
  BY <1>3, <1>4, <1>5

(* Nobody's buffer changes.                                                *)
LEMMA HolderSame ==
    ASSUME TypeOK, HolderInv,
           \A c \in Contexts : context'[c].scratch = context[c].scratch,
           \A s \in Surfaces : surface'[s].gbuf = surface[s].gbuf,
           orphans' = orphans, importing' = importing, live' = live
    PROVE  HolderInv'
<1>1. \A t \in Threads, fd \in Fds : Carries(t, fd)' <=> Carries(t, fd)
  BY DEF Carries
<1>2. GivesBack({})
  BY <1>1 DEF GivesBack, HolderInv
<1> QED
  BY <1>2, HolderLess

(* The scratch buffers of a set of contexts, when their slots are emptied. *)
LEMMA HolderScratches ==
    ASSUME TypeOK, HolderInv, NEW gone \in SUBSET Contexts,
           \A c \in Contexts : context'[c].scratch = IF c \in gone THEN NoFd
                                                     ELSE context[c].scratch,
           \A s \in Surfaces : surface'[s].gbuf = surface[s].gbuf,
           orphans' = orphans, importing' = importing, live' = live \ ScratchOf(gone)
    PROVE  HolderInv'
<1>1. \A t \in Threads, fd \in Fds : Carries(t, fd)' <=> Carries(t, fd)
  BY DEF Carries
<1>2. \A c \in Contexts : context[c].scratch \in Fds \cup {NoFd}
  BY DEF TypeOK, ContextStates
<1>3. \A s \in Surfaces : surface[s].gbuf \in Fds \cup {NoFd}
  BY DEF TypeOK, SurfaceStates
<1>4. \A fd : fd \in ScratchOf(gone) <=> \E c \in gone : fd = context[c].scratch
  BY DEF ScratchOf
<1>5. orphans \subseteq Fds
  BY DEF TypeOK
<1>6. \A c \in Contexts :
         \/ context'[c].scratch = context[c].scratch /\ context[c].scratch \notin ScratchOf(gone)
         \/ context'[c].scratch = NoFd /\ context[c].scratch \in ScratchOf(gone) \cup {NoFd}
  BY <1>2, <1>4 DEF HolderInv
<1>7. \A s \in Surfaces :
         \/ surface'[s].gbuf = surface[s].gbuf /\ surface[s].gbuf \notin ScratchOf(gone)
         \/ surface'[s].gbuf = NoFd /\ surface[s].gbuf \in ScratchOf(gone) \cup {NoFd}
  BY <1>3, <1>4 DEF HolderInv
<1>8. orphans' = orphans \ ScratchOf(gone)
  BY <1>4, <1>5 DEF HolderInv
<1>9. \A t \in Threads : /\ Distinct(importing'[t])
                         /\ \A fd \in Fds : Carries(t, fd)' <=> Carries(t, fd)
                                                                /\ fd \notin ScratchOf(gone)
  BY <1>1, <1>4 DEF HolderInv
<1>10. GivesBack(ScratchOf(gone))
  BY <1>6, <1>7, <1>8, <1>9 DEF GivesBack
<1> QED
  BY <1>10, HolderLess

LEMMA CreateHolders ==
    ASSUME TypeOK, CtxInv, HolderInv, NEW c \in Contexts,
           CreateContext(c) \/ CreateContextFails(c)
    PROVE  HolderInv'
<1>1. PICK r \in NewContexts : TakeSlot(c, r)
  BY CreateContextShape
<1>2. /\ context' = [Reaped(Orphaned) EXCEPT ![c] = r] /\ surface' = Unused(Orphaned)
      /\ ~Reaped(Orphaned)[c].allocated /\ live' = live \ ScratchOf(Orphaned)
      /\ orphans' = orphans /\ importing' = importing
  BY <1>1, Zenon DEF TakeSlot, listVars
<1>3. Orphaned \in SUBSET Contexts
  BY DEF Orphaned
<1>4. r.scratch = NoFd /\ FreeContext.scratch = NoFd
  BY NewContextFacts DEF FreeContext
<1>5. c \notin Orphaned => context[c].scratch = NoFd
  <2> SUFFICES ASSUME c \notin Orphaned
               PROVE  context[c].scratch = NoFd
    OBVIOUS
  <2>1. ~context[c].allocated
    BY <1>2 DEF Reaped
  <2> QED
    BY <1>4, <2>1, SoundMeans DEF ContextSound
<1>6. \A d \in Contexts : context'[d].scratch = IF d \in Orphaned THEN NoFd
                                                ELSE context[d].scratch
  BY <1>2, <1>4, <1>5 DEF Reaped
<1>7. \A s \in Surfaces : surface'[s].gbuf = surface[s].gbuf
  BY <1>2, UnusedFacts DEF Reassigned
<1> QED
  BY <1>2, <1>3, <1>6, <1>7, HolderScratches

LEMMA ReapFailsHolders ==
    ASSUME TypeOK, HolderInv, NEW c \in Contexts, ReapFails(c)
    PROVE  HolderInv'
<1> DEFINE gone == {d \in Orphaned : d < c}
<1>1. PICK stage \in Stages(c) :
         context' = [Reaped(gone) EXCEPT ![c] = Remains(c, {}, TRUE, stage)]
  BY Zenon DEF ReapFails
<1>2. /\ surface' = Unused(gone) /\ live' = live \ ScratchOf(gone)
      /\ orphans' = orphans /\ importing' = importing
  BY Zenon DEF ReapFails, listVars
<1> DEFINE r == Remains(c, {}, TRUE, stage)
<1>3. r.scratch = context[c].scratch
  <2>1. Leaves(context[c], r)
    BY RemainsFacts
  <2> QED
    BY <2>1 DEF Leaves
<1>4. gone \in SUBSET Contexts /\ c \notin gone
  BY Sizes DEF Orphaned
<1>5. FreeContext.scratch = NoFd
  BY DEF FreeContext
<1> HIDE DEF r, gone
<1>6. \A d \in Contexts : context'[d].scratch = IF d \in gone THEN NoFd ELSE context[d].scratch
  BY <1>1, <1>3, <1>4, <1>5 DEF Reaped, r
<1>7. \A s \in Surfaces : surface'[s].gbuf = surface[s].gbuf
  BY <1>2, UnusedFacts DEF Reassigned
<1> QED
  BY <1>2, <1>4, <1>6, <1>7, HolderScratches

LEMMA TearDownHolders ==
    ASSUME TypeOK, HolderInv, NEW c \in Contexts, NEW kept, NEW frames, NEW stage,
           NEW sound \in BOOLEAN, TearDown(c, kept, frames, stage, sound),
           orphans' = orphans, importing' = importing
    PROVE  HolderInv'
<1>0. context \in [Contexts -> ContextStates]
  BY DEF TypeOK
<1>1. CASE TearDownEnds(c, frames)
  <2>1. /\ context' = [context EXCEPT ![c] = FreeContext] /\ surface' = Detached(c)
        /\ live' = live \ ScratchOf({c})
    BY <1>1 DEF TearDownEnds, ScratchOf
  <2>2. \A d \in Contexts : context'[d].scratch = IF d \in {c} THEN NoFd
                                                  ELSE context[d].scratch
    BY <1>0, <2>1 DEF FreeContext
  <2>3. \A s \in Surfaces : surface'[s].gbuf = surface[s].gbuf
    BY <2>1, DetachedFacts DEF Reassigned
  <2> QED
    BY <2>1, <2>2, <2>3, HolderScratches
<1>2. CASE TearDownLeaves(c, frames)
  <2>1. PICK r \in ContextStates : Leaves(context[c], r) /\ context' = [context EXCEPT ![c] = r]
    BY <1>2 DEF TearDownLeaves
  <2>2. surface' = FramesReturned(c, frames) /\ live' = live
    BY <1>2 DEF TearDownLeaves
  <2>3. \A d \in Contexts : context'[d].scratch = context[d].scratch
    BY <1>0, <2>1 DEF Leaves
  <2>4. \A s \in Surfaces : surface'[s].gbuf = surface[s].gbuf
    BY <2>2, FramesReturnedFacts DEF Reassigned
  <2> QED
    BY <2>2, <2>3, <2>4, HolderSame
<1> QED
  BY <1>1, <1>2, TearDownFacts

LEMMA StartHolders ==
    ASSUME TypeOK, CtxInv, HolderInv, NEW c \in Contexts, NEW s \in Surfaces,
           StartEncoder(c, s) \/ StartEncoderFails(c, s)
    PROVE  HolderInv'
<1>1. context[c].deferred /\ orphans' = orphans /\ importing' = importing
  BY Zenon DEF StartEncoder, StartEncoderFails, listVars
<1>2. PICK r, run, scratch, orphaned : StartShape(c, s, r, run, scratch, orphaned)
  BY StartFacts, Zenon
<1>3. /\ context' = [context EXCEPT ![c] = r] /\ r.scratch = scratch
      /\ scratch \in {NoFd} \cup (IF HasFd THEN {NewFd} ELSE {})
      /\ live' = live \cup ({scratch} \ {NoFd})
  BY <1>2 DEF StartShape, Started
<1>4. context[c].scratch = NoFd
  BY <1>1, SoundMeans DEF ContextSound
<1>5. /\ context \in [Contexts -> ContextStates] /\ surface \in [Surfaces -> SurfaceStates]
  BY DEF TypeOK
<1>6. context'[c].scratch = scratch /\ \A d \in Contexts \ {c} : context'[d] = context[d]
  BY <1>3, <1>5
<1>7. \A z \in Surfaces : surface'[z].gbuf = surface[z].gbuf
  <2> DEFINE q == [surface[s] EXCEPT !.users = surface[s].users \cup {c}, !.context_id = c]
  <2>1. surface' = [surface EXCEPT ![s] = q]
    BY StartFacts, Zenon
  <2>2. Reassigned(surface[s], q, surface[s].users \cup {c}, c, surface[s].output_context_id)
    BY TakenFacts, Zenon
  <2> HIDE DEF q
  <2> QED
    BY <1>5, <2>1, <2>2 DEF Reassigned
<1>8. CASE scratch = NoFd
  BY <1>1, <1>3, <1>4, <1>6, <1>7, <1>8, HolderSame
<1>9. CASE scratch # NoFd
  <2>1. scratch \in Fds \ live /\ live' = live \cup {scratch}
    BY <1>3, <1>9, NewFdFacts
  <2> QED
    BY <1>1, <1>4, <1>6, <1>7, <2>1, HolderMore
<1> QED
  BY <1>8, <1>9

LEMMA UseHolders ==
    ASSUME TypeOK, HolderInv, NEW c \in Contexts,
           \/ \E s \in Surfaces : BeginUse(c, s) \/ ReceiveFrame(c, s)
           \/ \E b \in {"input", "output"} : KeepBuffer(c, b)
           \/ Wedge(c) \/ EndUse(c)
    PROVE  HolderInv'
<1>1. context \in [Contexts -> ContextStates] /\ surface \in [Surfaces -> SurfaceStates]
  BY DEF TypeOK
<1>2. orphans' = orphans /\ importing' = importing /\ live' = live
  BY Zenon DEF BeginUse, ReceiveFrame, KeepBuffer, Wedge, EndUse, listVars
<1>3. \A d \in Contexts : context'[d].scratch = context[d].scratch
  <2>1. ASSUME NEW s \in Surfaces, BeginUse(c, s)
        PROVE  \A d \in Contexts : context'[d].scratch = context[d].scratch
    <3>1. context' = [context EXCEPT ![c].busy = TRUE]
      BY <2>1, Zenon DEF BeginUse
    <3> QED
      BY <1>1, <3>1 DEF ContextStates
  <2>2. ASSUME NEW s \in Surfaces, ReceiveFrame(c, s)
        PROVE  \A d \in Contexts : context'[d].scratch = context[d].scratch
    BY <2>2 DEF ReceiveFrame
  <2>3. ASSUME NEW b \in {"input", "output"}, KeepBuffer(c, b)
        PROVE  \A d \in Contexts : context'[d].scratch = context[d].scratch
    BY <1>1, <2>3 DEF KeepBuffer, ContextStates
  <2>4. CASE EndUse(c)
    BY <1>1, <2>4 DEF EndUse, ContextStates
  <2>5. CASE Wedge(c)
    BY <1>1, <2>5 DEF Wedge, ContextStates
  <2> QED
    BY <2>1, <2>2, <2>3, <2>4, <2>5
<1>4. \A z \in Surfaces : surface'[z].gbuf = surface[z].gbuf
  <2>1. ASSUME NEW s \in Surfaces, BeginUse(c, s)
        PROVE  \A z \in Surfaces : surface'[z].gbuf = surface[z].gbuf
    <3> DEFINE users == surface[s].users \cup {c}
               out == IF context[c].is_encoder THEN surface[s].output_context_id
                                               ELSE NoContext
               q == [surface[s] EXCEPT !.users = users, !.context_id = c,
                                       !.output_context_id = out]
    <3>1. surface' = [surface EXCEPT ![s] = q]
      BY <2>1, Zenon DEF BeginUse
    <3>2. /\ surface[s] \in SurfaceStates /\ users \in SUBSET Contexts
          /\ c \in Contexts \cup {NoContext} /\ out \in Contexts \cup {NoContext}
      BY <1>1 DEF SurfaceStates
    <3> HIDE DEF users, out
    <3>3. Reassigned(surface[s], q, users, c, out)
      BY <3>2, ReassignedFacts, Zenon
    <3> HIDE DEF q
    <3> QED
      BY <1>1, <3>1, <3>3 DEF Reassigned
  <2>2. ASSUME NEW s \in Surfaces, ReceiveFrame(c, s)
        PROVE  \A z \in Surfaces : surface'[z].gbuf = surface[z].gbuf
    BY <1>1, <2>2 DEF ReceiveFrame, SurfaceStates
  <2>3. ASSUME NEW b \in {"input", "output"}, KeepBuffer(c, b)
        PROVE  \A z \in Surfaces : surface'[z].gbuf = surface[z].gbuf
    BY <2>3 DEF KeepBuffer
  <2>4. CASE EndUse(c)
    BY <2>4 DEF EndUse
  <2>5. CASE Wedge(c)
    BY <2>5 DEF Wedge
  <2> QED
    BY <2>1, <2>2, <2>3, <2>4, <2>5
<1> QED
  BY <1>2, <1>3, <1>4, HolderSame

LEMMA PreallocateHolders ==
    ASSUME TypeOK, HolderInv, NEW s \in Surfaces, Preallocate(s)
    PROVE  HolderInv'
<1> DEFINE fd == NewFd
<1>1. surface[s].gbuf = NoFd /\ surface' = [surface EXCEPT ![s].gbuf = fd]
  BY Zenon DEF Preallocate
<1>2. /\ context' = context /\ orphans' = orphans /\ importing' = importing
      /\ live' = live \cup {fd}
  BY Zenon DEF Preallocate, listVars
<1>3. fd \in Fds \ live
  BY NewFdFacts DEF Preallocate
<1> HIDE DEF fd
<1>4. surface'[s].gbuf = fd /\ \A r \in Surfaces \ {s} : surface'[r].gbuf = surface[r].gbuf
  BY <1>1 DEF TypeOK, SurfaceStates
<1> QED
  BY <1>1, <1>2, <1>3, <1>4, HolderMore

LEMMA LockHolders ==
    ASSUME TypeOK, HolderInv, NEW s \in Surfaces, Lock(s) \/ Unlock(s)
    PROVE  HolderInv'
<1>1. /\ context' = context /\ orphans' = orphans /\ importing' = importing /\ live' = live
      /\ \E locked \in BOOLEAN : surface' = [surface EXCEPT ![s].locked = locked]
  BY Zenon DEF Lock, Unlock, listVars
<1>2. \A z \in Surfaces : surface'[z].gbuf = surface[z].gbuf
  BY <1>1 DEF TypeOK, SurfaceStates
<1> QED
  BY <1>1, <1>2, HolderSame

LEMMA CreateSurfacesHolders ==
    ASSUME TypeOK, CtxInv, HolderInv, NEW n \in 1 .. NumSurfaces, CreateSurfaces(n)
    PROVE  HolderInv'
<1> DEFINE bufs == [i \in 1 .. n |-> NoFd]
<1>1. n \in Nat /\ Len(bufs) = n /\ \A k \in 1 .. n : bufs[k] = NoFd
  BY Sizes
<1>2. n <= Cardinality(FreeSlots)
  <2>1. Cardinality(FreeSlots) >= n /\ Cardinality(FreeSlots) \in Nat
    BY PlaceFacts DEF CreateSurfaces
  <2> QED
    BY <1>1, <2>1
<1>3. /\ context' = context /\ surface' = Created(bufs)
      /\ orphans' = orphans /\ importing' = importing /\ live' = live
  BY DEF CreateSurfaces, listVars
<1> HIDE DEF bufs
<1>4. PICK f : NewSlots(n, bufs, f)
  BY <1>1, <1>2, <1>3, NewSlotsFacts
<1>5. \A s \in FreeSlots : surface[s].gbuf = NoFd
  BY SoundMeans DEF FreeSlots, FreeSurface
<1>6. \A s \in Surfaces : surface'[s].gbuf = surface[s].gbuf
  BY <1>1, <1>4, <1>5 DEF NewSlots, NewSurface
<1> QED
  BY <1>3, <1>6, HolderSame

(* The surfaces of S are cleared, but those whose buffer is in F.          *)
LEMMA ClearedHolders ==
    ASSUME TypeOK, HolderInv, NEW S \in SUBSET Surfaces, NEW F,
           FreeBufs(BuffersOf(S), F), surface' = Cleared(S, F),
           context' = context, orphans' = orphans, importing' = importing
    PROVE  HolderInv'
<1> DEFINE gone == BuffersOf(S) \ F
<1>1. live' = live \ gone
  BY FreeBufsFacts
<1>2. \A t \in Threads, fd \in Fds : Carries(t, fd)' <=> Carries(t, fd)
  BY DEF Carries
<1>3. \A s \in Surfaces : surface[s].gbuf \in Fds \cup {NoFd}
  BY DEF TypeOK, SurfaceStates
<1>4. \A fd : fd \in gone <=> /\ fd # NoFd /\ fd \notin F
                              /\ \E s \in S : fd = surface[s].gbuf
  BY DEF BuffersOf
<1>5. orphans \subseteq Fds /\ gone \subseteq Fds /\ NoFd \notin F
  BY <1>3, <1>4, FreeBufsFacts DEF TypeOK, BuffersOf
<1>6. \A s \in Surfaces : surface'[s].gbuf = IF s \in S /\ surface[s].gbuf \notin F THEN NoFd
                                             ELSE surface[s].gbuf
  BY DEF Cleared, FreeSurface
<1> HIDE DEF gone
<1>7. \A s \in Surfaces :
         \/ surface'[s].gbuf = surface[s].gbuf /\ surface[s].gbuf \notin gone
         \/ surface'[s].gbuf = NoFd /\ surface[s].gbuf \in gone \cup {NoFd}
  BY <1>3, <1>4, <1>6 DEF HolderInv
<1>8. \A c \in Contexts : context[c].scratch \notin gone
  BY <1>4, <1>5 DEF HolderInv
<1>9. orphans' = orphans \ gone
  BY <1>4 DEF HolderInv
<1>10. \A t \in Threads :
          /\ Distinct(importing'[t])
          /\ \A fd \in Fds : Carries(t, fd)' <=> Carries(t, fd) /\ fd \notin gone
  BY <1>2, <1>4 DEF HolderInv
<1>11. GivesBack(gone)
  BY <1>1, <1>7, <1>8, <1>9, <1>10 DEF GivesBack
<1> QED
  BY <1>11, HolderLess

LEMMA CallHolders ==
    ASSUME TypeOK, CtxInv, HolderInv, (\E c \in Contexts : ContextCall(c)) \/ SurfaceCall
    PROVE  HolderInv'
<1>1. ASSUME NEW c \in Contexts, DestroyContext(c)
      PROVE  HolderInv'
  BY <1>1, TearDownHolders DEF DestroyContext, listVars
<1>2. ASSUME NEW S \in SUBSET Surfaces, DestroySurfaces(S)
      PROVE  HolderInv'
  BY <1>2, ClearedHolders DEF DestroySurfaces, listVars
<1> QED
  BY <1>1, <1>2, CreateHolders, ReapFailsHolders, StartHolders, UseHolders,
     CreateSurfacesHolders, PreallocateHolders, LockHolders, Zenon DEF ContextCall, SurfaceCall

(* What an import that goes on carries then.                               *)
LEMMA BecomesCarries ==
    ASSUME NEW t \in Threads, NEW at, NEW num, NEW got, NEW fd, Becomes(t, at, num, got, fd)
    PROVE  /\ \A x : Carries(t, x)' <=> fd = x \/ \E k \in 1 .. Len(got) : got[k] = x
           /\ Distinct(importing'[t]) <=>
                 \A j, k \in 1 .. Len(got) : got[j] # fd /\ (got[j] = got[k] => j = k)
           /\ \A u \in Threads \ {t} : /\ importing'[u] = importing[u]
                                      /\ \A x : Carries(u, x)' <=> Carries(u, x)
BY DEF Becomes, Carries, Distinct

(* An import gives back what is in gone, and the rest stays where it is.   *)
LEMMA CarriedLess ==
    ASSUME TypeOK, HolderInv, NEW t \in Threads, NEW gone,
           \A fd \in gone : fd \in Fds /\ Carries(t, fd),
           \A fd \in Fds : Carries(t, fd)' <=> Carries(t, fd) /\ fd \notin gone,
           \A u \in Threads \ {t} : importing'[u] = importing[u],
           Distinct(importing'[t]),
           context' = context, surface' = surface, orphans' = orphans, live' = live \ gone
    PROVE  HolderInv'
<1>1. \A u \in Threads \ {t} : \A fd \in Fds : Carries(u, fd)' <=> Carries(u, fd)
  BY DEF Carries
<1>2. \A u \in Threads : /\ Distinct(importing'[u])
                         /\ \A fd \in Fds : Carries(u, fd)' <=> Carries(u, fd) /\ fd \notin gone
  BY <1>1 DEF HolderInv
<1>3. orphans' = orphans \ gone
  BY DEF HolderInv, TypeOK
<1>4. GivesBack(gone)
  BY <1>2, <1>3 DEF GivesBack, HolderInv
<1> QED
  BY <1>4, HolderLess

LEMMA CarriedSame ==
    ASSUME TypeOK, HolderInv, NEW t \in Threads,
           \A fd \in Fds : Carries(t, fd)' <=> Carries(t, fd),
           \A u \in Threads \ {t} : importing'[u] = importing[u],
           Distinct(importing'[t]),
           context' = context, surface' = surface, orphans' = orphans, live' = live
    PROVE  HolderInv'
<1> DEFINE gone == {}
<1>1. /\ live' = live \ gone
      /\ \A fd \in gone : fd \in Fds /\ Carries(t, fd)
      /\ \A fd \in Fds : Carries(t, fd)' <=> Carries(t, fd) /\ fd \notin gone
  OBVIOUS
<1> HIDE DEF gone
<1> QED
  BY <1>1, CarriedLess

LEMMA ImportHolders ==
    ASSUME TypeOK, ImportInv, HolderInv, NEW t \in Threads,
           \/ \E n \in 1 .. MaxImport : ReserveSlots(t, n)
           \/ ImportBuffer(t) \/ ImportRefused(t) \/ ImportMismatch(t) \/ DropImport(t)
           \/ UndoImport(t) \/ ImportFails(t) \/ SurfacesFull(t)
    PROVE  HolderInv'
<1> DEFINE i == importing[t]
<1>1. /\ i \in ImportStates /\ i.got \in Seq(Fds) /\ Len(i.got) \in Nat
      /\ i.fd \in Fds \cup {NoFd} /\ NoFd \notin Fds
  BY ImportFields, Sizes DEF TypeOK
<1>2. /\ i.at = "out" => i = NoImport
      /\ i.at \notin {"drop", "retain"} => i.fd = NoFd
      /\ i.at \in {"drop", "retain"} => i.fd # NoFd
  BY DEF ImportInv
<1>3. /\ \A j, k \in 1 .. Len(i.got) : i.got[j] # i.fd /\ (i.got[j] = i.got[k] => j = k)
      /\ \A j \in 1 .. Len(i.got) : i.got[j] \in Fds /\ i.got[j] \in live
      /\ i.fd # NoFd => i.fd \in live
  BY <1>1 DEF HolderInv, Distinct, Carries
<1>4. context' = context /\ surface' = surface /\ orphans' = orphans
  BY Zenon DEF ReserveSlots, ImportBuffer, ImportRefused, ImportMismatch, DropImport,
               UndoImport, ImportFails, SurfacesFull, ctxVars, listVars
<1>5. \A x : Carries(t, x) <=> i.fd = x \/ \E k \in 1 .. Len(i.got) : i.got[k] = x
  BY DEF Carries
<1>6. ASSUME NEW n \in 1 .. MaxImport, ReserveSlots(t, n)
      PROVE  HolderInv'
  <2>1. Becomes(t, "import", n, << >>, NoFd) /\ i = NoImport /\ live' = live
    <3>1. Becomes(t, "import", n, << >>, NoFd)
      BY <1>6, ImportSteps
    <3>2. i.at = "out" /\ live' = live
      BY <1>6, Zenon DEF ReserveSlots, Importing
    <3> QED
      BY <1>2, <3>1, <3>2
  <2>2. i.fd = NoFd /\ Len(i.got) = 0 /\ Len(<< >>) = 0
    BY <2>1 DEF NoImport
  <2>3. \A fd \in Fds : Carries(t, fd)' <=> Carries(t, fd)
    BY <1>5, <2>1, <2>2, BecomesCarries
  <2>4. Distinct(importing'[t]) /\ \A u \in Threads \ {t} : importing'[u] = importing[u]
    BY <2>1, <2>2, BecomesCarries
  <2> QED
    BY <1>4, <2>1, <2>3, <2>4, CarriedSame
<1>7. ASSUME ImportBuffer(t)
      PROVE  HolderInv'
  <2> DEFINE new == NewFd
             q == Append(i.got, new)
  <2>1. Becomes(t, "import", i.num, q, NoFd) /\ i.at = "import" /\ live' = live \cup {new}
    BY <1>7, ImportSteps DEF ImportBuffer, Importing
  <2>2. new \in Fds \ live
    BY <1>7, NewFdFacts DEF ImportBuffer
  <2> HIDE DEF new
  <2>3. /\ Len(q) = Len(i.got) + 1 /\ q[Len(i.got) + 1] = new
        /\ \A k \in 1 .. Len(i.got) : q[k] = i.got[k]
    <3> HIDE DEF i
    <3> QED
      BY <1>1, <2>2, SeqFacts
  <2> HIDE DEF q
  <2>4. i.fd = NoFd
    BY <1>2, <2>1
  <2> DEFINE m == Len(i.got)
  <2>5. /\ 1 .. Len(q) = (1 .. m) \cup {m + 1} /\ m + 1 \notin 1 .. m
    <3>1. m \in Nat /\ Len(q) = m + 1
      BY <1>1, <2>3
    <3> HIDE DEF m
    <3>2. 1 .. m + 1 = (1 .. m) \cup {m + 1} /\ m + 1 \notin 1 .. m
      BY <3>1
    <3> QED
      BY <3>1, <3>2
  <2>6. \A j \in 1 .. Len(q) : q[j] = IF j = m + 1 THEN new ELSE i.got[j]
    BY <2>3, <2>5
  <2> HIDE DEF m
  <2>7. \A x : (\E k \in 1 .. Len(q) : q[k] = x)
                  <=> x = new \/ \E k \in 1 .. m : i.got[k] = x
    BY <2>5, <2>6
  <2>8. \A fd \in Fds : Carries(t, fd)' <=> Carries(t, fd) \/ fd = new
    <3>1. \A x : Carries(t, x)' <=> NoFd = x \/ \E k \in 1 .. Len(q) : q[k] = x
      BY <2>1, BecomesCarries
    <3>2. \A x : Carries(t, x) <=> NoFd = x \/ \E k \in 1 .. m : i.got[k] = x
      BY <1>5, <2>4 DEF m
    <3> HIDE DEF i
    <3> QED
      BY <1>1, <2>2, <2>7, <3>1, <3>2
  <2>9. \A j, k \in 1 .. Len(q) : q[j] # NoFd /\ (q[j] = q[k] => j = k)
    <3>1. \A j \in 1 .. m : i.got[j] # NoFd /\ i.got[j] # new
      BY <1>1, <1>3, <2>2 DEF m
    <3>2. \A j, k \in 1 .. m : i.got[j] = i.got[k] => j = k
      BY <1>3 DEF m
    <3>3. new # NoFd
      BY <1>1, <2>2
    <3> QED
      BY <2>5, <2>6, <3>1, <3>2, <3>3
  <2>10. Distinct(importing'[t]) /\ \A u \in Threads \ {t} : importing'[u] = importing[u]
    BY <2>1, <2>9, BecomesCarries
  <2> QED
    BY <1>4, <2>1, <2>2, <2>8, <2>10, HolderMore
<1>8. ASSUME ImportRefused(t) \/ SurfacesFull(t)
      PROVE  HolderInv'
  <2>1. Becomes(t, "undo", i.num, i.got, NoFd) /\ i.at = "import" /\ live' = live
    BY <1>8, ImportSteps DEF ImportRefused, SurfacesFull, AllImported, Importing
  <2>2. i.fd = NoFd
    BY <1>2, <2>1
  <2>3. \A fd \in Fds : Carries(t, fd)' <=> Carries(t, fd)
    BY <1>5, <2>1, <2>2, BecomesCarries
  <2>4. Distinct(importing'[t]) /\ \A u \in Threads \ {t} : importing'[u] = importing[u]
    BY <1>3, <2>1, <2>2, BecomesCarries
  <2> QED
    BY <1>4, <2>1, <2>3, <2>4, CarriedSame
<1>9. ASSUME ImportMismatch(t)
      PROVE  HolderInv'
  <2> DEFINE new == NewFd
  <2>1. Becomes(t, "drop", i.num, i.got, new) /\ i.at = "import" /\ live' = live \cup {new}
    BY <1>9, ImportSteps DEF ImportMismatch, Importing
  <2>2. new \in Fds \ live
    BY <1>9, NewFdFacts DEF ImportMismatch
  <2> HIDE DEF new
  <2>3. i.fd = NoFd
    BY <1>2, <2>1
  <2>4. \A fd \in Fds : Carries(t, fd)' <=> Carries(t, fd) \/ fd = new
    BY <1>1, <1>5, <2>1, <2>3, BecomesCarries
  <2>5. Distinct(importing'[t]) /\ \A u \in Threads \ {t} : importing'[u] = importing[u]
    BY <1>3, <2>1, <2>2, BecomesCarries
  <2> QED
    BY <1>4, <2>1, <2>2, <2>4, <2>5, HolderMore
<1>10. ASSUME DropImport(t)
       PROVE  HolderInv'
  <2>1. i.fd \in Fds /\ i.fd # NoFd
    BY <1>1, <1>2, <1>10 DEF DropImport, Importing
  <2>2. CASE Becomes(t, "undo", i.num, i.got, NoFd) /\ FreeBufs({i.fd}, {})
    <3>1. live' = live \ {i.fd}
      BY <2>2, FreeBufsFacts
    <3>2. \A fd \in Fds : Carries(t, fd)' <=> Carries(t, fd) /\ fd \notin {i.fd}
      BY <1>1, <1>3, <1>5, <2>2, BecomesCarries
    <3>3. Distinct(importing'[t]) /\ \A u \in Threads \ {t} : importing'[u] = importing[u]
      BY <1>1, <1>3, <2>2, BecomesCarries
    <3>4. \A fd \in {i.fd} : fd \in Fds /\ Carries(t, fd)
      BY <1>5, <2>1
    <3> QED
      BY <1>4, <3>1, <3>2, <3>3, <3>4, CarriedLess
  <2>3. CASE Becomes(t, "retain", i.num, i.got, i.fd) /\ FreeBufs({i.fd}, {i.fd})
    <3>1. live' = live
      BY <2>3, FreeBufsFacts
    <3>2. \A fd \in Fds : Carries(t, fd)' <=> Carries(t, fd)
      BY <1>5, <2>3, BecomesCarries
    <3>3. Distinct(importing'[t]) /\ \A u \in Threads \ {t} : importing'[u] = importing[u]
      BY <1>3, <2>3, BecomesCarries
    <3> QED
      BY <1>4, <3>1, <3>2, <3>3, CarriedSame
  <2> QED
    BY <1>10, <2>2, <2>3, ImportSteps
<1>11. ASSUME UndoImport(t)
       PROVE  HolderInv'
  <2> DEFINE q == Tail(i.got)
             fd == Head(i.got)
             m == Len(i.got)
  <2>1. /\ Becomes(t, "drop", i.num, q, fd) /\ i.at = "undo" /\ i.got # << >> /\ live' = live
    <3>1. Becomes(t, "drop", i.num, q, fd)
      BY <1>11, ImportSteps
    <3>2. i.at = "undo" /\ i.got # << >> /\ live' = live
      BY <1>11, Zenon DEF UndoImport, Importing
    <3> QED
      BY <3>1, <3>2
  <2>2. /\ m > 0 /\ fd = i.got[1] /\ Len(q) = m - 1
        /\ \A k \in 1 .. m - 1 : q[k] = i.got[k + 1]
    <3> HIDE DEF i
    <3> QED
      BY <1>1, <2>1, SeqFacts
  <2>3. i.fd = NoFd
    BY <1>2, <2>1
  <2> HIDE DEF q, fd
  <2>4. m \in Nat
    BY <1>1
  <2> HIDE DEF m
  <2>5. \A k \in 1 .. m : k = 1 \/ \E j \in 1 .. m - 1 : k = j + 1
    <3> SUFFICES ASSUME NEW k \in 1 .. m, k # 1
                 PROVE  \E j \in 1 .. m - 1 : k = j + 1
      OBVIOUS
    <3>1. k - 1 \in 1 .. m - 1 /\ k = (k - 1) + 1
      BY <2>4
    <3> QED
      BY <3>1
  <2>6. 1 \in 1 .. m /\ \A j \in 1 .. m - 1 : j + 1 \in 1 .. m /\ j + 1 # 1
    BY <2>2, <2>4
  <2>7. \A x : (\E k \in 1 .. m : i.got[k] = x)
                  <=> fd = x \/ \E j \in 1 .. Len(q) : q[j] = x
    BY <2>2, <2>5, <2>6
  <2>8. \A x \in Fds : Carries(t, x)' <=> Carries(t, x)
    BY <1>1, <1>5, <2>1, <2>3, <2>7, BecomesCarries DEF m
  <2>9. \A j, k \in 1 .. m : i.got[j] = i.got[k] => j = k
    BY <1>3 DEF m
  <2>10. \A j, k \in 1 .. Len(q) : q[j] # fd /\ (q[j] = q[k] => j = k)
    <3> SUFFICES ASSUME NEW j \in 1 .. m - 1, NEW k \in 1 .. m - 1
                 PROVE  q[j] # fd /\ (q[j] = q[k] => j = k)
      BY <2>2
    <3>1. q[j] = i.got[j + 1] /\ q[k] = i.got[k + 1] /\ j + 1 \in 1 .. m /\ k + 1 \in 1 .. m
      BY <2>2, <2>6
    <3>2. q[j] # fd
      BY <2>2, <2>6, <2>9, <3>1
    <3>3. q[j] = q[k] => j + 1 = k + 1
      BY <2>9, <3>1
    <3> QED
      BY <2>4, <3>2, <3>3
  <2>11. Distinct(importing'[t]) /\ \A u \in Threads \ {t} : importing'[u] = importing[u]
    BY <2>1, <2>10, BecomesCarries
  <2> QED
    BY <1>4, <2>1, <2>8, <2>11, CarriedSame
<1>12. ASSUME ImportFails(t)
       PROVE  HolderInv'
  <2>1. /\ Becomes(t, "out", 0, << >>, NoFd) /\ i.at = "undo" /\ i.got = << >> /\ live' = live
    BY <1>12, ImportSteps DEF ImportFails, Importing
  <2>2. i.fd = NoFd /\ Len(i.got) = 0 /\ Len(<< >>) = 0
    BY <1>2, <2>1
  <2>3. \A fd \in Fds : Carries(t, fd)' <=> Carries(t, fd)
    BY <1>5, <2>1, <2>2, BecomesCarries
  <2>4. Distinct(importing'[t]) /\ \A u \in Threads \ {t} : importing'[u] = importing[u]
    BY <2>1, <2>2, BecomesCarries
  <2> QED
    BY <1>4, <2>1, <2>3, <2>4, CarriedSame
<1> QED
  BY <1>6, <1>7, <1>8, <1>9, <1>10, <1>11, <1>12

(* There is always room to retain a buffer that could not be freed.        *)
LEMMA RetainHolders ==
    ASSUME TypeOK, ImportInv, RoomInv, HolderInv, NEW t \in Threads, RetainImport(t)
    PROVE  HolderInv'
<1> DEFINE i == importing[t]
<1>1. /\ i \in ImportStates /\ i.got \in Seq(Fds) /\ Len(i.got) \in Nat
      /\ i.fd \in Fds \cup {NoFd} /\ NoFd \notin Fds
  BY ImportFields, Sizes DEF TypeOK
<1>2. Becomes(t, "undo", i.num, i.got, NoFd) /\ i.at = "retain" /\ Pending(i) = Len(i.got) + 1
  BY ImportSteps DEF RetainImport, Importing, Pending
<1>3. i.fd \in Fds
  BY <1>1, <1>2 DEF ImportInv
<1>4. orphan_count < OrphanSlots
  <2>0. Cardinality(Wanted) \in Nat /\ Pending(i) <= Cardinality(Wanted)
    BY <1>2, BecomesRoom
  <2>1. PICK w \in Nat : w = Cardinality(Wanted) /\ w > 0
    <3>1. PICK w \in Nat, len \in Nat : w = Cardinality(Wanted) /\ len = Len(i.got)
      BY <1>1, <2>0
    <3>2. len + 1 <= w
      BY <1>2, <2>0, <3>1
    <3> QED
      BY <3>1, <3>2
  <2>2. PICK o \in Nat, room \in Nat : o = orphan_count /\ room = OrphanSlots
    BY Sizes DEF TypeOK
  <2>3. o + w <= room
    BY <2>1, <2>2 DEF RoomInv
  <2> QED
    BY <2>1, <2>2, <2>3
<1>5. /\ orphans' = orphans \cup {i.fd}
      /\ context' = context /\ surface' = surface /\ live' = live
  BY <1>4 DEF RetainImport, ctxVars
<1>6. \A x : Carries(t, x) <=> i.fd = x \/ \E k \in 1 .. Len(i.got) : i.got[k] = x
  BY DEF Carries
<1>7. \A j, k \in 1 .. Len(i.got) : i.got[j] # i.fd /\ (i.got[j] = i.got[k] => j = k)
  BY DEF HolderInv, Distinct
<1>8. \A k \in 1 .. Len(i.got) : i.got[k] \in Fds
  BY <1>1
<1>9. /\ \A x \in Fds : Carries(t, x)' <=> Carries(t, x) /\ x # i.fd
      /\ \A u \in Threads \ {t}, x \in Fds : Carries(u, x)' <=> Carries(u, x)
      /\ \A u \in Threads : Distinct(importing'[u])
  <2>1. \A x \in Fds : Carries(t, x)' <=> Carries(t, x) /\ x # i.fd
    BY <1>1, <1>2, <1>6, <1>7, BecomesCarries
  <2>2. Distinct(importing'[t])
    BY <1>1, <1>2, <1>7, <1>8, BecomesCarries
  <2>3. \A u \in Threads \ {t} : /\ importing'[u] = importing[u]
                                 /\ \A x : Carries(u, x)' <=> Carries(u, x)
    BY <1>2, BecomesCarries
  <2> QED
    BY <2>1, <2>2, <2>3 DEF HolderInv
<1>10. Carries(t, i.fd)
  BY <1>6
<1>11. \A c \in Contexts : context[c].scratch # i.fd
  BY <1>3, <1>10 DEF HolderInv
<1>12. \A s \in Surfaces : surface[s].gbuf # i.fd
  BY <1>3, <1>10 DEF HolderInv
<1> HIDE DEF i
<1> QED
  BY <1>3, <1>5, <1>9, <1>10, <1>11, <1>12 DEF HolderInv

(* What has been imported belongs to the surfaces from then on.            *)
LEMMA ImportSurfacesHolders ==
    ASSUME TypeOK, CtxInv, ImportInv, HolderInv, NEW t \in Threads, ImportSurfaces(t)
    PROVE  HolderInv'
<1> DEFINE i == importing[t]
           bufs == i.got
           n == Len(i.got)
<1>1. /\ i \in ImportStates /\ bufs \in Seq(Fds) /\ n \in Nat /\ i.num \in Nat
      /\ NoFd \notin Fds
  BY ImportFields, Sizes DEF TypeOK
<1>2. Becomes(t, "out", 0, << >>, NoFd) /\ i.at = "import" /\ i.num = n
  BY ImportSteps DEF ImportSurfaces, AllImported, Importing
<1>3. /\ surface' = Created(bufs) /\ Cardinality(FreeSlots) >= n
      /\ context' = context /\ orphans' = orphans /\ live' = live
  BY <1>2 DEF ImportSurfaces
<1>4. n <= Cardinality(FreeSlots)
  BY <1>1, <1>3, PlaceFacts
<1>5. i.fd = NoFd
  BY <1>2 DEF ImportInv
<1>6. \A k \in 1 .. n : bufs[k] \in Fds
  BY <1>1
<1>7. \A x : Carries(t, x) <=> NoFd = x \/ \E k \in 1 .. n : bufs[k] = x
  BY <1>5 DEF Carries
<1>8. \A j, k \in 1 .. n : bufs[j] = bufs[k] => j = k
  BY DEF HolderInv, Distinct
<1>9. /\ \A x \in Fds : ~Carries(t, x)'
      /\ \A u \in Threads \ {t}, x \in Fds : Carries(u, x)' <=> Carries(u, x)
      /\ \A u \in Threads : Distinct(importing'[u])
  <2>0. Len(<< >>) = 0
    OBVIOUS
  <2>1. \A x \in Fds : ~Carries(t, x)'
    BY <1>1, <1>2, <2>0, BecomesCarries
  <2>2. Distinct(importing'[t])
    BY <1>2, <2>0, BecomesCarries
  <2>3. \A u \in Threads \ {t} : /\ importing'[u] = importing[u]
                                 /\ \A x : Carries(u, x)' <=> Carries(u, x)
    BY <1>2, BecomesCarries
  <2> QED
    BY <2>1, <2>2, <2>3 DEF HolderInv
<1> HIDE DEF bufs, n, i
<1>10. PICK f : NewSlots(n, bufs, f)
  <2>1. Len(bufs) = n
    BY DEF n, bufs
  <2> QED
    BY <1>1, <1>3, <1>4, <1>6, <2>1, NewSlotsFacts
<1>11. /\ f \in [1 .. n -> Surfaces]
       /\ \A j, k \in 1 .. n : f[j] = f[k] => j = k
       /\ \A k \in 1 .. n : surface'[f[k]].gbuf = bufs[k]
       /\ \A s \in Surfaces : (\A k \in 1 .. n : f[k] # s) => surface'[s] = surface[s]
  BY <1>10 DEF NewSlots, NewSurface, FreeSlots
<1>12. \A k \in 1 .. n : surface[f[k]].gbuf = NoFd
  <2>1. \A s \in FreeSlots : surface[s].gbuf = NoFd
    BY SoundMeans DEF FreeSlots, FreeSurface
  <2> QED
    BY <1>10, <2>1 DEF NewSlots
<1>13. \A x \in Fds, s \in Surfaces :
          surface'[s].gbuf = x <=> \/ surface[s].gbuf = x
                                   \/ \E k \in 1 .. n : f[k] = s /\ bufs[k] = x
  <2> SUFFICES ASSUME NEW x \in Fds, NEW s \in Surfaces
               PROVE  surface'[s].gbuf = x <=> \/ surface[s].gbuf = x
                                               \/ \E k \in 1 .. n : f[k] = s /\ bufs[k] = x
    OBVIOUS
  <2>1. CASE \E k \in 1 .. n : f[k] = s
    BY <1>1, <1>11, <1>12, <2>1
  <2>2. CASE \A k \in 1 .. n : f[k] # s
    BY <1>11, <2>2
  <2> QED
    BY <2>1, <2>2
<1>14. \A k \in 1 .. n : Carries(t, bufs[k])
  BY <1>7
<1>15. \A k \in 1 .. n :
          /\ bufs[k] \in live /\ bufs[k] \notin orphans
          /\ \A c \in Contexts : context[c].scratch # bufs[k]
          /\ \A s \in Surfaces : surface[s].gbuf # bufs[k]
          /\ \A u \in Threads \ {t} : ~Carries(u, bufs[k])
  BY <1>6, <1>14 DEF HolderInv
<1>16. \A fd \in Fds : fd \in live' <=>
          \/ \E c \in Contexts : context'[c].scratch = fd
          \/ \E s \in Surfaces : surface'[s].gbuf = fd
          \/ fd \in orphans'
          \/ \E u \in Threads : Carries(u, fd)'
  <2> SUFFICES ASSUME NEW fd \in Fds
               PROVE  fd \in live' <=>
                        \/ \E c \in Contexts : context'[c].scratch = fd
                        \/ \E s \in Surfaces : surface'[s].gbuf = fd
                        \/ fd \in orphans'
                        \/ \E u \in Threads : Carries(u, fd)'
    OBVIOUS
  <2>1. (\E s \in Surfaces : surface'[s].gbuf = fd) <=>
           (\E s \in Surfaces : surface[s].gbuf = fd) \/ \E k \in 1 .. n : bufs[k] = fd
    BY <1>11, <1>13
  <2>2. (\E u \in Threads : Carries(u, fd)) <=>
           (\E u \in Threads : Carries(u, fd)') \/ \E k \in 1 .. n : bufs[k] = fd
    BY <1>1, <1>7, <1>9
  <2>3. fd \in live <=> \/ \E c \in Contexts : context[c].scratch = fd
                        \/ \E s \in Surfaces : surface[s].gbuf = fd
                        \/ fd \in orphans
                        \/ \E u \in Threads : Carries(u, fd)
    BY DEF HolderInv
  <2> QED
    BY <1>3, <2>1, <2>2, <2>3
<1>17. \A fd \in Fds, r, s \in Surfaces :
          surface'[r].gbuf = fd /\ surface'[s].gbuf = fd => r = s
  BY <1>8, <1>11, <1>13, <1>15 DEF HolderInv
<1>18. \A fd \in Fds, c \in Contexts, s \in Surfaces :
          ~(context'[c].scratch = fd /\ surface'[s].gbuf = fd)
  BY <1>3, <1>13, <1>15 DEF HolderInv
<1>19. \A s \in Surfaces : surface'[s].gbuf \notin orphans'
  BY <1>3, <1>11, <1>15 DEF HolderInv
<1>20. \A fd \in Fds, u \in Threads : Carries(u, fd)' =>
          \A s \in Surfaces : surface'[s].gbuf # fd
  BY <1>9, <1>13, <1>15 DEF HolderInv
<1> QED
  BY <1>3, <1>9, <1>16, <1>17, <1>18, <1>19, <1>20 DEF HolderInv

LEMMA OrphansHolders ==
    ASSUME TypeOK, HolderInv, TerminateOrphans
    PROVE  HolderInv'
<1>1. PICK F \in SUBSET orphans : FreeBufs(orphans, F) /\ orphans' = F
  BY DEF TerminateOrphans
<1>2. context' = context /\ surface' = surface /\ importing' = importing
  BY DEF TerminateOrphans, ctxVars
<1> DEFINE gone == orphans \ F
<1>3. live' = live \ gone
  BY <1>1, FreeBufsFacts
<1>4. orphans' = orphans \ gone /\ gone \subseteq orphans
  BY <1>1
<1> HIDE DEF gone
<1>5. \A t \in Threads, fd \in Fds : Carries(t, fd)' <=> Carries(t, fd)
  BY <1>2 DEF Carries
<1>6. \A t \in Threads :
          /\ Distinct(importing'[t])
          /\ \A fd \in Fds : Carries(t, fd)' <=> Carries(t, fd) /\ fd \notin gone
  BY <1>2, <1>4, <1>5 DEF HolderInv
<1>7. GivesBack(gone)
  BY <1>2, <1>3, <1>4, <1>6 DEF GivesBack, HolderInv
<1> QED
  BY <1>7, HolderLess

-----------------------------------------------------------------------------
(* The other variables.                                                    *)

(* What a call of the application on contexts and surfaces leaves alone.   *)
LEMMA CallFrames ==
    ASSUME (\E c \in Contexts : ContextCall(c)) \/ SurfaceCall
    PROVE  /\ Free
           /\ orphans' = orphans /\ orphan_count' = orphan_count /\ reserved' = reserved
           /\ importing' = importing /\ term' = term
<1>1. ASSUME NEW c \in Contexts, ContextCall(c)
      PROVE  Free /\ UNCHANGED <<listVars, importing, term>>
  BY <1>1, Zenon DEF ContextCall, CreateContext, CreateContextFails, TakeSlot, ReapFails,
     StartEncoder, StartEncoderFails, BeginUse, ReceiveFrame, Wedge, EndUse, KeepBuffer,
     DestroyContext, Call
<1>2. ASSUME SurfaceCall
      PROVE  Free /\ UNCHANGED <<listVars, importing, term>>
  BY <1>2, Zenon DEF SurfaceCall, CreateSurfaces, Preallocate, Lock, Unlock,
     DestroySurfaces, Call
<1> QED
  BY <1>1, <1>2 DEF listVars

LEMMA CallTypes ==
    ASSUME TypeOK, (\E c \in Contexts : ContextCall(c)) \/ SurfaceCall
    PROVE  calls' \in 0 .. MaxCalls /\ faults' \in 0 .. MaxFaults /\ live' \subseteq Fds
<1> DEFINE Typed == calls' \in 0 .. MaxCalls /\ faults' \in 0 .. MaxFaults
                    /\ live' \subseteq Fds
<1>1. calls \in 0 .. MaxCalls /\ faults \in 0 .. MaxFaults /\ live \subseteq Fds
  BY DEF TypeOK
<1>2. ASSUME NEW c \in Contexts, CreateContext(c) \/ CreateContextFails(c)
      PROVE  Typed
  <2>1. PICK r \in NewContexts : TakeSlot(c, r)
    BY <1>2, CreateContextShape
  <2>2. Call /\ live' \subseteq live
    BY <2>1 DEF TakeSlot
  <2>3. faults' = faults \/ Fail(2)
    BY <1>2, Zenon DEF CreateContext, CreateContextFails
  <2> QED
    BY <1>1, <2>2, <2>3, CallFacts, FailFacts
<1>3. ASSUME NEW c \in Contexts, ReapFails(c)
      PROVE  Typed
  <2>1. Call /\ Fail(1) /\ live' \subseteq live
    BY <1>3, Zenon DEF ReapFails
  <2> QED
    BY <1>1, <2>1, CallFacts, FailFacts
<1>4. ASSUME NEW c \in Contexts, NEW s \in Surfaces, StartEncoder(c, s) \/ StartEncoderFails(c, s)
      PROVE  Typed
  <2>1. PICK r, run, scratch, orphaned : StartShape(c, s, r, run, scratch, orphaned)
    BY <1>4, StartFacts, Zenon
  <2>2. live' \subseteq Fds
    BY <1>1, <2>1, NewFdFacts DEF StartShape
  <2>3. Call
    BY <1>4, Zenon DEF StartEncoder, StartEncoderFails
  <2>4. faults' \in 0 .. MaxFaults
    BY <1>4, StartFacts, Zenon
  <2> QED
    BY <2>2, <2>3, <2>4, CallFacts
<1>5. ASSUME NEW c \in Contexts,
             \/ \E s \in Surfaces : BeginUse(c, s) \/ ReceiveFrame(c, s)
             \/ \E b \in {"input", "output"} : KeepBuffer(c, b)
             \/ Wedge(c) \/ EndUse(c)
      PROVE  Typed
  <2>1. live' = live
    BY <1>5, Zenon DEF BeginUse, ReceiveFrame, KeepBuffer, Wedge, EndUse
  <2>2. Call \/ calls' = calls
    BY <1>5, Zenon DEF BeginUse, ReceiveFrame, KeepBuffer, Wedge, EndUse, boundVars
  <2>3. Fail(1) \/ faults' = faults
    BY <1>5, Zenon DEF BeginUse, ReceiveFrame, KeepBuffer, Wedge, EndUse, boundVars
  <2> QED
    BY <1>1, <2>1, <2>2, <2>3, CallFacts, FailFacts
<1>6. ASSUME NEW c \in Contexts, DestroyContext(c)
      PROVE  Typed
  <2>1. PICK kept \in SUBSET Borrowed(c), frames \in SUBSET BorrowedFrames(c) :
           \E stage \in Stages(c) \cup {"none"} : TearDown(c, kept, frames, stage, TRUE)
    BY <1>6 DEF DestroyContext
  <2>2. faults' \in 0 .. MaxFaults /\ (TearDownEnds(c, frames) \/ TearDownLeaves(c, frames))
    BY <2>1, TearDownFacts
  <2>3. live' \subseteq live
    BY <2>2 DEF TearDownEnds, TearDownLeaves
  <2>4. calls' = calls
    BY <1>6 DEF DestroyContext
  <2> QED
    BY <1>1, <2>2, <2>3, <2>4
<1>7. ASSUME NEW n \in 1 .. NumSurfaces, CreateSurfaces(n)
      PROVE  Typed
  BY <1>1, <1>7, CallFacts DEF CreateSurfaces
<1>8. ASSUME NEW s \in Surfaces, Preallocate(s)
      PROVE  Typed
  <2>1. Call /\ live' = live \cup {NewFd} /\ faults' = faults
    BY <1>8, Zenon DEF Preallocate
  <2>2. NewFd \in Fds
    BY <1>8, NewFdFacts DEF Preallocate
  <2> QED
    BY <1>1, <2>1, <2>2, CallFacts
<1>9. ASSUME NEW s \in Surfaces, Lock(s) \/ Unlock(s)
      PROVE  Typed
  <2>1. /\ Call \/ calls' = calls
        /\ live' = live /\ faults' = faults
    BY <1>9, Zenon DEF Lock, Unlock, boundVars
  <2> QED
    BY <1>1, <2>1, CallFacts
<1>10. ASSUME NEW S, DestroySurfaces(S)
       PROVE  Typed
  <2>1. (\E F : FreeBufs(BuffersOf(S), F)) /\ calls' = calls
    BY <1>10 DEF DestroySurfaces
  <2> QED
    BY <1>1, <2>1, FreeBufsFacts
<1> QED
  BY <1>2, <1>3, <1>4, <1>5, <1>6, <1>7, <1>8, <1>9, <1>10, Zenon DEF ContextCall, SurfaceCall

(* Once vaTerminate has given everything back no call begins.              *)
LEMMA CallOpen ==
    ASSUME TypeOK, CtxInv, PhaseInv, (\E c \in Contexts : ContextCall(c)) \/ SurfaceCall
    PROVE  term.at = "out"
<1>0. Free
  BY CallFrames
<1> SUFFICES ASSUME resources_terminated
             PROVE  FALSE
  BY <1>0 DEF Free, resources_terminated
<1>1. \A c \in Contexts : ~context[c].allocated
  BY DEF PhaseInv, resources_terminated
<1>2. \A s \in Surfaces : ~surface[s].allocated
  BY DEF PhaseInv
<1>3. \A c \in Contexts : ~context[c].busy
  BY <1>1, SoundMeans DEF ContextSound, FreeContext
<1>4. \A s \in Surfaces : ~surface[s].locked
  BY <1>2, SoundMeans DEF FreeSurface
<1>5. ~Call
  BY DEF Call
<1>6. \A c \in Contexts : ~ContextCall(c)
  <2> SUFFICES ASSUME NEW c \in Contexts
               PROVE  ~ContextCall(c)
    OBVIOUS
  <2>1. ~CreateContext(c) /\ ~CreateContextFails(c) /\ ~ReapFails(c)
    BY <1>5, Zenon DEF CreateContext, CreateContextFails, TakeSlot, ReapFails
  <2>2. \A s \in Surfaces : ~StartEncoder(c, s) /\ ~StartEncoderFails(c, s) /\ ~BeginUse(c, s)
    BY <1>5, Zenon DEF StartEncoder, StartEncoderFails, BeginUse
  <2>3. \A s \in Surfaces : ~ReceiveFrame(c, s)
    BY <1>3, Zenon DEF ReceiveFrame, InUse
  <2>4. ~Wedge(c) /\ ~EndUse(c) /\ \A b \in {"input", "output"} : ~KeepBuffer(c, b)
    BY <1>3, Zenon DEF Wedge, EndUse, KeepBuffer, InUse
  <2>5. ~DestroyContext(c)
    BY Zenon DEF DestroyContext
  <2> QED
    BY <2>1, <2>2, <2>3, <2>4, <2>5, Zenon DEF ContextCall
<1>7. ~SurfaceCall
  BY <1>4, <1>5, Zenon DEF SurfaceCall, CreateSurfaces, Preallocate, Lock, Unlock,
     DestroySurfaces
<1> QED
  BY <1>6, <1>7

(* An import in progress has kept vaTerminate from going beyond contexts.  *)
LEMMA ImportOpen ==
    ASSUME TypeOK, PhaseInv, NEW t \in Threads,
           ImportStep(t) \/ \E n \in 1 .. MaxImport : ReserveSlots(t, n)
    PROVE  term.at \in {"out", "contexts"}
<1>1. CASE Importing(t, "out")
  BY <1>1, Zenon DEF ImportStep, ReserveSlots, ImportBuffer, ImportRefused, ImportMismatch,
     DropImport, RetainImport, UndoImport, ImportFails, SurfacesFull, ImportSurfaces,
     AllImported, Importing, Call, Free, resources_terminated
<1>2. CASE ~Importing(t, "out")
  BY <1>2 DEF PhaseInv, TypeOK, TermStates
<1> QED
  BY <1>1, <1>2

-----------------------------------------------------------------------------
(* The invariant, part by part.                                            *)

LEMMA ContextSame ==
    ASSUME TypeOK, CtxInv, context' = context, surface' = surface
    PROVE  CtxTypes' /\ CtxInv'
BY SoundMeans, OnlySurfaces DEF TypeOK

LEMMA ImportCtx ==
    ASSUME TypeOK, CtxInv, NEW t \in Threads,
           ImportStep(t) \/ \E n \in 1 .. MaxImport : ReserveSlots(t, n)
    PROVE  CtxTypes' /\ CtxInv'
<1>1. CASE ImportSurfaces(t)
  <2> DEFINE i == importing[t]
             bufs == i.got
             n == Len(i.got)
  <2>1. i \in ImportStates /\ bufs \in Seq(Fds) /\ n \in Nat /\ \A k \in 1 .. n : bufs[k] \in Fds
    BY ImportFields, Sizes DEF TypeOK
  <2>2. surface' = Created(bufs) /\ Cardinality(FreeSlots) >= n /\ context' = context
    BY <1>1 DEF ImportSurfaces, AllImported
  <2>3. n <= Cardinality(FreeSlots)
    BY <2>1, <2>2, PlaceFacts
  <2>4. Len(bufs) = n
    OBVIOUS
  <2> HIDE DEF bufs, n
  <2> QED
    BY <2>1, <2>2, <2>3, <2>4, CreatedKeeps
<1>2. CASE ~ImportSurfaces(t)
  <2>1. context' = context /\ surface' = surface
    BY <1>2, Zenon DEF ImportStep, ReserveSlots, ImportBuffer, ImportRefused, ImportMismatch,
       DropImport, RetainImport, UndoImport, ImportFails, SurfacesFull, ctxVars
  <2> QED
    BY <2>1, ContextSame
<1> QED
  BY <1>1, <1>2

LEMMA ImportHoldersAll ==
    ASSUME TypeOK, CtxInv, ImportInv, RoomInv, HolderInv, NEW t \in Threads,
           ImportStep(t) \/ \E n \in 1 .. MaxImport : ReserveSlots(t, n)
    PROVE  HolderInv'
BY ImportHolders, RetainHolders, ImportSurfacesHolders, Zenon DEF ImportStep

(* The imports and their room when no import goes on.                      *)
LEMMA RoomSame ==
    ASSUME TypeOK, ImportInv, RoomInv, importing' = importing, reserved' = reserved,
           orphan_count' \in {orphan_count, 0}
    PROVE  ImportInv' /\ RoomInv' /\ RoomTypes'
<1>1. ImportInv'
  BY DEF ImportInv
<1>2. Taken' = Taken /\ Wanted' = Wanted
  BY DEF Taken, Wanted
<1>3. PICK o \in Nat, w \in Nat, room \in Nat :
         /\ o = orphan_count /\ w = Cardinality(Wanted) /\ room = OrphanSlots
         /\ o <= room
  BY Sizes, WantedIsTaken DEF TypeOK
<1>4. o + w <= room
  BY <1>3 DEF RoomInv
<1>5. PICK o2 \in Nat : o2 = orphan_count' /\ o2 + w <= room /\ o2 <= room
  BY <1>3, <1>4
<1>6. RoomInv'
  BY <1>2, <1>3, <1>5 DEF RoomInv
<1>7. orphan_count' \in 0 .. OrphanSlots
  BY <1>3, <1>5
<1> QED
  BY <1>1, <1>6, <1>7 DEF RoomTypes, TypeOK

(* The types of the remaining variables after an import step.              *)
LEMMA ImportTypes ==
    ASSUME TypeOK, ImportInv, NEW t \in Threads,
           ImportStep(t) \/ \E n \in 1 .. MaxImport : ReserveSlots(t, n)
    PROVE  /\ orphans' \subseteq Fds /\ importing' \in [Threads -> ImportStates]
           /\ term' = term
           /\ live' \subseteq Fds /\ calls' \in 0 .. MaxCalls /\ faults' \in 0 .. MaxFaults
<1>1. /\ orphans \subseteq Fds /\ live \subseteq Fds
      /\ calls \in 0 .. MaxCalls /\ faults \in 0 .. MaxFaults
      /\ importing[t].fd \in Fds \cup {NoFd}
  BY DEF TypeOK, ImportStates
<1>2. \E at, num, got, fd : Becomes(t, at, num, got, fd)
  BY ImportSteps, Zenon DEF ImportStep
<1>3. importing' \in [Threads -> ImportStates]
  BY <1>2 DEF Becomes
<1>4. term' = term
  BY Zenon DEF ImportStep, ReserveSlots, ImportBuffer, ImportRefused, ImportMismatch,
     DropImport, RetainImport, UndoImport, ImportFails, SurfacesFull, ImportSurfaces
<1>5. orphans' \subseteq Fds
  <2>1. CASE RetainImport(t)
    <3>1. importing[t].fd # NoFd
      BY <2>1 DEF RetainImport, Importing, ImportInv
    <3> QED
      BY <1>1, <2>1, <3>1 DEF RetainImport
  <2>2. CASE ~RetainImport(t)
    <3>1. orphans' = orphans
      BY <2>2, Zenon DEF ImportStep, ReserveSlots, ImportBuffer, ImportRefused,
         ImportMismatch, DropImport, UndoImport, ImportFails, SurfacesFull, ImportSurfaces,
         listVars
    <3> QED
      BY <1>1, <3>1
  <2> QED
    BY <2>1, <2>2
<1>6. live' \subseteq Fds /\ faults' \in 0 .. MaxFaults
  <2>1. CASE DropImport(t)
    <3>1. \E F : FreeBufs({importing[t].fd}, F)
      BY <2>1 DEF DropImport
    <3> QED
      BY <3>1, FreeBufsFacts
  <2>2. CASE ImportBuffer(t) \/ ImportMismatch(t)
    <3>1. live' = live \cup {NewFd} /\ faults' = faults /\ HasFd
      BY <2>2, Zenon DEF ImportBuffer, ImportMismatch, boundVars
    <3> QED
      BY <1>1, <3>1, NewFdFacts
  <2>3. CASE ~(DropImport(t) \/ ImportBuffer(t) \/ ImportMismatch(t))
    <3>1. live' = live /\ faults' = faults
      BY <2>3, Zenon DEF ImportStep, ReserveSlots, ImportRefused, RetainImport, UndoImport,
         ImportFails, SurfacesFull, ImportSurfaces, boundVars
    <3> QED
      BY <1>1, <3>1
  <2> QED
    BY <2>1, <2>2, <2>3
<1>7. calls' \in 0 .. MaxCalls
  <2>1. calls' = calls \/ Call
    BY Zenon DEF ImportStep, ReserveSlots, ImportBuffer, ImportRefused, ImportMismatch,
       DropImport, RetainImport, UndoImport, ImportFails, SurfacesFull, ImportSurfaces, boundVars
  <2> QED
    BY <1>1, <2>1, CallFacts
<1> QED
  BY <1>3, <1>4, <1>5, <1>6, <1>7

(* The parts that a step of vaTerminate that only moves on leaves alone.   *)
Settled == CtxTypes /\ CtxInv /\ ImportInv /\ RoomInv /\ RoomTypes /\ HolderInv

LEMMA AllSame ==
    ASSUME TypeOK, CtxInv, ImportInv, RoomInv, HolderInv,
           UNCHANGED <<ctxVars, listVars, importing, live>>
    PROVE  Settled'
<1>1. /\ context' = context /\ surface' = surface /\ importing' = importing /\ live' = live
      /\ orphans' = orphans /\ orphan_count' = orphan_count /\ reserved' = reserved
  BY DEF ctxVars, listVars
<1>2. CtxTypes' /\ CtxInv'
  BY <1>1, ContextSame
<1>3. ImportInv' /\ RoomInv' /\ RoomTypes'
  BY <1>1, RoomSame
<1>4. HolderInv'
  BY <1>1, HolderSame
<1> QED
  BY <1>2, <1>3, <1>4 DEF Settled

(* What makes up the whole invariant.                                      *)
Assembled ==
    /\ Settled /\ orphans \subseteq Fds /\ importing \in [Threads -> ImportStates]
    /\ term \in TermStates /\ live \subseteq Fds /\ calls \in 0 .. MaxCalls
    /\ faults \in 0 .. MaxFaults /\ PhaseInv

LEMMA AssembledMeans == Assembled <=> Inductive
BY DEF Assembled, Settled, Inductive, TypeOK, CtxTypes, CtxInv, RoomTypes

LEMMA AssembledNext == Assembled' => Inductive'
BY AssembledMeans, PTL

LEMMA TermTypes ==
    ASSUME NEW x \in {"out", "contexts", "orphans", "surfaces", "closing", "closed"},
           term' = [NoTerm EXCEPT !.at = x]
    PROVE  term' \in TermStates /\ term'.at = x /\ term'.next = 1 /\ ~term'.failed
<1>1. 1 \in 1 .. NumContexts + 1
  BY Sizes
<1>2. NoTerm \in TermStates /\ NoTerm.next = 1 /\ ~NoTerm.failed
  BY <1>1 DEF NoTerm, TermStates
<1> QED
  BY <1>2 DEF TermStates

LEMMA PhaseFree ==
    ASSUME CtxInv, \A c \in Contexts : ~context[c].allocated
    PROVE  \A c \in Contexts : ~context[c].busy /\ context[c].scratch = NoFd
BY SoundMeans DEF ContextSound, FreeContext

LEMMA TerminateBegins ==
    ASSUME Inductive, Terminate
    PROVE  Inductive'
<1>1. TypeOK /\ CtxInv /\ ImportInv /\ RoomInv /\ HolderInv
  BY DEF Inductive, CtxInv
<1>2. UNCHANGED <<ctxVars, listVars, importing, live, boundVars>>
  BY DEF Terminate
<1>3. Settled'
  BY <1>1, <1>2, AllSame
<1>4. /\ term' \in TermStates /\ term'.at = "contexts" /\ term'.next = 1
  BY TermTypes DEF Terminate
<1>5. \A c \in Contexts : ~context'[c].busy /\ ~(c < 1)
  BY <1>2, ConstantsAssumption DEF Terminate, ctxVars, Contexts
<1>6. PhaseInv'
  BY <1>4, <1>5 DEF PhaseInv, resources_terminated
<1>7. Assembled'
  BY <1>1, <1>2, <1>3, <1>4, <1>6 DEF Assembled, TypeOK, listVars, boundVars
<1> QED
  BY <1>7, AssembledNext

LEMMA TerminateContextInv ==
    ASSUME Inductive, NEW c \in Contexts, TerminateContext(c)
    PROVE  Inductive'
<1>1. TypeOK /\ CtxInv /\ ImportInv /\ RoomInv /\ HolderInv /\ PhaseInv
  BY DEF Inductive, CtxInv
<1>2. /\ term.at = "contexts" /\ c \in LeftToVisit /\ \A d \in LeftToVisit : c <= d
      /\ term' = [term EXCEPT !.next = c + 1, !.failed = context'[c].allocated]
      /\ UNCHANGED <<listVars, importing, calls>>
  BY Zenon DEF TerminateContext
<1>3. PICK kept \in SUBSET Borrowed(c), frames \in SUBSET BorrowedFrames(c),
           stage \in Stages(c) \cup {"none"} :
         TearDown(c, kept, frames, stage, ~term.failed)
  BY Zenon DEF TerminateContext
<1>4. /\ importing' = importing /\ orphans' = orphans
      /\ orphan_count' = orphan_count /\ reserved' = reserved /\ calls' = calls
  BY <1>2 DEF listVars
<1>5. \A d \in Contexts : ~context[d].busy
  BY <1>1, <1>2 DEF PhaseInv
<1>6. term \in TermStates /\ (~term.failed) \in BOOLEAN
  <2>1. term \in TermStates
    BY <1>1 DEF TypeOK
  <2>2. (~term.failed) \in BOOLEAN
    BY Zenon
  <2> QED
    BY <2>1, <2>2
<1>7. CtxTypes' /\ CtxInv'
  BY <1>1, <1>3, <1>5, <1>6, TearDownKeeps
<1>8. HolderInv'
  BY <1>1, <1>3, <1>4, <1>6, TearDownHolders
<1>9. ImportInv' /\ RoomInv' /\ RoomTypes'
  BY <1>1, <1>4, RoomSame
<1>10. /\ faults' \in 0 .. MaxFaults
       /\ (~term.failed /\ TearDownEnds(c, frames)) \/ TearDownLeaves(c, frames)
  BY <1>1, <1>3, <1>6, TearDownFacts
<1>11. live' \subseteq Fds
  BY <1>1, <1>10 DEF TypeOK, TearDownEnds, TearDownLeaves
<1>12. PICK r \in ContextStates :
          /\ context' = [context EXCEPT ![c] = r] /\ ~r.busy
          /\ ~r.allocated => ~term.failed
  <2>1. CASE ~term.failed /\ TearDownEnds(c, frames)
    BY <2>1, FreeSlotTypes DEF TearDownEnds, FreeContext
  <2>2. CASE TearDownLeaves(c, frames)
    <3>1. PICK r \in ContextStates : Leaves(context[c], r) /\ context' = [context EXCEPT ![c] = r]
      BY <2>2 DEF TearDownLeaves
    <3>2. r.allocated /\ ~r.busy
      BY <1>2, <1>5, <3>1 DEF Leaves, LeftToVisit
    <3> QED
      BY <3>1, <3>2
  <2> QED
    BY <1>10, <2>1, <2>2
<1>13. /\ context'[c] = r /\ \A d \in Contexts \ {c} : context'[d] = context[d]
  BY <1>1, <1>12 DEF TypeOK
<1>14. /\ term' \in TermStates /\ term'.at = "contexts" /\ term'.next = c + 1
       /\ term'.failed = r.allocated
  <2>1. c + 1 \in 1 .. NumContexts + 1
    BY Sizes DEF Contexts
  <2>2. r.allocated \in BOOLEAN
    BY DEF ContextStates
  <2> QED
    BY <1>2, <1>6, <1>13, <2>1, <2>2 DEF TermStates
<1>15. \A d \in Contexts : ~context'[d].busy
  BY <1>5, <1>12, <1>13
<1>16. ASSUME ~term'.failed, NEW d \in Contexts, d < c + 1
       PROVE  ~context'[d].allocated
  <2>1. ~r.allocated /\ ~term.failed
    BY <1>12, <1>14, <1>16
  <2>2. CASE d = c
    BY <1>13, <2>1, <2>2
  <2>3. CASE d # c
    <3>1. d \in Nat /\ c \in Nat /\ term.next \in Nat
      BY <1>6, Sizes DEF TermStates
    <3>2. ~(c <= d)
      BY <1>16, <2>3, <3>1
    <3>3. d \notin LeftToVisit
      BY <1>2, <3>2
    <3>4. d < term.next => ~context[d].allocated
      BY <1>1, <1>2, <2>1 DEF PhaseInv
    <3>5. ~context[d].allocated
      BY <3>1, <3>3, <3>4 DEF LeftToVisit
    <3> QED
      BY <1>13, <2>3, <3>5
  <2> QED
    BY <2>2, <2>3
<1>17. PhaseInv'
  BY <1>14, <1>15, <1>16 DEF PhaseInv, resources_terminated
<1>18. Assembled'
  BY <1>1, <1>4, <1>7, <1>8, <1>9, <1>10, <1>11, <1>14, <1>17 DEF Assembled, Settled, TypeOK
<1> QED
  BY <1>18, AssembledNext

(* Without a reservation no import is in progress.                         *)
LEMMA NoReservation ==
    ASSUME TypeOK, ImportInv, RoomInv, reserved = 0
    PROVE  \A t \in Threads : Importing(t, "out")
<1> SUFFICES ASSUME NEW t \in Threads, ~Importing(t, "out")
             PROVE  FALSE
  OBVIOUS
<1>1. importing[t].num \in Nat /\ importing[t].num > 0
  <2>1. importing[t] \in ImportStates
    BY DEF TypeOK
  <2>2. importing[t].num > 0
    BY DEF ImportInv, Importing
  <2> QED
    BY <2>1, <2>2, ImportFields, Sizes
<1>2. Taken = {}
  BY FS_EmptySet DEF RoomInv
<1>3. <<t, 1>> \in Places(t, importing[t].num)
  BY <1>1 DEF Places
<1> QED
  BY <1>2, <1>3 DEF Taken

LEMMA ContextsDownInv ==
    ASSUME Inductive, ContextsDown
    PROVE  Inductive'
<1>1. TypeOK /\ CtxInv /\ ImportInv /\ RoomInv /\ HolderInv /\ PhaseInv
  BY DEF Inductive, CtxInv
<1>2. /\ term.at = "contexts" /\ LeftToVisit = {}
      /\ UNCHANGED <<ctxVars, listVars, importing, live, boundVars>>
  BY DEF ContextsDown
<1>3. Settled'
  BY <1>1, <1>2, AllSame
<1>4. CASE term.failed \/ reserved # 0
  <2>1. term' = NoTerm /\ NoTerm \in TermStates /\ NoTerm.at = "out"
    BY <1>4, Sizes DEF ContextsDown, NoTerm, TermStates
  <2>2. PhaseInv'
    BY <2>1 DEF PhaseInv, resources_terminated
  <2>3. Assembled'
    BY <1>1, <1>2, <1>3, <2>1, <2>2 DEF Assembled, TypeOK, listVars, boundVars
  <2> QED
    BY <2>3, AssembledNext
<1>5. CASE ~(term.failed \/ reserved # 0)
  <2>1. term' \in TermStates /\ term'.at = "orphans"
    BY <1>5, TermTypes DEF ContextsDown
  <2>2. \A c \in Contexts : ~context[c].allocated
    <3> SUFFICES ASSUME NEW c \in Contexts, context[c].allocated
                 PROVE  FALSE
      OBVIOUS
    <3>1. ~(c >= term.next)
      BY <1>2 DEF LeftToVisit
    <3>2. c \in Nat /\ term.next \in Nat
      BY <1>1, Sizes DEF TypeOK, TermStates
    <3>3. c < term.next
      BY <3>1, <3>2
    <3> QED
      BY <1>1, <1>2, <1>5, <3>3 DEF PhaseInv
  <2>3. \A t \in Threads : Importing(t, "out")
    BY <1>1, <1>5, NoReservation
  <2>4. PhaseInv'
    BY <1>2, <2>1, <2>2, <2>3 DEF PhaseInv, resources_terminated, Importing, ctxVars
  <2>5. Assembled'
    BY <1>1, <1>2, <1>3, <2>1, <2>4 DEF Assembled, TypeOK, listVars, boundVars
  <2> QED
    BY <2>5, AssembledNext
<1> QED
  BY <1>4, <1>5

LEMMA TerminateOrphansInv ==
    ASSUME Inductive, TerminateOrphans
    PROVE  Inductive'
<1>1. TypeOK /\ CtxInv /\ ImportInv /\ RoomInv /\ HolderInv /\ PhaseInv
  BY DEF Inductive, CtxInv
<1>2. PICK F \in SUBSET orphans :
         /\ FreeBufs(orphans, F)
         /\ orphans' = F
         /\ orphan_count' = IF F = {} THEN 0 ELSE orphan_count
         /\ term' = IF F = {} THEN [NoTerm EXCEPT !.at = "surfaces"] ELSE NoTerm
  BY Zenon DEF TerminateOrphans
<1>3. /\ term.at = "orphans" /\ context' = context /\ surface' = surface
      /\ importing' = importing /\ reserved' = reserved /\ calls' = calls
  BY Zenon DEF TerminateOrphans, ctxVars
<1>4. CtxTypes' /\ CtxInv'
  BY <1>1, <1>3, ContextSame
<1>5. orphan_count' \in {orphan_count, 0}
  BY <1>2
<1>6. ImportInv' /\ RoomInv' /\ RoomTypes'
  BY <1>1, <1>3, <1>5, RoomSame
<1>7. HolderInv'
  BY <1>1, OrphansHolders
<1>8. live' \subseteq Fds /\ faults' \in 0 .. MaxFaults /\ orphans' \subseteq Fds
  BY <1>1, <1>2, FreeBufsFacts DEF TypeOK
<1>9. /\ \A c \in Contexts : ~context'[c].allocated
      /\ \A t \in Threads : importing'[t].at = "out"
  BY <1>1, <1>3 DEF PhaseInv, Importing
<1>10. term' \in TermStates /\ PhaseInv'
  <2>1. CASE F = {}
    <3>1. term' \in TermStates /\ term'.at = "surfaces" /\ orphans' = {} /\ orphan_count' = 0
      BY <1>2, <2>1, TermTypes
    <3> QED
      BY <1>9, <3>1 DEF PhaseInv, resources_terminated, Importing
  <2>2. CASE F # {}
    <3>1. term' \in TermStates /\ term'.at = "out"
      BY <1>2, <2>2, Sizes DEF NoTerm, TermStates
    <3> QED
      BY <3>1 DEF PhaseInv, resources_terminated
  <2> QED
    BY <2>1, <2>2
<1>11. Assembled'
  BY <1>1, <1>3, <1>4, <1>6, <1>7, <1>8, <1>10 DEF Assembled, Settled, TypeOK
<1> QED
  BY <1>11, AssembledNext

LEMMA TerminateSurfacesInv ==
    ASSUME Inductive, TerminateSurfaces
    PROVE  Inductive'
<1> DEFINE S == Surfaces \ FreeSlots
<1>1. TypeOK /\ CtxInv /\ ImportInv /\ RoomInv /\ HolderInv /\ PhaseInv
  BY DEF Inductive, CtxInv
<1>2. PICK F \in SUBSET BuffersOf(S) :
         /\ FreeBufs(BuffersOf(S), F)
         /\ surface' = Cleared(S, F)
         /\ term' = IF F = {} THEN [NoTerm EXCEPT !.at = "closing"] ELSE NoTerm
  BY Zenon DEF TerminateSurfaces
<1>3. /\ term.at = "surfaces" /\ context' = context /\ importing' = importing
      /\ orphans' = orphans /\ orphan_count' = orphan_count /\ reserved' = reserved
      /\ calls' = calls
  BY Zenon DEF TerminateSurfaces, listVars
<1>4. CtxTypes' /\ CtxInv'
  BY <1>1, <1>2, <1>3, ClearedKeeps
<1>5. ImportInv' /\ RoomInv' /\ RoomTypes'
  BY <1>1, <1>3, RoomSame
<1>6. HolderInv'
  BY <1>1, <1>2, <1>3, ClearedHolders
<1>7. live' = live \ (BuffersOf(S) \ F) /\ live' \subseteq Fds /\ faults' \in 0 .. MaxFaults
  BY <1>1, <1>2, FreeBufsFacts
<1>8. /\ \A c \in Contexts : ~context'[c].allocated
      /\ \A t \in Threads : importing'[t].at = "out"
      /\ orphans' = {} /\ orphan_count' = 0
  BY <1>1, <1>3 DEF PhaseInv, Importing
<1>9. term' \in TermStates /\ PhaseInv'
  <2>1. CASE F = {}
    <3>1. term' \in TermStates /\ term'.at = "closing"
      BY <1>2, <2>1, TermTypes
    <3>2. \A s \in Surfaces : surface'[s] = IF s \in S THEN FreeSurface ELSE surface[s]
      BY <1>2, <2>1 DEF Cleared
    <3>3. \A s \in Surfaces : ~surface'[s].allocated /\ surface'[s].gbuf = NoFd
      BY <1>1, <3>2, SoundMeans DEF FreeSlots, FreeSurface
    <3>4. \A c \in Contexts : context'[c].scratch = NoFd
      BY <1>1, <1>3, <1>8, PhaseFree
    <3>5. \A t \in Threads, fd \in Fds : ~Carries(t, fd)'
      <4>1. \A t \in Threads : importing'[t] = NoImport
        BY <1>5, <1>8 DEF ImportInv
      <4>2. NoFd \notin Fds
        BY Sizes
      <4>3. NoImport.fd = NoFd /\ Len(NoImport.got) = 0
        BY DEF NoImport
      <4> QED
        BY <4>1, <4>2, <4>3 DEF Carries
    <3>6. live' = {}
      <4> SUFFICES ASSUME NEW fd \in Fds, fd \in live'
                   PROVE  FALSE
        BY <1>7
      <4>1. NoFd \notin Fds
        BY Sizes
      <4> QED
        BY <1>6, <1>8, <3>3, <3>4, <3>5, <4>1 DEF HolderInv
    <3> QED
      BY <1>8, <3>1, <3>3, <3>6 DEF PhaseInv, resources_terminated, Importing
  <2>2. CASE F # {}
    <3>1. term' \in TermStates /\ term'.at = "out"
      BY <1>2, <2>2, Sizes DEF NoTerm, TermStates
    <3> QED
      BY <3>1 DEF PhaseInv, resources_terminated
  <2> QED
    BY <2>1, <2>2
<1>10. Assembled'
  BY <1>1, <1>3, <1>4, <1>5, <1>6, <1>7, <1>9 DEF Assembled, Settled, TypeOK
<1> QED
  BY <1>10, AssembledNext

LEMMA CloseModuleInv ==
    ASSUME Inductive, CloseModule
    PROVE  Inductive'
<1>1. TypeOK /\ CtxInv /\ ImportInv /\ RoomInv /\ HolderInv /\ PhaseInv
  BY DEF Inductive, CtxInv
<1>2. term.at = "closing" /\ UNCHANGED <<ctxVars, listVars, importing, live, calls>>
  BY DEF CloseModule
<1>3. Settled'
  BY <1>1, <1>2, AllSame
<1>4. faults' \in 0 .. MaxFaults
  BY <1>1, FailFacts DEF CloseModule, TypeOK
<1>5. term' \in TermStates /\ term'.at \in {"closing", "closed"}
  BY <1>1, <1>2, TermTypes DEF CloseModule, TypeOK
<1>6. PhaseInv'
  BY <1>1, <1>2, <1>5 DEF PhaseInv, resources_terminated, Importing, ctxVars, listVars
<1>7. Assembled'
  BY <1>1, <1>2, <1>3, <1>4, <1>5, <1>6 DEF Assembled, TypeOK, listVars
<1> QED
  BY <1>7, AssembledNext

-----------------------------------------------------------------------------
(* The theorems.                                                           *)

LEMMA InitInductive == Init => Inductive
<1> SUFFICES ASSUME Init
             PROVE  Inductive
  OBVIOUS
<1>1. /\ context = [c \in Contexts |-> FreeContext]
      /\ surface = [s \in Surfaces |-> FreeSurface]
      /\ orphans = {} /\ orphan_count = 0 /\ reserved = 0
      /\ importing = [t \in Threads |-> NoImport] /\ term = NoTerm /\ live = {}
      /\ calls = MaxCalls /\ faults = MaxFaults
  BY DEF Init
<1>2. NoTerm \in TermStates /\ NoTerm.at = "out"
  BY Sizes DEF NoTerm, TermStates
<1>3. /\ NoImport \in ImportStates /\ NoImport.at = "out" /\ NoImport.num = 0
      /\ Len(NoImport.got) = 0 /\ NoImport.fd = NoFd
  <2>1. << >> \in UNION {[1 .. n -> Fds] : n \in 0 .. MaxImport}
    <3>1. << >> \in Seq(Fds) /\ Len(<< >>) <= MaxImport
      BY Sizes
    <3> QED
      BY <3>1, GotIsSeq
  <2> QED
    BY <2>1, Sizes DEF NoImport, ImportStates
<1>4. TypeOK
  <2>1. 0 \in 0 .. OrphanSlots /\ MaxCalls \in 0 .. MaxCalls /\ MaxFaults \in 0 .. MaxFaults
    BY Sizes
  <2> QED
    BY <1>1, <1>2, <1>3, <2>1, FreeSlotTypes DEF TypeOK
<1>5. CtxInv
  <2>1. /\ FreeSurface.output_context_id = NoContext /\ ~FreeSurface.allocated
        /\ \A c \in Contexts : c # NoContext
    BY Sizes DEF FreeSurface
  <2> QED
    BY <1>1, <2>1, FreeIsSound, SoundMeans
<1>6. ImportInv
  <2>1. Pending(NoImport) = 0
    BY <1>3 DEF Pending
  <2> QED
    BY <1>1, <1>3, <2>1 DEF ImportInv
<1>7. RoomInv
  <2>1. Pending(NoImport) = 0
    BY <1>3 DEF Pending
  <2>2. Taken = {} /\ Wanted = {}
    BY <1>1, <1>3, <2>1 DEF Taken, Wanted, Places
  <2>3. IsFiniteSet({}) /\ Cardinality({}) = 0
    BY FS_EmptySet
  <2> QED
    BY <1>1, <2>2, <2>3, Sizes DEF RoomInv
<1>8. HolderInv
  <2>1. NoFd \notin Fds /\ FreeContext.scratch = NoFd /\ FreeSurface.gbuf = NoFd
    BY Sizes DEF FreeContext, FreeSurface
  <2>2. \A t \in Threads : importing[t] = NoImport
    BY <1>1
  <2>3. \A t \in Threads, fd \in Fds : ~Carries(t, fd)
    BY <1>3, <2>1, <2>2 DEF Carries
  <2>4. Distinct(NoImport)
    BY <1>3 DEF Distinct
  <2> QED
    BY <1>1, <2>1, <2>2, <2>3, <2>4 DEF HolderInv
<1>9. PhaseInv
  BY <1>1, <1>2 DEF PhaseInv, resources_terminated
<1> QED
  BY <1>4, <1>5, <1>6, <1>7, <1>8, <1>9 DEF Inductive, CtxInv

LEMMA StepInductive == Inductive /\ [Next]_vars => Inductive'
<1> SUFFICES ASSUME Inductive, [Next]_vars
             PROVE  Inductive'
  OBVIOUS
<1>1. TypeOK /\ CtxInv /\ ImportInv /\ RoomInv /\ HolderInv /\ PhaseInv
  BY DEF Inductive, CtxInv
<1>2. CASE (\E c \in Contexts : ContextCall(c)) \/ SurfaceCall
  <2>1. CtxTypes' /\ CtxInv' /\ HolderInv'
    BY <1>1, <1>2, CallKeeps, CallHolders
  <2>2. /\ orphans' = orphans /\ orphan_count' = orphan_count /\ reserved' = reserved
        /\ importing' = importing /\ term' = term /\ term.at = "out"
    BY <1>1, <1>2, CallFrames, CallOpen
  <2>3. ImportInv' /\ RoomInv' /\ RoomTypes'
    BY <1>1, <2>2, RoomSame
  <2>4. calls' \in 0 .. MaxCalls /\ faults' \in 0 .. MaxFaults /\ live' \subseteq Fds
    BY <1>1, <1>2, CallTypes
  <2>5. PhaseInv'
    BY <2>2 DEF PhaseInv, resources_terminated
  <2>6. Assembled'
    BY <1>1, <2>1, <2>2, <2>3, <2>4, <2>5 DEF Assembled, Settled, TypeOK
  <2> QED
    BY <2>6, AssembledNext
<1>3. ASSUME NEW t \in Threads, ImportStep(t) \/ \E n \in 1 .. MaxImport : ReserveSlots(t, n)
      PROVE  Inductive'
  <2>1. CtxTypes' /\ CtxInv'
    BY <1>1, <1>3, ImportCtx
  <2>2. HolderInv'
    BY <1>1, <1>3, ImportHoldersAll
  <2>3. ImportInv' /\ RoomInv' /\ RoomTypes'
    BY <1>1, <1>3, ImportRoom
  <2>4. /\ orphans' \subseteq Fds /\ importing' \in [Threads -> ImportStates]
        /\ term' = term
        /\ live' \subseteq Fds /\ calls' \in 0 .. MaxCalls /\ faults' \in 0 .. MaxFaults
    BY <1>1, <1>3, ImportTypes
  <2>5. PhaseInv'
    <3>1. term.at \in {"out", "contexts"}
      BY <1>1, <1>3, ImportOpen
    <3>2. CASE term.at = "contexts"
      <4>1. context' = context
        BY <1>3, Zenon DEF ImportStep, ReserveSlots, ImportBuffer, ImportRefused,
           ImportMismatch, DropImport, RetainImport, UndoImport, ImportFails, SurfacesFull,
           ImportSurfaces, ctxVars
      <4> QED
        BY <1>1, <2>4, <3>2, <4>1 DEF PhaseInv, resources_terminated
    <3> QED
      BY <2>4, <3>1, <3>2 DEF PhaseInv, resources_terminated
  <2>6. Assembled'
    BY <1>1, <2>1, <2>2, <2>3, <2>4, <2>5 DEF Assembled, Settled, TypeOK
  <2> QED
    BY <2>6, AssembledNext
<1>4. CASE TerminateStep
  BY <1>4, TerminateContextInv, ContextsDownInv, TerminateOrphansInv, TerminateSurfacesInv,
     CloseModuleInv, Zenon DEF TerminateStep
<1>5. CASE UNCHANGED vars
  <2>1. UNCHANGED <<ctxVars, listVars, importing, term, live, boundVars>>
    BY <1>5 DEF vars
  <2>2. Settled'
    BY <1>1, <2>1, AllSame
  <2>3. PhaseInv'
    BY <1>1, <2>1 DEF PhaseInv, resources_terminated, Importing, ctxVars, listVars
  <2>4. Assembled'
    BY <1>1, <2>1, <2>2, <2>3 DEF Assembled, TypeOK, listVars, boundVars
  <2> QED
    BY <2>4, AssembledNext
<1> QED
  BY <1>2, <1>3, <1>4, <1>5, TerminateBegins, Zenon DEF Next, TerminateRefused, Closed

(* The invariant above holds at every moment: whatever call of the SDK     *)
(* fails, and however imports interleave with vaTerminate.                 *)
THEOREM TeardownInductive == Spec => []Inductive
BY InitInductive, StepInductive, PTL DEF Spec

(* Every variable keeps its type: in particular the lists of imports that  *)
(* could not be undone never hold more than they have slots                *)
(* (hobot_reserve_import_cleanup_slots, hobot_release_import_fd).          *)
THEOREM TeardownTypes == Spec => []TypeOK
<1>1. Inductive => TypeOK
  BY DEF Inductive
<1> QED
  BY <1>1, TeardownInductive, PTL

(* No buffer of hb_mem is lost and none has two holders, in no order of    *)
(* failing imports and repeated clean-ups (vaCreateSurfaces2,              *)
(* hobot_release_import_fd, vaDestroySurfaces, vaDestroyContext,           *)
(* vaTerminate).                                                           *)
THEOREM BuffersHaveOneHolder == Spec => []EveryBufferHasOneHolder
<1>1. Inductive => EveryBufferHasOneHolder
  <2> SUFFICES ASSUME TypeOK, HolderInv
               PROVE  EveryBufferHasOneHolder
    BY DEF Inductive
  <2>1. /\ \A c \in Contexts : context[c].scratch \in Fds \cup {NoFd}
        /\ \A s \in Surfaces : surface[s].gbuf \in Fds \cup {NoFd}
        /\ orphans \subseteq Fds /\ live \subseteq Fds /\ NoFd \notin Fds
    BY Sizes DEF TypeOK, ContextStates, SurfaceStates
  <2>2. \A t \in Threads : /\ importing[t].fd \in Fds \cup {NoFd}
                           /\ \A k \in 1 .. Len(importing[t].got) : importing[t].got[k] \in Fds
    <3> SUFFICES ASSUME NEW t \in Threads
                 PROVE  /\ importing[t].fd \in Fds \cup {NoFd}
                        /\ \A k \in 1 .. Len(importing[t].got) : importing[t].got[k] \in Fds
      OBVIOUS
    <3>1. importing[t].got \in Seq(Fds) /\ importing[t].fd \in Fds \cup {NoFd}
      BY ImportFields DEF TypeOK
    <3> QED
      BY <3>1
  <2>3. \A t \in Threads : \A x : x \in ImportBuffers(t) <=> x \in Fds /\ Carries(t, x)
    BY <2>1, <2>2 DEF ImportBuffers, Carries
  <2>4. \A x : x \in ScratchBuffers <=> x \in Fds /\ \E c \in Contexts : context[c].scratch = x
    BY <2>1 DEF ScratchBuffers
  <2>5. \A x : x \in SurfaceBuffers <=> x \in Fds /\ \E s \in Surfaces : surface[s].gbuf = x
    BY <2>1 DEF SurfaceBuffers
  <2>6. UNION Holdings = live
    <3>1. \A x : x \in UNION Holdings <=> \/ x \in ScratchBuffers \/ x \in SurfaceBuffers
                                          \/ x \in orphans
                                          \/ \E t \in Threads : x \in ImportBuffers(t)
      BY DEF Holdings
    <3>2. \A x : x \in UNION Holdings <=> x \in live
      BY <2>1, <2>3, <2>4, <2>5, <3>1 DEF HolderInv
    <3> QED
      BY <3>2
  <2>7. /\ \A c, d \in Contexts : c # d /\ context[c].scratch # NoFd
                                     => context[c].scratch # context[d].scratch
        /\ \A r, s \in Surfaces : r # s /\ surface[r].gbuf # NoFd
                                     => surface[r].gbuf # surface[s].gbuf
    BY <2>1 DEF HolderInv
  <2>8. /\ ScratchBuffers \cap (SurfaceBuffers \cup orphans) = {}
        /\ SurfaceBuffers \cap orphans = {}
    BY <2>4, <2>5 DEF HolderInv
  <2>9. \A t \in Threads :
           /\ ImportBuffers(t) \cap (ScratchBuffers \cup SurfaceBuffers \cup orphans) = {}
           /\ \A u \in Threads \ {t} : ImportBuffers(t) \cap ImportBuffers(u) = {}
    BY <2>3, <2>4, <2>5 DEF HolderInv
  <2> QED
    BY <2>6, <2>7, <2>8, <2>9 DEF EveryBufferHasOneHolder
<1> QED
  BY <1>1, TeardownInductive, PTL

(* An instance that does not run has every buffer back, the frames in the  *)
(* surfaces included, and one that runs has not been released: stop and    *)
(* release keep their order over all that fails (vaDestroyContext,         *)
(* vaTerminate, hobot_reap_orphan_contexts).                               *)
THEOREM BuffersBack == Spec => []BuffersBackBeforeStop
<1>1. Inductive => BuffersBackBeforeStop
  BY DEF Inductive, BackInv, FrameInv, BuffersBackBeforeStop, FramesOf
<1> QED
  BY <1>1, TeardownInductive, PTL

(* When vaTerminate comes to close the memory module, no context, surface, *)
(* import or buffer is left.                                               *)
THEOREM NothingIsLeft == Spec => []NothingLeftBehind
<1>1. Inductive => NothingLeftBehind
  BY DEF Inductive, PhaseInv, NothingLeftBehind, resources_terminated
<1> QED
  BY <1>1, TeardownInductive, PTL
=============================================================================
