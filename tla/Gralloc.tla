------------------------------ MODULE Gralloc ------------------------------
(***************************************************************************)
(* The gralloc HAL of the display stack (hardware/qcom-caf/display/gralloc *)
(* and libqdutils/qdMetaData.cpp) as one process sees it: GrallocImpl's    *)
(* device functions, the BufferManager behind them (descriptors, the map   *)
(* of handles and their reference counts), the Allocator and IonAlloc, and *)
(* the mapping of a buffer's metadata.                                     *)
(*                                                                         *)
(* A buffer has kernel resources: the file descriptors and ion handles of  *)
(* its memory and of its metadata, and a mapping of each.  `open' are the  *)
(* ones the kernel has for the handle, `has' the ones the handle and the   *)
(* manager believe it has.  Every ioctl, mmap and dup may fail.  Every     *)
(* function of BufferManager runs under its lock and is one action;        *)
(* LockBuffer's read of the address, and all of the metadata functions,    *)
(* run without it and are steps of their own.                              *)
(*                                                                         *)
(* Several handles may have one memory: those of one AllocateBuffers that  *)
(* shares it, and the clones of an import.  `peers' says which; cache      *)
(* lines belong to the memory, and the handles of one have the same.       *)
(***************************************************************************)
EXTENDS Integers, Sequences, FiniteSets

CONSTANTS Handles,        \* addresses a handle object may have
          DescIds,        \* ids of descriptors
          Clients,        \* threads of the process that use the device
          ProdUsages, ConsUsages,   \* usages (sets of flags) a descriptor may be given
          Sizes,          \* sizes a format, dimensions and layer count may come to; 0: rejected
          LockUsages,     \* usages a buffer may be locked with
          GpuSecure       \* the GPU supports secure contexts

ASSUME ClientsFinite == IsFiniteSet(Clients)

VARIABLES descs,   \* descriptors_map_
          buf,     \* the handle objects, their entry in handles_map_ and their kernel resources
          refs,    \* the clients that own a reference to the handle
          orphan,  \* handles registered by a call that told its client it failed
          locked,  \* how each client has locked each buffer for the CPU
          call,    \* what each client is in the middle of
          peers,   \* the handles that have the memory of each handle, itself among them
          cache,   \* CPU cache lines of the memory of each handle
          raced,   \* handles two clients were mapping the metadata of at a time
          spilt    \* handles a metadata mapping of which nobody knows of

vars == <<descs, buf, refs, orphan, locked, call, peers, cache, raced, spilt>>

NoDesc == [known |-> FALSE, prod |-> {}, cons |-> {}, size |-> 0]
Resources == {"fd", "meta", "ion", "ionmeta", "map", "mapmeta"}

Flags == {"CACHED", "NON_CPU_WRITER", "USES_ION", "NEEDS_FLUSH", "CLIENT_ALLOCATED"}

\* A handle object.  st: no object; raw, received and not registered; live, in
\* handles_map_; left, dropped from the map and never deleted; stranded, memory
\* of a failed allocation that has no handle.
NoBuf == [st |-> "none", ref |-> 0, has |-> {}, open |-> {}, failed |-> FALSE, flags |-> {}, twice |-> FALSE]
Stranded == [st |-> "stranded", ref |-> 0, has |-> {}, open |-> {"fd", "ion"}, failed |-> FALSE, flags |-> {}, twice |-> FALSE]
Idle == [op |-> "none"]

\* Cache lines of a memory.  dirty: written by a CPU and not flushed; stale: older
\* than what a device wrote; lost: dirty ones were invalidated; excused: a flush
\* failed, or somebody else had it locked for writing, when that matters.
Clean == [dirty |-> FALSE, stale |-> FALSE, lost |-> FALSE, excused |-> FALSE]

\* The lines of the memory of h become ls; h is one more handle of the memory of
\* `from'; h no longer has its memory.
SetLines(h, ls) == [k \in Handles |-> IF k \in peers[h] THEN ls ELSE cache[k]]
Joined(from, h) == [k \in Handles |-> IF k \in peers[from] \cup {h} THEN peers[from] \cup {h} ELSE peers[k]]
Parted(h) == [k \in Handles |-> IF k = h THEN {} ELSE peers[k] \ {h}]
-----------------------------------------------------------------------------
(* What usages mean.                                                       *)

CpuCanWrite(prod) == "CPU_WRITE" \in prod
CpuCanRead(prod, cons) == "CPU_READ" \in prod \/ "CPU_READ" \in cons
CpuCanAccess(prod, cons) == CpuCanRead(prod, cons) \/ CpuCanWrite(prod)

UseUncached(prod, cons) ==
  \/ prod \cap {"PRIVATE_UNCACHED", "PROTECTED", "SENSOR_DIRECT_DATA"} # {}
  \/ "CPU_READ" \in prod /\ "CPU_READ_OFTEN" \notin prod
  \/ "CPU_WRITE" \in prod /\ "CPU_WRITE_OFTEN" \notin prod
  \/ "GPU_DATA_BUFFER" \in cons

\* The heaps and flags memory is taken from.
GetIonHeapInfo(prod, cons) ==
  LET secure == "PROTECTED" \in prod
      domain == IF "PRIVATE_SECURE_DISPLAY" \in cons THEN <<"SD", "ION_SD">>
                ELSE IF "CAMERA" \in prod
                     THEN <<"SD", IF "HWCOMPOSER" \in cons THEN "ION_SC_PREVIEW" ELSE "ION_SC">>
                     ELSE <<"CP", "ION_CP">>
      wanted == (IF secure THEN {domain[1]} ELSE IF "PRIVATE_MM_HEAP" \in prod THEN {"SYSTEM"} ELSE {})
                \cup (IF "PRIVATE_CAMERA_HEAP" \in prod THEN {"CAMERA"} ELSE {})
                \cup (IF prod \cap {"PRIVATE_ADSP_HEAP", "SENSOR_DIRECT_DATA"} # {} THEN {"ADSP"} ELSE {})
  IN [heaps |-> IF wanted = {} THEN {"SYSTEM"} ELSE wanted,
      flags |-> IF secure THEN domain[2] ELSE "none"]

\* GPU_RENDER_TARGET stands for each of the five usages of the GPU the code looks for.
IsGPUSupportedHwBuffer(prod) ==
  "PROTECTED" \in prod /\ "GPU_RENDER_TARGET" \in prod => GpuSecure

GetHandleFlags(d) ==
  (IF UseUncached(d.prod, d.cons) THEN {} ELSE {"CACHED"}) \cup
  (IF d.cons \cap {"VIDEO_ENCODER", "CLIENT_TARGET"} # {} \/ d.prod \cap {"CAMERA", "GPU_RENDER_TARGET"} # {}
   THEN {"NON_CPU_WRITER"} ELSE {})
-----------------------------------------------------------------------------
(* Descriptors.                                                            *)

CreateBufferDescriptor(d) ==
  /\ ~descs[d].known
  /\ descs' = [descs EXCEPT ![d] = [NoDesc EXCEPT !.known = TRUE]]
  /\ UNCHANGED <<buf, refs, orphan, locked, call, peers, cache, raced, spilt>>

DestroyBufferDescriptor(d) ==
  /\ descs[d].known
  /\ descs' = [descs EXCEPT ![d] = NoDesc]
  /\ UNCHANGED <<buf, refs, orphan, locked, call, peers, cache, raced, spilt>>

\* The setters of usages, and of format, dimensions and layer count, which
\* count by the size they come to.
CallBufferDescriptorFunction(d) ==
  /\ descs[d].known
  /\ \/ \E u \in ProdUsages : descs' = [descs EXCEPT ![d].prod = u]
     \/ \E u \in ConsUsages : descs' = [descs EXCEPT ![d].cons = u]
     \/ \E s \in Sizes : descs' = [descs EXCEPT ![d].size = s]
  /\ UNCHANGED <<buf, refs, orphan, locked, call, peers, cache, raced, spilt>>
-----------------------------------------------------------------------------
(* Allocation.                                                             *)

\* A new handle in the map, with resources r and flags f.
RegisterHandleLocked(r, f) ==
  [st |-> "live", ref |-> 1, has |-> r, open |-> r, failed |-> FALSE, flags |-> f, twice |-> FALSE]

\* What becomes of the handle of one allocation.  outcome: the memory or the
\* metadata cannot be had, the metadata cannot be mapped for its first value,
\* or all goes well.  No memory is given back when the metadata cannot be had.
AllocateBuffer(d, outcome) ==
  IF \/ "PRIVATE_SECURE_DISPLAY" \notin d.prod /\ ~IsGPUSupportedHwBuffer(d.prod)
     \/ d.size = 0 \/ outcome = "nomem"
  THEN NoBuf
  ELSE IF outcome = "nometa"
  THEN Stranded
  ELSE RegisterHandleLocked({"fd", "meta", "ion", "ionmeta"} \cup (IF outcome = "unmapped" THEN {} ELSE {"mapmeta"}),
                            GetHandleFlags(d) \cup {"USES_ION"})

\* A second handle to the memory of the first: duplicates of its file descriptors,
\* no ion handles, and only the flags its descriptor asks for.  Nobody looks
\* whether dup failed: of the memory's, of the metadata's or of both.
CreateSharedHandle(d, outcome) ==
  LET failed == CASE outcome = "nomem" -> {"fd"} [] outcome = "nometa" -> {"meta"}
                  [] outcome = "unmapped" -> {"fd", "meta"} [] OTHER -> {}
  IN RegisterHandleLocked({"fd", "meta"} \ failed, GetHandleFlags(d))

CheckForBufferSharing(ds) ==
  \A i \in DOMAIN ds : GetIonHeapInfo(ds[i].prod, ds[i].cons) = GetIonHeapInfo(ds[1].prod, ds[1].cons)

\* The first of the descriptors with the greatest size, 0 if all are rejected.
MaxIndex(ds) ==
  IF \A i \in DOMAIN ds : ds[i].size = 0 THEN 0
  ELSE CHOOSE i \in DOMAIN ds : \A j \in DOMAIN ds :
         ds[j].size <= ds[i].size /\ (j < i => ds[j].size < ds[i].size)

\* A client asks for one buffer per descriptor: one memory with several handles
\* if the descriptors agree on where it comes from, one memory each otherwise.
\* The first failure ends the call; what was registered before it stays.
AllocateBuffers(c, ids, hs, outs) ==
  LET ds == [i \in DOMAIN ids |-> descs[ids[i]]]
      mx == MaxIndex(ds)
      one == AllocateBuffer(ds[mx], outs[mx])
      each == [i \in DOMAIN ids |-> AllocateBuffer(ds[i], outs[i])]
      failed == {i \in DOMAIN ids : each[i].st # "live"}
      tried == {i \in DOMAIN ids : \A j \in failed : i <= j}
      shared == CheckForBufferSharing(ds) /\ mx > 0
      new == IF shared
             THEN [i \in DOMAIN ids |-> IF i = mx THEN one
                                        ELSE IF one.st = "live" THEN CreateSharedHandle(ds[i], outs[i]) ELSE NoBuf]
             ELSE [i \in DOMAIN ids |-> IF i \in tried THEN each[i] ELSE NoBuf]
      ok == \A i \in DOMAIN ids : new[i].st = "live"
      at == [h \in Handles |-> {i \in DOMAIN ids : hs[i] = h}]
  IN /\ call[c] = Idle
     /\ \A i \in DOMAIN ids : descs[ids[i]].known /\ buf[hs[i]] = NoBuf
     /\ buf' = [h \in Handles |-> IF at[h] = {} THEN buf[h] ELSE new[CHOOSE i \in at[h] : TRUE]]
     /\ refs' = [h \in Handles |-> IF at[h] # {} /\ ok THEN {c} ELSE refs[h]]
     /\ orphan' = IF ok THEN orphan ELSE orphan \cup {hs[i] : i \in {j \in DOMAIN ids : new[j].st = "live"}}
     /\ peers' = [h \in Handles |-> IF at[h] = {} \/ buf'[h].st # "live" THEN peers[h]
                                    ELSE IF shared THEN {hs[i] : i \in DOMAIN ids} ELSE {h}]
     /\ UNCHANGED <<descs, locked, call, cache, raced, spilt>>

\* GRALLOC1_MODULE_PERFORM_ALLOCATE_BUFFER, without a descriptor id: failures
\* are not reported, the client finds its handle unset.
PerformAllocateBuffer(c, d, h, outcome) ==
  LET new == AllocateBuffer(d, outcome) IN
  /\ call[c] = Idle
  /\ buf[h] = NoBuf
  /\ buf' = [buf EXCEPT ![h] = new]
  /\ refs' = IF new.st = "live" THEN [refs EXCEPT ![h] = {c}] ELSE refs
  /\ peers' = IF new.st = "live" THEN [peers EXCEPT ![h] = {h}] ELSE peers
  /\ UNCHANGED <<descs, orphan, locked, call, cache, raced, spilt>>
-----------------------------------------------------------------------------
(* Import, retain and release.                                             *)

\* The kernel gives up the resources rs of b.  Giving one up that is not open
\* would hit whatever has its number or address now.
Close(b, rs) == [b EXCEPT !.open = @ \ rs, !.twice = @ \/ ~(rs \subseteq b.open)]

\* FreeBuffer: memory, then metadata, then the object itself.  Unmapping an
\* address that is no mapping fails and ends it after the memory.
FreeBuffer(b) ==
  LET memory == Close(b, b.has \cap {"map", "ion", "fd"})
      all == Close(memory, IF "meta" \in b.has THEN b.has \cap {"mapmeta", "ionmeta", "meta"} ELSE {})
  IN IF b.failed THEN [memory EXCEPT !.st = "left", !.ref = 0]
     ELSE [NoBuf EXCEPT !.open = all.open, !.twice = all.twice]

\* Variant of ImportHandleLocked for mutation: closed file descriptors are not set to -1.
ImportHandleLocked_KeepsFds(b, outcome) ==
  LET ions == {"ion"} \cup (IF "meta" \in b.has THEN {"ionmeta"} ELSE {}) IN
  IF outcome = "nomem" \/ "fd" \notin b.has THEN b
  ELSE IF outcome = "nometa" /\ "meta" \in b.has THEN Close(b, {"fd", "meta"})
  ELSE [b EXCEPT !.st = "live", !.ref = 1, !.failed = FALSE,
                 !.has = (@ \cap {"fd", "meta"}) \cup ions, !.open = @ \cup ions]

\* What becomes of a handle imported into this process, by whether ion takes its
\* memory and its metadata.  If only the metadata fails both file descriptors are
\* closed and forgotten; the addresses of the process it came from are reset.
ImportHandleLocked(b, outcome) ==
  LET ions == {"ion"} \cup (IF "meta" \in b.has THEN {"ionmeta"} ELSE {}) IN
  IF outcome = "nomem" \/ "fd" \notin b.has THEN b
  ELSE IF outcome = "nometa" /\ "meta" \in b.has THEN [Close(b, {"fd", "meta"}) EXCEPT !.has = {}]
  ELSE [b EXCEPT !.st = "live", !.ref = 1, !.failed = FALSE,
                 !.has = (@ \cap {"fd", "meta"}) \cup ions, !.open = @ \cup ions]

\* native_handle_close and native_handle_delete.
CloseHandle(b) ==
  LET closed == Close(b, b.has \cap {"fd", "meta"})
  IN [NoBuf EXCEPT !.open = closed.open, !.twice = closed.twice]

\* Handles another process sends: of gralloc, or made by a client around its own memory.
Received == {[NoBuf EXCEPT !.st = "raw", !.has = {"fd", "meta"}, !.open = {"fd", "meta"},
                           !.flags = {"USES_ION", "CACHED", "NON_CPU_WRITER"}],
             [NoBuf EXCEPT !.st = "raw", !.has = {"fd"}, !.open = {"fd"}, !.flags = {"CLIENT_ALLOCATED"}]}

\* native_handle_clone: duplicates of the file descriptors, copies of all fields.
Cloned(b) == [b EXCEPT !.st = "raw", !.ref = 0, !.has = @ \ {"ion", "ionmeta"}, !.open = b.has \cap {"fd", "meta"}]

Receive(h) ==
  /\ buf[h] = NoBuf
  /\ \E b \in Received : buf' = [buf EXCEPT ![h] = b]
  /\ peers' = [peers EXCEPT ![h] = {h}]
  /\ UNCHANGED <<descs, refs, orphan, locked, call, cache, raced, spilt>>

\* The receiver is done with a handle it did not retain.
CloseReceived(h) ==
  /\ buf[h].st = "raw"
  /\ buf' = [buf EXCEPT ![h] = CloseHandle(buf[h])]
  /\ peers' = Parted(h)
  /\ cache' = [cache EXCEPT ![h] = Clean]
  /\ UNCHANGED <<descs, refs, orphan, locked, call, raced, spilt>>

\* A clone of a received handle, or of one of this process, is imported.
ImportBuffer(c, from, h, outcome) ==
  LET new == ImportHandleLocked(Cloned(buf[from]), outcome) IN
  /\ call[c] = Idle
  /\ buf[from].st = "raw" \/ c \in refs[from]
  /\ buf[h] = NoBuf
  /\ buf' = [buf EXCEPT ![h] = IF new.st = "live" THEN new ELSE CloseHandle(new)]
  /\ IF new.st = "live"
     THEN /\ refs' = [refs EXCEPT ![h] = {c}]
          /\ peers' = Joined(from, h)
          /\ cache' = [cache EXCEPT ![h] = cache[from]]
     ELSE UNCHANGED <<refs, peers, cache>>
  /\ UNCHANGED <<descs, orphan, locked, call, raced, spilt>>

\* Variant of RetainBuffer for mutation: a registered handle is not counted up.
RetainBuffer_NoIncRef(c, h, outcome) ==
  /\ call[c] = Idle
  /\ \/ /\ buf[h].st = "live"
        /\ refs[h] # {} /\ c \notin refs[h]
        /\ refs' = [refs EXCEPT ![h] = @ \cup {c}]
        /\ buf' = buf
     \/ /\ buf[h].st = "raw"
        /\ buf' = [buf EXCEPT ![h] = ImportHandleLocked(@, outcome)]
        /\ refs' = IF buf'[h].st = "live" THEN [refs EXCEPT ![h] = {c}] ELSE refs
  /\ UNCHANGED <<descs, orphan, locked, call, peers, cache, raced, spilt>>

\* One more reference to a handle somebody owns, or the first to a received one.
RetainBuffer(c, h, outcome) ==
  /\ call[c] = Idle
  /\ \/ /\ buf[h].st = "live"
        /\ refs[h] # {} /\ c \notin refs[h]
        /\ buf' = [buf EXCEPT ![h].ref = @ + 1]
        /\ refs' = [refs EXCEPT ![h] = @ \cup {c}]
     \/ /\ buf[h].st = "raw"
        /\ buf' = [buf EXCEPT ![h] = ImportHandleLocked(@, outcome)]
        /\ refs' = IF buf'[h].st = "live" THEN [refs EXCEPT ![h] = {c}] ELSE refs
  /\ UNCHANGED <<descs, orphan, locked, call, peers, cache, raced, spilt>>

\* The last reference takes the handle out of the map and frees it.
ReleaseBuffer(c, h) ==
  /\ call[c] = Idle
  /\ buf[h].st = "live" /\ c \in refs[h] /\ locked[h][c] = "none"
  /\ refs' = [refs EXCEPT ![h] = @ \ {c}]
  /\ IF buf[h].ref = 1
     THEN /\ buf' = [buf EXCEPT ![h] = FreeBuffer(@)]
          /\ peers' = Parted(h)
          /\ cache' = [cache EXCEPT ![h] = Clean]
     ELSE buf' = [buf EXCEPT ![h].ref = @ - 1] /\ UNCHANGED <<peers, cache>>
  /\ UNCHANGED <<descs, orphan, locked, call, raced, spilt>>
-----------------------------------------------------------------------------
(* Access by the CPU.                                                      *)

\* The flags of a handle whose readers have the cache invalidated.
Invalidating == {"USES_ION", "CACHED", "NON_CPU_WRITER"}

Mode(u) == IF CpuCanWrite(u.prod) THEN "write" ELSE IF "CPU_READ" \in u.cons THEN "read" ELSE "produce"

\* c has locked h with mode m, or is about to have.
Held(c, h, m) == locked[h][c] = m \/ call[c] = [op |-> "lock", h |-> h, mode |-> m]
Writing(c, h) == Held(c, h, "write")

\* Somebody has the memory of h locked for writing; c through h apart.
Written(h) == \E d \in Clients, k \in peers[h] : Writing(d, k)
WrittenBut(c, h) == \E d \in Clients, k \in peers[h] : <<d, k>> # <<c, h>> /\ Writing(d, k)
InUse(h) == \E d \in Clients, k \in peers[h] : locked[k][d] # "none" \/ (call[d].op = "lock" /\ call[d].h = k)

\* The cache is invalidated: what was dirty in it is lost.
Invalidated(h) ==
  [cache[h] EXCEPT !.dirty = FALSE, !.stale = FALSE, !.lost = @ \/ cache[h].dirty,
                   !.excused = @ \/ (cache[h].dirty /\ Written(h))]

\* Variant of LockBuffer for mutation: a failed mapping is not noticed.
LockBuffer_NoMapError(c, h, u, unmapped, unclean) ==
  LET b == buf[h]
      map == ~b.failed /\ "map" \notin b.has
      err == map /\ unmapped
      invalidate == /\ ~err /\ Invalidating \subseteq b.flags
                    /\ u.cons \cap {"CPU_READ", "CPU_READ_OFTEN"} # {}
      ok == ~(invalidate /\ unclean)
      mapped == IF map /\ ~unmapped THEN [b EXCEPT !.has = @ \cup {"map"}, !.open = @ \cup {"map"}] ELSE b
  IN /\ call[c] = Idle
     /\ b.st = "live" /\ c \in refs[h] /\ locked[h][c] = "none"
     /\ CpuCanAccess(u.prod, u.cons)
     /\ buf' = [buf EXCEPT ![h] = IF ok /\ CpuCanWrite(u.prod)
                                  THEN [mapped EXCEPT !.flags = @ \cup {"NEEDS_FLUSH"}] ELSE mapped]
     /\ cache' = IF invalidate /\ ~unclean THEN SetLines(h, Invalidated(h)) ELSE cache
     /\ call' = [call EXCEPT ![c] = [op |-> "lock", h |-> h, mode |-> IF ok THEN Mode(u) ELSE "none"]]
     /\ UNCHANGED <<descs, refs, orphan, locked, peers, raced, spilt>>

\* LockBuffer of the manager: the first lock maps the buffer, a failure leaves
\* MAP_FAILED for an address and later locks take that for a mapping.  A reader
\* of cached memory that devices write has it invalidated.
LockBuffer(c, h, u, unmapped, unclean) ==
  LET b == buf[h]
      map == ~b.failed /\ "map" \notin b.has
      err == map /\ unmapped
      invalidate == /\ ~err /\ Invalidating \subseteq b.flags
                    /\ u.cons \cap {"CPU_READ", "CPU_READ_OFTEN"} # {}
      ok == ~err /\ ~(invalidate /\ unclean)
      mapped == IF err THEN [b EXCEPT !.failed = TRUE]
                ELSE IF map THEN [b EXCEPT !.has = @ \cup {"map"}, !.open = @ \cup {"map"}] ELSE b
  IN /\ call[c] = Idle
     /\ b.st = "live" /\ c \in refs[h] /\ locked[h][c] = "none"
     /\ CpuCanAccess(u.prod, u.cons)
     /\ buf' = [buf EXCEPT ![h] = IF ok /\ CpuCanWrite(u.prod)
                                  THEN [mapped EXCEPT !.flags = @ \cup {"NEEDS_FLUSH"}] ELSE mapped]
     /\ cache' = IF invalidate /\ ~unclean THEN SetLines(h, Invalidated(h)) ELSE cache
     /\ call' = [call EXCEPT ![c] = [op |-> "lock", h |-> h, mode |-> IF ok THEN Mode(u) ELSE "none"]]
     /\ UNCHANGED <<descs, refs, orphan, locked, peers, raced, spilt>>

\* The rest of the device's LockBuffer: the address is read without the lock.
LockReturns(c) ==
  /\ call[c].op = "lock"
  /\ locked' = [locked EXCEPT ![call[c].h][c] = call[c].mode]
  /\ call' = [call EXCEPT ![c] = Idle]
  /\ UNCHANGED <<descs, buf, refs, orphan, peers, cache, raced, spilt>>

\* c writes through the mapping it locked.  (Lines of uncached memory count as
\* dirty too; they only have more to be flushed.)
CpuWrites(c, h) ==
  /\ locked[h][c] = "write" /\ ~buf[h].failed
  /\ cache' = SetLines(h, [cache[h] EXCEPT !.dirty = TRUE])
  /\ UNCHANGED <<descs, buf, refs, orphan, locked, call, peers, raced, spilt>>

\* A device writes the memory, through any handle made for that, while no CPU has it.
DeviceWrites(h) ==
  /\ buf[h].st = "live" /\ "NON_CPU_WRITER" \in buf[h].flags /\ ~InUse(h)
  /\ cache' = SetLines(h, [cache[h] EXCEPT !.stale = TRUE])
  /\ UNCHANGED <<descs, buf, refs, orphan, locked, call, peers, raced, spilt>>

\* Variant of UnlockBuffer for mutation: the flag is cleared and nothing is flushed.
UnlockBuffer_NoFlush(c, h, unclean) ==
  /\ call[c] = Idle
  /\ locked[h][c] # "none"
  /\ locked' = [locked EXCEPT ![h][c] = "none"]
  /\ buf' = [buf EXCEPT ![h].flags = @ \ {"NEEDS_FLUSH"}]
  /\ UNCHANGED <<descs, refs, orphan, call, peers, cache, raced, spilt>>

\* The flag is cleared although the flush failed, or another writer goes on.
UnlockBuffer(c, h, unclean) ==
  LET flush == "NEEDS_FLUSH" \in buf[h].flags
      others == WrittenBut(c, h)
      lines == IF flush /\ ~unclean THEN [cache[h] EXCEPT !.dirty = FALSE, !.excused = others \/ cache[h].lost]
               ELSE [cache[h] EXCEPT !.excused = @ \/ others \/ flush]
  IN /\ call[c] = Idle
     /\ locked[h][c] # "none"
     /\ locked' = [locked EXCEPT ![h][c] = "none"]
     /\ buf' = [buf EXCEPT ![h].flags = @ \ {"NEEDS_FLUSH"}]
     /\ cache' = SetLines(h, lines)
     /\ UNCHANGED <<descs, refs, orphan, call, peers, raced, spilt>>

\* validateAndMap of the metadata functions, without a lock: it finds no mapping
\* and makes one (a failure changes nothing) ...
MapMetaData(c, h) ==
  /\ call[c] = Idle
  /\ buf[h].st = "live" /\ c \in refs[h] /\ "meta" \in buf[h].has /\ "mapmeta" \notin buf[h].has
  /\ call' = [call EXCEPT ![c] = [op |-> "meta", h |-> h]]
  /\ raced' = IF \E d \in Clients : call[d] = [op |-> "meta", h |-> h] THEN raced \cup {h} ELSE raced
  /\ UNCHANGED <<descs, buf, refs, orphan, locked, peers, cache, spilt>>

\* ... and stores it, over one that another thread made meanwhile.
StoreMetaData(c) ==
  /\ call[c].op = "meta"
  /\ buf' = [buf EXCEPT ![call[c].h].has = @ \cup {"mapmeta"}, ![call[c].h].open = @ \cup {"mapmeta"}]
  /\ spilt' = IF "mapmeta" \in buf[call[c].h].has THEN spilt \cup {call[c].h} ELSE spilt
  /\ call' = [call EXCEPT ![c] = Idle]
  /\ UNCHANGED <<descs, refs, orphan, locked, peers, cache, raced>>
-----------------------------------------------------------------------------
Outcomes == {"ok", "nomem", "nometa", "unmapped"}
ImportOutcomes == {"ok", "nomem", "nometa"}
Injections(n) == {hs \in [1..n -> Handles] : \A i, j \in 1..n : i # j => hs[i] # hs[j]}

Init ==
  /\ descs = [d \in DescIds |-> NoDesc]
  /\ buf = [h \in Handles |-> NoBuf]
  /\ refs = [h \in Handles |-> {}]
  /\ orphan = {}
  /\ locked = [h \in Handles |-> [c \in Clients |-> "none"]]
  /\ call = [c \in Clients |-> Idle]
  /\ peers = [h \in Handles |-> {}]
  /\ cache = [h \in Handles |-> Clean]
  /\ raced = {}
  /\ spilt = {}

Next ==
  \/ \E d \in DescIds : CreateBufferDescriptor(d) \/ DestroyBufferDescriptor(d) \/ CallBufferDescriptorFunction(d)
  \/ \E c \in Clients, n \in 1..Cardinality(DescIds) :
       \E ids \in [1..n -> DescIds], hs \in Injections(n), outs \in [1..n -> Outcomes] :
         AllocateBuffers(c, ids, hs, outs)
  \/ \E c \in Clients, h \in Handles, p \in ProdUsages, u \in ConsUsages, s \in Sizes, o \in Outcomes :
       PerformAllocateBuffer(c, [known |-> TRUE, prod |-> p, cons |-> u, size |-> s], h, o)
  \/ \E h \in Handles : Receive(h) \/ CloseReceived(h) \/ DeviceWrites(h)
  \/ \E c \in Clients, from, h \in Handles, o \in ImportOutcomes : ImportBuffer(c, from, h, o)
  \/ \E c \in Clients, h \in Handles, o \in ImportOutcomes : RetainBuffer(c, h, o)
  \/ \E c \in Clients, h \in Handles : ReleaseBuffer(c, h) \/ CpuWrites(c, h) \/ MapMetaData(c, h)
  \/ \E c \in Clients, h \in Handles, u \in LockUsages, unmapped, unclean \in BOOLEAN :
       LockBuffer(c, h, u, unmapped, unclean)
  \/ \E c \in Clients, h \in Handles, unclean \in BOOLEAN : UnlockBuffer(c, h, unclean)
  \/ \E c \in Clients : LockReturns(c) \/ StoreMetaData(c)

Spec == Init /\ [][Next]_vars
-----------------------------------------------------------------------------
(* Properties.                                                             *)

Modes == {"none", "read", "write", "produce"}
Bufs == [st : {"none", "raw", "live", "left", "stranded"}, ref : Nat, has : SUBSET Resources, open : SUBSET Resources,
         failed : BOOLEAN, flags : SUBSET Flags, twice : BOOLEAN]

Lines == [dirty : BOOLEAN, stale : BOOLEAN, lost : BOOLEAN, excused : BOOLEAN]

Mapping(c, h) == call[c] = [op |-> "meta", h |-> h]
Locking(c, h) == locked[h][c] = "none" /\ \E m \in Modes : call[c] = [op |-> "lock", h |-> h, mode |-> m]
CallOK(c) == call[c] = Idle \/ \E h \in Handles : c \in refs[h] /\ (Mapping(c, h) \/ Locking(c, h))

\* Types of the state; a client is in the middle of a call only on a buffer it owns.
TypeOK ==
  /\ buf \in [Handles -> Bufs]
  /\ refs \in [Handles -> SUBSET Clients]
  /\ orphan \subseteq Handles
  /\ locked \in [Handles -> [Clients -> Modes]]
  /\ call = [c \in Clients |-> call[c]]
  /\ \A c \in Clients : CallOK(c)

\* A handle is in handles_map_ exactly as long as clients own references to it, and
\* its count is their number, through every interleaving of allocation, import,
\* retain and release.  The exception is a handle registered by an AllocateBuffers
\* that failed later on and told its client so: nobody owns it and its count stays 1.
RefsCounted ==
  \A h \in Handles :
    /\ h \in orphan => buf[h].st = "live" /\ refs[h] = {} /\ buf[h].ref = 1
    /\ h \notin orphan => /\ buf[h].st = "live" <=> refs[h] # {}
                          /\ buf[h].ref = Cardinality(refs[h])

\* The resources of one handle.
Sound(b) ==
  /\ ~b.twice
  /\ b.st = "none" => b.open = {}
  /\ b.st \in {"raw", "live"} => b.open = b.has
  /\ b.st = "live" /\ "fd" \notin b.has => "USES_ION" \notin b.flags
  /\ b.st = "left" => b.failed /\ b.open \subseteq {"meta", "ionmeta", "mapmeta"}
  /\ b.st = "stranded" => b.open = {"fd", "ion"}

\* No resource is given back twice, used after it was given back or forgotten: what
\* the kernel has open for a registered handle is what the handle says, and no
\* handle leaves anything behind.  The exceptions are the memory of an allocation
\* whose metadata failed, the metadata of a buffer that could not be mapped, and a
\* mapping of the metadata two clients made at a time: one of the two is forgotten,
\* and that is the only way to forget one.
NothingLost == (\A h \in Handles : Sound(buf[h])) /\ spilt \subseteq raced

\* A client that has a buffer locked has the address of a live mapping, although it
\* reads the address after the manager's lock is released, and whatever the other
\* clients do.  The exception is a buffer whose mapping failed once.
LockedIsMapped ==
  \A h \in Handles, c \in Clients :
    locked[h][c] # "none" => buf[h].st = "live" /\ ("map" \in buf[h].open \/ buf[h].failed)

\* What CPUs wrote to a memory is flushed when the last of them unlocks it, through
\* whichever handles they wrote, and a reader's lock throws none of it away, unless
\* a flush failed or somebody else had the memory locked for writing meanwhile.  A
\* consumer whose handle has the three flags LockBuffer looks for never reads lines
\* older than what a device wrote through any handle of the memory.
Coherent ==
  \A h \in Handles :
    /\ cache[h].dirty /\ ~InUse(h) => cache[h].excused
    /\ cache[h].lost => cache[h].excused
    /\ cache[h].stale => \A c \in Clients : locked[h][c] = "read" => ~(Invalidating \subseteq buf[h].flags)

\* What a handle has in each of its states, and what its users may count on.
Shape(b) ==
  /\ b.st = "raw" => b.has \subseteq {"fd", "meta"}
  /\ b.st = "live" /\ "meta" \notin b.has => b.has \cap {"mapmeta", "ionmeta"} = {}
  /\ b.st # "live" => b.ref = 0

Access(h) ==
  /\ \A c \in Clients : Mapping(c, h) => c \in refs[h] /\ "meta" \in buf[h].has
  /\ \A c \in Clients, m \in Modes \ {"none"} :
       Held(c, h, m) => c \in refs[h] /\ ("map" \in buf[h].has \/ buf[h].failed)

BooksInv ==
  /\ TypeOK
  /\ RefsCounted
  /\ \A h \in Handles : Sound(buf[h]) /\ Shape(buf[h]) /\ Access(h)

\* A mapping of metadata can only be overwritten where two clients met.
MetaInv ==
  /\ raced \subseteq Handles /\ spilt \subseteq raced
  /\ \A h \in Handles \ raced, c, d \in Clients :
       Mapping(c, h) => "mapmeta" \notin buf[h].has /\ (Mapping(d, h) => c = d)

\* The handles of a memory agree on which they are and on its lines.
PeersInv(h) ==
  /\ h \in peers[h] <=> buf[h].st \in {"raw", "live"}
  /\ h \notin peers[h] => peers[h] = {} /\ cache[h] = Clean
  /\ \A k \in peers[h] : peers[k] = peers[h] /\ cache[k] = cache[h]

\* Dirty lines have a writer that is to flush them.
LinesInv(h) ==
  /\ \A c \in Clients : Writing(c, h) => "NEEDS_FLUSH" \in buf[h].flags \/ cache[h].excused
  /\ cache[h].dirty => cache[h].excused \/ Written(h)
  /\ cache[h].lost => cache[h].excused
  /\ \A c \in Clients : Held(c, h, "read") => ~cache[h].stale \/ ~(Invalidating \subseteq buf[h].flags)

CacheInv ==
  /\ peers \in [Handles -> SUBSET Handles] /\ cache \in [Handles -> Lines]
  /\ \A h \in Handles : PeersInv(h) /\ LinesInv(h)

\* The inductive invariant behind the properties above.
IInv == BooksInv /\ MetaInv /\ CacheInv
=============================================================================
