--------------------------- MODULE GrallocProofs ---------------------------
(***************************************************************************)
(* Proofs about Gralloc, for any number of clients, handles and            *)
(* descriptors, any usages and every outcome of the kernel's calls.        *)
(***************************************************************************)
EXTENDS Gralloc, FiniteSetTheorems, TLAPS

\* A record that may stand for a handle.
Good(b) == b \in Bufs /\ Sound(b) /\ Shape(b)

\* An unused address, as Init and FreeBuffer leave it, is a good record.
LEMMA NoBufGood == Good(NoBuf) /\ NoBuf.st = "none" /\ NoBuf.ref = 0
  BY Zenon DEF Good, NoBuf, Bufs, Sound, Shape, Resources

\* RegisterHandleLocked gives a good record with one reference.
LEMMA RegisterGood ==
  ASSUME NEW r, NEW f, r \subseteq Resources, f \subseteq Flags, "fd" \in r \/ "USES_ION" \notin f,
         "meta" \in r \/ r \cap {"mapmeta", "ionmeta"} = {}
  PROVE  LET b == RegisterHandleLocked(r, f) IN Good(b) /\ b.st = "live" /\ b.ref = 1
  BY Zenon DEF RegisterHandleLocked, Good, Bufs, Sound, Shape

\* The flags GetHandleFlags and AllocateBuffer give a handle are flags.
LEMMA FlagsGood == ASSUME NEW d PROVE GetHandleFlags(d) \cup {"USES_ION"} \subseteq Flags /\ "USES_ION" \notin GetHandleFlags(d)
  BY Zenon DEF GetHandleFlags, Flags

\* AllocateBuffer yields no handle, stranded memory or a registered handle with one reference.
LEMMA AllocateGood ==
  ASSUME NEW d, NEW o
  PROVE  LET b == AllocateBuffer(d, o) IN Good(b) /\ ((b.st = "live" /\ b.ref = 1)
                                                         \/ (b.st \in {"none", "stranded"} /\ b.ref = 0))
<1> DEFINE s == [st |-> "stranded", ref |-> 0, has |-> {}, open |-> {"fd", "ion"}, failed |-> FALSE, flags |-> {}, twice |-> FALSE]
           r == {"fd", "meta", "ion", "ionmeta"} \cup (IF o = "unmapped" THEN {} ELSE {"mapmeta"})
           f == GetHandleFlags(d) \cup {"USES_ION"}
<1>1. Good(s) /\ s.st = "stranded" /\ s.ref = 0
  <2>1. s \in Bufs
    BY Zenon DEF Bufs, Resources
  <2>2. Sound(s) /\ Shape(s)
    BY Zenon DEF Sound, Shape
  <2> QED
    BY Zenon, <2>1, <2>2 DEF Good
<1>3. r \subseteq Resources /\ {"fd", "meta"} \subseteq r
  BY Zenon DEF Resources
<1>4. LET b == RegisterHandleLocked(r, f) IN Good(b) /\ b.st = "live" /\ b.ref = 1
  BY Zenon, <1>3, FlagsGood, RegisterGood
<1>5. AllocateBuffer(d, o) \in {NoBuf, s, RegisterHandleLocked(r, f)}
  BY Zenon DEF AllocateBuffer, Stranded
<1> HIDE DEF s, r, f
<1> QED
  BY Zenon, <1>1, <1>4, <1>5, NoBufGood

\* CreateSharedHandle registers a good record with one reference.
LEMMA SharedGood ==
  ASSUME NEW d, NEW o
  PROVE  LET b == CreateSharedHandle(d, o) IN Good(b) /\ b.st = "live" /\ b.ref = 1
<1> DEFINE failed == CASE o = "nomem" -> {"fd"} [] o = "nometa" -> {"meta"}
                       [] o = "unmapped" -> {"fd", "meta"} [] OTHER -> {}
           r == {"fd", "meta"} \ failed
<1>1. r \subseteq Resources /\ r \cap {"mapmeta", "ionmeta"} = {}
  <2> HIDE DEF failed
  <2> QED
    BY Zenon DEF Resources
<1>2. CreateSharedHandle(d, o) = RegisterHandleLocked(r, GetHandleFlags(d))
  BY Zenon DEF CreateSharedHandle
<1>3. GetHandleFlags(d) \subseteq Flags /\ "USES_ION" \notin GetHandleFlags(d)
  BY Zenon, FlagsGood
<1> HIDE DEF r
<1>4. LET b == RegisterHandleLocked(r, GetHandleFlags(d)) IN Good(b) /\ b.st = "live" /\ b.ref = 1
  BY Zenon, <1>1, <1>3, RegisterGood
<1> QED
  BY Zenon, <1>2, <1>4

\* FreeBuffer of a registered handle gives back all it has, but for the metadata after a failed mapping.
LEMMA FreeGood ==
  ASSUME NEW b, Good(b), b.st = "live"
  PROVE  LET f == FreeBuffer(b) IN Good(f) /\ f.st # "live" /\ f.ref = 0
<1> DEFINE memory == Close(b, b.has \cap {"map", "ion", "fd"})
<1>1. memory = [b EXCEPT !.open = b.has \ {"map", "ion", "fd"}, !.twice = FALSE]
  BY Zenon DEF Close, Good, Bufs, Sound
<1> HIDE DEF memory
<1>2. CASE b.failed
  <2>1. FreeBuffer(b) = [b EXCEPT !.open = b.has \ {"map", "ion", "fd"}, !.twice = FALSE, !.st = "left", !.ref = 0]
    BY Zenon, <1>1, <1>2 DEF FreeBuffer, memory, Good, Bufs
  <2> DEFINE f == FreeBuffer(b)
  <2>2. /\ f.st = "left" /\ f.ref = 0 /\ f.open = b.has \ {"map", "ion", "fd"} /\ f.twice = FALSE
        /\ f.failed = b.failed /\ f.has = b.has
    BY Zenon, <2>1 DEF Good, Bufs
  <2>4. f \in Bufs
    <3>1. b.has \ {"map", "ion", "fd"} \in SUBSET Resources
      BY Zenon DEF Good, Bufs
    <3>2. "left" \in {"none", "raw", "live", "left", "stranded"} /\ 0 \in Nat /\ FALSE \in BOOLEAN
      BY Zenon
    <3> QED
      BY Zenon, <2>1, <3>1, <3>2 DEF Good, Bufs
  <2> HIDE DEF f
  <2>3. f.open \subseteq {"meta", "ionmeta", "mapmeta"}
    BY Zenon, <2>2 DEF Good, Bufs, Resources
  <2> QED
    BY Zenon, <2>2, <2>3, <2>4, <1>2 DEF Good, Sound, Shape, f
<1>3. CASE ~b.failed
  <2> DEFINE all == Close(memory, IF "meta" \in b.has THEN b.has \cap {"mapmeta", "ionmeta", "meta"} ELSE {})
  <2>1. all.open = {} /\ all.twice = FALSE
    <3>1. memory.open = b.has \ {"map", "ion", "fd"} /\ memory.twice = FALSE
      BY Zenon, <1>1 DEF Good, Bufs
    <3>2. b.has \subseteq Resources
      BY Zenon DEF Good, Bufs
    <3>3. CASE "meta" \in b.has
      <4>1. all = [memory EXCEPT !.open = @ \ (b.has \cap {"mapmeta", "ionmeta", "meta"}),
                                 !.twice = @ \/ ~((b.has \cap {"mapmeta", "ionmeta", "meta"}) \subseteq memory.open)]
        BY Zenon, <3>3 DEF Close
      <4>2. (b.has \cap {"mapmeta", "ionmeta", "meta"}) \subseteq memory.open
        BY Zenon, <3>1
      <4>3. (b.has \ {"map", "ion", "fd"}) \ (b.has \cap {"mapmeta", "ionmeta", "meta"}) = {}
        BY Zenon, <3>2 DEF Resources
      <4> QED
        BY Zenon, <4>1, <4>2, <4>3, <3>1, <1>1 DEF Good, Bufs
    <3>4. CASE "meta" \notin b.has
      <4>1. b.has \ {"map", "ion", "fd"} = {}
        BY Zenon, <3>2, <3>4 DEF Resources, Good, Shape
      <4>2. all = [memory EXCEPT !.open = @ \ {}, !.twice = @ \/ ~({} \subseteq memory.open)]
        BY Zenon, <3>4 DEF Close
      <4> QED
        BY Zenon, <4>1, <4>2, <3>1, <1>1 DEF Good, Bufs
    <3> QED
      BY Zenon, <3>3, <3>4
  <2>2. FreeBuffer(b) = [NoBuf EXCEPT !.open = all.open, !.twice = all.twice]
    BY Zenon, <1>3 DEF FreeBuffer, memory
  <2>3. FreeBuffer(b) = NoBuf
    BY Zenon, <2>1, <2>2 DEF NoBuf
  <2> QED
    BY Zenon, <2>3, NoBufGood
<1> QED
  BY Zenon, <1>2, <1>3 DEF Good, Bufs

\* A handle to be imported: received, or a clone with the addresses of its original.
Incoming(b) == b \in Bufs /\ b.st = "raw" /\ b.ref = 0 /\ b.twice = FALSE /\ b.open = b.has \cap {"fd", "meta"}

\* A received handle may be imported, and one with no more than its file descriptors is good.
LEMMA RawIncoming ==
  ASSUME NEW b
  PROVE  /\ Good(b) /\ b.st = "raw" => Incoming(b)
         /\ Incoming(b) /\ b.has \subseteq {"fd", "meta"} => Good(b)
<1>1. ASSUME Good(b), b.st = "raw" PROVE Incoming(b)
  BY Zenon, <1>1 DEF Good, Sound, Shape, Incoming, Bufs
<1>2. ASSUME Incoming(b), b.has \subseteq {"fd", "meta"} PROVE Good(b)
  BY Zenon, <1>2 DEF Good, Sound, Shape, Incoming, Bufs
<1> QED
  BY Zenon, <1>1, <1>2

\* A clone of any handle may be imported: its file descriptors are its own.
LEMMA ClonedIncoming ==
  ASSUME NEW b, b \in Bufs, Sound(b)
  PROVE  Incoming(Cloned(b))
<1> DEFINE n == Cloned(b)
<1>1. /\ b.has \ {"ion", "ionmeta"} \in SUBSET Resources /\ b.has \cap {"fd", "meta"} \in SUBSET Resources
      /\ "raw" \in {"none", "raw", "live", "left", "stranded"} /\ 0 \in Nat
  BY Zenon DEF Bufs
<1>2. n \in Bufs
  BY Zenon, <1>1 DEF Cloned, Bufs
<1>3. n.st = "raw" /\ n.ref = 0 /\ n.has = b.has \ {"ion", "ionmeta"} /\ n.open = b.has \cap {"fd", "meta"} /\ n.twice = b.twice
  BY Zenon DEF Cloned, Bufs
<1>4. b.twice = FALSE
  BY Zenon DEF Sound, Bufs
<1>5. (b.has \ {"ion", "ionmeta"}) \cap {"fd", "meta"} = b.has \cap {"fd", "meta"}
  BY Zenon
<1> QED
  BY Zenon, <1>2, <1>3, <1>4, <1>5 DEF Incoming

\* native_handle_close of a handle that is not registered leaves nothing behind.
LEMMA CloseGood ==
  ASSUME NEW b, Incoming(b)
  PROVE  CloseHandle(b) = NoBuf
<1> DEFINE closed == Close(b, b.has \cap {"fd", "meta"})
<1>1. closed = [b EXCEPT !.open = b.open \ b.open, !.twice = b.twice \/ ~(b.open \subseteq b.open)]
  BY Zenon DEF Close, Incoming
<1>2. closed.open = {} /\ closed.twice = FALSE
  BY Zenon, <1>1 DEF Incoming, Bufs
<1>3. CloseHandle(b) = [NoBuf EXCEPT !.open = closed.open, !.twice = closed.twice]
  BY Zenon DEF CloseHandle
<1> QED
  BY Zenon, <1>2, <1>3 DEF NoBuf

\* An import ends in a registered handle with one reference, or in one that has what it had or nothing.
LEMMA ImportGood ==
  ASSUME NEW b, NEW o, Incoming(b)
  PROVE  LET n == ImportHandleLocked(b, o)
         IN \/ Good(n) /\ n.st = "live" /\ n.ref = 1
            \/ Incoming(n) /\ (n = b \/ n.has = {})
<1> DEFINE n == ImportHandleLocked(b, o)
           ions == {"ion"} \cup (IF "meta" \in b.has THEN {"ionmeta"} ELSE {})
<1>1. CASE o = "nomem" \/ "fd" \notin b.has
  <2>1. n = b
    BY Zenon, <1>1 DEF ImportHandleLocked
  <2> QED
    BY Zenon, <2>1
<1>2. CASE ~(o = "nomem" \/ "fd" \notin b.has) /\ o = "nometa" /\ "meta" \in b.has
  <2>1. n = [Close(b, {"fd", "meta"}) EXCEPT !.has = {}]
    BY Zenon, <1>2 DEF ImportHandleLocked
  <2>2. Close(b, {"fd", "meta"}) = [b EXCEPT !.open = {}, !.twice = FALSE]
    <3>1. b.open = {"fd", "meta"}
      BY Zenon, <1>2 DEF Incoming
    <3> QED
      BY Zenon, <3>1 DEF Close, Incoming
  <2>3. n = [b EXCEPT !.open = {}, !.twice = FALSE, !.has = {}]
    BY Zenon, <2>1, <2>2 DEF Incoming, Bufs
  <2>4. n \in Bufs
    <3>1. {} \in SUBSET Resources /\ FALSE \in BOOLEAN
      BY Zenon
    <3> QED
      BY Zenon, <2>3, <3>1 DEF Incoming, Bufs
  <2>5. n.st = "raw" /\ n.ref = 0 /\ n.twice = FALSE /\ n.open = {} /\ n.has = {}
    BY Zenon, <2>3 DEF Incoming, Bufs
  <2> QED
    BY Zenon, <2>4, <2>5 DEF Incoming
<1>3. CASE ~(o = "nomem" \/ "fd" \notin b.has) /\ ~(o = "nometa" /\ "meta" \in b.has)
  <2>1. n = [b EXCEPT !.st = "live", !.ref = 1, !.failed = FALSE,
                      !.has = (@ \cap {"fd", "meta"}) \cup ions, !.open = @ \cup ions]
    BY Zenon, <1>3 DEF ImportHandleLocked
  <2>2. /\ (b.has \cap {"fd", "meta"}) \cup ions \in SUBSET Resources /\ b.open \cup ions \in SUBSET Resources
        /\ "live" \in {"none", "raw", "live", "left", "stranded"} /\ 1 \in Nat /\ FALSE \in BOOLEAN
    BY Zenon DEF Incoming, Bufs, Resources
  <2>3. /\ n.st = "live" /\ n.ref = 1 /\ n.has = (b.has \cap {"fd", "meta"}) \cup ions /\ n.open = b.open \cup ions
        /\ n.twice = FALSE
    BY Zenon, <2>1 DEF Incoming, Bufs
  <2>4. n \in Bufs
    BY ZenonT(60), <2>1, <2>2 DEF Incoming, Bufs
  <2>5. n.open = n.has /\ "fd" \in n.has
    BY Zenon, <2>3, <1>3 DEF Incoming
  <2>6. "meta" \notin n.has => n.has \cap {"mapmeta", "ionmeta"} = {}
    BY Zenon, <2>3
  <2> HIDE DEF n
  <2> QED
    BY Zenon, <2>3, <2>4, <2>5, <2>6 DEF Good, Sound, Shape, n
<1> QED
  BY Zenon, <1>1, <1>2, <1>3
-----------------------------------------------------------------------------
\* The count of references is a Cardinality of clients.
LEMMA RefsCard ==
  ASSUME NEW S \in SUBSET Clients, NEW c \in Clients
  PROVE  /\ Cardinality({}) = 0 /\ Cardinality({c}) = 1
         /\ Cardinality(S) \in Nat
         /\ c \notin S => Cardinality(S \cup {c}) = Cardinality(S) + 1
         /\ c \in S => Cardinality(S \ {c}) = Cardinality(S) - 1
         /\ Cardinality(S) = 0 <=> S = {}
<1>1. IsFiniteSet(S)
  BY Zenon, ClientsFinite, FS_Subset
<1> QED
  BY Zenon, <1>1, FS_EmptySet, FS_Singleton, FS_AddElement, FS_RemoveElement, FS_CardinalityType

\* Nobody uses the address of a handle that is not registered.
LEMMA Unused ==
  ASSUME BooksInv, NEW h \in Handles, buf[h].st # "live"
  PROVE  /\ refs[h] = {} /\ h \notin orphan
         /\ \A c \in Clients, m \in Modes \ {"none"} : ~Held(c, h, m) /\ ~Mapping(c, h)
<1>1. refs[h] = {} /\ h \notin orphan
  BY Zenon DEF BooksInv, RefsCounted
<1>2. Access(h)
  BY Zenon DEF BooksInv
<1> QED
  BY Zenon, <1>1, <1>2 DEF Access

\* A step that puts handles at unused addresses, or takes received handles away.
Places(h) ==
  \/ buf'[h] = buf[h] /\ refs'[h] = refs[h] /\ (h \in orphan' <=> h \in orphan)
  \/ /\ buf[h].st # "live" /\ Good(buf'[h])
     /\ \/ buf'[h].st # "live" /\ refs'[h] = {} /\ h \notin orphan'
        \/ /\ buf'[h].st = "live" /\ buf'[h].ref = 1
           /\ \/ refs'[h] = {} /\ h \in orphan'
              \/ \E c \in Clients : refs'[h] = {c} /\ h \notin orphan'

\* Such a step keeps the invariant: nobody used those addresses.
LEMMA PlacesKeeps ==
  ASSUME BooksInv, UNCHANGED <<locked, call>>, orphan' \subseteq Handles,
         buf' = [h \in Handles |-> buf'[h]], refs' = [h \in Handles |-> refs'[h]],
         \A h \in Handles : Places(h)
  PROVE  BooksInv'
<1> USE DEF BooksInv
<1>1. \A h \in Handles : buf[h] \in Bufs /\ refs[h] \in SUBSET Clients
  BY Zenon DEF TypeOK
<1>2. \A h \in Handles : buf'[h] \in Bufs /\ Sound(buf'[h]) /\ Shape(buf'[h]) /\ refs'[h] \in SUBSET Clients
  BY Zenon, <1>1 DEF Places, Good
<1>3. \A h \in Handles : refs[h] # {} => refs'[h] = refs[h] /\ buf'[h] = buf[h]
  BY Zenon, Unused DEF Places
<1>4. TypeOK'
  <2>1. buf' \in [Handles -> Bufs] /\ refs' \in [Handles -> SUBSET Clients]
    BY Zenon, <1>2
  <2>2. ASSUME NEW c \in Clients
        PROVE  CallOK(c)'
    BY ZenonT(60), <1>3 DEF TypeOK, CallOK, Mapping, Locking
  <2> QED
    BY Zenon, <2>1, <2>2 DEF TypeOK
<1>5. RefsCounted'
  <2> SUFFICES ASSUME NEW h \in Handles
               PROVE  /\ h \in orphan' => buf'[h].st = "live" /\ refs'[h] = {} /\ buf'[h].ref = 1
                      /\ h \notin orphan' => /\ buf'[h].st = "live" <=> refs'[h] # {}
                                             /\ buf'[h].ref = Cardinality(refs'[h])
    BY Zenon DEF RefsCounted
  <2>1. CASE buf'[h] = buf[h] /\ refs'[h] = refs[h] /\ (h \in orphan' <=> h \in orphan)
    BY Zenon, <2>1 DEF RefsCounted
  <2>2. CASE buf'[h].st # "live" /\ refs'[h] = {} /\ h \notin orphan' /\ Good(buf'[h])
    <3>1. buf'[h].ref = 0
      BY Zenon, <2>2 DEF Good, Shape
    <3> QED
      BY Zenon, <2>2, <3>1, FS_EmptySet
  <2>3. CASE buf'[h].st = "live" /\ buf'[h].ref = 1 /\ refs'[h] = {} /\ h \in orphan'
    BY Zenon, <2>3
  <2>4. ASSUME NEW c \in Clients, buf'[h].st = "live", buf'[h].ref = 1, refs'[h] = {c}, h \notin orphan'
        PROVE  /\ h \notin orphan' => /\ buf'[h].st = "live" <=> refs'[h] # {}
                                      /\ buf'[h].ref = Cardinality(refs'[h])
    BY Zenon, <2>4, FS_Singleton
  <2> QED
    BY Zenon, <2>1, <2>2, <2>3, <2>4 DEF Places
<1>6. \A h \in Handles : Access(h)'
  <2> SUFFICES ASSUME NEW h \in Handles PROVE Access(h)'
    BY Zenon
  <2>1. CASE buf'[h] = buf[h] /\ refs'[h] = refs[h]
    BY ZenonT(60), <2>1 DEF Access, Held, Mapping
  <2>2. CASE buf[h].st # "live"
    <3>1. \A c \in Clients, m \in Modes \ {"none"} : ~Held(c, h, m) /\ ~Mapping(c, h)
      BY Zenon, <2>2, Unused
    <3>2. \A c \in Clients, m \in Modes \ {"none"} : ~Held(c, h, m)' /\ ~Mapping(c, h)'
      BY Zenon, <3>1 DEF Held, Mapping
    <3>3. \A c \in Clients : ~Mapping(c, h)'
      BY Zenon, <3>2 DEF Modes
    <3> QED
      BY Zenon, <3>2, <3>3 DEF Access
  <2> QED
    BY Zenon, <2>1, <2>2 DEF Places
<1> QED
  BY Zenon, <1>2, <1>4, <1>5, <1>6
-----------------------------------------------------------------------------
(* One lemma per action.                                                   *)

\* A batch of allocations registers each handle for its client or, if it fails, for nobody.
LEMMA AllocateBuffersKeeps ==
  ASSUME BooksInv, NEW c \in Clients, NEW n \in Nat, NEW ids \in [1..n -> DescIds], NEW hs \in Injections(n), NEW outs,
         AllocateBuffers(c, ids, hs, outs)
  PROVE  BooksInv'
<1> DEFINE ds == [i \in DOMAIN ids |-> descs[ids[i]]]
           mx == MaxIndex(ds)
           one == AllocateBuffer(ds[mx], outs[mx])
           each == [i \in DOMAIN ids |-> AllocateBuffer(ds[i], outs[i])]
           failed == {i \in DOMAIN ids : each[i].st # "live"}
           tried == {i \in DOMAIN ids : \A j \in failed : i <= j}
           shared == CheckForBufferSharing(ds) /\ mx > 0
           new == IF shared
                  THEN [i \in DOMAIN ids |-> IF i = mx THEN one
                                             ELSE IF one.st = "live" THEN CreateSharedHandle(ds[i], outs[i]) ELSE NoBuf]
                  ELSE [i \in DOMAIN ids |-> IF i \in tried THEN each[i] ELSE NoBuf]
           ok == \A i \in DOMAIN ids : new[i].st = "live"
           at == [h \in Handles |-> {i \in DOMAIN ids : hs[i] = h}]
           Fit(b) == Good(b) /\ (b.st = "live" => b.ref = 1)
<1>1. /\ \A i \in DOMAIN ids : buf[hs[i]] = NoBuf
      /\ buf' = [h \in Handles |-> IF at[h] = {} THEN buf[h] ELSE new[CHOOSE i \in at[h] : TRUE]]
      /\ refs' = [h \in Handles |-> IF at[h] # {} /\ ok THEN {c} ELSE refs[h]]
      /\ orphan' = IF ok THEN orphan ELSE orphan \cup {hs[i] : i \in {j \in DOMAIN ids : new[j].st = "live"}}
      /\ UNCHANGED <<locked, call>>
  BY Zenon DEF AllocateBuffers
<1>2. \A i \in DOMAIN ids : Fit(new[i])
  <2>1. Fit(one) /\ Fit(NoBuf) /\ \A i \in DOMAIN ids : Fit(each[i]) /\ Fit(CreateSharedHandle(ds[i], outs[i]))
    BY Zenon, AllocateGood, SharedGood, NoBufGood
  <2> HIDE DEF one, each, tried, mx, Fit, ds, shared
  <2> QED
    BY Zenon, <2>1
<1> HIDE DEF new
<1>3. \A i \in DOMAIN ids : hs[i] \in Handles /\ \A j \in DOMAIN ids : hs[i] = hs[j] => i = j
  BY Zenon DEF Injections
<1>4. orphan' \subseteq Handles
  BY SMTT(30), <1>1, <1>3 DEF BooksInv, TypeOK
<1>5. ASSUME NEW h \in Handles PROVE Places(h)
  <2>1. CASE at[h] = {}
    <3>1. buf'[h] = buf[h] /\ refs'[h] = refs[h]
      BY Zenon, <1>1, <2>1
    <3>2. \A i \in DOMAIN ids : hs[i] # h
      BY Zenon, <2>1
    <3>3. h \in orphan' <=> h \in orphan
      BY Zenon, <1>1, <3>2
    <3> QED
      BY Zenon, <3>1, <3>3 DEF Places
  <2>2. CASE at[h] # {}
    <3>1. PICK i \in DOMAIN ids : hs[i] = h
      BY Zenon, <2>2
    <3>2. at[h] = {i}
      BY Zenon, <3>1, <1>3
    <3>3. buf'[h] = new[i]
      BY Zenon, <1>1, <3>2
    <3>4. buf[h].st # "live" /\ refs[h] = {} /\ h \notin orphan
      BY Zenon, <1>1, <3>1, NoBufGood, Unused
    <3>5. CASE ok
      <4>1. refs'[h] = {c} /\ h \notin orphan' /\ new[i].st = "live"
        BY Zenon, <1>1, <2>2, <3>4, <3>5
      <4> QED
        BY Zenon, <1>2, <3>3, <3>4, <4>1 DEF Places
    <3>6. CASE ~ok
      <4>1. refs'[h] = {}
        BY Zenon, <1>1, <3>4, <3>6
      <4>2. h \in orphan' <=> new[i].st = "live"
        BY SMTT(30), <1>1, <1>3, <3>1, <3>4, <3>6
      <4> QED
        BY Zenon, <1>2, <3>3, <3>4, <4>1, <4>2 DEF Places
    <3> QED
      BY Zenon, <3>5, <3>6
  <2> QED
    BY Zenon, <2>1, <2>2
<1>6. buf' = [h \in Handles |-> buf'[h]] /\ refs' = [h \in Handles |-> refs'[h]]
  BY SMTT(30), <1>1
<1> QED
  BY Zenon, <1>1, <1>4, <1>5, <1>6, PlacesKeeps

\* A step that puts one handle at an unused address: for a client if it is registered, for nobody otherwise.
LEMMA OneKeeps ==
  ASSUME BooksInv, NEW c \in Clients, NEW h \in Handles, NEW new, UNCHANGED <<orphan, locked, call>>,
         buf[h].st # "live", Good(new), new.st = "live" => new.ref = 1,
         buf' = [buf EXCEPT ![h] = new],
         refs' = IF new.st = "live" THEN [refs EXCEPT ![h] = {c}] ELSE refs
  PROVE  BooksInv'
<1>1. buf = [g \in Handles |-> buf[g]] /\ refs = [g \in Handles |-> refs[g]] /\ orphan' \subseteq Handles
  BY Zenon DEF BooksInv, TypeOK
<1>2. refs[h] = {} /\ h \notin orphan
  BY Zenon, Unused
<1>3. \A g \in Handles : Places(g)
  BY Zenon, <1>1, <1>2 DEF Places
<1>4. buf' = [g \in Handles |-> buf'[g]] /\ refs' = [g \in Handles |-> refs'[g]]
  BY Zenon, <1>1
<1> QED
  BY Zenon, <1>1, <1>3, <1>4, PlacesKeeps

\* GRALLOC1_MODULE_PERFORM_ALLOCATE_BUFFER keeps the invariant.
LEMMA PerformKeeps ==
  ASSUME BooksInv, NEW c \in Clients, NEW h \in Handles, NEW d, NEW o, PerformAllocateBuffer(c, d, h, o)
  PROVE  BooksInv'
<1> DEFINE new == AllocateBuffer(d, o)
<1>1. Good(new) /\ (new.st = "live" => new.ref = 1)
  BY Zenon, AllocateGood
<1>2. /\ buf[h].st # "live" /\ buf' = [buf EXCEPT ![h] = new]
      /\ refs' = IF new.st = "live" THEN [refs EXCEPT ![h] = {c}] ELSE refs
      /\ UNCHANGED <<orphan, locked, call>>
  BY Zenon, NoBufGood DEF PerformAllocateBuffer
<1> HIDE DEF new
<1> QED
  BY Zenon, <1>1, <1>2, OneKeeps

\* Receiving a handle, and closing a received one, keep the invariant.
LEMMA ReceiveKeeps ==
  ASSUME BooksInv, NEW h \in Handles, Receive(h) \/ CloseReceived(h)
  PROVE  BooksInv'
<1>1. ASSUME NEW new, Good(new), new.st # "live", buf[h].st # "live", buf' = [buf EXCEPT ![h] = new],
             UNCHANGED <<refs, orphan, locked, call>>
      PROVE  BooksInv'
  <2>1. buf = [g \in Handles |-> buf[g]] /\ refs = [g \in Handles |-> refs[g]] /\ orphan' \subseteq Handles
    BY Zenon, <1>1 DEF BooksInv, TypeOK
  <2>2. refs[h] = {} /\ h \notin orphan
    BY Zenon, <1>1, Unused
  <2>3. \A g \in Handles : Places(g)
    BY Zenon, <1>1, <2>1, <2>2 DEF Places
  <2>4. buf' = [g \in Handles |-> buf'[g]] /\ refs' = [g \in Handles |-> refs'[g]]
    BY Zenon, <1>1, <2>1
  <2> QED
    BY Zenon, <1>1, <2>1, <2>3, <2>4, PlacesKeeps
<1>2. CASE Receive(h)
  <2>1. PICK b \in Received : buf' = [buf EXCEPT ![h] = b]
    BY Zenon, <1>2 DEF Receive
  <2>2. Good(b) /\ b.st # "live"
    <3> DEFINE b1 == [st |-> "raw", ref |-> 0, has |-> {"fd", "meta"}, open |-> {"fd", "meta"}, failed |-> FALSE,
                      flags |-> {"USES_ION", "CACHED", "NON_CPU_WRITER"}, twice |-> FALSE]
               b2 == [st |-> "raw", ref |-> 0, has |-> {"fd"}, open |-> {"fd"}, failed |-> FALSE,
                      flags |-> {"CLIENT_ALLOCATED"}, twice |-> FALSE]
    <3>1. b = b1 \/ b = b2
      BY ZenonT(60) DEF Received, NoBuf
    <3>2. b1 \in Bufs /\ Sound(b1) /\ Shape(b1) /\ b1.st # "live"
      BY Zenon DEF Bufs, Sound, Shape, Resources, Flags
    <3>3. b2 \in Bufs /\ Sound(b2) /\ Shape(b2) /\ b2.st # "live"
      BY Zenon DEF Bufs, Sound, Shape, Resources, Flags
    <3> QED
      BY Zenon, <3>1, <3>2, <3>3 DEF Good
  <2>3. buf[h].st # "live" /\ UNCHANGED <<refs, orphan, locked, call>>
    BY Zenon, <1>2, NoBufGood DEF Receive
  <2> QED
    BY Zenon, <2>1, <2>2, <2>3, <1>1
<1>3. CASE CloseReceived(h)
  <2>1. Incoming(buf[h])
    BY Zenon, <1>3, RawIncoming DEF CloseReceived, BooksInv, TypeOK, Good
  <2>2. CloseHandle(buf[h]) = NoBuf
    BY Zenon, <2>1, CloseGood
  <2> QED
    BY Zenon, <1>1, <1>3, <2>2, NoBufGood DEF CloseReceived
<1> QED
  BY Zenon, <1>2, <1>3

\* ImportBuffer keeps the invariant, whether or not ion takes the clone.
LEMMA ImportKeeps ==
  ASSUME BooksInv, NEW c \in Clients, NEW from \in Handles, NEW h \in Handles, NEW o, ImportBuffer(c, from, h, o)
  PROVE  BooksInv'
<1> DEFINE n == ImportHandleLocked(Cloned(buf[from]), o)
           new == IF n.st = "live" THEN n ELSE CloseHandle(n)
<1>1. Incoming(Cloned(buf[from]))
  BY Zenon, ClonedIncoming DEF BooksInv, TypeOK
<1>2. \/ Good(n) /\ n.st = "live" /\ n.ref = 1
      \/ Incoming(n)
  BY Zenon, <1>1, ImportGood
<1>3. /\ buf[h].st # "live" /\ buf' = [buf EXCEPT ![h] = new]
      /\ refs' = IF n.st = "live" THEN [refs EXCEPT ![h] = {c}] ELSE refs
      /\ UNCHANGED <<orphan, locked, call>>
  BY Zenon, NoBufGood DEF ImportBuffer
<1> HIDE DEF n
<1>4. Good(new) /\ (new.st = "live" => new.ref = 1) /\ (new.st = "live" <=> n.st = "live")
  BY Zenon, <1>2, CloseGood, NoBufGood DEF Incoming
<1> HIDE DEF new
<1> QED
  BY Zenon, <1>3, <1>4, OneKeeps

\* A step on one registered handle: only that handle is to be looked at.
LEMMA LocalKeeps ==
  ASSUME BooksInv, NEW h \in Handles, orphan' = orphan, TypeOK',
         \A g \in Handles \ {h} : /\ buf'[g] = buf[g] /\ refs'[g] = refs[g]
                                  /\ \A c \in Clients, m \in Modes \ {"none"} : (Held(c, g, m)' <=> Held(c, g, m)) /\ (Mapping(c, g)' <=> Mapping(c, g)),
         Good(buf'[h]),
         h \in orphan => buf'[h].st = "live" /\ refs'[h] = {} /\ buf'[h].ref = 1,
         h \notin orphan => (buf'[h].st = "live" <=> refs'[h] # {}) /\ buf'[h].ref = Cardinality(refs'[h]),
         Access(h)'
  PROVE  BooksInv'
<1>1. ASSUME NEW g \in Handles, g # h PROVE Access(g)'
  <2>1. Access(g)
    BY Zenon DEF BooksInv
  <2>2. /\ buf'[g] = buf[g] /\ refs'[g] = refs[g]
        /\ \A c \in Clients, m \in Modes \ {"none"} : (Held(c, g, m)' <=> Held(c, g, m)) /\ (Mapping(c, g)' <=> Mapping(c, g))
    BY Zenon, <1>1
  <2>3. \A c \in Clients : Mapping(c, g)' <=> Mapping(c, g)
    BY ZenonT(60), <2>2 DEF Modes
  <2> QED
    BY ZenonT(60), <2>1, <2>2, <2>3 DEF Access
<1>2. \A g \in Handles : Sound(buf[g])' /\ Shape(buf[g])' /\ Access(g)'
  BY Zenon, <1>1 DEF BooksInv, Good
<1>3. RefsCounted'
  <2>1. ASSUME NEW g \in Handles
        PROVE  /\ g \in orphan' => buf'[g].st = "live" /\ refs'[g] = {} /\ buf'[g].ref = 1
               /\ g \notin orphan' => /\ buf'[g].st = "live" <=> refs'[g] # {}
                                      /\ buf'[g].ref = Cardinality(refs'[g])
    <3>1. CASE g = h
      BY Zenon, <3>1
    <3>2. CASE g # h
      BY Zenon, <3>2 DEF BooksInv, RefsCounted
    <3> QED
      BY Zenon, <3>1, <3>2
  <2> QED
    BY Zenon, <2>1 DEF RefsCounted
<1> QED
  BY Zenon, <1>2, <1>3 DEF BooksInv

\* One more reference: the count and the owners grow together.
LEMMA RetainKeeps ==
  ASSUME BooksInv, NEW c \in Clients, NEW h \in Handles, NEW o, RetainBuffer(c, h, o)
  PROVE  BooksInv'
<1>1. CASE buf[h].st = "raw"
  <2> DEFINE n == ImportHandleLocked(buf[h], o)
  <2>1. Incoming(buf[h]) /\ buf[h].has \subseteq {"fd", "meta"}
    BY Zenon, <1>1, RawIncoming DEF BooksInv, TypeOK, Good, Shape
  <2>2. Good(n) /\ (n.st = "live" => n.ref = 1)
    BY Zenon, <2>1, ImportGood, RawIncoming DEF Incoming
  <2>3. buf' = [buf EXCEPT ![h] = n]
    BY Zenon, <1>1 DEF RetainBuffer
  <2>4. buf'[h] = n
    BY Zenon, <2>3 DEF BooksInv, TypeOK
  <2>5. /\ refs' = IF n.st = "live" THEN [refs EXCEPT ![h] = {c}] ELSE refs
        /\ UNCHANGED <<orphan, locked, call>>
    BY Zenon, <1>1, <2>4 DEF RetainBuffer
  <2> HIDE DEF n
  <2> QED
    BY Zenon, <1>1, <2>2, <2>3, <2>5, OneKeeps
<1>2. CASE buf[h].st = "live"
  <2>1. /\ refs[h] # {} /\ c \notin refs[h] /\ buf' = [buf EXCEPT ![h].ref = @ + 1]
        /\ refs' = [refs EXCEPT ![h] = @ \cup {c}] /\ UNCHANGED <<orphan, locked, call>>
    BY Zenon, <1>2 DEF RetainBuffer
  <2>2. buf \in [Handles -> Bufs] /\ refs \in [Handles -> SUBSET Clients]
    BY Zenon DEF BooksInv, TypeOK
  <2> DEFINE n == [buf[h] EXCEPT !.ref = @ + 1]
  <2>3. buf'[h] = n /\ refs'[h] = refs[h] \cup {c}
    BY Zenon, <2>1, <2>2
  <2>4. n \in Bufs /\ n.ref = buf[h].ref + 1 /\ n.st = "live" /\ n.has = buf[h].has /\ n.open = buf[h].open
        /\ n.failed = buf[h].failed /\ n.twice = buf[h].twice /\ n.flags = buf[h].flags
    <3>1. buf[h] \in Bufs /\ buf[h].ref + 1 \in Nat
      BY SMTT(30), <2>2 DEF Bufs
    <3> QED
      BY Zenon, <1>2, <3>1 DEF Bufs
  <2> HIDE DEF n
  <2>5. Good(n)
    BY Zenon, <1>2, <2>4 DEF Good, Sound, Shape, BooksInv
  <2>6. \A g \in Handles \ {h} : buf'[g] = buf[g] /\ refs'[g] = refs[g]
    BY Zenon, <2>1, <2>2
  <2>7. h \notin orphan /\ n.ref = Cardinality(refs'[h]) /\ refs'[h] # {}
    <3>1. h \notin orphan /\ buf[h].ref = Cardinality(refs[h])
      BY Zenon, <2>1 DEF BooksInv, RefsCounted
    <3>2. Cardinality(refs[h] \cup {c}) = Cardinality(refs[h]) + 1
      BY Zenon, <2>1, <2>2, RefsCard
    <3> QED
      BY Zenon, <2>3, <2>4, <3>1, <3>2
  <2>8. TypeOK'
    <3>1. buf' \in [Handles -> Bufs] /\ refs' \in [Handles -> SUBSET Clients]
      BY Zenon, <2>1, <2>2, <2>3, <2>4
    <3>2. \A g \in Handles : refs[g] \subseteq refs'[g]
      BY Zenon, <2>3, <2>6
    <3>3. ASSUME NEW d \in Clients PROVE CallOK(d)'
      <4>1. CallOK(d) /\ call' = call /\ locked' = locked
        BY Zenon, <2>1 DEF BooksInv, TypeOK
      <4>2. \A g \in Handles : d \in refs[g] => d \in refs'[g]
        BY Zenon, <3>2
      <4> QED
        BY Zenon, <4>1, <4>2 DEF CallOK, Mapping, Locking
    <3> QED
      BY Zenon, <2>1, <3>1, <3>3 DEF BooksInv, TypeOK
  <2>9. Access(h)'
    <3>1. Access(h)
      BY Zenon DEF BooksInv
    <3>2. \A d \in Clients, m \in Modes : (Held(d, h, m)' <=> Held(d, h, m)) /\ (Mapping(d, h)' <=> Mapping(d, h))
      BY Zenon, <2>1 DEF Held, Mapping
    <3> QED
      BY Zenon, <2>1, <2>3, <2>4, <3>1, <3>2 DEF Access, Modes
  <2>10. \A g \in Handles, d \in Clients, m \in Modes : (Held(d, g, m)' <=> Held(d, g, m)) /\ (Mapping(d, g)' <=> Mapping(d, g))
    BY Zenon, <2>1 DEF Held, Mapping
  <2> QED
    BY Zenon, <2>1, <2>3, <2>4, <2>5, <2>6, <2>7, <2>8, <2>9, <2>10, LocalKeeps
<1> QED
  BY Zenon, <1>1, <1>2 DEF RetainBuffer

\* One reference less; the last one frees the handle, and its owner was the last to use it.
LEMMA ReleaseKeeps ==
  ASSUME BooksInv, NEW c \in Clients, NEW h \in Handles, ReleaseBuffer(c, h)
  PROVE  BooksInv'
<1>1. /\ call[c] = Idle /\ buf[h].st = "live" /\ c \in refs[h] /\ locked[h][c] = "none"
      /\ refs' = [refs EXCEPT ![h] = @ \ {c}] /\ UNCHANGED <<orphan, locked, call>>
  BY Zenon DEF ReleaseBuffer
<1>2. buf \in [Handles -> Bufs] /\ refs \in [Handles -> SUBSET Clients]
  BY Zenon DEF BooksInv, TypeOK
<1>3. /\ refs'[h] = refs[h] \ {c} /\ \A g \in Handles \ {h} : refs'[g] = refs[g]
      /\ refs' \in [Handles -> SUBSET Clients]
  BY Zenon, <1>1, <1>2
<1>4. h \notin orphan /\ buf[h].ref = Cardinality(refs[h])
  BY Zenon, <1>1 DEF BooksInv, RefsCounted
<1>5. Cardinality(refs'[h]) = buf[h].ref - 1 /\ (buf[h].ref = 1 <=> refs'[h] = {})
  <2>1. refs[h] \in SUBSET Clients /\ refs[h] \ {c} \in SUBSET Clients
    BY Zenon, <1>2
  <2>2. Cardinality(refs[h] \ {c}) = Cardinality(refs[h]) - 1
    BY Zenon, <1>1, <2>1, RefsCard
  <2>3. Cardinality(refs[h] \ {c}) = 0 <=> refs[h] \ {c} = {}
    BY Zenon, <2>1, RefsCard
  <2>4. Cardinality(refs[h]) \in Nat
    BY Zenon, <2>1, RefsCard
  <2> QED
    BY SMTT(30), <1>3, <1>4, <2>2, <2>3, <2>4
<1>6. \A g \in Handles, d \in Clients, m \in Modes : (Held(d, g, m)' <=> Held(d, g, m)) /\ (Mapping(d, g)' <=> Mapping(d, g))
  BY Zenon, <1>1 DEF Held, Mapping
<1>7. \A m \in Modes \ {"none"} : ~Held(c, h, m) /\ ~Mapping(c, h)
  BY SMTT(30), <1>1 DEF Held, Idle, Mapping
<1>8. ASSUME NEW d \in Clients
      PROVE  CallOK(d)'
  <2>1. CASE d = c
    BY Zenon, <1>1, <2>1 DEF CallOK, Mapping, Locking
  <2>2. CASE d # c
    <3>1. \A g \in Handles : d \in refs[g] => d \in refs'[g]
      BY Zenon, <1>3, <2>2
    <3> QED
      BY ZenonT(60), <1>1, <3>1 DEF BooksInv, TypeOK, CallOK, Mapping, Locking
  <2> QED
    BY Zenon, <2>1, <2>2
<1>9. Access(h)
  BY Zenon DEF BooksInv
<1>10. CASE buf[h].ref = 1
  <2> DEFINE n == FreeBuffer(buf[h])
  <2>1. buf' = [buf EXCEPT ![h] = n]
    BY Zenon, <1>10 DEF ReleaseBuffer
  <2>2. Good(n) /\ n.st # "live" /\ n.ref = 0
    BY Zenon, <1>1, <1>2, FreeGood DEF BooksInv, Good
  <2> HIDE DEF n
  <2>3. buf'[h] = n /\ \A g \in Handles \ {h} : buf'[g] = buf[g]
    BY Zenon, <1>2, <2>1
  <2>4. TypeOK'
    <3>1. buf' \in [Handles -> Bufs]
      BY Zenon, <1>2, <2>1, <2>2 DEF Good
    <3> QED
      BY Zenon, <1>1, <1>3, <1>8, <3>1 DEF BooksInv, TypeOK
  <2>5. \A d \in Clients, m \in Modes \ {"none"} : ~Held(d, h, m)' /\ ~Mapping(d, h)'
    <3>1. \A d \in Clients, m \in Modes \ {"none"} : (Held(d, h, m) \/ Mapping(d, h)) => d \in refs[h]
      BY Zenon, <1>9 DEF Access
    <3> QED
      BY ZenonT(60), <1>3, <1>5, <1>6, <1>7, <1>10, <3>1 DEF Modes
  <2>6. Access(h)'
    <3>1. \A d \in Clients : ~Mapping(d, h)'
      BY SMTT(30), <2>5 DEF Modes
    <3> QED
      BY Zenon, <2>5, <3>1 DEF Access
  <2>7. refs'[h] = {} /\ Cardinality(refs'[h]) = 0
    BY Zenon, <1>5, <1>10, FS_EmptySet
  <2> QED
    BY Zenon, <1>1, <1>3, <1>4, <1>6, <2>2, <2>3, <2>4, <2>6, <2>7, LocalKeeps
<1>11. CASE buf[h].ref # 1
  <2> DEFINE n == [buf[h] EXCEPT !.ref = @ - 1]
  <2>1. buf' = [buf EXCEPT ![h] = n]
    BY Zenon, <1>11 DEF ReleaseBuffer
  <2>2. buf[h].ref - 1 \in Nat
    <3>1. Cardinality(refs'[h]) \in Nat
      BY Zenon, <1>3, RefsCard
    <3> QED
      BY Zenon, <1>5, <3>1
  <2>3. n \in Bufs /\ n.ref = buf[h].ref - 1 /\ n.st = "live" /\ n.has = buf[h].has /\ n.open = buf[h].open
        /\ n.failed = buf[h].failed /\ n.twice = buf[h].twice /\ n.flags = buf[h].flags
    BY ZenonT(60), <1>1, <1>2, <2>2 DEF Bufs
  <2> HIDE DEF n
  <2>4. buf'[h] = n /\ \A g \in Handles \ {h} : buf'[g] = buf[g]
    BY Zenon, <1>2, <2>1
  <2>5. Good(n)
    BY ZenonT(60), <1>1, <2>3 DEF Good, Sound, Shape, BooksInv
  <2>6. TypeOK'
    <3>1. buf' \in [Handles -> Bufs]
      BY Zenon, <1>2, <2>1, <2>3
    <3> QED
      BY ZenonT(60), <1>1, <1>2, <1>3, <1>8, <2>1, <3>1 DEF BooksInv, TypeOK
  <2>7. Access(h)'
    <3>1. \A d \in Clients, m \in Modes \ {"none"} :
            /\ Held(d, h, m)' => d \in refs'[h] /\ ("map" \in n.has \/ n.failed)
            /\ Mapping(d, h)' => d \in refs'[h] /\ "meta" \in n.has
      BY ZenonT(60), <1>3, <1>6, <1>7, <1>9, <2>3 DEF Access
    <3>4. \A d \in Clients : Mapping(d, h)' => d \in refs'[h] /\ "meta" \in n.has
      BY SMTT(30), <3>1 DEF Modes
    <3> QED
      BY Zenon, <1>9, <2>1, <2>3, <2>4, <3>1, <3>4 DEF Access
  <2>8. refs'[h] # {}
    BY Zenon, <1>5, <1>11
  <2> QED
    BY Zenon, <1>1, <1>3, <1>4, <1>5, <1>6, <2>1, <2>3, <2>4, <2>5, <2>6, <2>7, <2>8, LocalKeeps
<1> QED
  BY Zenon, <1>10, <1>11

\* The metadata of a buffer a client owns gets a mapping; nothing is forgotten but the mapping it replaces.
LEMMA MetaKeeps ==
  ASSUME BooksInv, NEW c \in Clients, (\E h \in Handles : MapMetaData(c, h)) \/ StoreMetaData(c)
  PROVE  BooksInv'
<1>1. /\ buf \in [Handles -> Bufs] /\ refs \in [Handles -> SUBSET Clients]
      /\ \A d \in Clients : CallOK(d)
  BY Zenon DEF BooksInv, TypeOK
<1>2. UNCHANGED <<refs, orphan, locked>>
  BY Zenon DEF MapMetaData, StoreMetaData
<1>3. ASSUME NEW h \in Handles, MapMetaData(c, h) PROVE BooksInv'
  <2>1. /\ call[c] = Idle /\ c \in refs[h] /\ call' = [call EXCEPT ![c] = [op |-> "meta", h |-> h]]
        /\ buf' = buf
    BY Zenon, <1>3 DEF MapMetaData
  <2>2. \A d \in Clients : d # c => call'[d] = call[d]
    BY SMTT(30), <2>1
  <2>3. TypeOK'
    <3>1. ASSUME NEW d \in Clients
          PROVE  CallOK(d)'
      <4>1. CASE d # c
        BY ZenonT(60), <1>1, <1>2, <2>2, <4>1 DEF CallOK, Mapping, Locking
      <4>2. CASE d = c
        <5>1. call'[c] = [op |-> "meta", h |-> h] \/ call'[c] = call[c]
          BY SMTT(30), <2>1
        <5> QED
          BY Zenon, <1>2, <2>1, <4>2, <5>1 DEF CallOK, Mapping, Locking
      <4> QED
        BY Zenon, <4>1, <4>2
    <3> QED
      BY Zenon, <1>2, <2>1, <3>1 DEF BooksInv, TypeOK
  <2>4. ASSUME NEW g \in Handles, NEW d \in Clients, NEW m \in Modes
        PROVE  (Held(d, g, m)' <=> Held(d, g, m)) /\ (g # h => (Mapping(d, g)' <=> Mapping(d, g)))
    <3>1. call'[c] = [op |-> "meta", h |-> h] \/ call'[c] = call[c]
      BY SMTT(30), <2>1
    <3> QED
      BY SMTT(30), <1>2, <2>1, <2>2, <3>1 DEF Held, Idle, Mapping
  <2>5. Access(h)'
    <3>1. Access(h)
      BY Zenon DEF BooksInv
    <3>3. ASSUME NEW d \in Clients, Mapping(d, h)' PROVE d \in refs[h] /\ "meta" \in buf[h].has
      <4>1. CASE d = c
        BY Zenon, <1>3, <4>1 DEF MapMetaData
      <4>2. CASE d # c
        BY Zenon, <2>2, <3>1, <3>3, <4>2 DEF Access, Mapping
      <4> QED
        BY Zenon, <4>1, <4>2
    <3> QED
      BY Zenon, <1>2, <2>1, <2>4, <3>1, <3>3 DEF Access
  <2>6. /\ Good(buf'[h]) /\ buf' = buf /\ refs' = refs /\ orphan' = orphan
        /\ h \in orphan => buf[h].st = "live" /\ refs[h] = {} /\ buf[h].ref = 1
        /\ h \notin orphan => (buf[h].st = "live" <=> refs[h] # {}) /\ buf[h].ref = Cardinality(refs[h])
    BY Zenon, <1>2, <2>1 DEF BooksInv, RefsCounted, TypeOK, Good
  <2> QED
    BY Zenon, <2>3, <2>4, <2>5, <2>6, LocalKeeps
<1>4. CASE StoreMetaData(c)
  <2>0. PICK h \in Handles : c \in refs[h] /\ call[c] = [op |-> "meta", h |-> h]
    <3>1. call[c].op = "meta"
      BY Zenon, <1>4 DEF StoreMetaData
    <3>2. call[c] # Idle /\ \A g \in Handles, m \in Modes : call[c] # [op |-> "lock", h |-> g, mode |-> m]
      BY SMTT(30), <3>1 DEF Idle
    <3> QED
      BY Zenon, <1>1, <3>2 DEF CallOK, Mapping, Locking
  <2>1. c \in refs[h] /\ call[c].h = h /\ call[c].op = "meta" /\ call[c] # Idle
    BY SMTT(30), <2>0 DEF Idle
  <2> DEFINE n == [buf[h] EXCEPT !.has = @ \cup {"mapmeta"}, !.open = @ \cup {"mapmeta"}]
  <2>2. /\ buf' = [buf EXCEPT ![h] = n] /\ call' = [call EXCEPT ![c] = Idle]
    <3>1. buf' = [buf EXCEPT ![h].has = @ \cup {"mapmeta"}, ![h].open = @ \cup {"mapmeta"}]
      BY Zenon, <1>4, <2>1 DEF StoreMetaData
    <3>2. buf' = [buf EXCEPT ![h] = n]
      BY Zenon, <1>1, <3>1 DEF Bufs
    <3> QED
      BY Zenon, <1>4, <2>1, <3>2 DEF StoreMetaData
  <2>3. /\ n \in Bufs /\ n.has = buf[h].has \cup {"mapmeta"} /\ n.open = buf[h].open \cup {"mapmeta"}
        /\ n.st = buf[h].st /\ n.ref = buf[h].ref /\ n.failed = buf[h].failed /\ n.flags = buf[h].flags
        /\ n.twice = buf[h].twice
    <3>1. buf[h].has \cup {"mapmeta"} \in SUBSET Resources /\ buf[h].open \cup {"mapmeta"} \in SUBSET Resources
      BY Zenon, <1>1 DEF Bufs, Resources
    <3>2. buf[h] \in Bufs
      BY Zenon, <1>1
    <3>3. n \in Bufs
      BY Zenon, <3>1, <3>2 DEF Bufs
    <3> QED
      BY Zenon, <3>2, <3>3 DEF Bufs
  <2> HIDE DEF n
  <2>4. buf'[h] = n /\ \A g \in Handles \ {h} : buf'[g] = buf[g]
    BY Zenon, <1>1, <2>2
  <2>5. buf[h].st = "live" /\ h \notin orphan /\ buf[h].ref = Cardinality(refs[h]) /\ refs[h] # {}
    BY Zenon, <2>1 DEF BooksInv, RefsCounted
  <2>6. Access(h) /\ "meta" \in buf[h].has
    <3>1. Access(h)
      BY Zenon DEF BooksInv
    <3>2. Mapping(c, h)
      BY Zenon, <2>0 DEF Mapping
    <3> QED
      BY Zenon, <3>1, <3>2 DEF Access
  <2>7. Good(n)
    <3>1. Sound(buf[h]) /\ Shape(buf[h])
      BY Zenon DEF BooksInv
    <3> QED
      BY Zenon, <2>3, <2>5, <2>6, <3>1 DEF Good, Sound, Shape
  <2>8. ASSUME NEW d \in Clients PROVE call'[d] = call[d] \/ (d = c /\ call'[d] = Idle)
    BY SMTT(30), <2>2
  <2>9. ASSUME NEW g \in Handles, NEW d \in Clients, NEW m \in Modes
        PROVE  (Held(d, g, m)' <=> Held(d, g, m)) /\ (Mapping(d, g)' => Mapping(d, g)) /\ (g # h => (Mapping(d, g)' <=> Mapping(d, g)))
    BY SMTT(30), <1>2, <2>1, <2>8 DEF Held, Mapping, Idle
  <2>10. TypeOK'
    <3>1. buf' \in [Handles -> Bufs]
      BY Zenon, <1>1, <2>2, <2>3
    <3>2. \A d \in Clients : CallOK(d)'
      BY ZenonT(60), <1>1, <1>2, <2>8 DEF CallOK, Mapping, Locking
    <3>3. call' = [d \in Clients |-> call'[d]]
      BY Zenon, <2>2 DEF BooksInv, TypeOK
    <3> QED
      BY Zenon, <1>2, <3>1, <3>2, <3>3 DEF BooksInv, TypeOK
  <2>11. Access(h)'
    <3>1. \A d \in Clients : Mapping(d, h)' => Mapping(d, h)
      BY Zenon, <2>9 DEF Modes
    <3> QED
      BY Zenon, <1>2, <2>3, <2>4, <2>6, <2>9, <3>1 DEF Access
  <2> QED
    BY Zenon, <1>2, <2>3, <2>4, <2>5, <2>7, <2>9, <2>10, <2>11, LocalKeeps
<1> QED
  BY Zenon, <1>3, <1>4

\* A lock maps the buffer or finds it mapped before its mode counts, and clears stale lines before a reader's does.
LEMMA LockKeeps ==
  ASSUME BooksInv, NEW c \in Clients, NEW h \in Handles, NEW u, NEW unmapped \in BOOLEAN, NEW unclean \in BOOLEAN,
         LockBuffer(c, h, u, unmapped, unclean)
  PROVE  BooksInv'
<1> DEFINE b == buf[h]
           map == ~b.failed /\ "map" \notin b.has
           err == map /\ unmapped
           invalidate == /\ ~err /\ Invalidating \subseteq b.flags
                         /\ u.cons \cap {"CPU_READ", "CPU_READ_OFTEN"} # {}
           ok == ~err /\ ~(invalidate /\ unclean)
           mapped == IF err THEN [b EXCEPT !.failed = TRUE]
                     ELSE IF map THEN [b EXCEPT !.has = @ \cup {"map"}, !.open = @ \cup {"map"}] ELSE b
           n == IF ok /\ CpuCanWrite(u.prod) THEN [mapped EXCEPT !.flags = @ \cup {"NEEDS_FLUSH"}] ELSE mapped
           mode == IF ok THEN Mode(u) ELSE "none"
<1>1. /\ call[c] = Idle /\ b.st = "live" /\ c \in refs[h] /\ locked[h][c] = "none"
      /\ buf' = [buf EXCEPT ![h] = n] /\ call' = [call EXCEPT ![c] = [op |-> "lock", h |-> h, mode |-> mode]]
      /\ UNCHANGED <<refs, orphan, locked>>
  BY Zenon DEF LockBuffer
<1>2. b \in Bufs /\ buf \in [Handles -> Bufs] /\ refs \in [Handles -> SUBSET Clients]
  BY Zenon DEF BooksInv, TypeOK
<1>3. Access(h) /\ Sound(b) /\ Shape(b) /\ h \notin orphan /\ b.ref = Cardinality(refs[h])
  BY Zenon, <1>1 DEF BooksInv, RefsCounted
<1>4. /\ mapped \in Bufs /\ mapped.st = b.st /\ mapped.ref = b.ref /\ mapped.flags = b.flags /\ mapped.twice = b.twice
      /\ b.has \subseteq mapped.has /\ mapped.has \subseteq b.has \cup {"map"} /\ mapped.open = mapped.has
      /\ b.failed => mapped.failed
      /\ ~err => "map" \in mapped.has \/ mapped.failed
  <2>1. b.open = b.has
    BY Zenon, <1>1, <1>3 DEF Sound
  <2>2. CASE err
    <3>1. mapped = [b EXCEPT !.failed = TRUE] /\ TRUE \in BOOLEAN
      BY Zenon, <2>2
    <3> QED
      BY Zenon, <1>2, <2>1, <2>2, <3>1 DEF Bufs
  <2>3. CASE ~err /\ map
    <3>1. mapped = [b EXCEPT !.has = @ \cup {"map"}, !.open = @ \cup {"map"}]
      BY Zenon, <2>3
    <3>2. b.has \cup {"map"} \in SUBSET Resources /\ b.open \cup {"map"} \in SUBSET Resources
      BY Zenon, <1>2 DEF Bufs, Resources
    <3>3. mapped \in Bufs
      BY Zenon, <1>2, <3>1, <3>2 DEF Bufs
    <3> QED
      BY Zenon, <1>2, <2>1, <3>1, <3>3 DEF Bufs
  <2>4. CASE ~err /\ ~map
    BY Zenon, <1>2, <2>1, <2>4
  <2> HIDE DEF mapped, err, map
  <2> QED
    BY Zenon, <2>2, <2>3, <2>4
<1> HIDE DEF mapped
<1>5. /\ n \in Bufs /\ n.st = b.st /\ n.ref = b.ref /\ n.twice = b.twice /\ n.has = mapped.has /\ n.open = n.has
      /\ n.failed = mapped.failed /\ b.flags \subseteq n.flags /\ ("USES_ION" \in n.flags <=> "USES_ION" \in b.flags)
      /\ ok /\ CpuCanWrite(u.prod) => "NEEDS_FLUSH" \in n.flags
  <2>1. CASE ok /\ CpuCanWrite(u.prod)
    <3>1. n = [mapped EXCEPT !.flags = @ \cup {"NEEDS_FLUSH"}]
      BY Zenon, <2>1
    <3>2. mapped.flags \cup {"NEEDS_FLUSH"} \in SUBSET Flags
      BY Zenon, <1>4 DEF Bufs, Flags
    <3>3. n \in Bufs
      BY Zenon, <1>4, <3>1, <3>2 DEF Bufs
    <3> QED
      BY Zenon, <1>4, <3>1, <3>3 DEF Bufs
  <2>2. CASE ~(ok /\ CpuCanWrite(u.prod))
    <3>1. n = mapped
      BY Zenon, <2>2
    <3> HIDE DEF n, ok
    <3> QED
      BY Zenon, <1>4, <2>2, <3>1
  <2> HIDE DEF n, ok
  <2> QED
    BY Zenon, <2>1, <2>2
<1>7. mode \in Modes
  BY Zenon DEF Mode, Modes
<1>8. mode # "none" => ok /\ ("map" \in n.has \/ n.failed)
  <2> HIDE DEF n
  <2> QED
    BY Zenon, <1>4, <1>5
<1> HIDE DEF n, mode, ok, err, invalidate, map
<1>11. buf'[h] = n /\ \A g \in Handles \ {h} : buf'[g] = buf[g]
  BY Zenon, <1>1, <1>2
<1>12. Good(n)
  <2>1. "fd" \notin n.has => "USES_ION" \notin n.flags
    BY Zenon, <1>1, <1>3, <1>4, <1>5 DEF Sound
  <2>2. "meta" \notin n.has => n.has \cap {"mapmeta", "ionmeta"} = {}
    BY Zenon, <1>1, <1>3, <1>4, <1>5 DEF Shape
  <2> QED
    BY Zenon, <1>1, <1>3, <1>5, <2>1, <2>2 DEF Good, Sound, Shape
<1>13. ASSUME NEW d \in Clients
       PROVE call'[d] = call[d] \/ (d = c /\ call'[d] = [op |-> "lock", h |-> h, mode |-> mode])
  BY SMTT(30), <1>1
<1>14. ASSUME NEW g \in Handles, NEW d \in Clients, NEW m \in Modes \ {"none"}
       PROVE  /\ Mapping(d, g)' => Mapping(d, g)
              /\ Held(d, g, m)' => Held(d, g, m) \/ (g = h /\ d = c /\ m = mode)
              /\ Held(d, g, m) => Held(d, g, m)'
              /\ g # h => (Held(d, g, m)' <=> Held(d, g, m)) /\ (Mapping(d, g)' <=> Mapping(d, g))
  BY SMTT(30), <1>1, <1>13 DEF Held, Mapping, Idle
<1>15. TypeOK'
  <2>1. buf' \in [Handles -> Bufs]
    BY ZenonT(60), <1>1, <1>2, <1>5
  <2>2. ASSUME NEW d \in Clients PROVE CallOK(d)'
    <3>1. CallOK(d)
      BY Zenon DEF BooksInv, TypeOK
    <3>2. CASE call'[d] = call[d]
      BY Zenon, <1>1, <3>1, <3>2 DEF CallOK, Mapping, Locking
    <3>3. CASE d = c /\ call'[d] = [op |-> "lock", h |-> h, mode |-> mode]
      BY Zenon, <1>1, <1>7, <3>3 DEF CallOK, Locking
    <3> QED
      BY Zenon, <1>13, <3>2, <3>3
  <2> QED
    BY Zenon, <1>1, <2>1, <2>2 DEF BooksInv, TypeOK
<1>16. Access(h)'
  <2>0. "read" \in Modes \ {"none"}
    BY Zenon DEF Modes
  <2>1. \A d \in Clients : Mapping(d, h)' => d \in refs[h] /\ "meta" \in n.has
    BY Zenon, <1>3, <1>4, <1>5, <1>14, <2>0 DEF Access
  <2>2. \A d \in Clients, m \in Modes \ {"none"} : Held(d, h, m)' => d \in refs[h] /\ ("map" \in n.has \/ n.failed)
    BY Zenon, <1>1, <1>3, <1>4, <1>5, <1>8, <1>14 DEF Access
  <2>3. refs' = refs /\ buf'[h] = n
    BY Zenon, <1>1, <1>11
  <2> QED
    BY Zenon, <2>1, <2>2, <2>3 DEF Access
<1> QED
  BY Zenon, <1>1, <1>3, <1>5, <1>11, <1>12, <1>14, <1>15, <1>16, LocalKeeps

\* The lock returns to its client: the client holds what it was about to hold.
LEMMA LockReturnsKeeps ==
  ASSUME BooksInv, NEW c \in Clients, LockReturns(c)
  PROVE  BooksInv'
<1>1. PICK h \in Handles : c \in refs[h] /\ Locking(c, h)
  <2>1. CallOK(c) /\ call[c].op = "lock"
    BY Zenon DEF BooksInv, TypeOK, LockReturns
  <2>2. call[c] # Idle /\ \A g \in Handles : ~Mapping(c, g)
    BY SMTT(30), <2>1 DEF Mapping, Idle
  <2> QED
    BY Zenon, <2>1, <2>2 DEF CallOK
<1>2. PICK mode \in Modes : call[c] = [op |-> "lock", h |-> h, mode |-> mode]
  BY Zenon, <1>1 DEF Locking
<1>3. /\ locked[h][c] = "none" /\ call[c].h = h /\ call[c].mode = mode
      /\ locked \in [Handles -> [Clients -> Modes]]
  BY SMTT(30), <1>1, <1>2 DEF Locking, BooksInv, TypeOK
<1>4. /\ locked' = [locked EXCEPT ![h][c] = mode] /\ call' = [call EXCEPT ![c] = Idle]
      /\ UNCHANGED <<buf, refs, orphan>>
  BY Zenon, <1>3 DEF LockReturns
<1>5. /\ locked' \in [Handles -> [Clients -> Modes]] /\ locked'[h][c] = mode
      /\ \A g \in Handles, d \in Clients : g # h \/ d # c => locked'[g][d] = locked[g][d]
  BY Zenon, <1>3, <1>4
<1>6. ASSUME NEW d \in Clients PROVE call'[d] = call[d] \/ (d = c /\ call'[d] = Idle)
  BY SMTT(30), <1>4
<1>7. \A d \in Clients : d # c => call'[d] = call[d]
  BY SMTT(30), <1>4
<1>8. call'[c] = Idle /\ call' = [d \in Clients |-> call'[d]]
  <2>1. call = [d \in Clients |-> call[d]]
    BY Zenon DEF BooksInv, TypeOK
  <2> QED
    BY Zenon, <1>4, <2>1
<1>9. ASSUME NEW g \in Handles, NEW d \in Clients, NEW m \in Modes \ {"none"}
      PROVE  /\ Held(d, g, m)' <=> Held(d, g, m)
             /\ Mapping(d, g)' <=> Mapping(d, g)
  <2>1. CASE d # c
    BY Zenon, <1>5, <1>7, <2>1 DEF Held, Mapping
  <2>2. CASE d = c
    <3>1. Mapping(c, g)' <=> Mapping(c, g)
      BY SMTT(30), <1>2, <1>6, <2>2 DEF Mapping, Idle
    <3>2. CASE g = h
      BY SMTT(30), <1>2, <1>3, <1>5, <1>6, <2>2, <3>1, <3>2 DEF Held, Idle
    <3>3. CASE g # h
      BY SMTT(30), <1>2, <1>5, <1>6, <2>2, <3>1, <3>3 DEF Held, Idle
    <3> QED
      BY Zenon, <2>2, <3>2, <3>3
  <2> QED
    BY Zenon, <2>1, <2>2
<1>10. TypeOK'
  <2>1. ASSUME NEW d \in Clients, d # c PROVE CallOK(d)'
    <3>1. CallOK(d)
      BY Zenon DEF BooksInv, TypeOK
    <3>2. call'[d] = call[d] /\ refs' = refs /\ \A g \in Handles : locked'[g][d] = locked[g][d]
      BY ZenonT(60), <1>4, <1>5, <1>7, <2>1
    <3> QED
      BY ZenonT(60), <3>1, <3>2 DEF CallOK, Mapping, Locking
  <2>2. CallOK(c)'
    BY Zenon, <1>8 DEF CallOK
  <2> QED
    BY Zenon, <1>4, <1>5, <1>8, <2>1, <2>2 DEF BooksInv, TypeOK
<1>11. Access(h)'
  <2>1. Access(h)
    BY Zenon DEF BooksInv
  <2>2. \A d \in Clients : Mapping(d, h)' <=> Mapping(d, h)
    BY Zenon, <1>9 DEF Modes
  <2> QED
    BY ZenonT(60), <1>4, <1>9, <2>1, <2>2 DEF Access
<1>12. /\ Good(buf'[h]) /\ buf' = buf /\ refs' = refs /\ orphan' = orphan
       /\ h \in orphan => buf[h].st = "live" /\ refs[h] = {} /\ buf[h].ref = 1
       /\ h \notin orphan => (buf[h].st = "live" <=> refs[h] # {}) /\ buf[h].ref = Cardinality(refs[h])
  BY ZenonT(60), <1>4 DEF BooksInv, RefsCounted, TypeOK, Good
<1> QED
  BY Zenon, <1>9, <1>10, <1>11, <1>12, LocalKeeps

\* An unlock flushes what was written, or excuses what another writer or a failed flush leaves.
LEMMA UnlockKeeps ==
  ASSUME BooksInv, NEW c \in Clients, NEW h \in Handles, NEW unclean \in BOOLEAN, UnlockBuffer(c, h, unclean)
  PROVE  BooksInv'
<1> DEFINE n == [buf[h] EXCEPT !.flags = @ \ {"NEEDS_FLUSH"}]
<1>1. /\ call[c] = Idle /\ locked[h][c] # "none" /\ locked' = [locked EXCEPT ![h][c] = "none"]
      /\ buf' = [buf EXCEPT ![h] = n] /\ UNCHANGED <<refs, orphan, call>>
  <2>1. buf' = [buf EXCEPT ![h].flags = @ \ {"NEEDS_FLUSH"}]
    BY Zenon DEF UnlockBuffer
  <2>2. buf' = [buf EXCEPT ![h] = n]
    BY Zenon, <2>1
  <2> QED
    BY Zenon, <2>2 DEF UnlockBuffer
<1>2. buf \in [Handles -> Bufs] /\ locked \in [Handles -> [Clients -> Modes]]
  BY Zenon DEF BooksInv, TypeOK
<1>3. Access(h) /\ Sound(buf[h]) /\ Shape(buf[h])
  BY Zenon DEF BooksInv
<1>4. c \in refs[h]
  <2>1. Held(c, h, locked[h][c]) /\ locked[h][c] \in Modes \ {"none"}
    BY Zenon, <1>1, <1>2 DEF Held
  <2> QED
    BY Zenon, <1>3, <2>1 DEF Access
<1>5. buf[h].st = "live" /\ h \notin orphan /\ buf[h].ref = Cardinality(refs[h]) /\ refs[h] # {}
  BY Zenon, <1>4 DEF BooksInv, RefsCounted
<1>6. /\ n \in Bufs /\ n.st = buf[h].st /\ n.ref = buf[h].ref /\ n.has = buf[h].has /\ n.open = buf[h].open
      /\ n.failed = buf[h].failed /\ n.twice = buf[h].twice /\ n.flags = buf[h].flags \ {"NEEDS_FLUSH"}
  <2>1. buf[h] \in Bufs /\ buf[h].flags \ {"NEEDS_FLUSH"} \in SUBSET Flags
    BY Zenon, <1>2 DEF Bufs
  <2> QED
    BY Zenon, <2>1 DEF Bufs
<1> HIDE DEF n
<1>8. /\ buf'[h] = n /\ locked'[h][c] = "none" /\ locked' \in [Handles -> [Clients -> Modes]]
      /\ \A g \in Handles \ {h} : buf'[g] = buf[g]
      /\ \A g \in Handles, d \in Clients : g # h \/ d # c => locked'[g][d] = locked[g][d]
  BY Zenon, <1>1, <1>2 DEF Modes
<1>9. ASSUME NEW g \in Handles, NEW d \in Clients, NEW m \in Modes \ {"none"}
      PROVE  /\ g # h \/ d # c => (Held(d, g, m)' <=> Held(d, g, m))
             /\ Mapping(d, g)' <=> Mapping(d, g)
             /\ ~Held(c, h, m)'
  BY SMTT(30), <1>1, <1>8 DEF Held, Mapping, Idle
<1>10. TypeOK'
  <2>1. buf' \in [Handles -> Bufs]
    BY Zenon, <1>1, <1>2, <1>6
  <2>2. ASSUME NEW d \in Clients PROVE CallOK(d)'
    <3>1. CallOK(d) /\ call' = call /\ refs' = refs
      BY Zenon, <1>1 DEF BooksInv, TypeOK
    <3>2. \A g \in Handles : locked[g][d] = "none" => locked'[g][d] = "none"
      BY Zenon, <1>8
    <3> QED
      BY Zenon, <3>1, <3>2 DEF CallOK, Mapping, Locking
  <2> QED
    BY Zenon, <1>1, <1>8, <2>1, <2>2 DEF BooksInv, TypeOK
<1>11. Good(n)
  BY Zenon, <1>3, <1>6 DEF Good, Sound, Shape
<1>12. Access(h)'
  <2>1. ASSUME NEW d \in Clients, Mapping(d, h)' PROVE d \in refs[h] /\ "meta" \in n.has
    <3>1. Mapping(d, h)
      BY ZenonT(60), <1>9, <2>1 DEF Modes
    <3>2. d \in refs[h] /\ "meta" \in buf[h].has
      BY Zenon, <1>3, <3>1 DEF Access
    <3> QED
      BY Zenon, <1>6, <3>2
  <2>2. \A d \in Clients, m \in Modes \ {"none"} : Held(d, h, m)' => d \in refs[h] /\ ("map" \in n.has \/ n.failed)
    BY Zenon, <1>3, <1>6, <1>9 DEF Access
  <2> QED
    BY ZenonT(60), <1>1, <1>5, <1>6, <1>8, <2>1, <2>2 DEF Access
<1> QED
  BY ZenonT(60), <1>1, <1>5, <1>6, <1>8, <1>9, <1>10, <1>11, <1>12, LocalKeeps
-----------------------------------------------------------------------------
\* The HAL starts with no descriptors and no handles, which satisfies the invariant.
LEMMA InitBooks == Init => BooksInv
<1> SUFFICES ASSUME Init PROVE BooksInv
  BY Zenon
<1>1. NoBuf \in Bufs /\ Sound(NoBuf) /\ Shape(NoBuf) /\ NoBuf.st = "none" /\ NoBuf.ref = 0 /\ NoBuf.has = {}
  BY Zenon, NoBufGood DEF Good, NoBuf
<1>3. TypeOK
  <2>1. /\ buf \in [Handles -> Bufs] /\ refs \in [Handles -> SUBSET Clients] /\ orphan \subseteq Handles
        /\ locked \in [Handles -> [Clients -> Modes]]
    BY Zenon, <1>1 DEF Init, Modes
  <2>3. call = [c \in Clients |-> call[c]] /\ \A c \in Clients : CallOK(c)
    BY Zenon DEF Init, CallOK
  <2> QED
    BY Zenon, <2>1, <2>3 DEF TypeOK
<1>4. RefsCounted
  BY Zenon, <1>1, FS_EmptySet DEF Init, RefsCounted
<1>5. \A h \in Handles : Sound(buf[h]) /\ Shape(buf[h])
  BY Zenon, <1>1 DEF Init
<1>6. \A h \in Handles, c \in Clients : ~Mapping(c, h) /\ \A m \in Modes \ {"none"} : ~Held(c, h, m)
  BY Zenon DEF Init, Mapping, Held, Idle
<1>7. \A h \in Handles : Access(h)
  BY Zenon, <1>6 DEF Access, Modes
<1> QED
  BY Zenon, <1>3, <1>4, <1>5, <1>7 DEF BooksInv

\* Steps that leave buffers, owners, locks and cache alone.
LEMMA StutterKeeps ==
  ASSUME BooksInv, UNCHANGED <<buf, refs, orphan, locked, call>>
  PROVE  BooksInv'
<1>1. TypeOK' /\ RefsCounted'
  BY SMTT(30) DEF BooksInv, TypeOK, RefsCounted, CallOK, Mapping, Locking
<1>2. \A h \in Handles : Sound(buf[h])' /\ Shape(buf[h])' /\ Access(h)'
  BY SMTT(30) DEF BooksInv, Access, Held, Mapping
<1> QED
  BY Zenon, <1>1, <1>2 DEF BooksInv

\* Every step keeps the invariant: one case per action of Next.
LEMMA NextBooks == BooksInv /\ [Next]_vars => BooksInv'
<1> SUFFICES ASSUME BooksInv, [Next]_vars PROVE BooksInv'
  BY Zenon
<1>1. ASSUME NEW d \in DescIds, CreateBufferDescriptor(d) \/ DestroyBufferDescriptor(d) \/ CallBufferDescriptorFunction(d)
      PROVE  BooksInv'
  BY Zenon, <1>1, StutterKeeps DEF CreateBufferDescriptor, DestroyBufferDescriptor, CallBufferDescriptorFunction
<1>2. ASSUME NEW c \in Clients, NEW n \in 1..Cardinality(DescIds), NEW ids \in [1..n -> DescIds], NEW hs \in Injections(n),
             NEW outs \in [1..n -> Outcomes], AllocateBuffers(c, ids, hs, outs)
      PROVE  BooksInv'
  <2>1. n \in Nat
    BY SMTT(30), <1>2
  <2> QED
    BY Zenon, <1>2, <2>1, AllocateBuffersKeeps
<1>3. ASSUME NEW c \in Clients, NEW h \in Handles, NEW p \in ProdUsages, NEW u \in ConsUsages, NEW s \in Sizes, NEW o \in Outcomes,
             PerformAllocateBuffer(c, [known |-> TRUE, prod |-> p, cons |-> u, size |-> s], h, o)
      PROVE  BooksInv'
  BY Zenon, <1>3, PerformKeeps
<1>4. ASSUME NEW h \in Handles, Receive(h) \/ CloseReceived(h) PROVE BooksInv'
  BY Zenon, <1>4, ReceiveKeeps
<1>5. ASSUME NEW h \in Handles, DeviceWrites(h) PROVE BooksInv'
  BY Zenon, <1>5, StutterKeeps DEF DeviceWrites
<1>6. ASSUME NEW c \in Clients, NEW from \in Handles, NEW h \in Handles, NEW o \in ImportOutcomes, ImportBuffer(c, from, h, o)
      PROVE  BooksInv'
  BY Zenon, <1>6, ImportKeeps
<1>7. ASSUME NEW c \in Clients, NEW h \in Handles, NEW o \in ImportOutcomes, RetainBuffer(c, h, o)
      PROVE  BooksInv'
  BY Zenon, <1>7, RetainKeeps
<1>8. ASSUME NEW c \in Clients, NEW h \in Handles, ReleaseBuffer(c, h) \/ CpuWrites(c, h) \/ MapMetaData(c, h)
      PROVE  BooksInv'
  BY Zenon, <1>8, ReleaseKeeps, StutterKeeps, MetaKeeps DEF CpuWrites
<1>9. ASSUME NEW c \in Clients, NEW h \in Handles, NEW u \in LockUsages, NEW unmapped \in BOOLEAN, NEW unclean \in BOOLEAN,
             LockBuffer(c, h, u, unmapped, unclean)
      PROVE  BooksInv'
  BY Zenon, <1>9, LockKeeps
<1>10. ASSUME NEW c \in Clients, NEW h \in Handles, NEW unclean \in BOOLEAN, UnlockBuffer(c, h, unclean)
       PROVE  BooksInv'
  BY Zenon, <1>10, UnlockKeeps
<1>11. ASSUME NEW c \in Clients, LockReturns(c) \/ StoreMetaData(c)
       PROVE  BooksInv'
  BY Zenon, <1>11, LockReturnsKeeps, MetaKeeps
<1>12. CASE UNCHANGED vars
  BY Zenon, <1>12, StutterKeeps DEF vars
<1> QED
  BY ZenonT(60), <1>1, <1>2, <1>3, <1>4, <1>5, <1>6, <1>7, <1>8, <1>9, <1>10, <1>11, <1>12 DEF Next
-----------------------------------------------------------------------------
(* Metadata mappings: overwritten only where two clients met.              *)

\* A client in the middle of a call has a registered buffer.
LEMMA Busy ==
  ASSUME BooksInv, NEW c \in Clients, NEW h \in Handles, Mapping(c, h) \/ \E m \in Modes \ {"none"} : Held(c, h, m)
  PROVE  c \in refs[h] /\ buf[h].st = "live"
<1>1. c \in refs[h]
  BY Zenon DEF BooksInv, Access
<1> QED
  BY Zenon, <1>1, Unused

\* A step that neither begins a mapping nor makes one where a client is about to.
LEMMA MetaStays ==
  ASSUME MetaInv, raced' = raced, spilt' = spilt,
         \A h \in Handles, c \in Clients : Mapping(c, h)' =>
            Mapping(c, h) /\ ("mapmeta" \in buf'[h].has => "mapmeta" \in buf[h].has)
  PROVE  MetaInv'
  BY ZenonT(60) DEF MetaInv

\* A batch leaves the registered handles alone.
LEMMA BatchLeavesLive ==
  ASSUME BooksInv, NEW c, NEW ids, NEW hs, NEW outs, AllocateBuffers(c, ids, hs, outs),
         NEW g \in Handles, buf[g] # NoBuf
  PROVE  buf'[g] = buf[g] /\ peers'[g] = peers[g]
<1>1. \A i \in DOMAIN ids : hs[i] # g
  BY Zenon DEF AllocateBuffers
<1>2. {i \in DOMAIN ids : hs[i] = g} = {}
  BY Zenon, <1>1
<1> QED
  BY ZenonT(60), <1>2 DEF AllocateBuffers

\* Every step keeps MetaInv: one case per action that touches handles or calls.
LEMMA NextMeta == ASSUME BooksInv, BooksInv', MetaInv, [Next]_vars PROVE MetaInv'
<1>1. buf \in [Handles -> Bufs] /\ call = [c \in Clients |-> call[c]]
  BY Zenon DEF BooksInv, TypeOK
<1>2. ASSUME raced' = raced, spilt' = spilt, call' = call,
             \A h \in Handles : buf[h].st = "live" => buf'[h].has = buf[h].has
      PROVE  MetaInv'
  <2>1. \A h \in Handles, c \in Clients : Mapping(c, h)' => Mapping(c, h)
    BY Zenon, <1>2 DEF Mapping
  <2>2. \A h \in Handles, c \in Clients : Mapping(c, h)' => ("mapmeta" \in buf'[h].has => "mapmeta" \in buf[h].has)
    BY Zenon, <1>2, <2>1, Busy
  <2> QED
    BY Zenon, <1>2, <2>1, <2>2, MetaStays
<1>3. ASSUME NEW d \in DescIds, CreateBufferDescriptor(d) \/ DestroyBufferDescriptor(d) \/ CallBufferDescriptorFunction(d)
      PROVE  MetaInv'
  BY Zenon, <1>2, <1>3 DEF CreateBufferDescriptor, DestroyBufferDescriptor, CallBufferDescriptorFunction
<1>4. ASSUME NEW c \in Clients, NEW n \in 1..Cardinality(DescIds), NEW ids \in [1..n -> DescIds], NEW hs \in Injections(n),
             NEW outs \in [1..n -> Outcomes], AllocateBuffers(c, ids, hs, outs)
      PROVE  MetaInv'
  <2>1. raced' = raced /\ spilt' = spilt /\ call' = call
    BY Zenon, <1>4 DEF AllocateBuffers
  <2>2. ASSUME NEW h \in Handles, buf[h].st = "live" PROVE buf'[h] = buf[h]
    <3>1. buf[h] # NoBuf
      BY SMTT(30), <2>2, NoBufGood
    <3> QED
      BY Zenon, <1>4, <3>1, BatchLeavesLive
  <2> QED
    BY Zenon, <1>2, <2>1, <2>2
<1>5. ASSUME NEW h \in Handles, NEW new, buf' = [buf EXCEPT ![h] = new], buf[h].st # "live",
             raced' = raced, spilt' = spilt, call' = call
      PROVE  MetaInv'
  <2>1. \A g \in Handles : buf[g].st = "live" => buf'[g] = buf[g]
    BY Zenon, <1>1, <1>5
  <2> QED
    BY Zenon, <1>2, <1>5, <2>1
<1>6. ASSUME NEW c \in Clients, NEW h \in Handles, NEW p \in ProdUsages, NEW u \in ConsUsages, NEW s \in Sizes, NEW o \in Outcomes,
             PerformAllocateBuffer(c, [known |-> TRUE, prod |-> p, cons |-> u, size |-> s], h, o)
      PROVE  MetaInv'
  BY Zenon, <1>5, <1>6, NoBufGood DEF PerformAllocateBuffer
<1>7. ASSUME NEW h \in Handles, Receive(h) \/ CloseReceived(h) PROVE MetaInv'
  BY Zenon, <1>5, <1>7, NoBufGood DEF Receive, CloseReceived
<1>8. ASSUME NEW c \in Clients, NEW from \in Handles, NEW h \in Handles, NEW o \in ImportOutcomes, ImportBuffer(c, from, h, o)
      PROVE  MetaInv'
  BY Zenon, <1>5, <1>8, NoBufGood DEF ImportBuffer
<1>9. ASSUME NEW c \in Clients, NEW h \in Handles, NEW o \in ImportOutcomes, RetainBuffer(c, h, o) PROVE MetaInv'
  <2>0. raced' = raced /\ spilt' = spilt /\ call' = call
    BY Zenon, <1>9 DEF RetainBuffer
  <2>1. CASE buf[h].st = "live"
    <3>1. buf' = [buf EXCEPT ![h].ref = @ + 1]
      BY Zenon, <1>9, <2>1 DEF RetainBuffer
    <3>2. \A g \in Handles : buf'[g].has = buf[g].has
      BY Zenon, <1>1, <3>1 DEF Bufs
    <3> QED
      BY Zenon, <1>2, <2>0, <3>2
  <2>2. CASE buf[h].st # "live"
    BY Zenon, <1>5, <1>9, <2>0, <2>2 DEF RetainBuffer
  <2> QED
    BY Zenon, <2>1, <2>2
<1>10. ASSUME NEW c \in Clients, NEW h \in Handles, ReleaseBuffer(c, h) PROVE MetaInv'
  <2>0. raced' = raced /\ spilt' = spilt /\ call' = call
    BY Zenon, <1>10 DEF ReleaseBuffer
  <2>1. CASE buf[h].ref # 1
    <3>1. buf' = [buf EXCEPT ![h].ref = @ - 1]
      BY Zenon, <1>10, <2>1 DEF ReleaseBuffer
    <3>2. \A g \in Handles : buf'[g].has = buf[g].has
      BY Zenon, <1>1, <3>1 DEF Bufs
    <3> QED
      BY Zenon, <1>2, <2>0, <3>2
  <2>2. CASE buf[h].ref = 1
    <3>1. buf' = [buf EXCEPT ![h] = FreeBuffer(buf[h])]
      BY Zenon, <1>10, <2>2 DEF ReleaseBuffer
    <3>2. buf'[h].st # "live" /\ \A g \in Handles : g # h => buf'[g] = buf[g]
      BY Zenon, <1>1, <1>10, <3>1, FreeGood DEF ReleaseBuffer, BooksInv, Good
    <3>3. refs'[h] = {}
      BY Zenon, <3>2 DEF BooksInv, RefsCounted
    <3>4. \A d \in Clients : ~Mapping(d, h)'
      BY Zenon, <3>3 DEF BooksInv, Access
    <3>5. \A g \in Handles, d \in Clients : Mapping(d, g)' =>
            Mapping(d, g) /\ ("mapmeta" \in buf'[g].has => "mapmeta" \in buf[g].has)
      BY Zenon, <2>0, <3>2, <3>4 DEF Mapping
    <3> QED
      BY Zenon, <2>0, <3>5, MetaStays
  <2> QED
    BY Zenon, <2>1, <2>2
<1>11. ASSUME NEW c \in Clients, NEW h \in Handles, CpuWrites(c, h) PROVE MetaInv'
  BY Zenon, <1>2, <1>11 DEF CpuWrites
<1>19. ASSUME NEW h \in Handles, DeviceWrites(h) PROVE MetaInv'
  BY Zenon, <1>2, <1>19 DEF DeviceWrites
<1>12. ASSUME NEW c \in Clients, raced' = raced, spilt' = spilt, NEW r, call' = [call EXCEPT ![c] = r],
              \A h \in Handles : r # [op |-> "meta", h |-> h],
              \A g \in Handles : "mapmeta" \in buf'[g].has => "mapmeta" \in buf[g].has
       PROVE  MetaInv'
  <2>1. \A d \in Clients : call'[d] = call[d] \/ call'[d] = r
    BY SMTT(30), <1>12
  <2>2. \A g \in Handles, d \in Clients : Mapping(d, g)' => Mapping(d, g)
    BY Zenon, <1>12, <2>1 DEF Mapping
  <2> QED
    BY Zenon, <1>12, <2>2, MetaStays
<1>13. ASSUME NEW c \in Clients, NEW h \in Handles, NEW u \in LockUsages, NEW unmapped \in BOOLEAN, NEW unclean \in BOOLEAN,
              LockBuffer(c, h, u, unmapped, unclean)
       PROVE  MetaInv'
  <2>1. PICK mode : call' = [call EXCEPT ![c] = [op |-> "lock", h |-> h, mode |-> mode]]
    BY Zenon, <1>13 DEF LockBuffer
  <2>2. raced' = raced /\ spilt' = spilt
    BY Zenon, <1>13 DEF LockBuffer
  <2>3. PICK n : buf' = [buf EXCEPT ![h] = n] /\ n.has \subseteq buf[h].has \cup {"map"}
    <3> DEFINE b == buf[h]
    <3>1. b \in Bufs
      BY Zenon, <1>1
    <3>2. PICK m : /\ m \in {b, [b EXCEPT !.failed = TRUE], [b EXCEPT !.has = @ \cup {"map"}, !.open = @ \cup {"map"}]}
                   /\ buf' = [buf EXCEPT ![h] = m] \/ buf' = [buf EXCEPT ![h] = [m EXCEPT !.flags = @ \cup {"NEEDS_FLUSH"}]]
      BY Zenon, <1>13 DEF LockBuffer
    <3>3. m.has \subseteq b.has \cup {"map"} /\ [m EXCEPT !.flags = @ \cup {"NEEDS_FLUSH"}].has = m.has
      BY Zenon, <3>1, <3>2 DEF Bufs
    <3> QED
      BY Zenon, <3>2, <3>3
  <2>4. \A g \in Handles : "mapmeta" \in buf'[g].has => "mapmeta" \in buf[g].has
    BY Zenon, <1>1, <2>3
  <2>5. \A g \in Handles : [op |-> "lock", h |-> h, mode |-> mode] # [op |-> "meta", h |-> g]
    BY SMTT(30)
  <2> QED
    BY Zenon, <1>12, <2>1, <2>2, <2>4, <2>5
<1>14. ASSUME NEW c \in Clients, LockReturns(c) PROVE MetaInv'
  <2>1. \A g \in Handles : Idle # [op |-> "meta", h |-> g]
    BY SMTT(30) DEF Idle
  <2> QED
    BY Zenon, <1>12, <1>14, <2>1 DEF LockReturns
<1>15. ASSUME NEW c \in Clients, NEW h \in Handles, NEW unclean \in BOOLEAN, UnlockBuffer(c, h, unclean) PROVE MetaInv'
  <2>1. buf' = [buf EXCEPT ![h].flags = @ \ {"NEEDS_FLUSH"}] /\ raced' = raced /\ spilt' = spilt /\ call' = call
    BY Zenon, <1>15 DEF UnlockBuffer
  <2>2. \A g \in Handles : buf'[g].has = buf[g].has
    BY Zenon, <1>1, <2>1 DEF Bufs
  <2> QED
    BY Zenon, <1>2, <2>1, <2>2
<1>16. ASSUME NEW c \in Clients, NEW h \in Handles, MapMetaData(c, h) PROVE MetaInv'
  <2> DEFINE r == [op |-> "meta", h |-> h]
  <2>1. /\ "mapmeta" \notin buf[h].has /\ buf' = buf /\ spilt' = spilt /\ call' = [call EXCEPT ![c] = r]
        /\ raced' = IF \E d \in Clients : call[d] = r THEN raced \cup {h} ELSE raced
    BY Zenon, <1>16 DEF MapMetaData
  <2>2. \A d \in Clients : call'[d] = call[d] \/ (d = c /\ call'[d] = r)
    BY SMTT(30), <2>1
  <2>3. \A g \in Handles : g # h => r # [op |-> "meta", h |-> g]
    BY SMTT(30)
  <2> HIDE DEF r
  <2>4. \A g \in Handles, d \in Clients : Mapping(d, g)' => Mapping(d, g) \/ (g = h /\ d = c)
    BY Zenon, <2>2, <2>3 DEF Mapping
  <2>5. h \notin raced' => \A d \in Clients : ~Mapping(d, h)
    BY Zenon, <2>1 DEF Mapping, r
  <2>6. raced \subseteq raced' /\ raced' \subseteq raced \cup {h}
    BY Zenon, <2>1
  <2>7. ASSUME NEW g \in Handles \ raced', NEW d \in Clients, NEW e \in Clients, Mapping(d, g)'
        PROVE  "mapmeta" \notin buf'[g].has /\ (Mapping(e, g)' => d = e)
    <3>1. CASE g = h
      BY Zenon, <2>1, <2>4, <2>5, <2>7, <3>1
    <3>2. CASE g # h
      BY Zenon, <2>1, <2>4, <2>6, <2>7, <3>2 DEF MetaInv
    <3> QED
      BY Zenon, <3>1, <3>2
  <2> QED
    BY Zenon, <2>1, <2>6, <2>7 DEF MetaInv
<1>17. ASSUME NEW c \in Clients, StoreMetaData(c) PROVE MetaInv'
  <2>0. PICK h \in Handles : Mapping(c, h)
    <3>1. CallOK(c) /\ call[c].op = "meta"
      BY Zenon, <1>17 DEF StoreMetaData, BooksInv, TypeOK
    <3>2. call[c] # Idle /\ \A g \in Handles, m \in Modes : call[c] # [op |-> "lock", h |-> g, mode |-> m]
      BY SMTT(30), <3>1 DEF Idle
    <3> QED
      BY Zenon, <3>1, <3>2 DEF CallOK, Locking
  <2>1. call[c].h = h
    BY SMTT(30), <2>0 DEF Mapping
  <2>2. /\ buf' = [buf EXCEPT ![h].has = @ \cup {"mapmeta"}, ![h].open = @ \cup {"mapmeta"}]
        /\ spilt' = IF "mapmeta" \in buf[h].has THEN spilt \cup {h} ELSE spilt
        /\ raced' = raced /\ call' = [call EXCEPT ![c] = Idle]
    BY Zenon, <1>17, <2>1 DEF StoreMetaData
  <2>3. \A g \in Handles : g # h => buf'[g] = buf[g]
    BY Zenon, <1>1, <2>2
  <2>4. \A d \in Clients : (d # c => call'[d] = call[d]) /\ call'[c] = Idle
    BY Zenon, <1>1, <2>2
  <2>5. \A g \in Handles, d \in Clients : Mapping(d, g)' => Mapping(d, g) /\ d # c
    <3>1. \A g \in Handles : Idle # [op |-> "meta", h |-> g]
      BY SMTT(30) DEF Idle
    <3> QED
      BY Zenon, <2>4, <3>1 DEF Mapping
  <2>6. spilt' \subseteq raced'
    BY Zenon, <2>0, <2>2 DEF MetaInv
  <2>7. ASSUME NEW g \in Handles \ raced', NEW d \in Clients, NEW e \in Clients, Mapping(d, g)'
        PROVE  "mapmeta" \notin buf'[g].has /\ (Mapping(e, g)' => d = e)
    <3>1. Mapping(d, g) /\ d # c /\ g \in Handles \ raced
      BY Zenon, <2>2, <2>5, <2>7
    <3>2. "mapmeta" \notin buf[g].has /\ (Mapping(c, g) => d = c)
      BY Zenon, <3>1 DEF MetaInv
    <3>4. g # h
      BY Zenon, <2>0, <3>1, <3>2
    <3>3. ASSUME Mapping(e, g)' PROVE d = e
      <4>1. Mapping(e, g)
        BY Zenon, <2>5, <3>3
      <4> QED
        BY Zenon, <3>1, <4>1 DEF MetaInv
    <3> QED
      BY Zenon, <2>3, <3>2, <3>3, <3>4
  <2> QED
    BY Zenon, <2>2, <2>6, <2>7 DEF MetaInv
<1>18. CASE UNCHANGED vars
  BY Zenon, <1>2, <1>18 DEF vars
<1> QED
  BY ZenonT(60), <1>3, <1>4, <1>6, <1>7, <1>8, <1>9, <1>10, <1>11, <1>13, <1>14, <1>15, <1>16, <1>17, <1>18, <1>19 DEF Next
-----------------------------------------------------------------------------
(* The lines of the caches.                                                *)

\* A handle of a memory is one of its peers, and all of them are handles of it.
LEMMA Peer ==
  ASSUME CacheInv, NEW h \in Handles, buf[h].st \in {"raw", "live"}
  PROVE  h \in peers[h] /\ \A k \in peers[h] : k \in Handles /\ k \in peers[k] /\ h \in peers[k]
  BY Zenon DEF CacheInv, PeersInv

\* Memories have no handle in common.
LEMMA OtherMemory ==
  ASSUME CacheInv, NEW h \in Handles, NEW k \in Handles, k \notin peers[h]
  PROVE  \A j \in peers[k] : j \in Handles /\ j \notin peers[h]
<1>1. ASSUME NEW j \in peers[k], j \in peers[h] PROVE FALSE
  <2>1. peers[j] = peers[h] /\ peers[j] = peers[k]
    BY Zenon, <1>1 DEF CacheInv, PeersInv
  <2>2. k \in peers[k]
    BY Zenon, <1>1 DEF CacheInv, PeersInv
  <2> QED
    BY Zenon, <2>1, <2>2
<1> QED
  BY Zenon, <1>1 DEF CacheInv

\* Nobody has locked a handle that is not registered.
LEMMA NotHeld ==
  ASSUME BooksInv, NEW h \in Handles, buf[h].st # "live"
  PROVE  \A c \in Clients : ~Held(c, h, "read") /\ ~Held(c, h, "write")
<1>1. "read" \in Modes \ {"none"} /\ "write" \in Modes \ {"none"}
  BY Zenon DEF Modes
<1> QED
  BY Zenon, <1>1, Busy

LEMMA CleanLines == Clean \in Lines /\ ~Clean.dirty /\ ~Clean.stale /\ ~Clean.lost
  BY Zenon DEF Clean, Lines

\* A handle whose memory stays as it is.
LEMMA PeersStay ==
  ASSUME NEW h \in Handles, PeersInv(h), buf'[h].st = buf[h].st, peers'[h] = peers[h], cache'[h] = cache[h],
         \A k \in peers[h] : peers'[k] = peers[k] /\ cache'[k] = cache[k]
  PROVE  PeersInv(h)'
<1>1. \A k \in peers'[h] : peers'[k] = peers'[h] /\ cache'[k] = cache'[h]
  BY Zenon DEF PeersInv
<1> QED
  BY Zenon, <1>1 DEF PeersInv

\* The lines of h, its users and its flags stay; the writers of its memory, too.
LEMMA LinesStay ==
  ASSUME NEW h \in Handles, LinesInv(h), cache'[h] = cache[h], buf'[h].flags = buf[h].flags, Written(h) => Written(h)',
         \A c \in Clients : (Writing(c, h)' => Writing(c, h)) /\ (Held(c, h, "read")' => Held(c, h, "read"))
  PROVE  LinesInv(h)'
  BY Zenon DEF LinesInv

\* A handle nobody has locked.
LEMMA IdleLines ==
  ASSUME NEW h \in Handles, \A c \in Clients : ~Held(c, h, "read")' /\ ~Held(c, h, "write")',
         (cache[h].dirty => cache[h].excused \/ Written(h))', (cache[h].lost => cache[h].excused)'
  PROVE  LinesInv(h)'
  BY Zenon DEF LinesInv, Writing

\* A step that leaves the memories, their lines, flags and users alone.
LEMMA SameLines ==
  ASSUME CacheInv, peers' = peers, cache' = cache,
         \A h \in Handles : /\ buf'[h].flags = buf[h].flags
                            /\ buf'[h].st \in {"raw", "live"} <=> buf[h].st \in {"raw", "live"}
                            /\ \A c \in Clients : (Held(c, h, "read")' <=> Held(c, h, "read")) /\ (Writing(c, h)' <=> Writing(c, h))
  PROVE  CacheInv'
<1>1. ASSUME NEW h \in Handles PROVE PeersInv(h)' /\ LinesInv(h)'
  <2>1. PeersInv(h)'
    BY Zenon, <1>1 DEF CacheInv, PeersInv
  <2>2. Written(h) => Written(h)'
    BY Zenon, <1>1 DEF CacheInv, Written
  <2> QED
    BY Zenon, <2>1, <2>2, LinesStay DEF CacheInv
<1> QED
  BY Zenon, <1>1 DEF CacheInv

\* A step that puts handles of new memories, or none, at the unused addresses New.
LEMMA PlacedLines ==
  ASSUME BooksInv, CacheInv, locked' = locked, call' = call, cache' = cache, peers' \in [Handles -> SUBSET Handles],
         NEW New \in SUBSET Handles, \A h \in New : buf[h] = NoBuf,
         \A h \in Handles \ New : buf'[h] = buf[h] /\ peers'[h] = peers[h],
         \A h \in New : \/ /\ buf'[h].st \in {"raw", "live"}
                           /\ h \in peers'[h] /\ \A k \in peers'[h] : k \in New /\ peers'[k] = peers'[h]
                        \/ buf'[h].st \notin {"raw", "live"} /\ peers'[h] = peers[h]
  PROVE  CacheInv'
<1>0. \A h \in Handles, c \in Clients : (Held(c, h, "read")' <=> Held(c, h, "read")) /\ (Writing(c, h)' <=> Writing(c, h))
  BY Zenon DEF Held, Writing
<1>1. ASSUME NEW h \in New PROVE h \in Handles /\ buf[h].st \notin {"raw", "live"} /\ peers[h] = {} /\ cache[h] = Clean
  <2>1. h \in Handles /\ buf[h].st \notin {"raw", "live"}
    BY SMTT(30), <1>1, NoBufGood
  <2> QED
    BY Zenon, <2>1 DEF CacheInv, PeersInv
<1>2. ASSUME NEW h \in New PROVE PeersInv(h)' /\ LinesInv(h)'
  <2>1. PeersInv(h)'
    <3>1. \A k \in New : cache'[k] = Clean
      BY Zenon, <1>1
    <3> QED
      BY Zenon, <1>1, <1>2, <3>1 DEF PeersInv
  <2>2. \A c \in Clients : ~Held(c, h, "read")' /\ ~Held(c, h, "write")'
    <3>1. h \in Handles /\ buf[h].st # "live"
      BY Zenon, <1>1, <1>2
    <3> QED
      BY Zenon, <1>0, <3>1, NotHeld DEF Writing
  <2>3. (cache[h].dirty => cache[h].excused \/ Written(h))' /\ (cache[h].lost => cache[h].excused)'
    BY Zenon, <1>1, <1>2, CleanLines
  <2> QED
    BY Zenon, <1>1, <1>2, <2>1, <2>2, <2>3, IdleLines
<1>3. ASSUME NEW h \in Handles \ New PROVE PeersInv(h)' /\ LinesInv(h)'
  <2>0. PeersInv(h) /\ peers[h] \subseteq Handles
    BY Zenon, <1>3 DEF CacheInv
  <2>1. ASSUME NEW k \in peers[h] PROVE k \in Handles \ New
    <3>1. k \in peers[k]
      BY Zenon, <2>0, <2>1 DEF PeersInv
    <3> QED
      BY Zenon, <1>1, <2>0, <2>1, <3>1
  <2>2. PeersInv(h)'
    BY Zenon, <1>3, <2>0, <2>1, PeersStay
  <2>3. Written(h) => Written(h)'
    BY Zenon, <1>0, <1>3, <2>1 DEF Written
  <2> QED
    BY Zenon, <1>0, <1>3, <2>2, <2>3, LinesStay DEF CacheInv
<1> QED
  BY Zenon, <1>2, <1>3 DEF CacheInv

\* One more handle of the memory of `from'.
LEMMA JoinedLines ==
  ASSUME BooksInv, CacheInv, locked' = locked, call' = call, NEW from \in Handles, buf[from].st \in {"raw", "live"},
         NEW h \in Handles, buf[h] = NoBuf, NEW new, new.st = "live", buf' = [buf EXCEPT ![h] = new],
         peers' = Joined(from, h), cache' = [cache EXCEPT ![h] = cache[from]]
  PROVE  CacheInv'
<1> DEFINE S == peers[from] \cup {h}
<1>0. \A k \in Handles, c \in Clients : (Held(c, k, "read")' <=> Held(c, k, "read")) /\ (Writing(c, k)' <=> Writing(c, k))
  BY Zenon DEF Held, Writing
<1>1. buf[h].st \notin {"raw", "live"} /\ h # from
  BY SMTT(30), NoBufGood
<1>2. h \notin peers[h] /\ peers[h] = {} /\ from \in peers[from] /\ from \in S /\ h \in S /\ S \in SUBSET Handles
  BY Zenon, <1>1, Peer DEF CacheInv, PeersInv
<1>3. \A k \in Handles : peers'[k] = IF k \in S THEN S ELSE peers[k]
  BY Zenon DEF Joined
<1>4. buf'[h].st = "live" /\ cache'[h] = cache[from] /\ \A k \in Handles : k # h => buf'[k] = buf[k] /\ cache'[k] = cache[k]
  BY Zenon DEF BooksInv, TypeOK, CacheInv
<1>5. \A k \in S : k \in Handles /\ cache'[k] = cache[from] /\ buf'[k].st \in {"raw", "live"}
  <2>1. ASSUME NEW k \in peers[from]
        PROVE  k \in Handles /\ k # h /\ cache[k] = cache[from] /\ buf[k].st \in {"raw", "live"}
    <3>1. k \in Handles /\ k \in peers[k] /\ cache[k] = cache[from]
      BY Zenon, <2>1, Peer DEF CacheInv, PeersInv
    <3> QED
      BY Zenon, <1>1, <3>1 DEF CacheInv, PeersInv
  <2>2. \A k \in S : k = h \/ k \in peers[from]
    BY Zenon
  <2>3. \A k \in peers[from] : k \in Handles /\ cache'[k] = cache[from] /\ buf'[k].st \in {"raw", "live"}
    BY Zenon, <1>4, <2>1
  <2> HIDE DEF S
  <2> QED
    BY Zenon, <1>4, <2>2, <2>3
<1>6. peers' \in [Handles -> SUBSET Handles] /\ cache' \in [Handles -> Lines]
  <2>1. \A k \in Handles : (IF k \in S THEN S ELSE peers[k]) \in SUBSET Handles
    BY Zenon, <1>2 DEF CacheInv
  <2>2. peers' = [k \in Handles |-> IF k \in S THEN S ELSE peers[k]]
    BY Zenon DEF Joined
  <2>3. peers' \in [Handles -> SUBSET Handles]
    BY Zenon, <2>1, <2>2
  <2>4. cache' \in [Handles -> Lines]
    BY Zenon DEF CacheInv
  <2> QED
    BY Zenon, <2>3, <2>4
<1>7. ASSUME NEW k \in Handles, k \notin S PROVE \A j \in peers[k] : j \in Handles /\ j \notin S /\ j # h
  <2>1. \A j \in peers[k] : j \in Handles /\ j \notin peers[from]
    BY Zenon, <1>7, OtherMemory
  <2>2. \A j \in peers[k] : j \in peers[j]
    BY Zenon, <1>7, <2>1 DEF CacheInv, PeersInv
  <2> QED
    BY Zenon, <1>2, <2>1, <2>2
<1> HIDE DEF S
<1>8. ASSUME NEW k \in Handles PROVE PeersInv(k)'
  <2>1. CASE k \in S
    BY Zenon, <1>3, <1>5, <2>1 DEF PeersInv
  <2>2. CASE k \notin S
    <3>1. k # h /\ peers'[k] = peers[k] /\ buf'[k] = buf[k] /\ cache'[k] = cache[k]
      BY Zenon, <1>2, <1>3, <1>4, <2>2
    <3>2. \A j \in peers[k] : peers'[j] = peers[j] /\ cache'[j] = cache[j]
      BY Zenon, <1>3, <1>4, <1>7, <2>2
    <3> QED
      BY Zenon, <3>1, <3>2, PeersStay DEF CacheInv
  <2> QED
    BY Zenon, <2>1, <2>2
<1>9. \A k \in Handles : peers[k] \subseteq peers'[k] /\ \A j \in peers[k] : j \in Handles
  <2>1. \A k \in S : k # h => peers[k] \subseteq S
    BY Zenon DEF CacheInv, PeersInv, S
  <2> QED
    BY Zenon, <1>2, <1>3, <2>1 DEF CacheInv
<1>10. \A k \in Handles : Written(k) => Written(k)'
  BY Zenon, <1>0, <1>9 DEF Written
<1>11. ASSUME NEW k \in Handles PROVE LinesInv(k)'
  <2>1. CASE k # h
    BY Zenon, <1>0, <1>4, <1>10, <2>1, LinesStay DEF CacheInv
  <2>2. CASE k = h
    <3>1. \A c \in Clients : ~Held(c, h, "read")' /\ ~Held(c, h, "write")'
      <4>1. buf[h].st # "live"
        BY Zenon, <1>1
      <4> QED
        BY Zenon, <1>0, <4>1, NotHeld DEF Writing
    <3>2. Written(from) => Written(h)'
      <4>1. \A j \in peers[from] : j \in peers'[h] /\ j \in Handles
        BY Zenon, <1>2, <1>3, <1>9 DEF S
      <4> QED
        BY Zenon, <1>0, <4>1 DEF Written
    <3>3. (cache[h].dirty => cache[h].excused \/ Written(h))' /\ (cache[h].lost => cache[h].excused)'
      BY Zenon, <1>4, <3>2 DEF CacheInv, LinesInv
    <3> QED
      BY Zenon, <2>2, <3>1, <3>3, IdleLines
  <2> QED
    BY Zenon, <2>1, <2>2
<1> QED
  BY Zenon, <1>6, <1>8, <1>11 DEF CacheInv

\* A handle nobody has locked no longer has its memory.
LEMMA PartedLines ==
  ASSUME BooksInv, CacheInv, locked' = locked, call' = call, NEW h \in Handles, NEW new, new.st \notin {"raw", "live"},
         buf' = [buf EXCEPT ![h] = new], peers' = Parted(h), cache' = [cache EXCEPT ![h] = Clean],
         \A c \in Clients : ~Held(c, h, "read") /\ ~Held(c, h, "write")
  PROVE  CacheInv'
<1>0. \A k \in Handles, c \in Clients : (Held(c, k, "read")' <=> Held(c, k, "read")) /\ (Writing(c, k)' <=> Writing(c, k))
  BY Zenon DEF Held, Writing
<1>1. peers' = [k \in Handles |-> IF k = h THEN {} ELSE peers[k] \ {h}]
  BY Zenon DEF Parted
<1>2. peers'[h] = {} /\ \A k \in Handles : k # h => peers'[k] = peers[k] \ {h}
  BY Zenon, <1>1
<1>3. cache'[h] = Clean /\ buf'[h] = new /\ \A k \in Handles : k # h => cache'[k] = cache[k] /\ buf'[k] = buf[k]
  BY Zenon DEF CacheInv, BooksInv, TypeOK
<1>4. peers' \in [Handles -> SUBSET Handles] /\ cache' \in [Handles -> Lines]
  <2>1. \A k \in Handles : (IF k = h THEN {} ELSE peers[k] \ {h}) \in SUBSET Handles
    BY Zenon DEF CacheInv
  <2>2. peers' \in [Handles -> SUBSET Handles]
    BY Zenon, <1>1, <2>1
  <2>3. cache' \in [Handles -> Lines]
    BY Zenon, CleanLines DEF CacheInv
  <2> QED
    BY Zenon, <2>2, <2>3
<1>5. ASSUME NEW k \in Handles PROVE PeersInv(k)'
  <2>1. CASE k = h
    BY Zenon, <1>2, <1>3, <2>1 DEF PeersInv
  <2>2. CASE k # h
    <3>0. PeersInv(k)
      BY Zenon DEF CacheInv
    <3>1. k \in peers'[k] <=> buf'[k].st \in {"raw", "live"}
      BY Zenon, <1>2, <1>3, <2>2, <3>0 DEF PeersInv
    <3>2. k \notin peers'[k] => peers'[k] = {} /\ cache'[k] = Clean
      BY Zenon, <1>2, <1>3, <2>2, <3>0 DEF PeersInv
    <3>3. ASSUME NEW j \in peers'[k] PROVE peers'[j] = peers'[k] /\ cache'[j] = cache'[k]
      <4>1. j \in peers[k] /\ j # h /\ j \in Handles
        BY Zenon, <1>2, <2>2, <3>3 DEF CacheInv
      <4> QED
        BY Zenon, <1>2, <1>3, <2>2, <3>0, <4>1 DEF PeersInv
    <3> QED
      BY Zenon, <3>1, <3>2, <3>3 DEF PeersInv
  <2> QED
    BY Zenon, <2>1, <2>2
<1>6. ASSUME NEW k \in Handles PROVE LinesInv(k)'
  <2>1. CASE k = h
    <3>1. (cache[h].dirty => cache[h].excused \/ Written(h))' /\ (cache[h].lost => cache[h].excused)'
      BY Zenon, <1>3, CleanLines
    <3>2. \A c \in Clients : ~Held(c, h, "read")' /\ ~Held(c, h, "write")'
      BY Zenon, <1>0 DEF Writing
    <3> QED
      BY Zenon, <2>1, <3>1, <3>2, IdleLines
  <2>2. CASE k # h
    <3>1. ASSUME Written(k) PROVE Written(k)'
      <4>1. PICK d \in Clients, j \in peers[k] : Writing(d, j)
        BY Zenon, <3>1 DEF Written
      <4>2. j # h /\ j \in Handles
        BY Zenon, <4>1 DEF Writing, CacheInv
      <4> QED
        BY Zenon, <1>0, <1>2, <2>2, <4>1, <4>2 DEF Written
    <3> QED
      BY Zenon, <1>0, <1>3, <2>2, <3>1, LinesStay DEF CacheInv
  <2> QED
    BY Zenon, <2>1, <2>2
<1> QED
  BY Zenon, <1>4, <1>5, <1>6 DEF CacheInv

\* A step that sets the lines of the memory of h: what is left to show is that
\* they fit the users of its handles.
LEMMA SetsLines ==
  ASSUME CacheInv, NEW h \in Handles, h \in peers[h], NEW ls \in Lines, cache' = SetLines(h, ls), peers' = peers,
         \A k \in Handles : buf'[k].st = buf[k].st,
         \A k \in Handles : k # h => /\ buf'[k].flags = buf[k].flags
                                     /\ \A c \in Clients : /\ Held(c, k, "read")' <=> Held(c, k, "read")
                                                           /\ Writing(c, k)' <=> Writing(c, k),
         \A k \in peers[h] : k \in Handles /\ peers[k] = peers[h] /\ cache[k] = cache[h] /\ cache'[k] = ls => LinesInv(k)'
  PROVE  CacheInv'
<1>1. cache' = [k \in Handles |-> IF k \in peers[h] THEN ls ELSE cache[k]]
  BY Zenon DEF SetLines
<1>2. \A k \in Handles : cache'[k] = IF k \in peers[h] THEN ls ELSE cache[k]
  BY Zenon, <1>1
<1>3. cache' \in [Handles -> Lines]
  BY Zenon, <1>1 DEF CacheInv
<1>4. ASSUME NEW k \in Handles PROVE PeersInv(k)' /\ LinesInv(k)'
  <2>0. PeersInv(k) /\ LinesInv(k)
    BY Zenon DEF CacheInv
  <2>1. CASE k \in peers[h]
    <3>1. peers[k] = peers[h] /\ cache[k] = cache[h] /\ cache'[k] = ls
      BY Zenon, <1>2, <2>1 DEF CacheInv, PeersInv
    <3>2. \A j \in peers[k] : peers[j] = peers[k] /\ cache'[j] = ls
      BY Zenon, <1>2, <2>0, <3>1 DEF CacheInv, PeersInv
    <3>3. PeersInv(k)'
      BY Zenon, <2>0, <2>1, <3>1, <3>2 DEF PeersInv
    <3> QED
      BY Zenon, <2>1, <3>1, <3>3
  <2>2. CASE k \notin peers[h]
    <3>1. k # h /\ \A j \in peers[k] : j \in Handles /\ j \notin peers[h] /\ j # h
      BY Zenon, <2>2, OtherMemory
    <3>2. PeersInv(k)'
      BY Zenon, <1>2, <2>0, <2>2, <3>1 DEF PeersInv
    <3>3. Written(k) => Written(k)'
      BY Zenon, <3>1 DEF Written
    <3> QED
      BY Zenon, <1>2, <2>0, <2>2, <3>1, <3>2, <3>3, LinesStay
  <2> QED
    BY Zenon, <2>1, <2>2
<1> QED
  BY Zenon, <1>3, <1>4 DEF CacheInv

\* What is freed or closed is no handle of a memory; what is imported still is, with its flags.
LEMMA Gone ==
  ASSUME NEW b \in Bufs
  PROVE  FreeBuffer(b).st \notin {"raw", "live"} /\ CloseHandle(b).st \notin {"raw", "live"}
<1>1. \A x, y : [NoBuf EXCEPT !.open = x, !.twice = y].st = "none"
  BY Zenon DEF NoBuf
<1>2. \A x, y : [[b EXCEPT !.open = x, !.twice = y] EXCEPT !.st = "left", !.ref = 0].st = "left"
  BY Zenon DEF Bufs
<1>3. FreeBuffer(b).st \in {"left", "none"}
  BY Zenon, <1>1, <1>2 DEF FreeBuffer, Close
<1>4. CloseHandle(b).st = "none"
  BY Zenon, <1>1 DEF CloseHandle
<1> QED
  BY SMTT(30), <1>3, <1>4

LEMMA ImportedStays ==
  ASSUME NEW b \in Bufs, b.st = "raw", NEW o
  PROVE  ImportHandleLocked(b, o).st \in {"raw", "live"} /\ ImportHandleLocked(b, o).flags = b.flags
<1> DEFINE n == ImportHandleLocked(b, o)
           ions == {"ion"} \cup (IF "meta" \in b.has THEN {"ionmeta"} ELSE {})
           c == Close(b, {"fd", "meta"})
<1>1. CASE o = "nomem" \/ "fd" \notin b.has
  BY Zenon, <1>1 DEF ImportHandleLocked
<1>2. CASE ~(o = "nomem" \/ "fd" \notin b.has) /\ o = "nometa" /\ "meta" \in b.has
  <2>1. n = [c EXCEPT !.has = {}]
    BY Zenon, <1>2 DEF ImportHandleLocked
  <2>2. c = [b EXCEPT !.open = b.open \ {"fd", "meta"}, !.twice = b.twice \/ ~({"fd", "meta"} \subseteq b.open)]
    BY Zenon DEF Close
  <2>3. n = [b EXCEPT !.open = b.open \ {"fd", "meta"}, !.twice = b.twice \/ ~({"fd", "meta"} \subseteq b.open), !.has = {}]
    BY Zenon, <2>1, <2>2
  <2>4. n.st = b.st /\ n.flags = b.flags
    BY Zenon, <2>3 DEF Bufs
  <2> QED
    BY Zenon, <2>4
<1>3. CASE ~(o = "nomem" \/ "fd" \notin b.has) /\ ~(o = "nometa" /\ "meta" \in b.has)
  <2>1. n = [b EXCEPT !.st = "live", !.ref = 1, !.failed = FALSE,
                      !.has = (@ \cap {"fd", "meta"}) \cup ions, !.open = @ \cup ions]
    BY Zenon, <1>3 DEF ImportHandleLocked
  <2>2. n.st = "live" /\ n.flags = b.flags
    BY Zenon, <2>1 DEF Bufs
  <2> QED
    BY Zenon, <2>2
<1> QED
  BY Zenon, <1>1, <1>2, <1>3

\* A batch puts its handles at unused addresses, all with one memory or each with its own.
LEMMA BatchLines ==
  ASSUME BooksInv, CacheInv, NEW c, NEW n \in Nat, NEW ids \in [1..n -> DescIds], NEW hs \in Injections(n), NEW outs,
         AllocateBuffers(c, ids, hs, outs)
  PROVE  CacheInv'
<1> DEFINE ds == [i \in DOMAIN ids |-> descs[ids[i]]]
           mx == MaxIndex(ds)
           one == AllocateBuffer(ds[mx], outs[mx])
           each == [i \in DOMAIN ids |-> AllocateBuffer(ds[i], outs[i])]
           failed == {i \in DOMAIN ids : each[i].st # "live"}
           tried == {i \in DOMAIN ids : \A j \in failed : i <= j}
           shared == CheckForBufferSharing(ds) /\ mx > 0
           new == IF shared
                  THEN [i \in DOMAIN ids |-> IF i = mx THEN one
                                             ELSE IF one.st = "live" THEN CreateSharedHandle(ds[i], outs[i]) ELSE NoBuf]
                  ELSE [i \in DOMAIN ids |-> IF i \in tried THEN each[i] ELSE NoBuf]
           at == [h \in Handles |-> {i \in DOMAIN ids : hs[i] = h}]
           All == {hs[i] : i \in DOMAIN ids}
<1>1. /\ \A i \in DOMAIN ids : buf[hs[i]] = NoBuf
      /\ buf' = [h \in Handles |-> IF at[h] = {} THEN buf[h] ELSE new[CHOOSE i \in at[h] : TRUE]]
      /\ peers' = [h \in Handles |-> IF at[h] = {} \/ buf'[h].st # "live" THEN peers[h]
                                     ELSE IF shared THEN All ELSE {h}]
      /\ UNCHANGED <<locked, call, cache>>
  BY Zenon DEF AllocateBuffers
<1>2. \A i \in DOMAIN ids : new[i].st \in {"none", "stranded", "live"}
  <2>1. one.st \in {"none", "stranded", "live"} /\ NoBuf.st = "none"
    BY Zenon, AllocateGood, NoBufGood
  <2>2. \A i \in DOMAIN ids : each[i].st \in {"none", "stranded", "live"} /\ CreateSharedHandle(ds[i], outs[i]).st = "live"
    BY Zenon, AllocateGood, SharedGood
  <2> HIDE DEF one, each, tried, mx, ds, shared
  <2> QED
    BY Zenon, <2>1, <2>2
<1>3. ASSUME shared, NEW i \in DOMAIN ids, NEW j \in DOMAIN ids, new[i].st = "live" PROVE new[j].st = "live"
  <2>1. NoBuf.st = "none" /\ CreateSharedHandle(ds[j], outs[j]).st = "live"
    BY Zenon, SharedGood, NoBufGood
  <2>2. new[i].st = IF i = mx THEN one.st ELSE IF one.st = "live" THEN CreateSharedHandle(ds[i], outs[i]).st ELSE NoBuf.st
    <3> HIDE DEF one, mx, ds, each, tried
    <3> QED
      BY Zenon, <1>3
  <2>3. new[j].st = IF j = mx THEN one.st ELSE IF one.st = "live" THEN CreateSharedHandle(ds[j], outs[j]).st ELSE NoBuf.st
    <3> HIDE DEF one, mx, ds, each, tried
    <3> QED
      BY Zenon, <1>3
  <2> HIDE DEF new, one, mx, ds
  <2> QED
    BY SMTT(30), <1>3, <2>1, <2>2, <2>3
<1> HIDE DEF new, shared
<1>4. \A i \in DOMAIN ids : hs[i] \in Handles /\ \A j \in DOMAIN ids : hs[i] = hs[j] => i = j
  BY Zenon DEF Injections
<1>5. All \in SUBSET Handles
  BY Zenon, <1>4
<1>6. \A h \in Handles \ All : buf'[h] = buf[h] /\ peers'[h] = peers[h]
  <2>1. \A h \in Handles \ All : at[h] = {}
    BY Zenon
  <2> QED
    BY Zenon, <1>1, <2>1
<1>7. ASSUME NEW i \in DOMAIN ids
      PROVE  buf'[hs[i]] = new[i] /\ peers'[hs[i]] = IF new[i].st # "live" THEN peers[hs[i]] ELSE IF shared THEN All ELSE {hs[i]}
  <2>1. at[hs[i]] = {i}
    BY Zenon, <1>4, <1>7
  <2>2. buf'[hs[i]] = new[i]
    BY Zenon, <1>1, <1>4, <2>1
  <2> QED
    BY Zenon, <1>1, <1>4, <2>1, <2>2
<1>8. \A h \in All : \E i \in DOMAIN ids : h = hs[i]
  BY Zenon
<1>9. \A h \in All : buf[h] = NoBuf
  BY Zenon, <1>1, <1>8
<1>10. \A i \in DOMAIN ids : hs[i] \in All
  BY Zenon
<1>11. peers' \in [Handles -> SUBSET Handles]
  <2>1. \A h \in Handles : (IF at[h] = {} \/ buf'[h].st # "live" THEN peers[h] ELSE IF shared THEN All ELSE {h}) \in SUBSET Handles
    BY Zenon, <1>5 DEF CacheInv
  <2> QED
    BY Zenon, <1>1, <2>1
<1> HIDE DEF All, at
<1>12. ASSUME NEW h \in All
       PROVE  \/ /\ buf'[h].st \in {"raw", "live"}
                 /\ h \in peers'[h] /\ \A k \in peers'[h] : k \in All /\ peers'[k] = peers'[h]
              \/ buf'[h].st \notin {"raw", "live"} /\ peers'[h] = peers[h]
  <2>1. PICK i \in DOMAIN ids : h = hs[i]
    BY Zenon, <1>8, <1>12
  <2>2. CASE new[i].st # "live"
    <3>1. new[i].st \notin {"raw", "live"}
      BY SMTT(30), <1>2, <2>2
    <3> QED
      BY Zenon, <1>7, <2>1, <2>2, <3>1
  <2>3. CASE new[i].st = "live" /\ shared
    <3>1. \A j \in DOMAIN ids : peers'[hs[j]] = All
      BY Zenon, <1>3, <1>7, <2>3
    <3>2. buf'[h].st = "live" /\ peers'[h] = All
      <4>1. buf'[hs[i]] = new[i]
        BY Zenon, <1>7
      <4> QED
        BY SMTT(30), <2>1, <2>3, <3>1, <4>1
    <3>3. ASSUME NEW k \in All PROVE peers'[k] = All
      <4>1. PICK j \in DOMAIN ids : k = hs[j]
        BY Zenon, <1>8, <3>3
      <4> QED
        BY SMTT(30), <3>1, <4>1
    <3> QED
      BY Zenon, <1>12, <3>2, <3>3
  <2>4. CASE new[i].st = "live" /\ ~shared
    <3>1. buf'[h].st = "live" /\ peers'[h] = {h}
      BY Zenon, <1>7, <2>1, <2>4
    <3> QED
      BY Zenon, <1>12, <3>1
  <2> QED
    BY Zenon, <2>2, <2>3, <2>4
<1>13. locked' = locked /\ call' = call /\ cache' = cache
  BY Zenon, <1>1
<1> QED
  BY ZenonT(60), <1>5, <1>6, <1>9, <1>11, <1>12, <1>13, PlacedLines

\* A handle with a memory of its own, or none, at an unused address.
LEMMA OneLines ==
  ASSUME BooksInv, CacheInv, UNCHANGED <<locked, call, cache>>, NEW h \in Handles, NEW new, buf[h] = NoBuf,
         buf' = [buf EXCEPT ![h] = new],
         \/ new.st \in {"raw", "live"} /\ peers' = [peers EXCEPT ![h] = {h}]
         \/ new.st \notin {"raw", "live"} /\ peers' = peers
  PROVE  CacheInv'
<1>1. buf'[h] = new /\ \A k \in Handles \ {h} : buf'[k] = buf[k]
  BY Zenon DEF BooksInv, TypeOK
<1>2. \A k \in Handles \ {h} : peers'[k] = peers[k]
  BY Zenon DEF CacheInv
<1>3. peers' \in [Handles -> SUBSET Handles] /\ {h} \in SUBSET Handles
  BY Zenon DEF CacheInv
<1>4. \/ buf'[h].st \in {"raw", "live"} /\ peers'[h] = {h}
      \/ buf'[h].st \notin {"raw", "live"} /\ peers'[h] = peers[h]
  BY Zenon, <1>1 DEF CacheInv
<1>5. \A k \in {h} : \/ /\ buf'[k].st \in {"raw", "live"}
                        /\ k \in peers'[k] /\ \A j \in peers'[k] : j \in {h} /\ peers'[j] = peers'[k]
                     \/ buf'[k].st \notin {"raw", "live"} /\ peers'[k] = peers[k]
  BY Zenon, <1>4
<1>6. \A k \in {h} : buf[k] = NoBuf
  BY Zenon
<1>7. locked' = locked /\ call' = call /\ cache' = cache
  BY Zenon
<1>8. \A k \in Handles \ {h} : buf'[k] = buf[k] /\ peers'[k] = peers[k]
  BY Zenon, <1>1, <1>2
<1> QED
  BY ZenonT(60), <1>3, <1>5, <1>6, <1>7, <1>8, PlacedLines

\* Allocation without a descriptor id, receiving and closing keep the lines.
LEMMA PerformLines ==
  ASSUME BooksInv, CacheInv, NEW c, NEW h \in Handles, NEW d, NEW o, PerformAllocateBuffer(c, d, h, o)
  PROVE  CacheInv'
<1> DEFINE new == AllocateBuffer(d, o)
<1>1. new.st \in {"none", "stranded", "live"}
  BY Zenon, AllocateGood
<1>2. /\ buf[h] = NoBuf /\ buf' = [buf EXCEPT ![h] = new]
      /\ peers' = IF new.st = "live" THEN [peers EXCEPT ![h] = {h}] ELSE peers
      /\ UNCHANGED <<locked, call, cache>>
  BY Zenon DEF PerformAllocateBuffer
<1> HIDE DEF new
<1>3. new.st = "live" \/ new.st \notin {"raw", "live"}
  BY SMTT(30), <1>1
<1> QED
  BY Zenon, <1>2, <1>3, OneLines

LEMMA ReceiveLines ==
  ASSUME BooksInv, CacheInv, NEW h \in Handles, Receive(h)
  PROVE  CacheInv'
<1>1. PICK b \in Received : buf' = [buf EXCEPT ![h] = b]
  BY Zenon DEF Receive
<1>2. b.st \in {"raw", "live"}
  <2> DEFINE b1 == [st |-> "raw", ref |-> 0, has |-> {"fd", "meta"}, open |-> {"fd", "meta"}, failed |-> FALSE,
                    flags |-> {"USES_ION", "CACHED", "NON_CPU_WRITER"}, twice |-> FALSE]
             b2 == [st |-> "raw", ref |-> 0, has |-> {"fd"}, open |-> {"fd"}, failed |-> FALSE,
                    flags |-> {"CLIENT_ALLOCATED"}, twice |-> FALSE]
  <2>1. b = b1 \/ b = b2
    BY ZenonT(60) DEF Received, NoBuf
  <2>2. b1.st = "raw" /\ b2.st = "raw"
    BY Zenon
  <2> QED
    BY Zenon, <2>1, <2>2
<1> QED
  BY Zenon, <1>1, <1>2, OneLines DEF Receive

LEMMA CloseLines ==
  ASSUME BooksInv, CacheInv, NEW h \in Handles, CloseReceived(h)
  PROVE  CacheInv'
<1>1. buf[h] \in Bufs /\ buf[h].st # "live"
  BY Zenon DEF CloseReceived, BooksInv, TypeOK
<1>2. \A c \in Clients : ~Held(c, h, "read") /\ ~Held(c, h, "write")
  BY Zenon, <1>1, NotHeld
<1>3. /\ buf' = [buf EXCEPT ![h] = CloseHandle(buf[h])] /\ peers' = Parted(h) /\ cache' = [cache EXCEPT ![h] = Clean]
      /\ locked' = locked /\ call' = call
  BY Zenon DEF CloseReceived
<1> QED
  BY Zenon, <1>1, <1>2, <1>3, Gone, PartedLines

\* An import joins the handles of the memory, or leaves nothing.
LEMMA ImportLines ==
  ASSUME BooksInv, CacheInv, NEW c \in Clients, NEW from \in Handles, NEW h \in Handles, NEW o, ImportBuffer(c, from, h, o)
  PROVE  CacheInv'
<1> DEFINE new == ImportHandleLocked(Cloned(buf[from]), o)
<1>1. CASE new.st = "live"
  <2>1. buf[from].st \in {"raw", "live"}
    BY Zenon, Unused DEF ImportBuffer
  <2>2. /\ buf[h] = NoBuf /\ buf' = [buf EXCEPT ![h] = new] /\ peers' = Joined(from, h)
        /\ cache' = [cache EXCEPT ![h] = cache[from]] /\ locked' = locked /\ call' = call
    BY Zenon, <1>1 DEF ImportBuffer
  <2> HIDE DEF new
  <2> QED
    BY Zenon, <1>1, <2>1, <2>2, JoinedLines
<1>2. CASE new.st # "live"
  <2>1. CloseHandle(new) = NoBuf
    <3>1. Incoming(Cloned(buf[from]))
      BY Zenon, ClonedIncoming DEF BooksInv, TypeOK
    <3> QED
      BY Zenon, <1>2, <3>1, ImportGood, CloseGood
  <2>2. /\ buf[h] = NoBuf /\ buf' = [buf EXCEPT ![h] = CloseHandle(new)] /\ UNCHANGED <<locked, call, peers, cache>>
    BY Zenon, <1>2 DEF ImportBuffer
  <2> HIDE DEF new
  <2>3. NoBuf.st \notin {"raw", "live"}
    BY SMTT(30), NoBufGood
  <2> QED
    BY Zenon, <2>1, <2>2, <2>3, OneLines
<1> QED
  BY Zenon, <1>1, <1>2

\* A step that leaves memories, lines, locks and calls alone, and the flags of the handles.
LEMMA QuietLines ==
  ASSUME CacheInv, UNCHANGED <<peers, cache, locked, call>>,
         \A h \in Handles : /\ buf'[h].flags = buf[h].flags
                            /\ buf'[h].st \in {"raw", "live"} <=> buf[h].st \in {"raw", "live"}
  PROVE  CacheInv'
<1>1. \A h \in Handles, c \in Clients : (Held(c, h, "read")' <=> Held(c, h, "read")) /\ (Writing(c, h)' <=> Writing(c, h))
  BY Zenon DEF Held, Writing
<1> QED
  BY Zenon, <1>1, SameLines

\* One more reference, or the first, leaves the lines alone.
LEMMA RetainLines ==
  ASSUME BooksInv, CacheInv, NEW c \in Clients, NEW h \in Handles, NEW o, RetainBuffer(c, h, o)
  PROVE  CacheInv'
<1>1. buf \in [Handles -> Bufs] /\ UNCHANGED <<peers, cache, locked, call>>
  BY Zenon DEF BooksInv, TypeOK, RetainBuffer
<1>2. CASE buf[h].st = "live"
  <2>1. buf' = [buf EXCEPT ![h].ref = @ + 1]
    BY Zenon, <1>2 DEF RetainBuffer
  <2>2. \A g \in Handles : buf'[g].flags = buf[g].flags /\ buf'[g].st = buf[g].st
    BY Zenon, <1>1, <2>1 DEF Bufs
  <2> QED
    BY Zenon, <1>1, <2>2, QuietLines
<1>3. CASE buf[h].st # "live"
  <2>1. buf[h].st = "raw" /\ buf' = [buf EXCEPT ![h] = ImportHandleLocked(buf[h], o)]
    BY Zenon, <1>3 DEF RetainBuffer
  <2>2. buf'[h] = ImportHandleLocked(buf[h], o) /\ \A g \in Handles : g # h => buf'[g] = buf[g]
    BY Zenon, <1>1, <2>1
  <2>3. buf'[h].flags = buf[h].flags /\ buf'[h].st \in {"raw", "live"} /\ buf[h].st \in {"raw", "live"}
    BY Zenon, <1>1, <2>1, <2>2, ImportedStays
  <2>4. \A g \in Handles : /\ buf'[g].flags = buf[g].flags
                           /\ buf'[g].st \in {"raw", "live"} <=> buf[g].st \in {"raw", "live"}
    BY Zenon, <2>2, <2>3
  <2> QED
    BY Zenon, <1>1, <2>4, QuietLines
<1> QED
  BY Zenon, <1>2, <1>3

\* The last release parts the handle from its memory; its client had not locked it, and there is no other.
LEMMA ReleaseLines ==
  ASSUME BooksInv, BooksInv', CacheInv, NEW c \in Clients, NEW h \in Handles, ReleaseBuffer(c, h)
  PROVE  CacheInv'
<1>1. buf \in [Handles -> Bufs] /\ UNCHANGED <<locked, call>>
  BY Zenon DEF BooksInv, TypeOK, ReleaseBuffer
<1>2. CASE buf[h].ref # 1
  <2>1. buf' = [buf EXCEPT ![h].ref = @ - 1] /\ UNCHANGED <<peers, cache>>
    BY Zenon, <1>2 DEF ReleaseBuffer
  <2>2. \A g \in Handles : buf'[g].flags = buf[g].flags /\ buf'[g].st = buf[g].st
    BY Zenon, <1>1, <2>1 DEF Bufs
  <2> QED
    BY Zenon, <1>1, <2>1, <2>2, QuietLines
<1>3. CASE buf[h].ref = 1
  <2>1. buf' = [buf EXCEPT ![h] = FreeBuffer(buf[h])] /\ peers' = Parted(h) /\ cache' = [cache EXCEPT ![h] = Clean]
    BY Zenon, <1>3 DEF ReleaseBuffer
  <2>2. FreeBuffer(buf[h]).st \notin {"raw", "live"}
    BY Zenon, <1>1, Gone
  <2>3. buf'[h].st # "live"
    BY Zenon, <1>1, <2>1, <2>2
  <2>4. \A d \in Clients : d \notin refs'[h]
    <3>1. h \notin orphan'
      BY Zenon, <2>3 DEF BooksInv, RefsCounted
    <3> QED
      BY Zenon, <2>3, <3>1 DEF BooksInv, RefsCounted
  <2>5. "read" \in Modes \ {"none"} /\ "write" \in Modes \ {"none"}
    BY Zenon DEF Modes
  <2>6. \A d \in Clients : ~Held(d, h, "read")' /\ ~Held(d, h, "write")'
    BY Zenon, <2>4, <2>5 DEF BooksInv, Access
  <2>7. \A d \in Clients : ~Held(d, h, "read") /\ ~Held(d, h, "write")
    BY Zenon, <1>1, <2>6 DEF Held
  <2> QED
    BY Zenon, <1>1, <2>1, <2>2, <2>7, PartedLines
<1> QED
  BY Zenon, <1>2, <1>3

\* A client writes: it has the memory locked for that.
LEMMA CpuLines ==
  ASSUME BooksInv, CacheInv, NEW c \in Clients, NEW h \in Handles, CpuWrites(c, h)
  PROVE  CacheInv'
<1> DEFINE ls == [cache[h] EXCEPT !.dirty = TRUE]
<1>1. UNCHANGED <<buf, locked, call, peers>> /\ cache' = SetLines(h, ls) /\ Writing(c, h)
  BY Zenon DEF CpuWrites, Writing, Held
<1>2. h \in peers[h]
  <2>1. "write" \in Modes \ {"none"}
    BY Zenon DEF Modes
  <2>2. buf[h].st = "live"
    BY Zenon, <1>1, <2>1, Busy DEF Writing
  <2> QED
    BY Zenon, <2>2, Peer
<1>3. cache[h] \in Lines
  BY Zenon DEF CacheInv
<1>4. ls \in Lines /\ ls.stale = cache[h].stale /\ ls.lost = cache[h].lost /\ ls.excused = cache[h].excused
  BY Zenon, <1>3 DEF Lines
<1> HIDE DEF ls
<1>5. \A k \in Handles, d \in Clients : (Held(d, k, "read")' <=> Held(d, k, "read")) /\ (Writing(d, k)' <=> Writing(d, k))
  BY Zenon, <1>1 DEF Held, Writing
<1>6. ASSUME NEW k \in peers[h], k \in Handles, peers[k] = peers[h], cache[k] = cache[h], cache'[k] = ls
      PROVE  LinesInv(k)'
  <2>1. Written(k)'
    BY Zenon, <1>1, <1>2, <1>5, <1>6 DEF Written
  <2>2. LinesInv(k)
    BY Zenon, <1>6 DEF CacheInv
  <2> QED
    BY Zenon, <1>1, <1>4, <1>5, <1>6, <2>1, <2>2 DEF LinesInv
<1> QED
  BY Zenon, <1>1, <1>2, <1>4, <1>5, <1>6, SetsLines

\* A device writes: nobody has the memory locked.
LEMMA DeviceLines ==
  ASSUME BooksInv, CacheInv, NEW h \in Handles, DeviceWrites(h)
  PROVE  CacheInv'
<1> DEFINE ls == [cache[h] EXCEPT !.stale = TRUE]
<1>1. UNCHANGED <<buf, locked, call, peers>> /\ cache' = SetLines(h, ls) /\ ~InUse(h) /\ buf[h].st = "live"
  BY Zenon DEF DeviceWrites
<1>2. h \in peers[h]
  BY Zenon, <1>1, Peer
<1>3. cache[h] \in Lines
  BY Zenon DEF CacheInv
<1>4. ls \in Lines /\ ls.dirty = cache[h].dirty /\ ls.lost = cache[h].lost /\ ls.excused = cache[h].excused
  BY Zenon, <1>3 DEF Lines
<1> HIDE DEF ls
<1>5. \A k \in Handles, d \in Clients : (Held(d, k, "read")' <=> Held(d, k, "read")) /\ (Writing(d, k)' <=> Writing(d, k))
  BY Zenon, <1>1 DEF Held, Writing
<1>6. \A k \in peers[h], d \in Clients : ~Held(d, k, "read") /\ ~Held(d, k, "write")
  BY SMTT(30), <1>1 DEF InUse, Held
<1>7. ASSUME NEW k \in peers[h], k \in Handles, peers[k] = peers[h], cache[k] = cache[h], cache'[k] = ls
      PROVE  LinesInv(k)'
  <2>1. ~Written(k)
    BY Zenon, <1>6, <1>7 DEF Written, Writing
  <2>2. LinesInv(k)
    BY Zenon, <1>7 DEF CacheInv
  <2>3. \A d \in Clients : ~Held(d, k, "read")' /\ ~Held(d, k, "write")'
    BY Zenon, <1>5, <1>6, <1>7 DEF Writing
  <2>4. (cache[k].dirty => cache[k].excused \/ Written(k))' /\ (cache[k].lost => cache[k].excused)'
    BY Zenon, <1>4, <1>7, <2>1, <2>2 DEF LinesInv
  <2> QED
    BY Zenon, <1>7, <2>3, <2>4, IdleLines
<1> QED
  BY Zenon, <1>1, <1>2, <1>4, <1>5, <1>7, SetsLines

\* A lock returns, or a metadata mapping is made: nothing about the lines changes.
LEMMA ReturnsLines ==
  ASSUME BooksInv, CacheInv, NEW c \in Clients, LockReturns(c)
  PROVE  CacheInv'
<1>1. PICK h \in Handles : c \in refs[h] /\ Locking(c, h)
  <2>1. CallOK(c) /\ call[c].op = "lock"
    BY Zenon DEF BooksInv, TypeOK, LockReturns
  <2>2. call[c] # Idle /\ \A g \in Handles : ~Mapping(c, g)
    BY SMTT(30), <2>1 DEF Mapping, Idle
  <2> QED
    BY Zenon, <2>1, <2>2 DEF CallOK
<1>2. PICK mode \in Modes : call[c] = [op |-> "lock", h |-> h, mode |-> mode]
  BY Zenon, <1>1 DEF Locking
<1>3. /\ locked[h][c] = "none" /\ call[c].h = h /\ call[c].mode = mode
      /\ locked \in [Handles -> [Clients -> Modes]]
  BY SMTT(30), <1>1, <1>2 DEF Locking, BooksInv, TypeOK
<1>4. /\ locked' = [locked EXCEPT ![h][c] = mode] /\ call' = [call EXCEPT ![c] = Idle]
      /\ UNCHANGED <<buf, peers, cache>>
  BY Zenon, <1>3 DEF LockReturns
<1>5. /\ locked'[h][c] = mode
      /\ \A g \in Handles, d \in Clients : g # h \/ d # c => locked'[g][d] = locked[g][d]
  BY Zenon, <1>3, <1>4
<1>6. \A d \in Clients : IF d = c THEN call'[d] = Idle ELSE call'[d] = call[d]
  <2>1. call = [d \in Clients |-> call[d]]
    BY Zenon DEF BooksInv, TypeOK
  <2> QED
    BY Zenon, <1>4, <2>1
<1>7. ASSUME NEW g \in Handles, NEW d \in Clients, NEW m, m # "none"
      PROVE  Held(d, g, m)' <=> Held(d, g, m)
  <2>1. CASE d # c
    BY Zenon, <1>5, <1>6, <2>1 DEF Held
  <2>2. CASE d = c /\ g = h
    BY SMTT(30), <1>2, <1>3, <1>5, <1>6, <1>7, <2>2 DEF Held, Idle
  <2>3. CASE d = c /\ g # h
    BY SMTT(30), <1>2, <1>5, <1>6, <2>3 DEF Held, Idle
  <2> QED
    BY Zenon, <2>1, <2>2, <2>3
<1>8. \A g \in Handles, d \in Clients : (Held(d, g, "read")' <=> Held(d, g, "read")) /\ (Writing(d, g)' <=> Writing(d, g))
  BY Zenon, <1>7 DEF Writing
<1> QED
  BY Zenon, <1>4, <1>8, SameLines

LEMMA MetaLines ==
  ASSUME BooksInv, CacheInv, NEW c \in Clients, StoreMetaData(c) \/ \E h \in Handles : MapMetaData(c, h)
  PROVE  CacheInv'
<1>1. buf \in [Handles -> Bufs] /\ call = [d \in Clients |-> call[d]]
  BY Zenon DEF BooksInv, TypeOK
<1>2. UNCHANGED <<peers, cache, locked>>
  BY Zenon DEF StoreMetaData, MapMetaData
<1>3. \A h \in Handles : buf'[h].flags = buf[h].flags /\ buf'[h].st = buf[h].st
  <2>1. CASE StoreMetaData(c)
    <3>1. PICK g : buf' = [buf EXCEPT ![g].has = @ \cup {"mapmeta"}, ![g].open = @ \cup {"mapmeta"}]
      BY Zenon, <2>1 DEF StoreMetaData
    <3> QED
      BY SMTT(30), <1>1, <3>1 DEF Bufs
  <2>2. CASE \E h \in Handles : MapMetaData(c, h)
    BY Zenon, <2>2 DEF MapMetaData
  <2> QED
    BY Zenon, <2>1, <2>2
<1>4. PICK r : call' = [call EXCEPT ![c] = r] /\ (r = Idle \/ \E h \in Handles : r = [op |-> "meta", h |-> h])
  BY Zenon DEF StoreMetaData, MapMetaData
<1>5. call[c] = Idle \/ call[c].op = "meta"
  BY Zenon DEF StoreMetaData, MapMetaData
<1>6. \A g, m : call[c] # [op |-> "lock", h |-> g, mode |-> m] /\ r # [op |-> "lock", h |-> g, mode |-> m]
  BY SMTT(30), <1>4, <1>5 DEF Idle
<1>7. \A d \in Clients : (d # c => call'[d] = call[d]) /\ call'[c] = r
  BY Zenon, <1>1, <1>4
<1>8. \A g \in Handles, d \in Clients : (Held(d, g, "read")' <=> Held(d, g, "read")) /\ (Writing(d, g)' <=> Writing(d, g))
  BY Zenon, <1>2, <1>6, <1>7 DEF Held, Writing
<1> QED
  BY Zenon, <1>2, <1>3, <1>8, SameLines

\* A lock: a reader of memory that is to be invalidated finds no stale lines, a writer sets the flag,
\* and lines are lost only to a lock beside a writer's.
LEMMA LockLines ==
  ASSUME BooksInv, CacheInv, NEW c \in Clients, NEW h \in Handles, NEW u, NEW unmapped \in BOOLEAN, NEW unclean \in BOOLEAN,
         LockBuffer(c, h, u, unmapped, unclean)
  PROVE  CacheInv'
<1> DEFINE b == buf[h]
           map == ~b.failed /\ "map" \notin b.has
           err == map /\ unmapped
           invalidate == /\ ~err /\ Invalidating \subseteq b.flags
                         /\ u.cons \cap {"CPU_READ", "CPU_READ_OFTEN"} # {}
           ok == ~err /\ ~(invalidate /\ unclean)
           mapped == IF err THEN [b EXCEPT !.failed = TRUE]
                     ELSE IF map THEN [b EXCEPT !.has = @ \cup {"map"}, !.open = @ \cup {"map"}] ELSE b
           n == IF ok /\ CpuCanWrite(u.prod) THEN [mapped EXCEPT !.flags = @ \cup {"NEEDS_FLUSH"}] ELSE mapped
           mode == IF ok THEN Mode(u) ELSE "none"
           fresh == invalidate /\ ~unclean
           ls == IF fresh THEN Invalidated(h) ELSE cache[h]
<1>1. /\ call[c] = Idle /\ b.st = "live" /\ c \in refs[h] /\ locked[h][c] = "none"
      /\ buf' = [buf EXCEPT ![h] = n] /\ call' = [call EXCEPT ![c] = [op |-> "lock", h |-> h, mode |-> mode]]
      /\ cache' = IF fresh THEN SetLines(h, Invalidated(h)) ELSE cache
      /\ UNCHANGED <<locked, peers>>
  BY Zenon DEF LockBuffer
<1>2. b \in Bufs /\ buf \in [Handles -> Bufs] /\ call = [d \in Clients |-> call[d]] /\ cache[h] \in Lines
  BY Zenon DEF BooksInv, TypeOK, CacheInv
<1>3. mapped \in [st : {b.st}, ref : {b.ref}, has : {b.has, b.has \cup {"map"}}, open : {b.open, b.open \cup {"map"}},
                  failed : BOOLEAN, flags : {b.flags}, twice : {b.twice}]
  <2> HIDE DEF err, map
  <2> QED
    BY Zenon, <1>2 DEF Bufs
<1> HIDE DEF mapped
<1>4. n.st = b.st /\ (n.flags = b.flags \/ n.flags = b.flags \cup {"NEEDS_FLUSH"}) /\ (ok /\ CpuCanWrite(u.prod) => "NEEDS_FLUSH" \in n.flags)
  <2>1. CASE ok /\ CpuCanWrite(u.prod)
    <3>1. n = [mapped EXCEPT !.flags = @ \cup {"NEEDS_FLUSH"}]
      BY Zenon, <2>1
    <3> QED
      BY Zenon, <1>3, <3>1
  <2>2. CASE ~(ok /\ CpuCanWrite(u.prod))
    <3>1. n = mapped
      BY Zenon, <2>2
    <3> HIDE DEF n, ok
    <3> QED
      BY Zenon, <1>3, <2>2, <3>1
  <2> HIDE DEF n, ok
  <2> QED
    BY Zenon, <2>1, <2>2
<1>5. Invalidating \subseteq n.flags => Invalidating \subseteq b.flags
  <2>1. "NEEDS_FLUSH" \notin Invalidating
    BY SMTT(30) DEF Invalidating
  <2> HIDE DEF n
  <2> QED
    BY Zenon, <1>4, <2>1
<1>6. mode = "write" => ok /\ CpuCanWrite(u.prod)
  BY Zenon DEF Mode
<1>7. mode = "read" /\ Invalidating \subseteq b.flags => fresh
  BY Zenon DEF Mode
<1>8. /\ ls \in Lines /\ (ls.dirty => cache[h].dirty) /\ (cache[h].excused => ls.excused) /\ (ls.stale => cache[h].stale)
      /\ (fresh => ~ls.stale)
      /\ (ls.lost => cache[h].lost \/ (cache[h].dirty /\ (Written(h) => ls.excused)))
  <2>1. CASE fresh
    <3>1. ls = [cache[h] EXCEPT !.dirty = FALSE, !.stale = FALSE, !.lost = @ \/ cache[h].dirty,
                                !.excused = @ \/ (cache[h].dirty /\ Written(h))]
      BY Zenon, <2>1 DEF Invalidated
    <3>2. /\ cache[h].lost \in BOOLEAN /\ cache[h].dirty \in BOOLEAN /\ cache[h].excused \in BOOLEAN /\ FALSE \in BOOLEAN
          /\ (cache[h].lost \/ cache[h].dirty) \in BOOLEAN /\ (cache[h].excused \/ (cache[h].dirty /\ Written(h))) \in BOOLEAN
      BY Zenon, <1>2 DEF Lines
    <3>3. ls \in Lines
      BY Zenon, <1>2, <3>1, <3>2 DEF Lines
    <3>4. /\ ls.dirty = FALSE /\ ls.stale = FALSE /\ ls.lost = (cache[h].lost \/ cache[h].dirty)
          /\ ls.excused = (cache[h].excused \/ (cache[h].dirty /\ Written(h)))
      BY Zenon, <1>2, <3>1 DEF Lines
    <3> HIDE DEF ls, fresh
    <3> QED
      BY Zenon, <3>3, <3>4
  <2>2. CASE ~fresh
    <3>1. ls = cache[h]
      BY Zenon, <2>2
    <3> HIDE DEF ls, fresh
    <3> QED
      BY Zenon, <1>2, <2>2, <3>1
  <2> HIDE DEF ls, fresh
  <2> QED
    BY Zenon, <2>1, <2>2
<1>9. h \in peers[h]
  BY Zenon, <1>1, Peer
<1>10. cache' = SetLines(h, ls)
  <2>1. CASE fresh
    BY Zenon, <1>1, <2>1
  <2>2. CASE ~fresh
    <3>1. cache = [k \in Handles |-> IF k \in peers[h] THEN cache[h] ELSE cache[k]]
      <4>1. \A k \in Handles : cache[k] = IF k \in peers[h] THEN cache[h] ELSE cache[k]
        BY Zenon DEF CacheInv, PeersInv
      <4>2. cache = [k \in Handles |-> cache[k]]
        BY Zenon DEF CacheInv
      <4> QED
        BY Zenon, <4>1, <4>2
    <3>2. ls = cache[h] /\ cache' = cache
      BY Zenon, <1>1, <2>2
    <3> QED
      BY Zenon, <3>1, <3>2 DEF SetLines
  <2> QED
    BY Zenon, <2>1, <2>2
<1> HIDE DEF n, mode, ok, err, invalidate, map, ls, fresh
<1>11. buf'[h] = n /\ \A g \in Handles : g # h => buf'[g] = buf[g]
  BY Zenon, <1>1, <1>2
<1>12. \A d \in Clients : IF d = c THEN call'[d] = [op |-> "lock", h |-> h, mode |-> mode] ELSE call'[d] = call[d]
  BY Zenon, <1>1, <1>2
<1>13. ASSUME NEW g \in Handles, NEW d \in Clients, NEW m, m # "none"
       PROVE  /\ Held(d, g, m)' => Held(d, g, m) \/ (g = h /\ d = c /\ m = mode)
              /\ Held(d, g, m) => Held(d, g, m)'
              /\ g # h => (Held(d, g, m)' <=> Held(d, g, m))
  BY SMTT(30), <1>1, <1>12, <1>13 DEF Held, Idle
<1>14. \A g \in Handles : g # h => \A d \in Clients : (Held(d, g, "read")' <=> Held(d, g, "read")) /\ (Writing(d, g)' <=> Writing(d, g))
  BY Zenon, <1>13 DEF Writing
<1>15. \A g \in Handles, d \in Clients : /\ Writing(d, g) => Writing(d, g)'
                                         /\ Writing(d, g)' => Writing(d, g) \/ (g = h /\ mode = "write")
                                         /\ Held(d, g, "read")' => Held(d, g, "read") \/ (g = h /\ mode = "read")
  BY Zenon, <1>13 DEF Writing
<1>16. ASSUME NEW k \in peers[h], k \in Handles, peers[k] = peers[h], cache[k] = cache[h], cache'[k] = ls
       PROVE  LinesInv(k)'
  <2>1. LinesInv(k)
    BY Zenon, <1>16 DEF CacheInv
  <2>2. Written(k) => Written(k)'
    BY Zenon, <1>1, <1>15, <1>16, Peer DEF Written, CacheInv
  <2>3. Written(h) <=> Written(k)
    BY Zenon, <1>16 DEF Written
  <2>4. buf[k].flags \subseteq buf'[k].flags /\ (Invalidating \subseteq buf'[k].flags => Invalidating \subseteq buf[k].flags)
    <3>1. CASE k = h
      BY Zenon, <1>4, <1>5, <1>11, <3>1
    <3>2. CASE k # h
      BY Zenon, <1>11, <1>16, <3>2
    <3> QED
      BY Zenon, <3>1, <3>2
  <2>5. ASSUME NEW d \in Clients, Writing(d, k)' PROVE "NEEDS_FLUSH" \in buf'[k].flags \/ ls.excused
    <3>1. CASE Writing(d, k)
      BY Zenon, <1>8, <1>16, <2>1, <2>4, <3>1 DEF LinesInv
    <3>2. CASE k = h /\ mode = "write"
      BY Zenon, <1>4, <1>6, <1>11, <3>2
    <3> QED
      BY Zenon, <1>15, <1>16, <2>5, <3>1, <3>2
  <2>6. ls.dirty => ls.excused \/ Written(k)'
    BY Zenon, <1>8, <1>16, <2>1, <2>2 DEF LinesInv
  <2>7. ls.lost => ls.excused
    BY Zenon, <1>8, <1>16, <2>1, <2>3 DEF LinesInv
  <2>8. ASSUME NEW d \in Clients, Held(d, k, "read")', ls.stale, Invalidating \subseteq buf'[k].flags PROVE FALSE
    <3>1. CASE Held(d, k, "read")
      BY Zenon, <1>8, <1>16, <2>1, <2>4, <2>8, <3>1 DEF LinesInv
    <3>2. CASE k = h /\ mode = "read"
      BY Zenon, <1>7, <1>8, <2>4, <2>8, <3>2
    <3> QED
      BY Zenon, <1>15, <1>16, <2>8, <3>1, <3>2
  <2> QED
    BY Zenon, <1>16, <2>5, <2>6, <2>7, <2>8 DEF LinesInv
<1>17. \A k \in Handles : buf'[k].st = buf[k].st
  BY Zenon, <1>4, <1>11
<1>18. \A k \in Handles : k # h => /\ buf'[k].flags = buf[k].flags
                                       /\ \A d \in Clients : /\ Held(d, k, "read")' <=> Held(d, k, "read")
                                                             /\ Writing(d, k)' <=> Writing(d, k)
  BY Zenon, <1>11, <1>14
<1>19. peers' = peers /\ \A k \in peers[h] : k \in Handles /\ peers[k] = peers[h] /\ cache[k] = cache[h] /\ cache'[k] = ls => LinesInv(k)'
  BY Zenon, <1>1, <1>16
<1> QED
  BY ZenonT(60), <1>8, <1>9, <1>10, <1>17, <1>18, <1>19, SetsLines

\* An unlock flushes what was written, or excuses what another writer or a failed flush leaves.
LEMMA UnlockLines ==
  ASSUME BooksInv, CacheInv, NEW c \in Clients, NEW h \in Handles, NEW unclean \in BOOLEAN, UnlockBuffer(c, h, unclean)
  PROVE  CacheInv'
<1> DEFINE n == [buf[h] EXCEPT !.flags = @ \ {"NEEDS_FLUSH"}]
           flush == "NEEDS_FLUSH" \in buf[h].flags
           others == WrittenBut(c, h)
           ls == IF flush /\ ~unclean THEN [cache[h] EXCEPT !.dirty = FALSE, !.excused = others \/ cache[h].lost]
                 ELSE [cache[h] EXCEPT !.excused = @ \/ others \/ flush]
<1>1. /\ call[c] = Idle /\ locked[h][c] # "none" /\ locked' = [locked EXCEPT ![h][c] = "none"]
      /\ buf' = [buf EXCEPT ![h].flags = @ \ {"NEEDS_FLUSH"}] /\ cache' = SetLines(h, ls) /\ UNCHANGED <<call, peers>>
  BY Zenon DEF UnlockBuffer
<1>2. buf \in [Handles -> Bufs] /\ locked \in [Handles -> [Clients -> Modes]] /\ cache[h] \in Lines
  BY Zenon DEF BooksInv, TypeOK, CacheInv
<1>3. h \in peers[h]
  <2>1. Held(c, h, locked[h][c]) /\ locked[h][c] \in Modes \ {"none"}
    BY Zenon, <1>1, <1>2 DEF Held
  <2>2. buf[h].st = "live"
    BY Zenon, <2>1, Busy
  <2> QED
    BY Zenon, <2>2, Peer
<1>4. /\ ls \in Lines /\ ls.stale = cache[h].stale /\ ls.lost = cache[h].lost
      /\ others => ls.excused
      /\ ls.lost => ls.excused \/ ~cache[h].excused
      /\ ls.dirty => cache[h].dirty /\ (cache[h].excused \/ flush => ls.excused)
  <2>1. cache[h].lost \in BOOLEAN /\ cache[h].dirty \in BOOLEAN /\ cache[h].excused \in BOOLEAN /\ FALSE \in BOOLEAN
        /\ (others \/ cache[h].lost) \in BOOLEAN /\ (cache[h].excused \/ others \/ flush) \in BOOLEAN
    BY Zenon, <1>2 DEF Lines
  <2>2. CASE flush /\ ~unclean
    <3>1. ls = [cache[h] EXCEPT !.dirty = FALSE, !.excused = others \/ cache[h].lost]
      BY Zenon, <2>2
    <3>2. ls \in Lines
      BY Zenon, <1>2, <2>1, <3>1 DEF Lines
    <3>3. ls.dirty = FALSE /\ ls.stale = cache[h].stale /\ ls.lost = cache[h].lost /\ ls.excused = (others \/ cache[h].lost)
      BY Zenon, <1>2, <3>1 DEF Lines
    <3> HIDE DEF ls, others, flush
    <3> QED
      BY Zenon, <3>2, <3>3
  <2>3. CASE ~(flush /\ ~unclean)
    <3>1. ls = [cache[h] EXCEPT !.excused = @ \/ others \/ flush]
      BY Zenon, <2>3
    <3>2. ls \in Lines
      BY Zenon, <1>2, <2>1, <3>1 DEF Lines
    <3>3. /\ ls.dirty = cache[h].dirty /\ ls.stale = cache[h].stale /\ ls.lost = cache[h].lost
          /\ ls.excused = (cache[h].excused \/ others \/ flush)
      BY Zenon, <1>2, <3>1 DEF Lines
    <3> HIDE DEF ls, others, flush
    <3> QED
      BY Zenon, <3>2, <3>3
  <2> HIDE DEF ls, others, flush
  <2> QED
    BY Zenon, <2>2, <2>3
<1> HIDE DEF ls
<1>5. buf'[h].st = buf[h].st /\ buf'[h].flags = buf[h].flags \ {"NEEDS_FLUSH"} /\ \A g \in Handles : g # h => buf'[g] = buf[g]
  BY Zenon, <1>1, <1>2 DEF Bufs
<1>6. /\ locked'[h][c] = "none"
      /\ \A g \in Handles, d \in Clients : g # h \/ d # c => locked'[g][d] = locked[g][d]
  BY Zenon, <1>1, <1>2 DEF Modes
<1>7. ASSUME NEW g \in Handles, NEW d \in Clients, NEW m, m # "none"
      PROVE  /\ g # h \/ d # c => (Held(d, g, m)' <=> Held(d, g, m))
             /\ ~Held(c, h, m)'
  BY SMTT(30), <1>1, <1>6, <1>7 DEF Held, Idle
<1>8. \A g \in Handles : g # h => \A d \in Clients : (Held(d, g, "read")' <=> Held(d, g, "read")) /\ (Writing(d, g)' <=> Writing(d, g))
  BY Zenon, <1>7 DEF Writing
<1>9. \A g \in Handles, d \in Clients : /\ Writing(d, g)' => Writing(d, g) /\ <<d, g>> # <<c, h>>
                                        /\ Writing(d, g) => Writing(d, g)' \/ (d = c /\ g = h)
                                        /\ Held(d, g, "read")' => Held(d, g, "read")
  BY SMTT(30), <1>7 DEF Writing
<1>10. ASSUME NEW k \in peers[h], k \in Handles, peers[k] = peers[h], cache[k] = cache[h], cache'[k] = ls
       PROVE  LinesInv(k)'
  <2>1. LinesInv(k) /\ LinesInv(h)
    BY Zenon, <1>10 DEF CacheInv
  <2>2. \A d \in Clients : Writing(d, k)' => ls.excused
    BY Zenon, <1>4, <1>9, <1>10 DEF WrittenBut
  <2>3. ASSUME ls.dirty PROVE ls.excused \/ Written(k)'
    <3>1. CASE cache[h].excused
      BY Zenon, <1>4, <2>3, <3>1
    <3>2. CASE Writing(c, h)
      BY Zenon, <1>4, <2>1, <2>3, <3>2 DEF LinesInv
    <3>3. CASE Written(h) /\ ~Writing(c, h)
      <4>1. PICK d \in Clients, j \in peers[h] : Writing(d, j)
        BY Zenon, <3>3 DEF Written
      <4>2. j \in Handles
        BY Zenon DEF CacheInv
      <4>3. Writing(d, j)'
        BY Zenon, <1>9, <3>3, <4>1, <4>2
      <4> QED
        BY Zenon, <1>1, <1>10, <4>3 DEF Written
    <3> QED
      BY Zenon, <1>4, <2>1, <2>3, <3>1, <3>2, <3>3 DEF LinesInv
  <2>4. ls.lost => ls.excused
    BY Zenon, <1>4, <2>1 DEF LinesInv
  <2>5. Invalidating \subseteq buf'[k].flags => Invalidating \subseteq buf[k].flags
    <3>1. CASE k = h
      BY Zenon, <1>5, <3>1
    <3>2. CASE k # h
      BY Zenon, <1>5, <1>10, <3>2
    <3> QED
      BY Zenon, <3>1, <3>2
  <2>6. \A d \in Clients : Held(d, k, "read")' => ~ls.stale \/ ~(Invalidating \subseteq buf'[k].flags)
    BY Zenon, <1>4, <1>9, <1>10, <2>1, <2>5 DEF LinesInv
  <2> QED
    BY Zenon, <1>10, <2>2, <2>3, <2>4, <2>6 DEF LinesInv
<1>11. \A k \in Handles : buf'[k].st = buf[k].st
  BY Zenon, <1>5
<1>12. \A k \in Handles : k # h => /\ buf'[k].flags = buf[k].flags
                                       /\ \A d \in Clients : /\ Held(d, k, "read")' <=> Held(d, k, "read")
                                                             /\ Writing(d, k)' <=> Writing(d, k)
  BY Zenon, <1>5, <1>8
<1>13. peers' = peers /\ \A k \in peers[h] : k \in Handles /\ peers[k] = peers[h] /\ cache[k] = cache[h] /\ cache'[k] = ls => LinesInv(k)'
  BY Zenon, <1>1, <1>10
<1>14. cache' = SetLines(h, ls) /\ ls \in Lines
  BY Zenon, <1>1, <1>4
<1> QED
  BY ZenonT(60), <1>3, <1>11, <1>12, <1>13, <1>14, SetsLines
-----------------------------------------------------------------------------
(* The invariant, and the properties.                                      *)

LEMMA InitIInv == Init => IInv
<1> SUFFICES ASSUME Init PROVE IInv
  BY Zenon
<1>1. BooksInv
  BY Zenon, InitBooks
<1>2. \A h \in Handles, c \in Clients : ~Mapping(c, h) /\ ~Held(c, h, "read") /\ ~Held(c, h, "write")
  BY SMTT(30) DEF Init, Mapping, Held, Idle
<1>3. MetaInv
  BY Zenon, <1>2 DEF Init, MetaInv
<1>4. peers \in [Handles -> SUBSET Handles] /\ cache \in [Handles -> Lines]
  BY Zenon, CleanLines DEF Init
<1>5. ASSUME NEW h \in Handles PROVE PeersInv(h) /\ LinesInv(h)
  <2>1. peers[h] = {} /\ cache[h] = Clean /\ buf[h].st \notin {"raw", "live"}
    BY SMTT(30), NoBufGood DEF Init
  <2>2. ~cache[h].dirty /\ ~cache[h].stale /\ ~cache[h].lost
    BY Zenon, <2>1, CleanLines
  <2>3. PeersInv(h)
    BY Zenon, <2>1 DEF PeersInv
  <2> QED
    BY Zenon, <1>2, <2>2, <2>3 DEF LinesInv, Writing
<1> QED
  BY Zenon, <1>1, <1>3, <1>4, <1>5 DEF IInv, CacheInv

\* Every step keeps CacheInv: one case per action.
LEMMA NextCache == ASSUME BooksInv, BooksInv', CacheInv, [Next]_vars PROVE CacheInv'
<1>1. ASSUME buf' = buf, UNCHANGED <<peers, cache, locked, call>> PROVE CacheInv'
  BY Zenon, <1>1, QuietLines
<1>2. ASSUME NEW d \in DescIds, CreateBufferDescriptor(d) \/ DestroyBufferDescriptor(d) \/ CallBufferDescriptorFunction(d)
      PROVE  CacheInv'
  BY Zenon, <1>1, <1>2 DEF CreateBufferDescriptor, DestroyBufferDescriptor, CallBufferDescriptorFunction
<1>3. ASSUME NEW c \in Clients, NEW n \in 1..Cardinality(DescIds), NEW ids \in [1..n -> DescIds], NEW hs \in Injections(n),
             NEW outs \in [1..n -> Outcomes], AllocateBuffers(c, ids, hs, outs)
      PROVE  CacheInv'
  <2>1. n \in Nat
    BY SMTT(30), <1>3
  <2> QED
    BY Zenon, <1>3, <2>1, BatchLines
<1>4. ASSUME NEW c \in Clients, NEW h \in Handles, NEW p \in ProdUsages, NEW u \in ConsUsages, NEW s \in Sizes, NEW o \in Outcomes,
             PerformAllocateBuffer(c, [known |-> TRUE, prod |-> p, cons |-> u, size |-> s], h, o)
      PROVE  CacheInv'
  BY Zenon, <1>4, PerformLines
<1>5. ASSUME NEW h \in Handles, Receive(h) \/ CloseReceived(h) \/ DeviceWrites(h) PROVE CacheInv'
  BY Zenon, <1>5, ReceiveLines, CloseLines, DeviceLines
<1>6. ASSUME NEW c \in Clients, NEW from \in Handles, NEW h \in Handles, NEW o \in ImportOutcomes, ImportBuffer(c, from, h, o)
      PROVE  CacheInv'
  BY Zenon, <1>6, ImportLines
<1>7. ASSUME NEW c \in Clients, NEW h \in Handles, NEW o \in ImportOutcomes, RetainBuffer(c, h, o) PROVE CacheInv'
  BY Zenon, <1>7, RetainLines
<1>8. ASSUME NEW c \in Clients, NEW h \in Handles, ReleaseBuffer(c, h) \/ CpuWrites(c, h) \/ MapMetaData(c, h)
      PROVE  CacheInv'
  BY Zenon, <1>8, ReleaseLines, CpuLines, MetaLines
<1>9. ASSUME NEW c \in Clients, NEW h \in Handles, NEW u \in LockUsages, NEW unmapped \in BOOLEAN, NEW unclean \in BOOLEAN,
             LockBuffer(c, h, u, unmapped, unclean)
      PROVE  CacheInv'
  BY Zenon, <1>9, LockLines
<1>10. ASSUME NEW c \in Clients, NEW h \in Handles, NEW unclean \in BOOLEAN, UnlockBuffer(c, h, unclean) PROVE CacheInv'
  BY Zenon, <1>10, UnlockLines
<1>11. ASSUME NEW c \in Clients, LockReturns(c) \/ StoreMetaData(c) PROVE CacheInv'
  BY Zenon, <1>11, ReturnsLines, MetaLines
<1>12. CASE UNCHANGED vars
  BY Zenon, <1>1, <1>12 DEF vars
<1> QED
  BY ZenonT(60), <1>2, <1>3, <1>4, <1>5, <1>6, <1>7, <1>8, <1>9, <1>10, <1>11, <1>12 DEF Next

LEMMA NextIInv == IInv /\ [Next]_vars => IInv'
<1> SUFFICES ASSUME IInv, [Next]_vars PROVE IInv'
  BY Zenon
<1>1. BooksInv /\ BooksInv'
  BY Zenon, NextBooks DEF IInv
<1>2. MetaInv'
  BY Zenon, <1>1, NextMeta DEF IInv
<1>3. CacheInv'
  BY Zenon, <1>1, NextCache DEF IInv
<1> QED
  BY Zenon, <1>1, <1>2, <1>3 DEF IInv

\* The inductive invariant holds in every reachable state, however many clients and handles there are.
THEOREM Invariance == Spec => []IInv
  BY InitIInv, NextIInv, PTL DEF Spec

\* A handle is registered exactly as long as somebody owns it, and its count is the
\* number of its owners (RefsCounted); the batch that failed is the exception.
THEOREM CountsAreOwners == Spec => []RefsCounted
<1>1. IInv => RefsCounted
  BY Zenon DEF IInv, BooksInv
<1> QED
  BY <1>1, Invariance, PTL

\* Resources are given back once, and forgotten only in the three cases NothingLost names.
THEOREM ResourcesGivenBackOnce == Spec => []NothingLost
<1>1. IInv => NothingLost
  BY Zenon DEF IInv, BooksInv, MetaInv, NothingLost
<1> QED
  BY <1>1, Invariance, PTL

\* A locked buffer is mapped (LockedIsMapped).
THEOREM LocksAreMapped == Spec => []LockedIsMapped
<1>1. IInv => LockedIsMapped
  <2> SUFFICES ASSUME IInv, NEW h \in Handles, NEW c \in Clients, locked[h][c] # "none"
               PROVE  buf[h].st = "live" /\ ("map" \in buf[h].open \/ buf[h].failed)
    BY Zenon DEF LockedIsMapped
  <2>1. Held(c, h, locked[h][c]) /\ locked[h][c] \in Modes \ {"none"}
    BY ZenonT(60) DEF Held, IInv, BooksInv, TypeOK
  <2>2. c \in refs[h] /\ ("map" \in buf[h].has \/ buf[h].failed)
    BY Zenon, <2>1 DEF IInv, BooksInv, Access
  <2>3. buf[h].st = "live"
    BY Zenon, <2>2, Unused DEF IInv
  <2> QED
    BY Zenon, <2>2, <2>3 DEF IInv, BooksInv, Sound
<1> QED
  BY <1>1, Invariance, PTL

\* Locks and unlocks keep the CPU's cache and the memory devices see in step, but for
\* failed flushes and locks that meet another's write lock on the same memory (Coherent).
THEOREM CachesAreKept == Spec => []Coherent
<1>1. IInv => Coherent
  <2> SUFFICES ASSUME IInv, NEW h \in Handles
               PROVE  /\ cache[h].dirty /\ ~InUse(h) => cache[h].excused
                      /\ cache[h].lost => cache[h].excused
                      /\ cache[h].stale => \A c \in Clients : locked[h][c] = "read" => ~(Invalidating \subseteq buf[h].flags)
    BY Zenon DEF Coherent
  <2>1. LinesInv(h)
    BY Zenon DEF IInv, CacheInv
  <2>2. Written(h) => InUse(h)
    BY SMTT(30) DEF Written, Writing, Held, InUse
  <2>3. \A c \in Clients : locked[h][c] = "read" => Held(c, h, "read")
    BY Zenon DEF Held
  <2> QED
    BY Zenon, <2>1, <2>2, <2>3 DEF LinesInv
<1> QED
  BY <1>1, Invariance, PTL
=============================================================================
