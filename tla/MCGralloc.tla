----------------------------- MODULE MCGralloc -----------------------------
(* Two clients and two handle addresses: batches that share memory and     *)
(* batches that do not, imports of received and of own handles.            *)
EXTENDS Gralloc, TLC

CONSTANTS c1, c2, h1, h2

MCProd == {{}, {"PROTECTED"}, {"PROTECTED", "GPU_RENDER_TARGET"}}
MCCons == {{"CLIENT_TARGET"}}
MCLock == {[prod |-> {}, cons |-> {"CPU_READ"}], [prod |-> {"CPU_WRITE"}, cons |-> {}]}

\* Descriptors and buffers, and two buffers, meet only when they are allocated or
\* cloned.  Descriptors are set up one after the other before there are buffers, and
\* destroyed before the CPU uses one.  The CPU uses one memory at a time: one handle
\* with all that may happen to it, or two handles of one memory with one owner each,
\* no failed mapping and no metadata call.  Memory with one handle is one that
\* devices write, or of a client.  While metadata is being mapped, and after two
\* clients met there, the CPU does not use the handle and no other handle is known.
Known == {d \in DescIds : descs[d].known}
Quiet(h) == cache[h] = Clean /\ ~InUse(h) /\ "map" \notin buf[h].has /\ ~buf[h].failed
Fresh(h) == buf[h].st \in {"none", "live"} /\ buf[h].ref < 2 /\ "mapmeta" \notin buf[h].has /\ h \notin orphan
Plain(h) == buf[h].ref < 2 /\ ~buf[h].failed /\ raced = {} /\ \A c \in Clients : call[c].op # "meta"
Both(h, g) == g \in peers[h] /\ Plain(g) /\ Plain(h)
MCBound ==
  /\ \A d, e \in Known : d < e => descs[d].size # 0
  /\ \A d \in DescIds, e \in Known : d < e => d \in Known
  /\ (\E h \in Handles : buf[h] # NoBuf) => \A d \in Known : descs[d].size # 0
  /\ Known # {} \/ spilt # {} => \A h \in Handles : Quiet(h) /\ buf[h].st # "raw" /\ buf[h].ref < 2
  /\ Known # {} => \A c \in Clients : call[c] = Idle
  /\ \A h \in Handles : buf[h].st = "live" /\ peers[h] = {h} => buf[h].flags \cap {"NON_CPU_WRITER", "CLIENT_ALLOCATED"} # {}
  /\ \E h \in Handles : \A g \in Handles \ {h} : Both(h, g) \/ (Quiet(g) /\ (Quiet(h) \/ Fresh(g)))
  /\ \A h \in Handles : h \in raced \/ (\E c \in Clients : call[c] = [op |-> "meta", h |-> h]) =>
       ~InUse(h) /\ cache[h] = Clean /\ \A g \in Handles \ {h} : buf[g].st \notin {"raw", "live"}
MCSymmetry == Permutations(Handles) \cup Permutations(Clients)
=============================================================================
