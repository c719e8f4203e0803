------------------------- MODULE DisplayFrameProofs -------------------------
(***************************************************************************)
(* Proofs about DisplayFrame, for any displays, layers and failures of the *)
(* driver: IInv is inductive, and the properties of a frame follow from    *)
(* it.  A call concerns one display; Elsewhere says that it leaves the     *)
(* others, and their layers, as they are.                                  *)
(***************************************************************************)
EXTENDS DisplayFrame, TLAPS

-----------------------------------------------------------------------------
(* The records the calls replace.                                          *)

(* A display's record is replaced by another one. *)
LEMMA DispSet ==
    ASSUME NEW d \in Displays, NEW r \in DispRecord, disp \in [Displays -> DispRecord],
           disp' = [disp EXCEPT ![d] = r]
    PROVE  /\ disp' \in [Displays -> DispRecord]
           /\ disp'[d] = r
           /\ \A e \in Displays \ {d} : disp'[e] = disp[e]
  BY Zenon

(* DisplayBase's record of a display is replaced by another one. *)
LEMMA BaseSet ==
    ASSUME NEW d \in Displays, NEW r \in BaseRecord, base \in [Displays -> BaseRecord],
           base' = [base EXCEPT ![d] = r]
    PROVE  /\ base' \in [Displays -> BaseRecord]
           /\ base'[d] = r
           /\ \A e \in Displays \ {d} : base'[e] = base[e]
  BY Zenon

(* The driver's record of a display is replaced by another one. *)
LEMMA HwSet ==
    ASSUME NEW d \in Displays, NEW r \in HwRecord, hw \in [Displays -> HwRecord],
           hw' = [hw EXCEPT ![d] = r]
    PROVE  /\ hw' \in [Displays -> HwRecord]
           /\ hw'[d] = r
           /\ \A e \in Displays \ {d} : hw'[e] = hw[e]
  BY Zenon

-----------------------------------------------------------------------------
(* What a call leaves alone.                                               *)

(* No layer of another display is changed. *)
LayersElsewhere(d) == \A l \in Layers \ LayersOf(d) : layer'[l] = layer[l]

(* Nothing of a display is changed but that its bit may be reset. *)
Same(e) ==
    /\ disp'[e] = disp[e] /\ base'[e] = base[e] /\ hw'[e] = hw[e]
    /\ sf'.at[e] = sf.at[e]
    /\ e \in validated' => e \in validated
    /\ \A l \in Layers : Owner[l] = e =>
          /\ layer'[l] = layer[l] /\ fence'[l] = fence[l]
          /\ sf'.type[l] = sf.type[l] /\ sf'.sync[l] = sf.sync[l]
          /\ l \in sf'.latched <=> l \in sf.latched
          /\ l \in sf'.bypassed <=> l \in sf.bypassed

Elsewhere(d) == \A e \in Displays \ {d} : Same(e)

(* Such a display keeps its invariants. *)
LEMMA SameKeeps ==
    ASSUME TypeOK, NEW e \in Displays, DisplayInv(e), Same(e)
    PROVE  DisplayInv(e)'
  <1>1. /\ disp'[e] = disp[e] /\ base'[e] = base[e] /\ hw'[e] = hw[e]
        /\ sf'.at[e] = sf.at[e] /\ (e \in validated' => e \in validated)
    BY Zenon DEF Same
  <1>2. ASSUME NEW l \in Layers, Owner[l] = e
        PROVE  /\ layer'[l] = layer[l] /\ fence'[l] = fence[l]
               /\ sf'.type[l] = sf.type[l] /\ sf'.sync[l] = sf.sync[l]
               /\ l \in sf'.latched <=> l \in sf.latched
               /\ l \in sf'.bypassed <=> l \in sf.bypassed
    BY Zenon, <1>2 DEF Same
  <1>3. \A l \in LayersOf(e) : l \in Layers /\ Owner[l] = e
    BY Zenon DEF TypeOK, DispRecord, LayersOf, DisplayInv, OwnInv
  <1>4. /\ LayersOf(e)' = LayersOf(e) /\ Bypasses(e)' = Bypasses(e)
        /\ SecureNow(e)' = SecureNow(e) /\ (Ready(e)' => Ready(e))
    BY ZenonT(60), <1>1, <1>2, <1>3 DEF LayersOf, Bypasses, SecureNow, Ready
  <1>5. OwnInv(e)' /\ FlushInv(e)' /\ ScreenInv(e)'
    BY Zenon, <1>1, <1>3, <1>4 DEF DisplayInv, OwnInv, FlushInv, ScreenInv
  <1>6. PreparedInv(e)'
    BY SMTT(30), <1>1, <1>2, <1>3, <1>4 DEF DisplayInv, PreparedInv
  <1>7. ComposedInv(e)'
    BY SMTT(30), <1>1, <1>2, <1>3, <1>4 DEF DisplayInv, ComposedInv
  <1>8. FenceInv(e)'
    BY SMTT(30), <1>1, <1>2, <1>3, <1>4 DEF DisplayInv, FenceInv, Protected, Owed, Pushed, Safe, Covers
  <1>9. AcquireInv(e)'
    BY Zenon, <1>1, <1>2, <1>3, <1>4 DEF DisplayInv, AcquireInv
  <1>10. QED BY Zenon, <1>5, <1>6, <1>7, <1>8, <1>9 DEF DisplayInv

(* An event, or a step that changes nothing. *)
LEMMA NothingButBits ==
    ASSUME IInv, UNCHANGED <<disp, layer, base, hw, fence, sf>>, validated' \subseteq validated
    PROVE  IInv'
  <1>1. TypeOK'
    BY Zenon DEF IInv, TypeOK
  <1>2. \A e \in Displays : Same(e)
    BY Zenon DEF Same
  <1>3. QED BY Zenon, <1>1, <1>2, SameKeeps DEF IInv

(* A layer's owner. *)
LEMMA Mine ==
    ASSUME TypeOK, NEW d \in Displays, DisplayInv(d)
    PROVE  \A l \in LayersOf(d) : l \in Layers /\ Owner[l] = d
  BY Zenon DEF TypeOK, DispRecord, LayersOf, DisplayInv, OwnInv

(* What a call changes is the display's. *)
LEMMA NothingElse ==
    ASSUME TypeOK, NEW d \in Displays, DisplayInv(d),
           \A e \in Displays \ {d} :
              /\ disp'[e] = disp[e] /\ base'[e] = base[e] /\ hw'[e] = hw[e]
              /\ sf'.at[e] = sf.at[e] /\ (e \in validated' => e \in validated),
           LayersElsewhere(d),
           \A l \in Layers : Owner[l] # d =>
              /\ fence'[l] = fence[l]
              /\ sf'.type[l] = sf.type[l] /\ sf'.sync[l] = sf.sync[l]
              /\ l \in sf'.latched <=> l \in sf.latched
              /\ l \in sf'.bypassed <=> l \in sf.bypassed
    PROVE  Elsewhere(d)
  <1>1. \A l \in Layers : Owner[l] # d => layer'[l] = layer[l]
    BY Zenon, Mine DEF LayersElsewhere
  <1>2. QED BY Zenon, <1>1 DEF Elsewhere, Same

(* A call on one display. *)
LEMMA OneDisplay ==
    ASSUME IInv, TypeOK', NEW d \in Displays, Elsewhere(d), DisplayInv(d)'
    PROVE  IInv'
  BY Zenon, SameKeeps DEF IInv, Elsewhere

-----------------------------------------------------------------------------
(* Release fences.                                                         *)

(* A fence and the one that a commit makes of it. *)
LEMMA Ages ==
    ASSUME NEW f \in Fences, NEW g \in Fences
    PROVE  /\ Aged(f) \in Fences /\ Later(f, g) \in Fences
           /\ Later(Aged(f), Aged(g)) = Aged(Later(f, g))
  BY Zenon DEF Aged, Later, Fences

(* The driver's part of a flush. *)
LEMMA FlushesHw ==
    ASSUME TypeOK, NEW d \in Displays, NEW done \in BOOLEAN, hw' = FlushedHw(d, done)
    PROVE  /\ hw' \in [Displays -> HwRecord]
           /\ \A e \in Displays \ {d} : hw'[e] = hw[e]
           /\ IF done
              THEN hw'[d].front = hw[d].next /\ hw'[d].next = Blank /\ hw'[d].content = "blank"
              ELSE /\ hw'[d].front = hw[d].front /\ hw'[d].next = hw[d].next
                   /\ hw'[d].content = IF hw[d].content = "blank" THEN "blank" ELSE "unflushed"
  <1>1. hw[d] \in HwRecord /\ Blank \in Frames
    BY Zenon DEF TypeOK, Blank, Frames
  <1>2. CASE done
    <2> DEFINE r == [front |-> hw[d].next, next |-> Blank, content |-> "blank"]
    <2>1. r \in HwRecord
      BY Zenon, <1>1 DEF HwRecord
    <2>2. hw' = [hw EXCEPT ![d] = r]
      BY Zenon, <1>2 DEF FlushedHw, Queued, TypeOK
    <2>3. r.front = hw[d].next /\ r.next = Blank /\ r.content = "blank"
      BY Zenon
    <2> HIDE DEF r
    <2>4. QED BY Zenon, <1>2, <2>1, <2>2, <2>3, HwSet DEF TypeOK
  <1>3. CASE ~done
    <2> DEFINE c == IF hw[d].content = "blank" THEN "blank" ELSE "unflushed"
               r == [hw[d] EXCEPT !.content = c]
    <2>1. r \in HwRecord
      BY Zenon, <1>1 DEF HwRecord
    <2>2. hw' = [hw EXCEPT ![d] = r]
      BY Zenon, <1>3 DEF FlushedHw, TypeOK
    <2>3. r.front = hw[d].front /\ r.next = hw[d].next /\ r.content = c
      BY Zenon, <1>1 DEF HwRecord
    <2> HIDE DEF r
    <2>4. QED BY Zenon, <1>3, <2>1, <2>2, <2>3, HwSet DEF TypeOK
  <1>4. QED BY Zenon, <1>2, <1>3

(* The fences of a display after a commit. *)
LEMMA ReplacedFences ==
    ASSUME TypeOK, NEW d \in Displays
    PROVE  /\ Replaced(d) \in [Layers -> FenceRecord]
           /\ \A l \in Layers :
                /\ Owner[l] # d => Replaced(d)[l] = fence[l]
                /\ Owner[l] = d =>
                     /\ Replaced(d)[l].held = Aged(fence[l].held)
                     /\ Len(Replaced(d)[l].queue) = Len(fence[l].queue)
                     /\ \A i \in 1..Len(fence[l].queue) :
                          Replaced(d)[l].queue[i] = Aged(fence[l].queue[i])
  <1>1. Replaced(d) \in [Layers -> FenceRecord]
    BY SMTT(30) DEF Replaced, TypeOK, FenceRecord, Fences, Aged
  <1>2. ASSUME NEW l \in Layers, Owner[l] = d
        PROVE  /\ Replaced(d)[l].held = Aged(fence[l].held)
               /\ Len(Replaced(d)[l].queue) = Len(fence[l].queue)
               /\ \A i \in 1..Len(fence[l].queue) :
                     Replaced(d)[l].queue[i] = Aged(fence[l].queue[i])
    <2>1. /\ Replaced(d)[l].held = Aged(fence[l].held)
          /\ Replaced(d)[l].queue = [i \in DOMAIN fence[l].queue |-> Aged(fence[l].queue[i])]
      BY Zenon, <1>2 DEF Replaced
    <2>2. fence[l].queue \in Seq(Fences)
      BY Zenon DEF TypeOK, FenceRecord
    <2>3. QED BY SMTT(30), <2>1, <2>2
  <1>3. \A l \in Layers : Owner[l] # d => Replaced(d)[l] = fence[l]
    BY Zenon DEF Replaced
  <1>4. QED BY Zenon, <1>1, <1>2, <1>3

(* A flush ages the fences of buffers on their way out. *)
LEMMA SafeFlushed ==
    ASSUME NEW f \in Fences, NEW frames, NEW later, NEW l \in Layers,
           Safe(f, "none", frames, l), later.front = frames.next, later.next = Blank
    PROVE  Safe(Aged(f), "none", later, l)
  BY Zenon DEF Safe, Covers, Later, Aged, Fences, Blank

(* What a flush, made or refused, leaves of a display's fences. *)
LEMMA FlushesFences ==
    ASSUME TypeOK, NEW d \in Displays, DisplayInv(d), sf.at[d] # "presented",
           NEW done \in BOOLEAN, hw' = FlushedHw(d, done), NEW fences,
           fences = FlushedFence(d, done)
    PROVE  /\ fences \in [Layers -> FenceRecord]
           /\ \A l \in Layers : Owner[l] # d => fences[l] = fence[l]
           /\ \A l \in LayersOf(d) \ sf.bypassed : d \notin SwapIntervalZero =>
                /\ Len(fences[l].queue) = 1
                /\ Safe(Later(fences[l].held, fences[l].queue[1]), "none", hw'[d], l)
           /\ \A l \in Layers : Owner[l] = d /\ l \notin LayersOf(d) =>
                hw'[d].front[l] = "none" /\ hw'[d].next[l] = "none"
  <1>1. \A l \in LayersOf(d) : l \in Layers /\ Owner[l] = d
    BY Zenon DEF TypeOK, DispRecord, LayersOf, DisplayInv, OwnInv
  <1>2. \A l \in LayersOf(d) \ sf.bypassed : d \notin SwapIntervalZero =>
           /\ Len(fence[l].queue) = 1
           /\ Safe(Owed(l), "none", hw[d], l)
    BY Zenon DEF DisplayInv, FenceInv, Protected, Pushed
  <1>3. \A l \in Layers : Owner[l] = d /\ l \notin LayersOf(d) =>
                hw[d].front[l] = "none" /\ hw[d].next[l] = "none"
    BY Zenon DEF DisplayInv, FenceInv
  <1>4. CASE done
    <2>1. fences = Replaced(d)
      BY Zenon, <1>4 DEF FlushedFence
    <2>2. hw'[d].front = hw[d].next /\ hw'[d].next = Blank
      BY Zenon, <1>4, FlushesHw
    <2>3. ASSUME NEW l \in LayersOf(d) \ sf.bypassed, d \notin SwapIntervalZero
          PROVE  /\ Len(fences[l].queue) = 1
                 /\ Safe(Later(fences[l].held, fences[l].queue[1]), "none", hw'[d], l)
      <3>1. fence[l].held \in Fences /\ fence[l].queue[1] \in Fences
        BY SMTT(30), <1>1, <1>2, <2>3 DEF TypeOK, FenceRecord
      <3>2. /\ fences[l].held = Aged(fence[l].held)
            /\ Len(fences[l].queue) = 1
            /\ fences[l].queue[1] = Aged(fence[l].queue[1])
        BY SMTT(30), <1>1, <1>2, <2>3, <2>1, ReplacedFences
      <3>3. Later(fences[l].held, fences[l].queue[1]) = Aged(Owed(l)) /\ Owed(l) \in Fences
        BY ZenonT(60), <3>1, <3>2, Ages DEF Owed
      <3>4. Safe(Aged(Owed(l)), "none", hw'[d], l)
        BY Zenon, <1>1, <1>2, <2>3, <2>2, <3>3, SafeFlushed
      <3>5. QED BY Zenon, <3>2, <3>3, <3>4
    <2>4. \A l \in Layers : Owner[l] = d /\ l \notin LayersOf(d) =>
                hw'[d].front[l] = "none" /\ hw'[d].next[l] = "none"
      BY Zenon, <1>3, <2>2 DEF Blank
    <2>5. QED BY Zenon, <2>1, <2>3, <2>4, ReplacedFences
  <1>5. CASE ~done
    <2>1. fences = fence /\ fence \in [Layers -> FenceRecord]
      BY Zenon, <1>5 DEF FlushedFence, TypeOK
    <2>2. hw'[d].front = hw[d].front /\ hw'[d].next = hw[d].next
      BY Zenon, <1>5, FlushesHw
    <2>3. \A l \in LayersOf(d) \ sf.bypassed : d \notin SwapIntervalZero =>
             /\ Len(fences[l].queue) = 1
             /\ Safe(Later(fences[l].held, fences[l].queue[1]), "none", hw'[d], l)
      BY ZenonT(60), <1>2, <2>1, <2>2 DEF Safe, Covers, Owed
    <2>4. QED BY Zenon, <1>3, <2>1, <2>2, <2>3
  <1>6. QED BY Zenon, <1>4, <1>5

(* Fences and frames that stay as they are, outside of an unanswered       *)
(* present.                                                                *)
LEMMA FencesStay ==
    ASSUME TypeOK, NEW d \in Displays, DisplayInv(d),
           sf.at[d] # "presented", sf'.at[d] # "presented", LayersOf(d)' = LayersOf(d),
           sf'.latched = sf.latched, sf'.bypassed = sf.bypassed, UNCHANGED <<hw, fence>>
    PROVE  FenceInv(d)'
  BY ZenonT(60) DEF DisplayInv, FenceInv, Protected, Pushed, Owed, Safe, Covers

-----------------------------------------------------------------------------
(* Power and pause.                                                        *)

(* SetPowerMode and ToggleScreenUpdates keep the invariant. *)
LEMMA PowerKeeps ==
    /\ \A d \in Displays, r \in Outcomes, f \in BOOLEAN : IInv /\ PowerOff(d, r, f) => IInv'
    /\ \A d \in Displays, m \in PowerModes, r \in Outcomes : IInv /\ SetPowerMode(d, m, r) => IInv'
    /\ \A enable \in BOOLEAN : IInv /\ ToggleScreenUpdates(enable) => IInv'
  (* A call on a display that resets the bits and touches no layer. *)
  <1>BitsReset.
    ASSUME IInv, NEW d \in Displays, UNCHANGED <<layer, sf>>, validated' = {},
           disp' \in [Displays -> DispRecord], \A e \in Displays \ {d} : disp'[e] = disp[e],
           base' \in [Displays -> BaseRecord], \A e \in Displays \ {d} : base'[e] = base[e],
           hw' \in [Displays -> HwRecord], \A e \in Displays \ {d} : hw'[e] = hw[e],
           fence' \in [Layers -> FenceRecord],
           \A l \in Layers : Owner[l] # d => fence'[l] = fence[l],
           disp'[d].layer_set = disp[d].layer_set, disp'[d].changes = disp[d].changes,
           FlushInv(d)', ScreenInv(d)', FenceInv(d)'
    PROVE  IInv'
    <2> USE <1>BitsReset
    <2>1. TypeOK /\ DisplayInv(d)
      BY Zenon DEF IInv
    <2>2. LayersOf(d)' = LayersOf(d)
      BY Zenon DEF LayersOf
    <2>3. TypeOK'
      BY Zenon, <2>1 DEF TypeOK
    <2>4. Elsewhere(d)
      BY Zenon DEF Elsewhere, Same
    <2>5. OwnInv(d)' /\ AcquireInv(d)'
      BY Zenon, <2>1, <2>2 DEF DisplayInv, OwnInv, AcquireInv
    <2>6. ~Ready(d)'
      BY Zenon DEF Ready
    <2>7. QED BY Zenon, <2>3, <2>4, <2>5, <2>6, OneDisplay DEF DisplayInv, PreparedInv, ComposedInv
  (* The panel is off: every fence has signalled. *)
  <1>SignalledFences.
    ASSUME TypeOK, NEW d \in Displays
    PROVE  /\ Signalled(d) \in [Layers -> FenceRecord]
           /\ \A l \in Layers :
                /\ Owner[l] # d => Signalled(d)[l] = fence[l]
                /\ Owner[l] = d => Len(Signalled(d)[l].queue) = Len(fence[l].queue)
    <2> USE <1>SignalledFences
    <2>1. ASSUME NEW l \in Layers
          PROVE  /\ fence[l] \in FenceRecord /\ fence[l].queue \in Seq(Fences)
                 /\ [i \in DOMAIN fence[l].queue |-> "none"] \in Seq(Fences)
                 /\ Len([i \in DOMAIN fence[l].queue |-> "none"]) = Len(fence[l].queue)
      <3>1. fence[l] \in FenceRecord /\ fence[l].queue \in Seq(Fences) /\ "none" \in Fences
        BY Zenon DEF TypeOK, FenceRecord, Fences
      <3>2. DOMAIN fence[l].queue = 1..Len(fence[l].queue) /\ Len(fence[l].queue) \in Nat
        BY SMTT(30), <3>1
      <3>3. QED BY SMTT(30), <3>1, <3>2
    <2>2. ASSUME NEW l \in Layers
          PROVE  /\ Signalled(d)[l] \in FenceRecord
                 /\ Owner[l] # d => Signalled(d)[l] = fence[l]
                 /\ Owner[l] = d => Len(Signalled(d)[l].queue) = Len(fence[l].queue)
      <3> DEFINE q == [i \in DOMAIN fence[l].queue |-> "none"]
      <3>1. /\ Owner[l] = d => Signalled(d)[l] = [queue |-> q, held |-> "none"]
            /\ Owner[l] # d => Signalled(d)[l] = fence[l]
        BY Zenon DEF Signalled
      <3>2. /\ q \in Seq(Fences) /\ Len(q) = Len(fence[l].queue) /\ fence[l] \in FenceRecord
            /\ "none" \in Fences
        BY Zenon, <2>1 DEF Fences
      <3> HIDE DEF q
      <3>3. QED BY SMTT(30), <3>1, <3>2 DEF FenceRecord
    <2>3. Signalled(d) = [l \in Layers |-> Signalled(d)[l]]
      BY Zenon DEF Signalled
    <2>4. QED BY Zenon, <2>2, <2>3
  (* A power-off, whether or not the driver lets it happen. *)
  <1>PowersOff.
    ASSUME IInv, NEW d \in Displays, NEW r, NEW flushed \in BOOLEAN, PowerOff(d, r, flushed)
    PROVE  IInv'
    <2> USE <1>PowersOff
    <2> DEFINE onError == disp[d].flush_on_error /\ r # "ok"
               down == r = "shutdown"
               p == [disp[d] EXCEPT !.flush_on_error = onError, !.shutdown = down]
               state == IF r = "ok" THEN "Off" ELSE base[d].state
               b == [base[d] EXCEPT !.hw_layers = {}, !.prepared = FALSE, !.state = state]
    <2>1. TypeOK /\ DisplayInv(d)
      BY Zenon DEF IInv
    <2>2. /\ sf.at[d] = "idle" /\ base[d].state # "Off" /\ validated' = {} /\ UNCHANGED <<layer, sf>>
      BY Zenon DEF PowerOff, Idle
    <2>3. disp' = [disp EXCEPT ![d] = p]
      BY Zenon, <2>1 DEF PowerOff, TypeOK, DispRecord
    <2>4. base' = [base EXCEPT ![d] = b]
      BY Zenon, <2>1 DEF PowerOff, TypeOK, BaseRecord
    <2>5. onError \in BOOLEAN /\ down \in BOOLEAN /\ state \in {"Off"} \union PowerModes
      BY Zenon, <2>1 DEF TypeOK, BaseRecord
    <2>6. /\ r = "ok" => state = "Off"
          /\ r # "ok" => state = base[d].state /\ (onError <=> disp[d].flush_on_error)
      BY Zenon
    <2> HIDE DEF onError, down, state
    <2>7. /\ p \in DispRecord /\ p.layer_set = disp[d].layer_set
          /\ p.changes = disp[d].changes /\ p.flush = disp[d].flush
          /\ (p.flush_on_error <=> onError) /\ p.secure = disp[d].secure
          /\ p.skip_prepare = disp[d].skip_prepare /\ p.paused = disp[d].paused
      BY ZenonT(60), <2>1, <2>5 DEF TypeOK, DispRecord
    <2>8. b \in BaseRecord /\ b.state = state
      BY Zenon, <2>1, <2>5 DEF TypeOK, BaseRecord
    <2> HIDE DEF p, b
    <2>9. /\ disp' \in [Displays -> DispRecord] /\ disp'[d] = p
          /\ \A e \in Displays \ {d} : disp'[e] = disp[e]
      BY Zenon, <2>1, <2>3, <2>7, DispSet DEF TypeOK
    <2>10. /\ base' \in [Displays -> BaseRecord] /\ base'[d] = b
           /\ \A e \in Displays \ {d} : base'[e] = base[e]
      BY Zenon, <2>1, <2>4, <2>8, BaseSet DEF TypeOK
    <2>11. LayersOf(d)' = LayersOf(d) /\ Bypasses(d)' = Bypasses(d)
      BY Zenon, <2>7, <2>9 DEF LayersOf, Bypasses
    <2>12. FlushInv(d)'
      BY Zenon, <2>1, <2>2, <2>7, <2>9, <2>11 DEF DisplayInv, FlushInv
    <2>13. /\ hw' \in [Displays -> HwRecord] /\ \A e \in Displays \ {d} : hw'[e] = hw[e]
           /\ fence' \in [Layers -> FenceRecord]
           /\ \A l \in Layers : Owner[l] # d => fence'[l] = fence[l]
           /\ FenceInv(d)'
           /\ r = "ok" => hw'[d].content = "blank"
           /\ hw'[d].content \in {"blank", "unflushed"}
      <3>1. CASE r = "ok"
        <4> DEFINE h == [front |-> Blank, next |-> Blank, content |-> "blank"]
        <4>1. hw' = [hw EXCEPT ![d] = h] /\ fence' = Signalled(d)
          BY Zenon, <3>1 DEF PowerOff
        <4>2. h \in HwRecord /\ h.front = Blank /\ h.next = Blank /\ h.content = "blank"
          BY Zenon DEF HwRecord, Frames, Blank
        <4> HIDE DEF h
        <4>3. /\ hw' \in [Displays -> HwRecord] /\ hw'[d] = h
              /\ \A e \in Displays \ {d} : hw'[e] = hw[e]
          BY Zenon, <2>1, <4>1, <4>2, HwSet DEF TypeOK
        <4>4. \A l \in Layers : hw'[d].front[l] = "none" /\ hw'[d].next[l] = "none"
          BY Zenon, <4>2, <4>3 DEF Blank
        <4>5. /\ fence' \in [Layers -> FenceRecord]
              /\ \A l \in Layers :
                   /\ Owner[l] # d => fence'[l] = fence[l]
                   /\ Owner[l] = d => Len(fence'[l].queue) = Len(fence[l].queue)
          BY Zenon, <2>1, <4>1, <1>SignalledFences
        <4>6. ASSUME NEW l \in LayersOf(d) \ sf.bypassed
              PROVE  Protected(d, l)'
          <5> SUFFICES ASSUME d \notin SwapIntervalZero PROVE Protected(d, l)'
            BY Zenon DEF Protected
          <5>1. l \in Layers /\ Owner[l] = d /\ Len(fence[l].queue) = 1
            BY Zenon, <2>1, <2>2, Mine DEF DisplayInv, FenceInv, Protected
          <5>2. Len(fence'[l].queue) = 1
            BY Zenon, <4>5, <5>1
          <5>3. QED BY Zenon, <2>2, <4>4, <5>1, <5>2 DEF Protected, Safe, Covers
        <4>7. FenceInv(d)'
          BY Zenon, <2>2, <2>11, <4>4, <4>6 DEF FenceInv
        <4>8. QED BY Zenon, <3>1, <4>2, <4>3, <4>5, <4>7
      <3>2. CASE r # "ok"
        <4> DEFINE fences == FlushedFence(d, flushed)
        <4>1. hw' = FlushedHw(d, flushed) /\ fence' = fences
          BY Zenon, <3>2 DEF PowerOff
        <4>2. fences = FlushedFence(d, flushed)
          BY Zenon
        <4> HIDE DEF fences
        <4>3. /\ hw' \in [Displays -> HwRecord] /\ \A e \in Displays \ {d} : hw'[e] = hw[e]
              /\ hw'[d].content \in {"blank", "unflushed"}
          BY Zenon, <2>1, <4>1, FlushesHw
        <4>4. /\ fences \in [Layers -> FenceRecord]
              /\ \A l \in Layers : Owner[l] # d => fences[l] = fence[l]
              /\ \A l \in LayersOf(d) \ sf.bypassed : d \notin SwapIntervalZero =>
                   /\ Len(fences[l].queue) = 1
                   /\ Safe(Later(fences[l].held, fences[l].queue[1]), "none", hw'[d], l)
              /\ \A l \in Layers : Owner[l] = d /\ l \notin LayersOf(d) =>
                   hw'[d].front[l] = "none" /\ hw'[d].next[l] = "none"
          BY SMTT(30), <2>1, <2>2, <4>1, <4>2, FlushesFences
        <4>5. ASSUME NEW l \in LayersOf(d) \ sf.bypassed
              PROVE  Protected(d, l)'
          <5> SUFFICES ASSUME d \notin SwapIntervalZero PROVE Protected(d, l)'
            BY Zenon DEF Protected
          <5>1. Owed(l)' = Later(fences[l].held, fences[l].queue[1]) /\ Pushed(d, l)' = "none"
            BY Zenon, <2>2, <4>1 DEF Owed, Pushed
          <5>2. Safe(Owed(l), Pushed(d, l), hw[d], l)'
            BY ZenonT(60), <2>2, <4>4, <5>1 DEF Safe, Covers
          <5>3. QED BY Zenon, <2>2, <4>1, <4>4, <5>2 DEF Protected
        <4>6. FenceInv(d)'
          BY Zenon, <2>2, <2>11, <4>4, <4>5 DEF FenceInv
        <4>7. QED BY Zenon, <3>2, <4>1, <4>3, <4>4, <4>6
      <3>3. QED BY Zenon, <3>1, <3>2
    <2>14. ScreenInv(d)'
      BY Zenon, <2>2, <2>6, <2>8, <2>10, <2>13 DEF ScreenInv
    <2>15. QED BY Zenon, <2>2, <2>7, <2>9, <2>10, <2>12, <2>13, <2>14, <1>BitsReset
  (* The other power modes. *)
  <1>SetsPowerMode.
    ASSUME IInv, NEW d \in Displays, NEW mode \in PowerModes, NEW r, SetPowerMode(d, mode, r)
    PROVE  IInv'
    <2> USE <1>SetsPowerMode
    <2> DEFINE onError == disp[d].flush_on_error /\ mode # "Off"
               down == r = "shutdown"
               p == [disp[d] EXCEPT !.flush_on_error = onError, !.shutdown = down]
               state == IF r = "ok" THEN mode ELSE base[d].state
               b == [base[d] EXCEPT !.state = state]
    <2>1. TypeOK /\ DisplayInv(d)
      BY Zenon DEF IInv
    <2>2. /\ sf.at[d] = "idle" /\ validated' = {} /\ UNCHANGED <<hw, layer, fence, sf>>
          /\ mode # "Off" \/ base[d].state = "Off"
      BY Zenon DEF SetPowerMode, Idle
    <2>3. disp' = [disp EXCEPT ![d] = p]
      BY Zenon, <2>1 DEF SetPowerMode, TypeOK, DispRecord
    <2>4. base' = [base EXCEPT ![d] = b]
      BY Zenon, <2>1 DEF SetPowerMode, TypeOK, BaseRecord
    <2>5. onError \in BOOLEAN /\ down \in BOOLEAN /\ state \in {"Off"} \union PowerModes
      BY Zenon, <2>1 DEF TypeOK, BaseRecord
    <2>6. /\ state = "Off" => base[d].state = "Off"
          /\ mode = "Off" \/ (onError <=> disp[d].flush_on_error)
      BY Zenon, <2>2
    <2> HIDE DEF onError, down, state
    <2>7. /\ p \in DispRecord /\ p.layer_set = disp[d].layer_set
          /\ p.changes = disp[d].changes /\ p.flush = disp[d].flush
          /\ (p.flush_on_error <=> onError) /\ p.secure = disp[d].secure
          /\ p.skip_prepare = disp[d].skip_prepare /\ p.paused = disp[d].paused
      BY ZenonT(60), <2>1, <2>5 DEF TypeOK, DispRecord
    <2>8. b \in BaseRecord /\ b.state = state
      BY Zenon, <2>1, <2>5 DEF TypeOK, BaseRecord
    <2> HIDE DEF p, b
    <2>9. /\ disp' \in [Displays -> DispRecord] /\ disp'[d] = p
          /\ \A e \in Displays \ {d} : disp'[e] = disp[e]
      BY Zenon, <2>1, <2>3, <2>7, DispSet DEF TypeOK
    <2>10. /\ base' \in [Displays -> BaseRecord] /\ base'[d] = b
           /\ \A e \in Displays \ {d} : base'[e] = base[e]
      BY Zenon, <2>1, <2>4, <2>8, BaseSet DEF TypeOK
    <2>11. LayersOf(d)' = LayersOf(d) /\ Bypasses(d)' = Bypasses(d)
      BY Zenon, <2>7, <2>9 DEF LayersOf, Bypasses
    <2>12. FlushInv(d)'
      BY Zenon, <2>1, <2>2, <2>7, <2>9, <2>11 DEF DisplayInv, FlushInv
    <2>13. ScreenInv(d)'
      BY Zenon, <2>1, <2>2, <2>6, <2>7, <2>8, <2>9, <2>10 DEF DisplayInv, ScreenInv
    <2>14. FenceInv(d)'
      BY Zenon, <2>1, <2>2, <2>11, FencesStay
    <2>15. QED BY Zenon, <2>1, <2>2, <2>7, <2>9, <2>10, <2>12, <2>13, <2>14, <1>BitsReset DEF TypeOK
  (* Screen updates are paused or resumed: no flush is asked for then. *)
  <1>TogglesScreenUpdates.
    ASSUME IInv, NEW enable \in BOOLEAN, ToggleScreenUpdates(enable)
    PROVE  IInv'
    <2> USE <1>TogglesScreenUpdates
    <2> DEFINE d == "primary"
               p == [disp[d] EXCEPT !.paused = ~enable]
    <2>1. d \in Displays
      BY Zenon DEF ToggleScreenUpdates
    <2>2. TypeOK /\ DisplayInv(d)
      BY Zenon, <2>1 DEF IInv
    <2>3. /\ sf.at[d] \notin {"validated", "accepted"} /\ validated' = {}
          /\ UNCHANGED <<layer, base, hw, fence, sf>> /\ disp' = [disp EXCEPT ![d] = p]
      BY Zenon, <2>2 DEF ToggleScreenUpdates, Unlocked, TypeOK
    <2>4. ~disp[d].flush
      BY Zenon, <2>2, <2>3 DEF DisplayInv, FlushInv
    <2>5. /\ p \in DispRecord /\ p.layer_set = disp[d].layer_set
          /\ p.changes = disp[d].changes /\ p.flush = disp[d].flush
          /\ p.flush_on_error = disp[d].flush_on_error /\ p.secure = disp[d].secure
          /\ p.skip_prepare = disp[d].skip_prepare
      <3>1. disp[d] \in DispRecord
        BY Zenon, <2>1, <2>2 DEF TypeOK
      <3>2. QED BY Zenon, <3>1 DEF DispRecord
    <2> HIDE DEF p
    <2>6. /\ disp' \in [Displays -> DispRecord] /\ disp'[d] = p
          /\ \A e \in Displays \ {d} : disp'[e] = disp[e]
      BY Zenon, <2>1, <2>2, <2>3, <2>5, DispSet DEF TypeOK
    <2>7. LayersOf(d)' = LayersOf(d)
      BY Zenon, <2>5, <2>6 DEF LayersOf
    <2>8. FlushInv(d)' /\ ScreenInv(d)'
      BY Zenon, <2>2, <2>3, <2>4, <2>5, <2>6 DEF DisplayInv, FlushInv, ScreenInv
    <2>9. FenceInv(d)'
      BY ZenonT(60), <2>2, <2>3, <2>7 DEF DisplayInv, FenceInv, Protected, Owed, Pushed, Safe, Covers
    <2> HIDE DEF d
    <2>10. QED BY Zenon, <2>1, <2>2, <2>3, <2>5, <2>6, <2>8, <2>9, <1>BitsReset DEF TypeOK
  <1> QED BY Zenon, <1>PowersOff, <1>SetsPowerMode, <1>TogglesScreenUpdates

-----------------------------------------------------------------------------
(* SurfaceFlinger's calls on a layer.                                      *)

(* SurfaceFlinger's record with new fields. *)
LEMMA SfSet ==
    ASSUME sf \in SfRecord,
           NEW a \in [Displays -> {"idle", "validated", "accepted", "presented"}],
           NEW t \in [Layers -> CompositionTypes], NEW m \in SUBSET Layers,
           NEW y \in [Layers -> {"done", "fresh", "retried"}], NEW b \in SUBSET Layers,
           sf' = [at |-> a, type |-> t, latched |-> m, sync |-> y, bypassed |-> b]
    PROVE  /\ sf' \in SfRecord
           /\ sf'.at = a /\ sf'.type = t /\ sf'.latched = m /\ sf'.sync = y /\ sf'.bypassed = b
  BY Zenon DEF SfRecord

(* SurfaceFlinger's calls on a layer keep the invariant. *)
LEMMA LayerCallsKeep ==
    \A d \in Displays : IInv /\ LayerCalls(d) => IInv'
  (* What a call on a layer of a display changes is that layer's. *)
  <1>OneLayer.
    ASSUME TypeOK, NEW d \in Displays, NEW l \in Layers, Owner[l] = d,
           \A e \in Displays \ {d} :
              /\ disp'[e] = disp[e] /\ base'[e] = base[e] /\ hw'[e] = hw[e]
              /\ sf'.at[e] = sf.at[e] /\ (e \in validated' => e \in validated),
           \A k \in Layers \ {l} :
              /\ layer'[k] = layer[k] /\ fence'[k] = fence[k]
              /\ sf'.type[k] = sf.type[k] /\ sf'.sync[k] = sf.sync[k]
              /\ k \in sf'.latched <=> k \in sf.latched
              /\ k \in sf'.bypassed <=> k \in sf.bypassed
    PROVE  Elsewhere(d)
    BY <1>OneLayer, Zenon DEF Elsewhere, Same
  (* A call that sets the geometry, the damage or the type of a layer. *)
  <1>LayerAttributes.
    ASSUME IInv, NEW d \in Displays, NEW l \in LayersOf(d), sf.at[d] = "idle",
           UNCHANGED <<disp, validated, base, hw, fence>>,
           layer' \in [Layers -> LayerRecord],
           \A k \in Layers \ {l} : layer'[k] = layer[k] /\ sf'.type[k] = sf.type[k],
           layer'[l].dev = layer[l].dev, layer'[l].sdm = layer[l].sdm,
           layer'[l].acquire = layer[l].acquire, layer'[l].secure = layer[l].secure,
           layer[l].needs_validate => layer'[l].needs_validate,
           sf' \in SfRecord, sf'.at = sf.at, sf'.latched = sf.latched,
           sf'.sync = sf.sync, sf'.bypassed = sf.bypassed
    PROVE  IInv'
    <2> USE <1>LayerAttributes
    <2>1. TypeOK /\ DisplayInv(d)
      BY Zenon DEF IInv
    <2>2. \A k \in LayersOf(d) : k \in Layers /\ Owner[k] = d
      BY Zenon, <2>1, Mine
    <2>3. /\ LayersOf(d)' = LayersOf(d) /\ Bypasses(d)' = Bypasses(d)
          /\ (Ready(d)' <=> Ready(d))
      BY Zenon DEF LayersOf, Bypasses, Ready
    <2>4. ASSUME NEW k \in Layers
          PROVE  /\ layer'[k].dev = layer[k].dev /\ layer'[k].sdm = layer[k].sdm
                 /\ layer'[k].acquire = layer[k].acquire /\ layer'[k].secure = layer[k].secure
                 /\ layer[k].needs_validate => layer'[k].needs_validate
      BY Zenon, <2>4
    <2>5. SecureNow(d)' = SecureNow(d)
      BY ZenonT(60), <2>2, <2>3, <2>4 DEF SecureNow
    <2>6. TypeOK'
      BY Zenon, <2>1 DEF TypeOK
    <2>7. Elsewhere(d)
      BY ZenonT(60), <2>1, <2>2, <1>OneLayer
    <2>8. DisplayInv(d)'
      <3>1. OwnInv(d)' /\ FlushInv(d)' /\ ScreenInv(d)'
        BY ZenonT(60), <2>1, <2>3 DEF DisplayInv, OwnInv, FlushInv, ScreenInv
      <3>2. PreparedInv(d)'
        BY SMTT(30), <2>1, <2>2, <2>3, <2>4, <2>5 DEF DisplayInv, PreparedInv
      <3>3. ComposedInv(d)'
        BY ZenonT(60), <2>1, <2>2, <2>3, <2>4 DEF DisplayInv, ComposedInv
      <3>4. FenceInv(d)'
        BY Zenon, <2>1, <2>3, FencesStay
      <3>5. AcquireInv(d)'
        BY ZenonT(60), <2>1, <2>3, <2>4 DEF DisplayInv, AcquireInv
      <3>6. QED BY Zenon, <3>1, <3>2, <3>3, <3>4, <3>5 DEF DisplayInv
    <2>9. QED BY Zenon, <2>6, <2>7, <2>8, OneDisplay
  (* SetLayerGeometry and SetLayerSurfaceDamage. *)
  <1>SetsLayerState.
    ASSUME IInv, NEW d \in Displays, NEW l \in Layers,
           SetLayerGeometry(d, l) \/ SetLayerSurfaceDamage(d, l)
    PROVE  IInv'
    <2> USE <1>SetsLayerState
    <2> DEFINE a == [layer[l] EXCEPT !.geometry = TRUE]
               b == [layer[l] EXCEPT !.needs_validate = TRUE]
    <2>1. TypeOK
      BY Zenon DEF IInv
    <2>2. /\ sf.at[d] = "idle" /\ l \in LayersOf(d)
          /\ UNCHANGED <<disp, validated, base, hw, fence, sf>>
          /\ layer' = [layer EXCEPT ![l] = a] \/ layer' = [layer EXCEPT ![l] = b]
      BY Zenon, <2>1 DEF SetLayerGeometry, SetLayerSurfaceDamage, Idle, TypeOK
    <2>3. /\ a \in LayerRecord /\ b \in LayerRecord
          /\ \A r \in {a, b} :
               /\ r.dev = layer[l].dev /\ r.sdm = layer[l].sdm
               /\ r.acquire = layer[l].acquire /\ r.secure = layer[l].secure
               /\ layer[l].needs_validate => r.needs_validate
      BY ZenonT(60), <2>1 DEF TypeOK, LayerRecord
    <2> HIDE DEF a, b
    <2>4. /\ layer' \in [Layers -> LayerRecord] /\ layer'[l] \in {a, b}
          /\ \A k \in Layers \ {l} : layer'[k] = layer[k]
      BY Zenon, <2>1, <2>2, <2>3 DEF TypeOK
    <2>5. QED BY Zenon, <2>1, <2>2, <2>3, <2>4, <1>LayerAttributes DEF TypeOK
  (* SetLayerCompositionType. *)
  <1>SetsLayerType.
    ASSUME IInv, NEW d \in Displays, NEW l \in Layers, NEW t \in CompositionTypes,
           SetLayerCompositionType(d, l, t)
    PROVE  IInv'
    <2> USE <1>SetsLayerType
    <2> DEFINE r == [layer[l] EXCEPT !.req = t]
               types == [sf.type EXCEPT ![l] = t]
    <2>1. TypeOK
      BY Zenon DEF IInv
    <2>2. /\ sf.at[d] = "idle" /\ l \in LayersOf(d)
          /\ UNCHANGED <<disp, validated, base, hw, fence>>
          /\ layer' = [layer EXCEPT ![l] = r]
      BY Zenon, <2>1 DEF SetLayerCompositionType, Idle, TypeOK
    <2>3. /\ r \in LayerRecord
          /\ r.dev = layer[l].dev /\ r.sdm = layer[l].sdm
          /\ r.acquire = layer[l].acquire /\ r.secure = layer[l].secure
          /\ r.needs_validate = layer[l].needs_validate
      BY ZenonT(60), <2>1 DEF TypeOK, LayerRecord
    <2> HIDE DEF r
    <2>4. /\ layer' \in [Layers -> LayerRecord] /\ layer'[l] = r
          /\ \A k \in Layers \ {l} : layer'[k] = layer[k]
      BY Zenon, <2>1, <2>2, <2>3 DEF TypeOK
    <2>5. /\ types \in [Layers -> CompositionTypes]
          /\ \A k \in Layers \ {l} : types[k] = sf.type[k]
      BY Zenon, <2>1 DEF TypeOK, SfRecord
    <2>6. sf' = [at |-> sf.at, type |-> types, latched |-> sf.latched, sync |-> sf.sync,
                 bypassed |-> sf.bypassed]
      BY Zenon, <2>1 DEF TypeOK, SfRecord, SetLayerCompositionType
    <2> HIDE DEF types
    <2>7. /\ sf' \in SfRecord /\ sf'.at = sf.at /\ sf'.type = types /\ sf'.latched = sf.latched
          /\ sf'.sync = sf.sync /\ sf'.bypassed = sf.bypassed
      BY Zenon, <2>1, <2>5, <2>6 DEF TypeOK, SfRecord
    <2>8. \A k \in Layers \ {l} : layer'[k] = layer[k] /\ sf'.type[k] = sf.type[k]
      BY Zenon, <2>4, <2>5, <2>7
    <2>9. /\ layer'[l].dev = layer[l].dev /\ layer'[l].sdm = layer[l].sdm
          /\ layer'[l].acquire = layer[l].acquire /\ layer'[l].secure = layer[l].secure
          /\ layer[l].needs_validate => layer'[l].needs_validate
      BY Zenon, <2>3, <2>4
    <2>10. QED BY Zenon, <2>2, <2>4, <2>7, <2>8, <2>9, <1>LayerAttributes
  (* The fences of the other layers of a display, when one layer's change. *)
  <1>OtherLayers.
    ASSUME NEW d \in Displays, NEW k \in Layers, Protected(d, k),
           sf'.at[d] = sf.at[d], fence'[k] = fence[k], k \in sf'.latched <=> k \in sf.latched,
           hw'[d].front[k] = hw[d].front[k], hw'[d].next[k] = hw[d].next[k]
    PROVE  Protected(d, k)'
    BY Zenon, <1>OtherLayers DEF Protected, Owed, Pushed, Safe, Covers
  (* A layer the driver shows nothing of, with its first fence: there is     *)
  (* nothing to protect.                                                     *)
  <1>NewProtected.
    ASSUME NEW d \in Displays, NEW l \in Layers, sf'.at[d] = "idle", fence'[l] = NewFences,
           hw'[d].front[l] = "none", hw'[d].next[l] = "none"
    PROVE  Protected(d, l)'
    <2> USE <1>NewProtected
    <2>1. Len(fence'[l].queue) = 1
      BY SMTT(30) DEF NewFences
    <2>2. QED BY Zenon, <2>1 DEF Protected, Safe, Covers
  (* CreateLayer. *)
  <1>CreatesLayer.
    ASSUME IInv, NEW d \in Displays, NEW l \in Layers, CreateLayer(d, l)
    PROVE  IInv'
    <2> USE <1>CreatesLayer
    <2> DEFINE r == [disp[d] EXCEPT !.layer_set = @ \union {l}]
    <2>1. TypeOK /\ DisplayInv(d)
      BY Zenon DEF IInv
    <2>2. /\ sf.at[d] = "idle" /\ Owner[l] = d /\ l \notin LayersOf(d) /\ validated' = {}
          /\ UNCHANGED <<base, hw, sf>>
          /\ layer' = [layer EXCEPT ![l] = NewLayer] /\ fence' = [fence EXCEPT ![l] = NewFences]
      BY Zenon DEF CreateLayer, Idle
    <2>3. disp' = [disp EXCEPT ![d] = r]
      BY Zenon, <2>1 DEF CreateLayer, TypeOK
    <2>4. /\ r \in DispRecord /\ r.layer_set = LayersOf(d) \union {l}
          /\ r.changes = disp[d].changes /\ r.flush = disp[d].flush
          /\ r.flush_on_error = disp[d].flush_on_error /\ r.secure = disp[d].secure
          /\ r.skip_prepare = disp[d].skip_prepare /\ r.paused = disp[d].paused
      BY ZenonT(60), <2>1 DEF TypeOK, DispRecord, LayersOf
    <2> HIDE DEF r
    <2>5. /\ disp' \in [Displays -> DispRecord] /\ disp'[d] = r
          /\ \A e \in Displays \ {d} : disp'[e] = disp[e]
      BY Zenon, <2>1, <2>3, <2>4, DispSet DEF TypeOK
    <2>6. NewLayer \in LayerRecord /\ NewFences \in FenceRecord
      BY SMTT(30) DEF NewLayer, LayerRecord, CompositionTypes, NewFences, FenceRecord, Fences
    <2>7. /\ layer' \in [Layers -> LayerRecord] /\ layer'[l] = NewLayer
          /\ fence' \in [Layers -> FenceRecord] /\ fence'[l] = NewFences
          /\ \A k \in Layers \ {l} : layer'[k] = layer[k] /\ fence'[k] = fence[k]
      BY Zenon, <2>1, <2>2, <2>6 DEF TypeOK
    <2>8. LayersOf(d)' = LayersOf(d) \union {l} /\ Bypasses(d)' = Bypasses(d)
      BY Zenon, <2>4, <2>5 DEF LayersOf, Bypasses
    <2>9. TypeOK'
      BY Zenon, <2>1, <2>2, <2>5, <2>7 DEF TypeOK
    <2>10. Elsewhere(d)
      BY Zenon, <2>1, <2>2, <2>5, <2>7, <1>OneLayer
    <2>11. FenceInv(d)'
      <3>1. hw[d].front[l] = "none" /\ hw[d].next[l] = "none"
        BY Zenon, <2>1, <2>2 DEF DisplayInv, FenceInv
      <3>2. Protected(d, l)'
        BY Zenon, <2>2, <2>7, <3>1, <1>NewProtected
      <3>3. ASSUME NEW k \in LayersOf(d) \ sf.bypassed
            PROVE  Protected(d, k)'
        <4> SUFFICES ASSUME d \notin SwapIntervalZero PROVE Protected(d, k)'
          BY Zenon DEF Protected
        <4>1. k \in Layers /\ Protected(d, k) /\ k # l
          BY Zenon, <2>1, <2>2, Mine DEF DisplayInv, FenceInv
        <4>2. QED BY Zenon, <2>2, <2>7, <4>1, <1>OtherLayers
      <3>4. QED BY Zenon, <2>1, <2>2, <2>8, <3>2, <3>3 DEF DisplayInv, FenceInv
    <2>12. DisplayInv(d)'
      <3>1. OwnInv(d)' /\ FlushInv(d)' /\ ScreenInv(d)'
        BY Zenon, <2>1, <2>2, <2>4, <2>5, <2>8 DEF DisplayInv, OwnInv, FlushInv, ScreenInv
      <3>2. ~Ready(d)'
        BY Zenon, <2>2 DEF Ready
      <3>3. AcquireInv(d)'
        BY Zenon, <2>1, <2>2, <2>7, <2>8 DEF DisplayInv, AcquireInv
      <3>4. QED BY Zenon, <2>11, <3>1, <3>2, <3>3 DEF DisplayInv, PreparedInv, ComposedInv
    <2>13. QED BY Zenon, <2>9, <2>10, <2>12, OneDisplay
  (* What the frames of a display show of one layer changes. *)
  <1>LayerFrames.
    ASSUME TypeOK, NEW d \in Displays, NEW l \in Layers,
           NEW x \in {"none", "cur", "prev"}, NEW y \in {"none", "cur", "prev"},
           hw' = [hw EXCEPT ![d].front[l] = x, ![d].next[l] = y]
    PROVE  /\ hw' \in [Displays -> HwRecord]
           /\ \A e \in Displays \ {d} : hw'[e] = hw[e]
           /\ hw'[d].content = hw[d].content
           /\ hw'[d].front[l] = x /\ hw'[d].next[l] = y
           /\ \A k \in Layers \ {l} : /\ hw'[d].front[k] = hw[d].front[k]
                                      /\ hw'[d].next[k] = hw[d].next[k]
    <2> USE <1>LayerFrames
    <2> DEFINE f == [hw[d].front EXCEPT ![l] = x]
               n == [hw[d].next EXCEPT ![l] = y]
               h == [front |-> f, next |-> n, content |-> hw[d].content]
    <2>1. hw[d] \in HwRecord
      BY Zenon DEF TypeOK
    <2>2. /\ f \in Frames /\ n \in Frames /\ f[l] = x /\ n[l] = y
          /\ \A k \in Layers \ {l} : f[k] = hw[d].front[k] /\ n[k] = hw[d].next[k]
      BY Zenon, <2>1 DEF HwRecord, Frames
    <2>3. hw' = [hw EXCEPT ![d] = h]
      <3> DEFINE g == [hw EXCEPT ![d].front[l] = x]
                 i == [hw[d] EXCEPT !.front = f]
      <3>1. hw' = [g EXCEPT ![d].next[l] = y]
        BY Zenon
      <3>2. g = [hw EXCEPT ![d] = i]
        BY Zenon DEF TypeOK
      <3> HIDE DEF g
      <3>3. i.next = hw[d].next /\ [i EXCEPT !.next = n] = h
        <4> HIDE DEF f, n
        <4>1. i = [front |-> f, next |-> hw[d].next, content |-> hw[d].content]
          BY SMTT(30), <2>1 DEF HwRecord
        <4> HIDE DEF i
        <4>2. QED BY SMTT(30), <4>1
      <3> HIDE DEF i, h
      <3>4. g[d] = i
        BY Zenon, <3>2 DEF TypeOK
      <3>5. hw' = [g EXCEPT ![d] = [i EXCEPT !.next = n]]
        BY Zenon, <3>1, <3>3, <3>4
      <3>6. QED BY Zenon, <3>2, <3>3, <3>5 DEF TypeOK
    <2> HIDE DEF f, n
    <2>4. h \in HwRecord /\ h.front = f /\ h.next = n /\ h.content = hw[d].content
      BY Zenon, <2>1, <2>2 DEF HwRecord
    <2> HIDE DEF h
    <2>5. /\ hw' \in [Displays -> HwRecord] /\ hw'[d] = h
          /\ \A e \in Displays \ {d} : hw'[e] = hw[e]
      BY Zenon, <2>3, <2>4, HwSet DEF TypeOK
    <2>6. QED BY ZenonT(60), <2>2, <2>4, <2>5
  (* DestroyLayer. *)
  <1>DestroysLayer.
    ASSUME IInv, NEW d \in Displays, NEW l \in Layers, DestroyLayer(d, l)
    PROVE  IInv'
    <2> USE <1>DestroysLayer
    <2> DEFINE left == {c \in disp[d].changes : c[1] # l}
               r == [disp[d] EXCEPT !.layer_set = @ \ {l}, !.changes = left]
               types == [sf.type EXCEPT ![l] = "Device"]
               syncs == [sf.sync EXCEPT ![l] = "done"]
               m == sf.latched \ {l}
               b == sf.bypassed \ {l}
    <2>1. TypeOK /\ DisplayInv(d)
      BY Zenon DEF IInv
    <2>2. /\ sf.at[d] = "idle" /\ l \in LayersOf(d) /\ validated' = {} /\ UNCHANGED base
          /\ layer' = [layer EXCEPT ![l] = NewLayer] /\ fence' = [fence EXCEPT ![l] = NewFences]
      BY Zenon DEF DestroyLayer, Idle
    <2>3. disp' = [disp EXCEPT ![d] = r]
      BY Zenon, <2>1 DEF DestroyLayer, TypeOK, DispRecord
    <2>4. hw' = [hw EXCEPT ![d].front[l] = "none", ![d].next[l] = "none"]
      BY Zenon DEF DestroyLayer
    <2>5. sf' = [at |-> sf.at, type |-> types, latched |-> m, sync |-> syncs, bypassed |-> b]
      BY Zenon, <2>1 DEF DestroyLayer, TypeOK, SfRecord
    <2>6. /\ types \in [Layers -> CompositionTypes] /\ m \in SUBSET Layers
          /\ syncs \in [Layers -> {"done", "fresh", "retried"}] /\ b \in SUBSET Layers
          /\ syncs[l] = "done"
          /\ \A k \in Layers \ {l} :
               /\ types[k] = sf.type[k] /\ syncs[k] = sf.sync[k]
               /\ (k \in m <=> k \in sf.latched) /\ (k \in b <=> k \in sf.bypassed)
      BY Zenon, <2>1 DEF TypeOK, SfRecord, CompositionTypes
    <2>7. left \in SUBSET (Layers \X CompositionTypes) /\ left \subseteq disp[d].changes
      BY Zenon, <2>1 DEF TypeOK, DispRecord
    <2> HIDE DEF left, types, syncs, m, b
    <2>8. /\ r \in DispRecord /\ r.layer_set = LayersOf(d) \ {l} /\ r.changes = left
          /\ r.flush = disp[d].flush
          /\ r.flush_on_error = disp[d].flush_on_error /\ r.secure = disp[d].secure
          /\ r.skip_prepare = disp[d].skip_prepare /\ r.paused = disp[d].paused
      BY ZenonT(60), <2>1, <2>7 DEF TypeOK, DispRecord, LayersOf
    <2> HIDE DEF r
    <2>9. /\ disp' \in [Displays -> DispRecord] /\ disp'[d] = r
          /\ \A e \in Displays \ {d} : disp'[e] = disp[e]
      BY Zenon, <2>1, <2>3, <2>8, DispSet DEF TypeOK
    <2>10. NewLayer \in LayerRecord /\ NewFences \in FenceRecord
      BY SMTT(30) DEF NewLayer, LayerRecord, CompositionTypes, NewFences, FenceRecord, Fences
    <2>11. /\ layer' \in [Layers -> LayerRecord] /\ fence' \in [Layers -> FenceRecord]
           /\ \A k \in Layers \ {l} : layer'[k] = layer[k] /\ fence'[k] = fence[k]
      BY Zenon, <2>1, <2>2, <2>10 DEF TypeOK
    <2>12. /\ sf' \in SfRecord /\ sf'.at = sf.at /\ sf'.type = types /\ sf'.latched = m
           /\ sf'.sync = syncs /\ sf'.bypassed = b
      <3>1. sf.at \in [Displays -> {"idle", "validated", "accepted", "presented"}]
        BY Zenon, <2>1 DEF TypeOK, SfRecord
      <3>2. QED BY Zenon, <2>1, <2>5, <2>6, <3>1, SfSet DEF TypeOK
    <2>13. /\ hw' \in [Displays -> HwRecord]
           /\ \A e \in Displays \ {d} : hw'[e] = hw[e]
           /\ hw'[d].content = hw[d].content
           /\ hw'[d].front[l] = "none" /\ hw'[d].next[l] = "none"
           /\ \A k \in Layers \ {l} : /\ hw'[d].front[k] = hw[d].front[k]
                                      /\ hw'[d].next[k] = hw[d].next[k]
      BY Zenon, <2>1, <2>4, <1>LayerFrames
    <2>14. \A k \in LayersOf(d) : k \in Layers /\ Owner[k] = d
      BY Zenon, <2>1, Mine
    <2>15. LayersOf(d)' = LayersOf(d) \ {l} /\ Bypasses(d)' = Bypasses(d)
      BY Zenon, <2>8, <2>9 DEF LayersOf, Bypasses
    <2>16. TypeOK'
      BY Zenon, <2>1, <2>2, <2>9, <2>11, <2>12, <2>13 DEF TypeOK
    <2>17. Elsewhere(d)
      <3>1. \A k \in Layers \ {l} :
                /\ layer'[k] = layer[k] /\ fence'[k] = fence[k]
                /\ sf'.type[k] = sf.type[k] /\ sf'.sync[k] = sf.sync[k]
                /\ k \in sf'.latched <=> k \in sf.latched
                /\ k \in sf'.bypassed <=> k \in sf.bypassed
        BY Zenon, <2>6, <2>11, <2>12
      <3>2. QED BY SMTT(30), <2>1, <2>2, <2>9, <2>12, <2>13, <2>14, <3>1, <1>OneLayer
    <2>18. FenceInv(d)'
      <3>1. ASSUME NEW k \in LayersOf(d) \ {l}, k \notin sf'.bypassed
            PROVE  Protected(d, k)'
        <4> SUFFICES ASSUME d \notin SwapIntervalZero PROVE Protected(d, k)'
          BY Zenon DEF Protected
        <4>1. k \in Layers /\ Protected(d, k)
          BY Zenon, <2>1, <2>6, <2>12, <2>14, <3>1 DEF DisplayInv, FenceInv
        <4>2. QED BY ZenonT(60), <2>6, <2>11, <2>12, <2>13, <4>1, <1>OtherLayers
      <3>2. \A k \in Layers : Owner[k] = d /\ k \notin LayersOf(d) \ {l} =>
               hw'[d].front[k] = "none" /\ hw'[d].next[k] = "none"
        BY Zenon, <2>1, <2>13 DEF DisplayInv, FenceInv
      <3>3. QED BY Zenon, <2>15, <3>1, <3>2 DEF FenceInv
    <2>19. DisplayInv(d)'
      <3>1. OwnInv(d)' /\ FlushInv(d)' /\ ScreenInv(d)'
        BY ZenonT(60), <2>1, <2>2, <2>7, <2>8, <2>9, <2>12, <2>13, <2>15
           DEF DisplayInv, OwnInv, FlushInv, ScreenInv
      <3>2. ~Ready(d)'
        BY Zenon, <2>2 DEF Ready
      <3>3. AcquireInv(d)'
        BY ZenonT(60), <2>1, <2>6, <2>11, <2>12, <2>15 DEF DisplayInv, AcquireInv
      <3>4. QED BY Zenon, <2>18, <3>1, <3>2, <3>3 DEF DisplayInv, PreparedInv, ComposedInv
    <2>20. QED BY Zenon, <2>16, <2>17, <2>19, OneDisplay
  (* SetLayerBuffer: the buffer on screen is now the one before. *)
  <1>SetsLayerBuffer.
    ASSUME IInv, NEW d \in Displays, NEW l \in Layers, NEW s \in BOOLEAN, SetLayerBuffer(d, l, s)
    PROVE  IInv'
    <2> USE <1>SetsLayerBuffer
    <2> DEFINE r == [layer[l] EXCEPT !.acquire = "open", !.secure = s,
                                     !.needs_validate = @ \/ layer[l].secure # s]
               syncs == [sf.sync EXCEPT ![l] = "fresh"]
               m == sf.latched \union {l}
               x == Older(hw[d].front[l])
               y == Older(hw[d].next[l])
    <2>1. TypeOK /\ DisplayInv(d)
      BY Zenon DEF IInv
    <2>2. /\ sf.at[d] = "idle" /\ l \in LayersOf(d) /\ l \notin sf.latched
          /\ UNCHANGED <<disp, validated, base, fence>>
      BY Zenon DEF SetLayerBuffer, Idle
    <2>3. layer' = [layer EXCEPT ![l] = r]
      BY Zenon, <2>1 DEF SetLayerBuffer, TypeOK, LayerRecord
    <2>4. hw' = [hw EXCEPT ![d].front[l] = x, ![d].next[l] = y]
      BY Zenon, <2>1 DEF SetLayerBuffer, TypeOK, HwRecord, Frames
    <2>5. sf' = [at |-> sf.at, type |-> sf.type, latched |-> m, sync |-> syncs,
                 bypassed |-> sf.bypassed]
      BY Zenon, <2>1 DEF SetLayerBuffer, TypeOK, SfRecord
    <2>6. /\ r \in LayerRecord /\ r.dev = layer[l].dev /\ r.sdm = layer[l].sdm
          /\ r.req = layer[l].req /\ r.acquire = "open"
          /\ layer[l].needs_validate \/ layer[l].secure # r.secure => r.needs_validate
      BY ZenonT(60), <2>1 DEF TypeOK, LayerRecord
    <2>7. /\ x \in {"none", "prev"} /\ (hw[d].front[l] = "cur" <=> x = "prev")
          /\ y \in {"none", "prev"} /\ (hw[d].next[l] = "cur" <=> y = "prev")
      BY Zenon DEF Older
    <2>8. /\ syncs \in [Layers -> {"done", "fresh", "retried"}] /\ m \in SUBSET Layers
          /\ \A k \in Layers \ {l} : syncs[k] = sf.sync[k] /\ (k \in m <=> k \in sf.latched)
          /\ l \in m
      BY Zenon, <2>1 DEF TypeOK, SfRecord
    <2> HIDE DEF r, syncs, m, x, y
    <2>9. /\ layer' \in [Layers -> LayerRecord] /\ layer'[l] = r
          /\ \A k \in Layers \ {l} : layer'[k] = layer[k]
      BY Zenon, <2>1, <2>3, <2>6 DEF TypeOK
    <2>10. /\ hw' \in [Displays -> HwRecord]
           /\ \A e \in Displays \ {d} : hw'[e] = hw[e]
           /\ hw'[d].content = hw[d].content
           /\ hw'[d].front[l] = x /\ hw'[d].next[l] = y
           /\ \A k \in Layers \ {l} : /\ hw'[d].front[k] = hw[d].front[k]
                                      /\ hw'[d].next[k] = hw[d].next[k]
      BY ZenonT(60), <2>1, <2>4, <2>7, <1>LayerFrames
    <2>11. /\ sf' \in SfRecord /\ sf'.at = sf.at /\ sf'.type = sf.type /\ sf'.latched = m
           /\ sf'.sync = syncs /\ sf'.bypassed = sf.bypassed
      BY Zenon, <2>1, <2>5, <2>8 DEF TypeOK, SfRecord
    <2>12. \A k \in LayersOf(d) : k \in Layers /\ Owner[k] = d
      BY Zenon, <2>1, Mine
    <2>13. /\ LayersOf(d)' = LayersOf(d) /\ Bypasses(d)' = Bypasses(d) /\ (Ready(d)' <=> Ready(d))
      BY Zenon, <2>2 DEF LayersOf, Bypasses, Ready
    <2>14. TypeOK'
      BY Zenon, <2>1, <2>2, <2>9, <2>10, <2>11 DEF TypeOK
    <2>15. Elsewhere(d)
      <3>1. \A k \in Layers \ {l} :
                /\ layer'[k] = layer[k] /\ fence'[k] = fence[k]
                /\ sf'.type[k] = sf.type[k] /\ sf'.sync[k] = sf.sync[k]
                /\ k \in sf'.latched <=> k \in sf.latched
                /\ k \in sf'.bypassed <=> k \in sf.bypassed
        BY Zenon, <2>2, <2>8, <2>9, <2>11
      <3>2. QED BY SMTT(30), <2>1, <2>2, <2>10, <2>11, <2>12, <3>1, <1>OneLayer
    <2>16. PreparedInv(d)'
      <3>1. \A k \in Layers : layer'[k].dev = layer[k].dev /\ layer'[k].req = layer[k].req
        BY Zenon, <2>6, <2>9
      <3>2. Ready(d) /\ ~disp[d].bypass /\ PreparedInv(d) =>
               \/ SecureNow(d)' = disp[d].secure
               \/ \E k \in LayersOf(d) : layer'[k].needs_validate
        <4>1. CASE \E k \in LayersOf(d) : layer[k].needs_validate
          BY Zenon, <2>6, <2>9, <2>12, <4>1
        <4>2. CASE r.secure # layer[l].secure
          BY Zenon, <2>2, <2>6, <2>9, <4>2
        <4>3. CASE ~(\E k \in LayersOf(d) : layer[k].needs_validate) /\ r.secure = layer[l].secure
          <5>1. SecureNow(d)' = SecureNow(d)
            BY Zenon, <2>9, <2>12, <2>13, <4>3 DEF SecureNow
          <5>2. QED BY Zenon, <4>3, <5>1 DEF PreparedInv
        <4>4. QED BY Zenon, <4>1, <4>2, <4>3
      <3>3. QED BY ZenonT(60), <2>1, <2>2, <2>11, <2>12, <2>13, <3>1, <3>2 DEF DisplayInv, PreparedInv
    <2>17. FenceInv(d)'
      <3>1. ASSUME NEW k \in LayersOf(d) \ sf.bypassed
            PROVE  Protected(d, k)'
        <4> SUFFICES ASSUME d \notin SwapIntervalZero PROVE Protected(d, k)'
          BY Zenon DEF Protected
        <4>1. k \in Layers /\ Protected(d, k)
          BY Zenon, <2>1, <2>12 DEF DisplayInv, FenceInv
        <4>2. CASE k # l
          BY Zenon, <2>2, <2>8, <2>10, <2>11, <4>1, <4>2, <1>OtherLayers
        <4>3. CASE k = l
          <5>1. fence[l].held \in Fences /\ Len(fence[l].queue) = 1 /\ fence[l].queue[1] \in Fences
            BY SMTT(30), <2>1, <2>2, <4>1, <4>3 DEF Protected, TypeOK, FenceRecord
          <5>2. Covers(Later(Owed(l), "none"), hw[d], l, "cur")
            BY Zenon, <2>2, <4>1, <4>3 DEF Protected, Safe, Pushed
          <5>3. Later(Owed(l), "none") = Owed(l)
            BY Zenon, <5>1 DEF Owed, Later, Fences
          <5>4. Owed(l)' = Owed(l) /\ Pushed(d, l)' = "none"
            BY Zenon, <2>2, <2>11 DEF Owed, Pushed
          <5>5. /\ Covers(Owed(l), hw'[d], l, "prev") /\ Covers("none", hw'[d], l, "cur")
            BY Zenon, <2>7, <2>10, <5>2, <5>3 DEF Covers
          <5>6. Covers(Owed(l), hw[d], l, "prev")' /\ Covers(Pushed(d, l), hw[d], l, "cur")'
            BY Zenon, <5>4, <5>5 DEF Covers
          <5>7. l \in sf'.latched /\ Len(fence'[l].queue) = 1 /\ sf'.at[d] = "idle"
            BY Zenon, <2>2, <2>8, <2>11, <5>1
          <5>8. Safe(Owed(l), Pushed(d, l), hw[d], l)'
            BY Zenon, <5>6, <5>7 DEF Safe
          <5>9. QED BY Zenon, <4>3, <5>7, <5>8 DEF Protected
        <4>4. QED BY Zenon, <4>2, <4>3
      <3>2. \A k \in Layers : Owner[k] = d /\ k \notin LayersOf(d) =>
               hw'[d].front[k] = "none" /\ hw'[d].next[k] = "none"
        BY Zenon, <2>1, <2>2, <2>10 DEF DisplayInv, FenceInv
      <3>3. QED BY Zenon, <2>11, <2>13, <3>1, <3>2 DEF FenceInv
    <2>18. DisplayInv(d)'
      <3>1. OwnInv(d)' /\ FlushInv(d)' /\ ScreenInv(d)'
        BY Zenon, <2>1, <2>2, <2>10, <2>11, <2>13 DEF DisplayInv, OwnInv, FlushInv, ScreenInv
      <3>2. ComposedInv(d)'
        BY ZenonT(60), <2>1, <2>2, <2>6, <2>9, <2>12, <2>13 DEF DisplayInv, ComposedInv
      <3>3. AcquireInv(d)'
        BY SMTT(30), <2>1, <2>2, <2>6, <2>8, <2>9, <2>11, <2>13 DEF DisplayInv, AcquireInv
      <3>4. QED BY Zenon, <2>16, <2>17, <3>1, <3>2, <3>3 DEF DisplayInv
    <2>19. QED BY Zenon, <2>14, <2>15, <2>18, OneDisplay
  <1> QED
    <2>1. SUFFICES ASSUME IInv, NEW d \in Displays, LayerCalls(d)
                   PROVE  IInv'
      BY Zenon
    <2>2. PICK l \in Layers :
             \/ CreateLayer(d, l) \/ DestroyLayer(d, l)
             \/ \E s \in BOOLEAN : SetLayerBuffer(d, l, s)
             \/ SetLayerGeometry(d, l) \/ SetLayerSurfaceDamage(d, l)
             \/ \E t \in {"Device", "Client"} : SetLayerCompositionType(d, l, t)
      BY Zenon, <2>1 DEF LayerCalls
    <2>3. QED BY Zenon, <2>1, <2>2, <1>CreatesLayer, <1>DestroysLayer, <1>SetsLayerBuffer,
                 <1>SetsLayerState, <1>SetsLayerType DEF CompositionTypes

-----------------------------------------------------------------------------
(* SurfaceFlinger's other calls on a display.                              *)

(* A step of the frame, and nothing else. *)
LEMMA StepSf ==
    ASSUME TypeOK, NEW d \in Displays, NEW at \in {"idle", "validated", "accepted", "presented"},
           sf' = [sf EXCEPT !.at[d] = at]
    PROVE  /\ sf' \in SfRecord
           /\ sf'.at = [sf.at EXCEPT ![d] = at] /\ sf'.type = sf.type
           /\ sf'.latched = sf.latched /\ sf'.sync = sf.sync /\ sf'.bypassed = sf.bypassed
  <1> DEFINE a == [sf.at EXCEPT ![d] = at]
  <1>1. a \in [Displays -> {"idle", "validated", "accepted", "presented"}]
    BY Zenon DEF TypeOK, SfRecord
  <1>2. sf' = [at |-> a, type |-> sf.type, latched |-> sf.latched, sync |-> sf.sync,
               bypassed |-> sf.bypassed]
    BY Zenon DEF TypeOK, SfRecord
  <1> HIDE DEF a
  <1>3. QED BY Zenon, <1>1, <1>2 DEF TypeOK, SfRecord, a

(* SurfaceFlinger accepts the changes, or is refused. *)
LEMMA AcceptsChanges ==
    ASSUME IInv, NEW d \in Displays, AcceptDisplayChanges(d)
    PROVE  IInv'
  <1> DEFINE changes == disp[d].changes
             choice(l) == CHOOSE c \in changes : c[1] = l
  <1>1. TypeOK /\ DisplayInv(d)
    BY Zenon DEF IInv
  <1>2. /\ sf.at[d] = "validated" /\ sf' = [sf EXCEPT !.at[d] = "accepted"]
        /\ UNCHANGED <<disp, validated, base, hw, fence>>
    BY Zenon DEF AcceptDisplayChanges
  <1>3. /\ sf' \in SfRecord /\ sf'.at = [sf.at EXCEPT ![d] = "accepted"] /\ sf'.type = sf.type
        /\ sf'.latched = sf.latched /\ sf'.sync = sf.sync /\ sf'.bypassed = sf.bypassed
    BY Zenon, <1>1, <1>2, StepSf
  <1>4. sf'.at[d] = "accepted" /\ \A e \in Displays \ {d} : sf'.at[e] = sf.at[e]
    BY ZenonT(60), <1>1, <1>3 DEF TypeOK, SfRecord
  <1>5. changes \subseteq Layers \X CompositionTypes
    BY Zenon, <1>1 DEF TypeOK, DispRecord
  <1>6. ASSUME NEW l \in Layers
        PROVE  /\ layer'[l] \in LayerRecord
               /\ l \notin LayersOf(d) => layer'[l] = layer[l]
               /\ layer'[l].dev = layer[l].dev /\ layer'[l].sdm = layer[l].sdm
               /\ layer'[l].needs_validate = layer[l].needs_validate
               /\ layer'[l].acquire = layer[l].acquire /\ layer'[l].secure = layer[l].secure
               /\ \/ layer'[l].req = layer[l].req
                  \/ \E c \in changes : c[1] = l
    <2>1. layer[l] \in LayerRecord
      BY Zenon, <1>1 DEF TypeOK
    <2>2. CASE d \in validated /\ \E c \in changes : c[1] = l /\ l \in LayersOf(d)
      <3> DEFINE t == choice(l)[2]
      <3>1. choice(l) \in changes
        BY Zenon, <2>2
      <3>2. layer'[l] = [layer[l] EXCEPT !.req = t]
        BY Zenon, <2>2 DEF AcceptDisplayChanges
      <3> HIDE DEF choice, changes
      <3>3. t \in CompositionTypes
        BY Zenon, <1>5, <3>1
      <3> HIDE DEF t
      <3>4. QED BY Zenon, <2>1, <2>2, <3>2, <3>3 DEF LayerRecord
    <2>3. CASE ~(d \in validated /\ \E c \in changes : c[1] = l /\ l \in LayersOf(d))
      <3>1. layer'[l] = layer[l]
        BY Zenon, <2>3 DEF AcceptDisplayChanges
      <3>2. QED BY Zenon, <2>1, <3>1
    <2>4. QED BY Zenon, <2>2, <2>3
  <1>7. layer' \in [Layers -> LayerRecord]
    <2>1. \E f : layer' = [l \in Layers |-> f[l]]
      <3>1. layer = [l \in Layers |-> layer[l]]
        BY Zenon, <1>1 DEF TypeOK
      <3>2. CASE d \in validated
        <4>1. layer' = [l \in Layers |-> layer'[l]]
          BY Zenon, <3>2 DEF AcceptDisplayChanges
        <4>2. QED BY Zenon, <4>1
      <3>3. CASE d \notin validated
        BY Zenon, <3>1, <3>3 DEF AcceptDisplayChanges
      <3>4. QED BY Zenon, <3>2, <3>3
    <2>2. QED BY Zenon, <1>6, <2>1
  <1> HIDE DEF changes, choice
  <1>8. LayersElsewhere(d)
    BY Zenon, <1>6 DEF LayersElsewhere
  <1>9. \A l \in LayersOf(d) : l \in Layers /\ Owner[l] = d
    BY Zenon, <1>1, Mine
  <1>10. LayersOf(d)' = LayersOf(d) /\ Bypasses(d)' = Bypasses(d)
    BY Zenon, <1>2 DEF LayersOf, Bypasses
  <1>11. SecureNow(d)' = SecureNow(d)
    BY ZenonT(60), <1>6, <1>9, <1>10 DEF SecureNow
  <1>12. TypeOK'
    BY Zenon, <1>1, <1>2, <1>3, <1>7 DEF TypeOK
  <1>13. Elsewhere(d)
    BY Zenon, <1>1, <1>2, <1>3, <1>4, <1>8, NothingElse
  <1>14. DisplayInv(d)'
    <2>1. OwnInv(d)' /\ FlushInv(d)' /\ ScreenInv(d)'
      BY Zenon, <1>1, <1>2, <1>4, <1>10 DEF DisplayInv, OwnInv, FlushInv, ScreenInv
    <2>2. Ready(d)' => Ready(d)
      BY Zenon, <1>2, <1>10 DEF Ready
    <2>3. PreparedInv(d)'
      <3>1. SUFFICES ASSUME Ready(d)', ~disp[d].bypass
                     PROVE  PreparedInv(d)'
        BY Zenon, <1>2 DEF PreparedInv
      <3>2. PreparedInv(d) /\ Ready(d) /\ changes = disp[d].changes
        BY Zenon, <1>1, <2>2, <3>1 DEF DisplayInv, changes
      <3>3. ASSUME NEW l \in LayersOf(d) \ base[d].hw_layers
            PROVE  /\ Target \in base[d].hw_layers /\ layer'[l].dev = "Client"
                   /\ sf'.type[l] = layer'[l].req => sf'.type[l] = "Client"
        <4>1. /\ Target \in base[d].hw_layers /\ layer[l].dev = "Client"
              /\ sf.type[l] = layer[l].req => sf.type[l] = "Client"
              /\ \A c \in changes : c[1] = l => sf.type[l] = "Client"
          BY Zenon, <1>2, <3>1, <3>2 DEF PreparedInv
        <4>2. QED BY ZenonT(60), <1>3, <1>6, <1>9, <4>1
      <3>4. QED BY Zenon, <1>2, <1>4, <1>10, <1>11, <3>1, <3>2, <3>3 DEF PreparedInv
    <2>4. ComposedInv(d)'
      BY ZenonT(60), <1>1, <1>2, <1>6, <1>9, <1>10, <2>2 DEF DisplayInv, ComposedInv
    <2>5. FenceInv(d)'
      BY Zenon, <1>1, <1>2, <1>3, <1>4, <1>10, FencesStay
    <2>6. AcquireInv(d)'
      BY SMTT(30), <1>1, <1>3, <1>6, <1>10 DEF DisplayInv, AcquireInv
    <2>7. QED BY Zenon, <2>1, <2>3, <2>4, <2>5, <2>6 DEF DisplayInv
  <1>15. QED BY Zenon, <1>12, <1>13, <1>14, OneDisplay

(* SurfaceFlinger sets the client target it has drawn. *)
LEMMA SetsClientTarget ==
    ASSUME IInv, NEW d \in Displays, SetClientTarget(d)
    PROVE  IInv'
  <1> DEFINE r == [disp[d] EXCEPT !.target_dirty = TRUE]
  <1>1. TypeOK /\ DisplayInv(d)
    BY Zenon DEF IInv
  <1>2. /\ UNCHANGED <<validated, layer, base, hw, fence, sf>> /\ disp' = [disp EXCEPT ![d] = r]
        /\ sf.at[d] = "accepted"
    BY Zenon, <1>1 DEF SetClientTarget, TypeOK
  <1>3. /\ r \in DispRecord /\ r.layer_set = disp[d].layer_set
        /\ r.changes = disp[d].changes /\ r.flush = disp[d].flush
        /\ r.flush_on_error = disp[d].flush_on_error /\ r.secure = disp[d].secure
        /\ r.skip_prepare = disp[d].skip_prepare /\ r.paused = disp[d].paused
        /\ r.shutdown = disp[d].shutdown /\ r.bypass = disp[d].bypass
        /\ r.skip_validate = disp[d].skip_validate
    BY ZenonT(60), <1>1 DEF TypeOK, DispRecord
  <1> HIDE DEF r
  <1>4. /\ disp' \in [Displays -> DispRecord] /\ disp'[d] = r
        /\ \A e \in Displays \ {d} : disp'[e] = disp[e]
    BY Zenon, <1>1, <1>2, <1>3, DispSet DEF TypeOK
  <1>5. /\ LayersOf(d)' = LayersOf(d) /\ Bypasses(d)' = Bypasses(d)
        /\ SecureNow(d)' = SecureNow(d) /\ (Ready(d)' <=> Ready(d))
    BY Zenon, <1>2, <1>3, <1>4 DEF LayersOf, Bypasses, SecureNow, Ready
  <1>6. TypeOK'
    BY Zenon, <1>1, <1>2, <1>4 DEF TypeOK
  <1>7. Elsewhere(d)
    BY Zenon, <1>2, <1>4 DEF Elsewhere, Same
  <1>8. DisplayInv(d)'
    <2>1. OwnInv(d)' /\ FlushInv(d)' /\ ScreenInv(d)'
      BY ZenonT(60), <1>1, <1>2, <1>3, <1>4, <1>5 DEF DisplayInv, OwnInv, FlushInv, ScreenInv
    <2>2. PreparedInv(d)'
      BY ZenonT(60), <1>1, <1>2, <1>3, <1>4, <1>5 DEF DisplayInv, PreparedInv
    <2>3. ComposedInv(d)'
      BY Zenon, <1>1, <1>2, <1>3, <1>4, <1>5 DEF DisplayInv, ComposedInv
    <2>4. FenceInv(d)'
      BY Zenon, <1>1, <1>2, <1>5, FencesStay
    <2>5. AcquireInv(d)'
      BY Zenon, <1>1, <1>2, <1>5 DEF DisplayInv, AcquireInv
    <2>6. QED BY Zenon, <2>1, <2>2, <2>3, <2>4, <2>5 DEF DisplayInv
  <1>9. QED BY Zenon, <1>6, <1>7, <1>8, OneDisplay

(* SurfaceFlinger takes the release fences. *)
LEMMA GetsReleaseFences ==
    ASSUME IInv, NEW d \in Displays, GetReleaseFences(d)
    PROVE  IInv'
  <1>1. TypeOK /\ DisplayInv(d)
    BY Zenon DEF IInv
  <1>2. /\ sf.at[d] = "presented" /\ UNCHANGED <<disp, validated, layer, base, hw>>
        /\ sf' = [sf EXCEPT !.at[d] = "idle", !.latched = @ \ LayersOf(d)]
    BY Zenon DEF GetReleaseFences
  <1>3. /\ sf' \in SfRecord /\ sf'.at = [sf.at EXCEPT ![d] = "idle"] /\ sf'.type = sf.type
        /\ sf'.latched = sf.latched \ LayersOf(d) /\ sf'.sync = sf.sync
        /\ sf'.bypassed = sf.bypassed
    <2> DEFINE a == [sf.at EXCEPT ![d] = "idle"]
    <2>1. a \in [Displays -> {"idle", "validated", "accepted", "presented"}]
      BY Zenon, <1>1 DEF TypeOK, SfRecord
    <2>2. sf' = [at |-> a, type |-> sf.type, latched |-> sf.latched \ LayersOf(d),
                 sync |-> sf.sync, bypassed |-> sf.bypassed]
      BY Zenon, <1>1, <1>2 DEF TypeOK, SfRecord
    <2> HIDE DEF a
    <2>3. QED BY Zenon, <1>1, <2>1, <2>2 DEF TypeOK, SfRecord, a
  <1>4. sf'.at[d] = "idle" /\ \A e \in Displays \ {d} : sf'.at[e] = sf.at[e]
    BY ZenonT(60), <1>1, <1>3 DEF TypeOK, SfRecord
  <1>5. \A l \in LayersOf(d) : l \in Layers /\ Owner[l] = d
    BY Zenon, <1>1, Mine
  <1>6. ASSUME NEW l \in Layers
        PROVE  /\ fence'[l] \in FenceRecord
               /\ l \notin LayersOf(d) => fence'[l] = fence[l]
               /\ l \in LayersOf(d) =>
                    /\ fence'[l].queue = IF fence[l].queue = <<>> THEN <<>>
                                         ELSE Tail(fence[l].queue)
                    /\ fence'[l].held = IF l \in sf.latched THEN "none"
                                        ELSE Later(fence[l].held, PopReleaseFence(l))
    <2>1. fence[l] \in FenceRecord /\ fence[l].queue \in Seq(Fences) /\ fence[l].held \in Fences
      BY Zenon, <1>1 DEF TypeOK, FenceRecord
    <2>2. PopReleaseFence(l) \in Fences
      BY SMTT(30), <2>1 DEF PopReleaseFence, Fences
    <2>3. Later(fence[l].held, PopReleaseFence(l)) \in Fences /\ "none" \in Fences
      BY Zenon, <2>1, <2>2 DEF Later, Fences
    <2>4. CASE l \in LayersOf(d)
      <3> DEFINE q == IF fence[l].queue = <<>> THEN <<>> ELSE Tail(fence[l].queue)
                 k == IF l \in sf.latched THEN "none"
                      ELSE Later(fence[l].held, PopReleaseFence(l))
      <3>1. q \in Seq(Fences) /\ k \in Fences
        BY SMTT(30), <2>1, <2>3
      <3>2. fence'[l] = [queue |-> q, held |-> k]
        BY Zenon, <2>4 DEF GetReleaseFences
      <3> HIDE DEF q, k
      <3>3. QED BY SMTT(30), <2>4, <3>1, <3>2 DEF FenceRecord, q, k
    <2>5. CASE l \notin LayersOf(d)
      BY Zenon, <2>1, <2>5 DEF GetReleaseFences
    <2>6. QED BY Zenon, <2>4, <2>5
  <1>7. fence' \in [Layers -> FenceRecord]
    BY Zenon, <1>6 DEF GetReleaseFences
  <1>8. LayersOf(d)' = LayersOf(d) /\ Bypasses(d)' = Bypasses(d) /\ SecureNow(d)' = SecureNow(d)
    BY Zenon, <1>2 DEF LayersOf, Bypasses, SecureNow
  <1>9. TypeOK'
    BY Zenon, <1>1, <1>2, <1>3, <1>7 DEF TypeOK
  <1>10. Elsewhere(d)
    <2>1. \A l \in Layers : Owner[l] # d => l \notin LayersOf(d)
      BY Zenon, <1>5
    <2>2. LayersElsewhere(d)
      BY Zenon, <1>2 DEF LayersElsewhere
    <2>3. \A l \in Layers : Owner[l] # d =>
              /\ fence'[l] = fence[l]
              /\ sf'.type[l] = sf.type[l] /\ sf'.sync[l] = sf.sync[l]
              /\ l \in sf'.latched <=> l \in sf.latched
              /\ l \in sf'.bypassed <=> l \in sf.bypassed
      BY Zenon, <1>3, <1>6, <2>1
    <2>4. QED BY Zenon, <1>1, <1>2, <1>4, <2>2, <2>3, NothingElse
  <1>11. FenceInv(d)'
    <2>1. ASSUME NEW l \in LayersOf(d) \ sf.bypassed
          PROVE  Protected(d, l)'
      <3> SUFFICES ASSUME d \notin SwapIntervalZero PROVE Protected(d, l)'
        BY Zenon DEF Protected
      <3>1. l \in Layers /\ Protected(d, l)
        BY Zenon, <1>1, <1>5 DEF DisplayInv, FenceInv
      <3>2. fence[l].queue \in Seq(Fences) /\ fence[l].held \in Fences
        BY Zenon, <1>1, <3>1 DEF TypeOK, FenceRecord
      <3>3. /\ Len(fence[l].queue) = 2
            /\ Safe(Owed(l), fence[l].queue[2], hw[d], l)
        BY Zenon, <1>2, <3>1 DEF Protected, Pushed
      <3>4. /\ PopReleaseFence(l) = fence[l].queue[1]
            /\ Len(fence'[l].queue) = 1 /\ fence'[l].queue[1] = fence[l].queue[2]
            /\ fence[l].queue[1] \in Fences /\ fence[l].queue[2] \in Fences
        <4>1. ASSUME NEW q \in Seq(Fences), Len(q) = 2
              PROVE  /\ q # <<>> /\ Head(q) = q[1] /\ Len(Tail(q)) = 1 /\ Tail(q)[1] = q[2]
                     /\ q[1] \in Fences /\ q[2] \in Fences
          BY SMTT(30), <4>1
        <4>2. fence[l].queue # <<>> /\ Head(fence[l].queue) = fence[l].queue[1]
          BY Zenon, <3>2, <3>3, <4>1
        <4>3. fence'[l].queue = Tail(fence[l].queue)
          BY Zenon, <1>6, <3>1, <4>2
        <4>4. PopReleaseFence(l) = fence[l].queue[1]
          BY Zenon, <4>2 DEF PopReleaseFence
        <4>5. QED BY Zenon, <3>2, <3>3, <4>1, <4>3, <4>4
      <3>5. Later(Owed(l)', Pushed(d, l)') = IF l \in sf.latched THEN fence[l].queue[2]
                                             ELSE Later(Owed(l), fence[l].queue[2])
        <4>1. Pushed(d, l)' = "none" /\ Owed(l)' = Later(fence'[l].held, fence[l].queue[2])
          BY Zenon, <1>4, <3>4 DEF Pushed, Owed
        <4>2. fence'[l].held = IF l \in sf.latched THEN "none" ELSE Owed(l)
          BY ZenonT(60), <1>6, <3>1, <3>4 DEF Owed
        <4>3. Owed(l) \in Fences
          BY Zenon, <3>2, <3>4, Ages DEF Owed
        <4>4. QED BY Zenon, <3>4, <4>1, <4>2, <4>3 DEF Later, Fences
      <3>6. Covers(Later(Owed(l)', Pushed(d, l)'), hw[d], l, "cur")
        BY Zenon, <3>3, <3>5 DEF Safe
      <3>7. l \notin sf'.latched
        BY Zenon, <1>3
      <3>8. Safe(Owed(l), Pushed(d, l), hw[d], l)'
        BY Zenon, <1>2, <3>6, <3>7 DEF Safe, Covers
      <3>9. QED BY Zenon, <1>4, <3>4, <3>8 DEF Protected
    <2>2. QED BY Zenon, <1>1, <1>2, <1>3, <1>8, <2>1 DEF DisplayInv, FenceInv
  <1>12. DisplayInv(d)'
    <2>1. OwnInv(d)' /\ FlushInv(d)' /\ ScreenInv(d)'
      BY Zenon, <1>1, <1>2, <1>8 DEF DisplayInv, OwnInv, FlushInv, ScreenInv
    <2>2. Ready(d)' => Ready(d)
      BY Zenon, <1>2, <1>8 DEF Ready
    <2>3. PreparedInv(d)'
      BY Zenon, <1>1, <1>2, <1>4, <1>8, <2>2 DEF DisplayInv, PreparedInv
    <2>4. ComposedInv(d)' /\ AcquireInv(d)'
      BY Zenon, <1>1, <1>2, <1>3, <1>8, <2>2 DEF DisplayInv, ComposedInv, AcquireInv
    <2>5. QED BY Zenon, <1>11, <2>1, <2>3, <2>4 DEF DisplayInv
  <1>13. QED BY Zenon, <1>9, <1>10, <1>12, OneDisplay
-----------------------------------------------------------------------------
(* Validate.                                                               *)

-----------------------------------------------------------------------------
(* Validate.                                                               *)

(* What MarkLayersForGPUBypass, BuildLayerStack, PrepareLayerStack,        *)
(* CloseAcquireFds and PostCommitLayerStack store in a layer.              *)
LEMMA LayerSets ==
    ASSUME NEW r \in LayerRecord, NEW s \in {"GPU", "SDE"}, NEW f \in {"none", "open"}
    PROVE  /\ [r EXCEPT !.sdm = s] \in LayerRecord
           /\ [r EXCEPT !.sdm = s, !.acquire = f] \in LayerRecord
           /\ [r EXCEPT !.acquire = "none"] \in LayerRecord
           /\ [r EXCEPT !.geometry = FALSE, !.acquire = "none"] \in LayerRecord
           /\ [r EXCEPT !.sdm = s, !.dev = SetComposition(s), !.needs_validate = FALSE,
                        !.acquire = f] \in LayerRecord
  BY Zenon DEF LayerRecord, SetComposition, CompositionTypes

(* DisplayBase's part, and what BuildLayerStack adds to it.                *)
FlushedRecord(r, ok) == [r EXCEPT !.hw_layers = {}, !.prepared = FALSE,
                                  !.needs_validate = @ \/ ok]

(* A flush forgets the prepared stack and nothing else. *)
LEMMA FlushedRecords ==
    ASSUME NEW r \in BaseRecord, NEW ok \in BOOLEAN
    PROVE  /\ FlushedRecord(r, ok) \in BaseRecord
           /\ FlushedRecord(r, ok).state = r.state
           /\ FlushedRecord(r, ok).needs_validate <=> (r.needs_validate \/ ok)
           /\ ~FlushedRecord(r, ok).prepared
           /\ [r EXCEPT !.prepared = FALSE] \in BaseRecord
           /\ [r EXCEPT !.prepared = FALSE].state = r.state
           /\ [r EXCEPT !.prepared = FALSE].needs_validate = r.needs_validate
  BY Zenon DEF FlushedRecord, BaseRecord

(* ValidateDisplay keeps the invariant, whichever way it ends. *)
LEMMA ValidateKeeps ==
    \A d \in Displays : IInv /\ Validate(d) => IInv'
  (* After a validate SurfaceFlinger knows the changes. *)
  <1>ToldSf.
    ASSUME TypeOK, NEW d \in Displays, NEW changes \in SUBSET (Layers \X CompositionTypes),
           NEW valid \in BOOLEAN, sf' = Told(d, changes, valid)
    PROVE  /\ sf' \in SfRecord
           /\ sf'.at = [sf.at EXCEPT ![d] = "validated"]
           /\ sf'.latched = sf.latched /\ sf'.sync = sf.sync /\ sf'.bypassed = sf.bypassed
           /\ \A l \in Layers :
                IF valid /\ \E c \in changes : c[1] = l
                THEN \E c \in changes : c[1] = l /\ sf'.type[l] = c[2]
                ELSE sf'.type[l] = sf.type[l]
    <2> USE <1>ToldSf
    <2> DEFINE t == [l \in Layers |-> IF valid /\ \E c \in changes : c[1] = l
                                      THEN (CHOOSE c \in changes : c[1] = l)[2]
                                      ELSE sf.type[l]]
               a == [sf.at EXCEPT ![d] = "validated"]
    <2>1. ASSUME NEW l \in Layers
          PROVE  /\ IF valid /\ \E c \in changes : c[1] = l
                    THEN \E c \in changes : c[1] = l /\ t[l] = c[2]
                    ELSE t[l] = sf.type[l]
                 /\ t[l] \in CompositionTypes
      <3>1. CASE valid /\ \E c \in changes : c[1] = l
        <4> DEFINE k == CHOOSE c \in changes : c[1] = l
        <4>1. k \in changes /\ k[1] = l
          BY Zenon, <3>1
        <4>2. t[l] = k[2]
          BY Zenon, <3>1
        <4> HIDE DEF k, t
        <4>3. QED BY Zenon, <3>1, <4>1, <4>2
      <3>2. CASE ~(valid /\ \E c \in changes : c[1] = l)
        BY Zenon, <3>2 DEF TypeOK, SfRecord
      <3>3. QED BY Zenon, <3>1, <3>2
    <2>2. /\ t \in [Layers -> CompositionTypes]
          /\ a \in [Displays -> {"idle", "validated", "accepted", "presented"}]
      BY Zenon, <2>1 DEF TypeOK, SfRecord
    <2>3. /\ sf.sync \in [Layers -> {"done", "fresh", "retried"}]
          /\ sf.latched \in SUBSET Layers /\ sf.bypassed \in SUBSET Layers
      BY Zenon DEF TypeOK, SfRecord
    <2>4. sf' = [sf EXCEPT !.at[d] = "validated", !.type = t]
      BY Zenon DEF Told
    <2> HIDE DEF t
    <2>5. sf' = [at |-> a, type |-> t, latched |-> sf.latched, sync |-> sf.sync,
                 bypassed |-> sf.bypassed]
      BY Zenon, <2>4 DEF TypeOK, SfRecord
    <2> HIDE DEF a
    <2>6. /\ sf' \in SfRecord
          /\ sf'.at = a /\ sf'.type = t /\ sf'.latched = sf.latched /\ sf'.sync = sf.sync
          /\ sf'.bypassed = sf.bypassed
      BY SMTT(30), <2>2, <2>3, <2>5, SfSet DEF TypeOK
    <2>7. QED BY ZenonT(60), <2>1, <2>6 DEF a
  (* What SurfaceFlinger is told concerns the display's layers. *)
  <1>ToldElsewhere.
    ASSUME TypeOK, NEW d \in Displays, NEW changes \in SUBSET (Layers \X CompositionTypes),
           NEW valid \in BOOLEAN, sf' = Told(d, changes, valid),
           \A c \in changes : Owner[c[1]] = d
    PROVE  /\ sf'.at[d] = "validated" /\ \A e \in Displays \ {d} : sf'.at[e] = sf.at[e]
           /\ \A l \in Layers : Owner[l] # d =>
                /\ sf'.type[l] = sf.type[l] /\ sf'.sync[l] = sf.sync[l]
                /\ l \in sf'.latched <=> l \in sf.latched
                /\ l \in sf'.bypassed <=> l \in sf.bypassed
    <2> USE <1>ToldElsewhere
    <2>1. /\ sf'.at = [sf.at EXCEPT ![d] = "validated"]
          /\ sf'.latched = sf.latched /\ sf'.sync = sf.sync /\ sf'.bypassed = sf.bypassed
          /\ \A l \in Layers : ~(valid /\ \E c \in changes : c[1] = l) => sf'.type[l] = sf.type[l]
      BY SMTT(30), <1>ToldSf
    <2>2. sf'.at[d] = "validated" /\ \A e \in Displays \ {d} : sf'.at[e] = sf.at[e]
      BY Zenon, <2>1 DEF TypeOK, SfRecord
    <2>3. QED BY SMTT(30), <2>1, <2>2
  (* Acquire fences stay open across a validate, but for those it closes. *)
  <1>ValidateAcquires.
    ASSUME TypeOK, NEW d \in Displays, DisplayInv(d), LayersOf(d)' = LayersOf(d),
           sf'.sync = sf.sync, LayersElsewhere(d),
           \A l \in LayersOf(d) :
              layer'[l].acquire = AcquireFence(d, l) \/ layer'[l].acquire = layer[l].acquire
    PROVE  AcquireInv(d)'
    BY <1>ValidateAcquires, Zenon DEF AcquireInv, AcquireFence, DisplayInv, LayersElsewhere
  (* MarkLayersForGPUBypass gives every layer a hardware composition. *)
  <1>Marked.
    ASSUME TypeOK, NEW d \in Displays, layer' = MarkLayersForGPUBypass(d)
    PROVE  /\ layer' \in [Layers -> LayerRecord] /\ LayersElsewhere(d)
           /\ \A l \in LayersOf(d) :
                /\ layer'[l].req = layer[l].req /\ layer'[l].dev = layer[l].dev
                /\ layer'[l].sdm = "SDE" /\ layer'[l].acquire = layer[l].acquire
                /\ layer'[l].needs_validate = layer[l].needs_validate
                /\ layer'[l].secure = layer[l].secure
    <2> USE <1>Marked
    <2>1. layer' \in [Layers -> LayerRecord]
      BY Zenon, LayerSets DEF MarkLayersForGPUBypass, TypeOK
    <2>2. LayersOf(d) \subseteq Layers
      BY Zenon DEF TypeOK, DispRecord, LayersOf
    <2>3. QED BY SMTT(30), <2>1, <2>2 DEF MarkLayersForGPUBypass, TypeOK, LayersElsewhere, LayerRecord
  (* A validate that builds no stack. *)
  <1>ValidateBypassed.
    ASSUME IInv, NEW d \in Displays, ValidateBypass(d)
    PROVE  IInv'
    <2> USE <1>ValidateBypassed
    <2> DEFINE r == [disp[d] EXCEPT !.bypass = TRUE]
               changes == disp[d].changes
               valid == LayersOf(d) # {}
    <2>1. TypeOK /\ DisplayInv(d)
      BY Zenon DEF IInv
    <2>2. /\ sf.at[d] = "idle" /\ Bypasses(d) /\ layer' = MarkLayersForGPUBypass(d)
          /\ validated' = validated \union {d} /\ disp' = [disp EXCEPT ![d] = r]
          /\ sf' = Told(d, changes, valid) /\ UNCHANGED <<base, hw, fence>>
      BY Zenon, <2>1 DEF ValidateBypass, Idle, TypeOK
    <2>3. /\ r \in DispRecord /\ r.layer_set = disp[d].layer_set
          /\ r.changes = disp[d].changes /\ r.flush = disp[d].flush
          /\ r.flush_on_error = disp[d].flush_on_error /\ r.secure = disp[d].secure
          /\ r.skip_prepare = disp[d].skip_prepare /\ r.paused = disp[d].paused
      <3>1. disp[d] \in DispRecord
        BY Zenon, <2>1 DEF TypeOK
      <3>2. QED BY Zenon, <3>1 DEF DispRecord
    <2>4. /\ changes \in SUBSET (Layers \X CompositionTypes) /\ valid \in BOOLEAN
          /\ \A c \in changes : Owner[c[1]] = d
      BY Zenon, <2>1 DEF TypeOK, DispRecord, DisplayInv, OwnInv
    <2> HIDE DEF r, changes, valid
    <2>5. /\ disp' \in [Displays -> DispRecord] /\ disp'[d] = r
          /\ \A e \in Displays \ {d} : disp'[e] = disp[e]
      BY Zenon, <2>1, <2>2, <2>3, DispSet DEF TypeOK
    <2>6. /\ layer' \in [Layers -> LayerRecord] /\ LayersElsewhere(d)
          /\ \A l \in LayersOf(d) : layer'[l].acquire = layer[l].acquire
      BY Zenon, <2>1, <2>2, <1>Marked
    <2>7. /\ sf' \in SfRecord
          /\ sf'.latched = sf.latched /\ sf'.sync = sf.sync /\ sf'.bypassed = sf.bypassed
      BY Zenon, <2>1, <2>2, <2>4, <1>ToldSf
    <2>8. /\ sf'.at[d] = "validated" /\ \A e \in Displays \ {d} : sf'.at[e] = sf.at[e]
          /\ \A l \in Layers : Owner[l] # d =>
               /\ sf'.type[l] = sf.type[l] /\ sf'.sync[l] = sf.sync[l]
               /\ l \in sf'.latched <=> l \in sf.latched
               /\ l \in sf'.bypassed <=> l \in sf.bypassed
      BY Zenon, <2>1, <2>2, <2>4, <1>ToldElsewhere
    <2>9. LayersOf(d)' = LayersOf(d) /\ Bypasses(d)'
      BY Zenon, <2>2, <2>3, <2>5 DEF LayersOf, Bypasses
    <2>10. TypeOK'
      BY Zenon, <2>1, <2>2, <2>5, <2>6, <2>7 DEF TypeOK
    <2>11. Elsewhere(d)
      BY ZenonT(60), <2>1, <2>2, <2>5, <2>6, <2>8, NothingElse
    <2>12. DisplayInv(d)'
      <3>1. OwnInv(d)' /\ ScreenInv(d)'
        BY ZenonT(60), <2>1, <2>2, <2>3, <2>5, <2>9 DEF DisplayInv, OwnInv, ScreenInv
      <3>2. FlushInv(d)'
        BY Zenon, <2>1, <2>2, <2>3, <2>5, <2>9 DEF DisplayInv, FlushInv
      <3>3. ~Ready(d)'
        BY Zenon, <2>9 DEF Ready
      <3>4. FenceInv(d)'
        BY Zenon, <2>1, <2>2, <2>7, <2>8, <2>9, FencesStay
      <3>5. AcquireInv(d)'
        BY Zenon, <2>1, <2>6, <2>7, <2>9, <1>ValidateAcquires
      <3>6. QED BY Zenon, <3>1, <3>2, <3>3, <3>4, <3>5 DEF DisplayInv, PreparedInv, ComposedInv
    <2>13. QED BY Zenon, <2>10, <2>11, <2>12, OneDisplay
  (* BuildLayerStack on an external display that becomes secure flushes it.  *)
  <1>BuildFlushes.
    ASSUME TypeOK, NEW d \in Displays, DisplayInv(d), NEW ok \in BOOLEAN, Builds(d, ok)
    PROVE  /\ sf.at[d] = "idle" /\ ~Bypasses(d) /\ ~disp[d].flush
           /\ hw' \in [Displays -> HwRecord]
           /\ \A e \in Displays \ {d} : hw'[e] = hw[e]
           /\ hw[d].content = "blank" => hw'[d].content = "blank"
           /\ hw'[d].content \in {hw[d].content, "blank", "unflushed"}
           /\ fence' \in [Layers -> FenceRecord]
           /\ \A l \in Layers : Owner[l] # d => fence'[l] = fence[l]
           /\ (/\ sf'.at[d] # "presented" /\ LayersOf(d)' = LayersOf(d)
               /\ sf'.latched = sf.latched /\ sf'.bypassed = sf.bypassed) => FenceInv(d)'
    <2> USE <1>BuildFlushes
    <2>1. sf.at[d] = "idle" /\ ~Bypasses(d) /\ ~disp[d].flush
      BY Zenon DEF Builds, Idle, DisplayInv, FlushInv
    <2>2. CASE FlushesExternal(d)
      <3> DEFINE x == Active(d) /\ ok
      <3>1. x \in BOOLEAN
        BY Zenon DEF Active
      <3>2. hw' = FlushedHw(d, x) /\ fence' = FlushedFence(d, x)
        BY Zenon, <2>2 DEF Builds
      <3> HIDE DEF x
      <3>3. /\ hw' \in [Displays -> HwRecord]
            /\ \A e \in Displays \ {d} : hw'[e] = hw[e]
            /\ hw[d].content = "blank" => hw'[d].content = "blank"
            /\ hw'[d].content \in {hw[d].content, "blank", "unflushed"}
        BY Zenon, <3>1, <3>2, FlushesHw
      <3>4. /\ fence' \in [Layers -> FenceRecord]
            /\ \A l \in Layers : Owner[l] # d => fence'[l] = fence[l]
            /\ \A l \in LayersOf(d) \ sf.bypassed : d \notin SwapIntervalZero =>
                  /\ Len(fence'[l].queue) = 1
                  /\ Safe(Later(fence'[l].held, fence'[l].queue[1]), "none", hw'[d], l)
            /\ \A l \in Layers : Owner[l] = d /\ l \notin LayersOf(d) =>
                  hw'[d].front[l] = "none" /\ hw'[d].next[l] = "none"
        BY SMTT(30), <2>1, <3>1, <3>2, FlushesFences
      <3>5. (/\ sf'.at[d] # "presented" /\ LayersOf(d)' = LayersOf(d)
             /\ sf'.latched = sf.latched /\ sf'.bypassed = sf.bypassed) => FenceInv(d)'
        <4>1. SUFFICES ASSUME sf'.at[d] # "presented", LayersOf(d)' = LayersOf(d),
                              sf'.latched = sf.latched, sf'.bypassed = sf.bypassed
                       PROVE  FenceInv(d)'
          BY Zenon
        <4>2. ASSUME NEW l \in LayersOf(d) \ sf.bypassed
              PROVE  Protected(d, l)'
          <5> SUFFICES ASSUME d \notin SwapIntervalZero PROVE Protected(d, l)'
            BY Zenon DEF Protected
          <5> QED BY Zenon, <3>4, <4>1 DEF Protected, Pushed, Owed, Safe
        <4>3. QED BY Zenon, <3>4, <4>1, <4>2 DEF FenceInv
      <3>6. QED BY Zenon, <2>1, <3>3, <3>4, <3>5
    <2>3. CASE ~FlushesExternal(d)
      <3>1. UNCHANGED <<hw, fence>>
        BY Zenon, <2>3 DEF Builds
      <3>2. (/\ sf'.at[d] # "presented" /\ LayersOf(d)' = LayersOf(d)
             /\ sf'.latched = sf.latched /\ sf'.bypassed = sf.bypassed) => FenceInv(d)'
        BY Zenon, <2>1, <3>1, FencesStay
      <3>3. QED BY Zenon, <2>1, <3>1, <3>2 DEF TypeOK
    <2>4. QED BY Zenon, <2>2, <2>3
  (* What BuildLayerStack leaves of DisplayBase's records. *)
  <1>BuildsBase.
    ASSUME TypeOK, NEW d \in Displays, NEW ok \in BOOLEAN
    PROVE  /\ BuiltBase(d, ok) \in [Displays -> BaseRecord]
           /\ \A e \in Displays \ {d} : BuiltBase(d, ok)[e] = base[e]
           /\ BuiltBase(d, ok)[d].state = base[d].state
    <2> USE <1>BuildsBase
    <2> DEFINE f == FlushedRecord(base[d], ok)
               b == IF FlushesExternal(d) /\ Active(d) THEN f ELSE base[d]
               r == [b EXCEPT !.prepared = FALSE]
    <2>1. base[d] \in BaseRecord
      BY Zenon DEF TypeOK
    <2>2. f \in BaseRecord /\ f.state = base[d].state
      BY Zenon, <2>1, FlushedRecords
    <2>3. BuiltBase(d, ok) = [base EXCEPT ![d] = r]
      <3>1. CASE FlushesExternal(d) /\ Active(d)
        BY Zenon, <2>1, <3>1 DEF BuiltBase, FlushedBase, FlushedRecord, TypeOK, BaseRecord
      <3>2. CASE ~(FlushesExternal(d) /\ Active(d))
        BY Zenon, <3>2 DEF BuiltBase, FlushedBase, TypeOK
      <3>3. QED BY Zenon, <3>1, <3>2
    <2> HIDE DEF f
    <2>4. b \in BaseRecord /\ b.state = base[d].state
      BY Zenon, <2>1, <2>2
    <2> HIDE DEF b
    <2>5. r \in BaseRecord /\ r.state = base[d].state
      BY Zenon, <2>4 DEF BaseRecord
    <2> HIDE DEF r
    <2>6. QED BY Zenon, <2>3, <2>5 DEF TypeOK
  (* SetSecureDisplay: a change of the secure state on a video-mode primary  *)
  (* has the next prepare skipped.                                           *)
  <1>SetsSecure.
    ASSUME TypeOK, NEW d \in Displays
    PROVE  LET s == SetSecureDisplay(d) IN
           /\ s \in DispRecord /\ s.layer_set = disp[d].layer_set /\ s.flush = disp[d].flush
           /\ s.flush_on_error = disp[d].flush_on_error /\ s.shutdown = disp[d].shutdown
           /\ s.paused = disp[d].paused /\ s.secure = SecureNow(d)
           /\ d = "primary" /\ ~CmdMode /\ disp[d].secure # SecureNow(d) => s.skip_prepare
           /\ disp[d].secure = SecureNow(d) => s.skip_prepare = disp[d].skip_prepare
    <2> USE <1>SetsSecure
    <2> DEFINE n == SecureNow(d)
               k == IF d = "primary" /\ disp[d].secure # n THEN ~CmdMode ELSE disp[d].skip_prepare
    <2>1. disp[d] \in DispRecord
      BY Zenon DEF TypeOK
    <2>2. n \in BOOLEAN
      BY Zenon DEF SecureNow
    <2>3. SetSecureDisplay(d) = [disp[d] EXCEPT !.secure = n, !.skip_prepare = k]
      BY Zenon DEF SetSecureDisplay
    <2> HIDE DEF n
    <2>4. k \in BOOLEAN
      BY Zenon, <2>1, ConstantsAssumption DEF DispRecord
    <2>5. /\ d = "primary" /\ ~CmdMode /\ disp[d].secure # n => k
          /\ disp[d].secure = n => k = disp[d].skip_prepare
      BY Zenon
    <2> HIDE DEF k
    <2>6. QED BY ZenonT(60), <2>1, <2>2, <2>3, <2>4, <2>5 DEF DispRecord, n
  (* The secure state after a validate, and the flush it asks for. *)
  <1>ValidateScreen.
    ASSUME TypeOK, NEW d \in Displays, DisplayInv(d), ~disp[d].flush,
           base'[d].state = base[d].state,
           hw[d].content = "blank" => hw'[d].content = "blank",
           hw'[d].content \in {hw[d].content, "blank", "unflushed"},
           disp'[d].flush_on_error = disp[d].flush_on_error,
           disp'[d].secure = SecureNow(d),
           disp'[d].flush \/ disp'[d].skip_prepare = SetSecureDisplay(d).skip_prepare
    PROVE  ScreenInv(d)'
    <2> USE <1>ValidateScreen
    <2> DEFINE s == SetSecureDisplay(d)
               n == SecureNow(d)
    <2>1. /\ d = "primary" /\ ~CmdMode /\ disp[d].secure # n => s.skip_prepare
          /\ disp[d].secure = n => s.skip_prepare = disp[d].skip_prepare
      BY Zenon, <1>SetsSecure
    <2>2. disp[d].secure \in BOOLEAN
      BY Zenon DEF TypeOK, DispRecord
    <2>3. ScreenInv(d)
      BY Zenon DEF DisplayInv
    <2>4. n \in BOOLEAN /\ disp'[d].secure = n
      BY Zenon DEF SecureNow
    <2>5. disp'[d].flush \/ disp'[d].skip_prepare = s.skip_prepare
      BY Zenon
    <2> HIDE DEF s, n
    <2>6. QED BY Zenon, <2>1, <2>2, <2>3, <2>4, <2>5 DEF ScreenInv
  (* A validate of an empty stack. *)
  <1>ValidatesEmpty.
    ASSUME IInv, NEW d \in Displays, ValidateEmpty(d)
    PROVE  IInv'
    <2> USE <1>ValidatesEmpty
    <2> DEFINE s == SetSecureDisplay(d)
               r == [s EXCEPT !.flush = TRUE]
               b == BuiltBase(d, TRUE)
    <2>1. TypeOK /\ DisplayInv(d)
      BY Zenon DEF IInv
    <2>2. /\ Builds(d, TRUE) /\ LayersOf(d) = {} /\ UNCHANGED layer
          /\ validated' \subseteq validated \union {d}
          /\ disp' = [disp EXCEPT ![d] = r] /\ base' = b /\ sf' = Told(d, {}, FALSE)
      BY Zenon DEF ValidateEmpty
    <2>3. /\ sf.at[d] = "idle" /\ ~Bypasses(d) /\ ~disp[d].flush
          /\ hw' \in [Displays -> HwRecord]
          /\ \A e \in Displays \ {d} : hw'[e] = hw[e]
          /\ hw[d].content = "blank" => hw'[d].content = "blank"
          /\ hw'[d].content \in {hw[d].content, "blank", "unflushed"}
          /\ fence' \in [Layers -> FenceRecord]
          /\ \A l \in Layers : Owner[l] # d => fence'[l] = fence[l]
          /\ (/\ sf'.at[d] # "presented" /\ LayersOf(d)' = LayersOf(d)
              /\ sf'.latched = sf.latched /\ sf'.bypassed = sf.bypassed) => FenceInv(d)'
      BY Zenon, <2>1, <2>2, <1>BuildFlushes
    <2>4. /\ s \in DispRecord /\ s.layer_set = disp[d].layer_set
          /\ s.flush_on_error = disp[d].flush_on_error
          /\ s.paused = disp[d].paused /\ s.secure = SecureNow(d)
      BY Zenon, <2>1, <1>SetsSecure
    <2>5. /\ base' \in [Displays -> BaseRecord] /\ base'[d].state = base[d].state
          /\ \A e \in Displays \ {d} : base'[e] = base[e]
      BY Zenon, <2>1, <2>2, <1>BuildsBase
    <2> HIDE DEF s
    <2>6. /\ r \in DispRecord /\ r.layer_set = disp[d].layer_set /\ r.changes = s.changes
          /\ r.flush_on_error = disp[d].flush_on_error /\ r.paused = disp[d].paused
          /\ r.secure = SecureNow(d) /\ r.flush
      BY Zenon, <2>4 DEF DispRecord
    <2>7. s.changes = disp[d].changes
      BY ZenonT(60), <2>1 DEF s, SetSecureDisplay, TypeOK, DispRecord
    <2> HIDE DEF r
    <2>8. /\ disp' \in [Displays -> DispRecord] /\ disp'[d] = r
          /\ \A e \in Displays \ {d} : disp'[e] = disp[e]
      BY Zenon, <2>1, <2>2, <2>6, DispSet DEF TypeOK
    <2>9. /\ sf' \in SfRecord
          /\ sf'.latched = sf.latched /\ sf'.sync = sf.sync /\ sf'.bypassed = sf.bypassed
      BY Zenon, <2>1, <2>2, <1>ToldSf
    <2>10. /\ sf'.at[d] = "validated" /\ \A e \in Displays \ {d} : sf'.at[e] = sf.at[e]
           /\ \A l \in Layers : Owner[l] # d =>
               /\ sf'.type[l] = sf.type[l] /\ sf'.sync[l] = sf.sync[l]
               /\ l \in sf'.latched <=> l \in sf.latched
               /\ l \in sf'.bypassed <=> l \in sf.bypassed
      BY Zenon, <2>1, <2>2, <1>ToldElsewhere
    <2>11. LayersOf(d)' = LayersOf(d) /\ ~SecureNow(d)
      BY Zenon, <2>2, <2>6, <2>8 DEF LayersOf, SecureNow
    <2>12. TypeOK'
      BY Zenon, <2>1, <2>2, <2>3, <2>5, <2>8, <2>9 DEF TypeOK
    <2>13. Elsewhere(d)
      <3>1. LayersElsewhere(d)
        BY Zenon, <2>2 DEF LayersElsewhere
      <3>2. QED BY ZenonT(60), <2>1, <2>2, <2>3, <2>5, <2>8, <2>10, <3>1, NothingElse
    <2>14. DisplayInv(d)'
      <3>1. OwnInv(d)'
        BY Zenon, <2>1, <2>6, <2>7, <2>8, <2>11 DEF DisplayInv, OwnInv
      <3>2. FlushInv(d)'
        BY Zenon, <2>3, <2>6, <2>8, <2>10, <2>11 DEF FlushInv, Bypasses
      <3>3. ScreenInv(d)'
        BY Zenon, <2>1, <2>3, <2>5, <2>6, <2>8, <1>ValidateScreen
      <3>4. ~Ready(d)'
        BY Zenon, <2>2, <2>11 DEF Ready
      <3>5. FenceInv(d)'
        BY Zenon, <2>3, <2>9, <2>10, <2>11
      <3>6. AcquireInv(d)'
        BY Zenon, <2>1, <2>2, <2>9, <2>11 DEF AcquireInv, DisplayInv
      <3>7. QED BY Zenon, <3>1, <3>2, <3>3, <3>4, <3>5, <3>6 DEF DisplayInv, PreparedInv, ComposedInv
    <2>15. QED BY Zenon, <2>12, <2>13, <2>14, OneDisplay
  (* Refused is a step of the frame. *)
  <1>RefusedRecord.
    ASSUME TypeOK, NEW d \in Displays, sf' = Refused(d)
    PROVE  /\ sf' \in SfRecord
           /\ sf'.at = [sf.at EXCEPT ![d] = "accepted"] /\ sf'.type = sf.type
           /\ sf'.latched = sf.latched /\ sf'.sync = sf.sync /\ sf'.bypassed = sf.bypassed
    BY <1>RefusedRecord, Zenon, StepSf DEF Refused
  (* BuildLayerStack starts with GPU composition. *)
  <1>Built.
    ASSUME TypeOK, NEW d \in Displays, layer' = BuildLayerStack(d)
    PROVE  /\ layer' \in [Layers -> LayerRecord] /\ LayersElsewhere(d)
           /\ \A l \in LayersOf(d) :
                /\ layer'[l].acquire = AcquireFence(d, l)
                /\ layer'[l].secure = layer[l].secure
    <2> USE <1>Built
    <2>1. layer' \in [Layers -> LayerRecord]
      <3>1. \A l \in Layers : AcquireFence(d, l) \in {"none", "open"}
        BY Zenon DEF AcquireFence, TypeOK, LayerRecord
      <3>2. QED BY Zenon, <3>1, LayerSets DEF BuildLayerStack, TypeOK
    <2>2. LayersOf(d) \subseteq Layers
      BY Zenon DEF TypeOK, DispRecord, LayersOf
    <2>3. \A l \in LayersOf(d) :
             layer'[l] = [layer[l] EXCEPT !.sdm = "GPU", !.acquire = AcquireFence(d, l)]
      BY Zenon, <2>2 DEF BuildLayerStack
    <2>4. LayersElsewhere(d)
      BY Zenon DEF BuildLayerStack, LayersElsewhere
    <2>5. \A l \in LayersOf(d) : /\ layer'[l].acquire = AcquireFence(d, l)
                                 /\ layer'[l].secure = layer[l].secure
      <3>1. \A l \in LayersOf(d) : layer[l] \in LayerRecord
        BY Zenon, <2>2 DEF TypeOK
      <3>2. QED BY ZenonT(60), <2>3, <3>1 DEF LayerRecord
    <2>6. QED BY Zenon, <2>1, <2>4, <2>5
  (* A validate that fails. *)
  <1>ValidateRefused.
    ASSUME IInv, NEW d \in Displays, NEW ok \in BOOLEAN,
           \/ ValidateShutdown(d, ok) \/ ValidateInactive(d, ok)
           \/ \E r \in HwErrors : ValidateFails(d, ok, r)
    PROVE  IInv'
    <2> USE <1>ValidateRefused
    <2> DEFINE s == SetSecureDisplay(d)
               b == BuiltBase(d, ok)
    <2>1. TypeOK /\ DisplayInv(d)
      BY Zenon DEF IInv
    <2>2. /\ Builds(d, ok) /\ layer' = BuildLayerStack(d) /\ validated' = BuiltValidated(d)
          /\ sf' = Refused(d)
      BY Zenon DEF ValidateShutdown, ValidateInactive, ValidateFails, Prepares
    <2>3. /\ sf.at[d] = "idle" /\ ~Bypasses(d) /\ ~disp[d].flush
          /\ hw' \in [Displays -> HwRecord]
          /\ \A e \in Displays \ {d} : hw'[e] = hw[e]
          /\ hw[d].content = "blank" => hw'[d].content = "blank"
          /\ hw'[d].content \in {hw[d].content, "blank", "unflushed"}
          /\ fence' \in [Layers -> FenceRecord]
          /\ \A l \in Layers : Owner[l] # d => fence'[l] = fence[l]
          /\ (/\ sf'.at[d] # "presented" /\ LayersOf(d)' = LayersOf(d)
              /\ sf'.latched = sf.latched /\ sf'.bypassed = sf.bypassed) => FenceInv(d)'
      BY Zenon, <2>1, <2>2, <1>BuildFlushes
    <2>4. /\ s \in DispRecord /\ s.layer_set = disp[d].layer_set /\ s.flush = disp[d].flush
          /\ s.flush_on_error = disp[d].flush_on_error /\ s.shutdown = disp[d].shutdown
          /\ s.paused = disp[d].paused /\ s.secure = SecureNow(d)
      BY Zenon, <2>1, <1>SetsSecure
    <2>5. /\ b \in [Displays -> BaseRecord] /\ b[d].state = base[d].state
          /\ \A e \in Displays \ {d} : b[e] = base[e]
      BY Zenon, <2>1, <1>BuildsBase
    <2>6. \E f, g \in BOOLEAN :
             /\ disp' = [disp EXCEPT ![d] = [s EXCEPT !.changes = {}, !.shutdown = f, !.flush = g]]
             /\ f \/ base'[d].needs_validate
             /\ base' \in [Displays -> BaseRecord] /\ base'[d].state = base[d].state
             /\ \A e \in Displays \ {d} : base'[e] = base[e]
      <3> HIDE DEF s, b
      <3>1. CASE ValidateShutdown(d, ok)
        <4>1. /\ disp' = [disp EXCEPT ![d] = [s EXCEPT !.changes = {}]] /\ base' = b
              /\ disp[d].shutdown
          BY Zenon, <3>1 DEF ValidateShutdown, s, b
        <4>2. [s EXCEPT !.changes = {}]
                = [s EXCEPT !.changes = {}, !.shutdown = TRUE, !.flush = FALSE]
          BY Zenon, <2>1, <2>3, <2>4, <4>1 DEF DispRecord, TypeOK
        <4>3. QED BY Zenon, <2>5, <4>1, <4>2
      <3>2. CASE ValidateInactive(d, ok)
        <4>1. /\ disp' = [disp EXCEPT ![d] = [s EXCEPT !.changes = {}]]
              /\ base' = [b EXCEPT ![d].needs_validate = TRUE] /\ ~disp[d].shutdown
          BY Zenon, <3>2 DEF ValidateInactive, Prepares, s, b
        <4>2. [s EXCEPT !.changes = {}]
                = [s EXCEPT !.changes = {}, !.shutdown = FALSE, !.flush = FALSE]
          BY Zenon, <2>1, <2>3, <2>4, <4>1 DEF DispRecord, TypeOK
        <4>3. /\ base' \in [Displays -> BaseRecord] /\ base'[d].state = base[d].state
              /\ base'[d].needs_validate
              /\ \A e \in Displays \ {d} : base'[e] = base[e]
          BY ZenonT(60), <2>5, <4>1 DEF BaseRecord
        <4>4. QED BY Zenon, <4>1, <4>2, <4>3
      <3>3. CASE \E r \in HwErrors : ValidateFails(d, ok, r)
        <4>1. PICK r \in HwErrors : ValidateFails(d, ok, r)
          BY Zenon, <3>3
        <4> DEFINE f == r = "shutdown"
        <4>2. /\ disp' = [disp EXCEPT ![d] =
                            [s EXCEPT !.changes = {}, !.shutdown = f, !.flush = @ \/ ~f]]
              /\ base' = [b EXCEPT ![d].needs_validate = TRUE, ![d].hw_layers = {}]
          BY Zenon, <4>1 DEF ValidateFails, s, b
        <4>3. f \in BOOLEAN
          BY Zenon
        <4> HIDE DEF f
        <4>4. [s EXCEPT !.changes = {}, !.shutdown = f, !.flush = @ \/ ~f]
                = [s EXCEPT !.changes = {}, !.shutdown = f, !.flush = ~f]
          BY Zenon, <2>3, <2>4, <4>3 DEF DispRecord
        <4>5. /\ base' \in [Displays -> BaseRecord] /\ base'[d].state = base[d].state
              /\ base'[d].needs_validate
              /\ \A e \in Displays \ {d} : base'[e] = base[e]
          BY ZenonT(60), <2>5, <4>2 DEF BaseRecord
        <4>6. QED BY Zenon, <4>2, <4>3, <4>4, <4>5
      <3>4. QED BY Zenon, <3>1, <3>2, <3>3
    <2>7. PICK f, g \in BOOLEAN :
             /\ disp' = [disp EXCEPT ![d] = [s EXCEPT !.changes = {}, !.shutdown = f, !.flush = g]]
             /\ f \/ base'[d].needs_validate
             /\ base' \in [Displays -> BaseRecord] /\ base'[d].state = base[d].state
             /\ \A e \in Displays \ {d} : base'[e] = base[e]
      BY Zenon, <2>6
    <2> DEFINE r == [s EXCEPT !.changes = {}, !.shutdown = f, !.flush = g]
    <2>8. s.skip_prepare = SetSecureDisplay(d).skip_prepare
      BY Zenon
    <2> HIDE DEF s
    <2>9. /\ r \in DispRecord /\ r.layer_set = disp[d].layer_set /\ r.changes = {}
          /\ r.flush_on_error = disp[d].flush_on_error /\ r.paused = disp[d].paused
          /\ r.secure = SecureNow(d) /\ r.skip_prepare = s.skip_prepare /\ r.shutdown = f
      BY ZenonT(60), <2>4 DEF DispRecord
    <2> HIDE DEF r
    <2>10. /\ disp' \in [Displays -> DispRecord] /\ disp'[d] = r
           /\ \A e \in Displays \ {d} : disp'[e] = disp[e]
      BY Zenon, <2>1, <2>7, <2>9, DispSet DEF TypeOK, r
    <2>11. /\ layer' \in [Layers -> LayerRecord] /\ LayersElsewhere(d)
           /\ \A l \in LayersOf(d) : layer'[l].acquire = AcquireFence(d, l)
      BY Zenon, <2>1, <2>2, <1>Built
    <2>12. /\ sf' \in SfRecord
           /\ sf'.at = [sf.at EXCEPT ![d] = "accepted"] /\ sf'.type = sf.type
           /\ sf'.latched = sf.latched /\ sf'.sync = sf.sync /\ sf'.bypassed = sf.bypassed
      BY Zenon, <2>1, <2>2, <1>RefusedRecord
    <2>13. sf'.at[d] = "accepted" /\ \A e \in Displays \ {d} : sf'.at[e] = sf.at[e]
      BY ZenonT(60), <2>1, <2>12 DEF TypeOK, SfRecord
    <2>14. validated' \subseteq validated
      BY Zenon, <2>2 DEF BuiltValidated
    <2>15. LayersOf(d)' = LayersOf(d)
      BY Zenon, <2>9, <2>10 DEF LayersOf
    <2>16. TypeOK'
      BY Zenon, <2>1, <2>3, <2>7, <2>10, <2>11, <2>12, <2>14 DEF TypeOK
    <2>17. Elsewhere(d)
      <3>1. \A l \in Layers : Owner[l] # d =>
                /\ fence'[l] = fence[l]
                /\ sf'.type[l] = sf.type[l] /\ sf'.sync[l] = sf.sync[l]
                /\ l \in sf'.latched <=> l \in sf.latched
                /\ l \in sf'.bypassed <=> l \in sf.bypassed
        BY Zenon, <2>3, <2>12
      <3>2. QED BY Zenon, <2>1, <2>3, <2>7, <2>10, <2>11, <2>13, <2>14, <3>1, NothingElse
    <2>18. DisplayInv(d)'
      <3>1. OwnInv(d)'
        BY Zenon, <2>1, <2>9, <2>10, <2>15 DEF DisplayInv, OwnInv
      <3>2. FlushInv(d)'
        BY Zenon, <2>3, <2>9, <2>10, <2>13 DEF FlushInv, Bypasses
      <3>3. ScreenInv(d)'
        <4>1. /\ disp'[d].flush_on_error = disp[d].flush_on_error
              /\ disp'[d].secure = SecureNow(d)
              /\ disp'[d].skip_prepare = SetSecureDisplay(d).skip_prepare
          BY Zenon, <2>8, <2>9, <2>10
        <4>2. QED BY Zenon, <2>1, <2>3, <2>7, <4>1, <1>ValidateScreen
      <3>4. ~Ready(d)'
        BY Zenon, <2>7, <2>9, <2>10 DEF Ready
      <3>5. FenceInv(d)'
        BY Zenon, <2>3, <2>12, <2>13, <2>15
      <3>6. AcquireInv(d)'
        BY Zenon, <2>1, <2>11, <2>12, <2>15, <1>ValidateAcquires
      <3>7. QED BY Zenon, <3>1, <3>2, <3>3, <3>4, <3>5, <3>6 DEF DisplayInv, PreparedInv, ComposedInv
    <2>19. QED BY Zenon, <2>16, <2>17, <2>18, OneDisplay
  (* PrepareLayerStack stores the composition of every layer. *)
  <1>Prepared.
    ASSUME TypeOK, NEW d \in Displays, NEW sde, layer' = Composed(d, sde)
    PROVE  /\ layer' \in [Layers -> LayerRecord] /\ LayersElsewhere(d)
           /\ \A l \in LayersOf(d) :
                /\ layer'[l].req = layer[l].req
                /\ layer'[l].dev = (IF l \in sde THEN "Device" ELSE "Client")
                /\ layer'[l].sdm = (IF l \in sde THEN "SDE" ELSE "GPU")
                /\ layer'[l].acquire = AcquireFence(d, l)
                /\ layer'[l].secure = layer[l].secure
    <2> USE <1>Prepared
    <2>1. layer' \in [Layers -> LayerRecord]
      <3>1. \A l \in Layers : AcquireFence(d, l) \in {"none", "open"}
        BY Zenon DEF AcquireFence, TypeOK, LayerRecord
      <3>2. QED BY Zenon, <3>1, LayerSets DEF Composed, TypeOK
    <2>2. LayersOf(d) \subseteq Layers
      BY Zenon DEF TypeOK, DispRecord, LayersOf
    <2>3. layer \in [Layers -> LayerRecord]
      BY Zenon DEF TypeOK
    <2>4. LayersElsewhere(d)
      BY Zenon DEF Composed, LayersElsewhere
    <2>5. ASSUME NEW l \in LayersOf(d)
          PROVE  /\ layer'[l].req = layer[l].req
                 /\ layer'[l].dev = (IF l \in sde THEN "Device" ELSE "Client")
                 /\ layer'[l].sdm = (IF l \in sde THEN "SDE" ELSE "GPU")
                 /\ layer'[l].acquire = AcquireFence(d, l)
                 /\ layer'[l].secure = layer[l].secure
      BY ZenonT(60), <2>2, <2>3 DEF Composed, LayerRecord, SetComposition
    <2>6. QED BY Zenon, <2>1, <2>4, <2>5
  (* The changes PrepareLayerStack reports: every layer whose composition is *)
  (* not the one SurfaceFlinger asked for, with that composition.            *)
  <1>ChangesOf.
    ASSUME TypeOK, NEW d \in Displays, DisplayInv(d), NEW sde
    PROVE  /\ LayerChanges(d, sde) \in SUBSET (Layers \X CompositionTypes)
           /\ \A c \in LayerChanges(d, sde) :
                /\ c[1] \in LayersOf(d) /\ Owner[c[1]] = d
                /\ c[2] = IF c[1] \in sde THEN "Device" ELSE "Client"
           /\ \A l \in LayersOf(d) : layer[l].req # (IF l \in sde THEN "Device" ELSE "Client") =>
                \E c \in LayerChanges(d, sde) : c[1] = l
    <2> USE <1>ChangesOf
    <2> DEFINE choice(l) == IF l \in sde THEN "Device" ELSE "Client"
               changes == LayerChanges(d, sde)
    <2>1. \A l \in LayersOf(d) : l \in Layers /\ Owner[l] = d
      BY Zenon, Mine
    <2>2. \A l : SetComposition(IF l \in sde THEN "SDE" ELSE "GPU") = choice(l)
      BY Zenon DEF SetComposition
    <2>3. changes = {<<l, choice(l)>> : l \in {k \in LayersOf(d) : layer[k].req # choice(k)}}
      BY Zenon, <2>2 DEF LayerChanges
    <2>4. \A c \in changes : c \in LayersOf(d) \X CompositionTypes /\ c[2] = choice(c[1])
      BY SMTT(30), <2>3 DEF CompositionTypes
    <2>5. ASSUME NEW l \in LayersOf(d), layer[l].req # choice(l)
          PROVE  \E c \in changes : c[1] = l
      <3>1. <<l, choice(l)>> \in changes
        BY Zenon, <2>3, <2>5
      <3> HIDE DEF changes, choice
      <3>2. QED BY Zenon, <3>1
    <2> HIDE DEF changes, choice
    <2>6. \A c \in changes : c[1] \in LayersOf(d) /\ c \in Layers \X CompositionTypes
      BY Zenon, <2>1, <2>4
    <2>7. QED BY Zenon, <2>1, <2>4, <2>5, <2>6 DEF changes, choice
  (* A validate with layers that reports changes: the record of the display  *)
  (* apart from the flags that differ between a skipped prepare and one that *)
  (* is made.                                                                *)
  <1>ValidateBuilds.
    ASSUME IInv, NEW d \in Displays, NEW ok \in BOOLEAN, NEW sde, Builds(d, ok),
           layer' = Composed(d, sde), sf' = Told(d, LayerChanges(d, sde), TRUE),
           validated' = BuiltValidated(d) \union {d},
           base' \in [Displays -> BaseRecord], base'[d].state = base[d].state,
           \A e \in Displays \ {d} : base'[e] = base[e],
           disp' \in [Displays -> DispRecord], \A e \in Displays \ {d} : disp'[e] = disp[e],
           disp'[d].layer_set = disp[d].layer_set, disp'[d].changes = LayerChanges(d, sde),
           disp'[d].flush_on_error = disp[d].flush_on_error,
           disp'[d].paused = disp[d].paused, disp'[d].secure = SecureNow(d),
           disp'[d].flush \/ disp'[d].skip_prepare = SetSecureDisplay(d).skip_prepare
    PROVE  /\ TypeOK' /\ Elsewhere(d)
           /\ OwnInv(d)' /\ FlushInv(d)' /\ ScreenInv(d)' /\ FenceInv(d)' /\ AcquireInv(d)'
           /\ LayersOf(d)' = LayersOf(d) /\ SecureNow(d)' = SecureNow(d)
           /\ sf'.at[d] = "validated" /\ ~disp[d].flush
    <2> USE <1>ValidateBuilds
    <2> DEFINE changes == LayerChanges(d, sde)
    <2>1. TypeOK /\ DisplayInv(d)
      BY Zenon DEF IInv
    <2>2. /\ sf.at[d] = "idle" /\ ~Bypasses(d) /\ ~disp[d].flush
          /\ hw' \in [Displays -> HwRecord]
          /\ \A e \in Displays \ {d} : hw'[e] = hw[e]
          /\ hw[d].content = "blank" => hw'[d].content = "blank"
          /\ hw'[d].content \in {hw[d].content, "blank", "unflushed"}
          /\ fence' \in [Layers -> FenceRecord]
          /\ \A l \in Layers : Owner[l] # d => fence'[l] = fence[l]
          /\ (/\ sf'.at[d] # "presented" /\ LayersOf(d)' = LayersOf(d)
              /\ sf'.latched = sf.latched /\ sf'.bypassed = sf.bypassed) => FenceInv(d)'
      BY Zenon, <2>1, <1>BuildFlushes
    <2>3. /\ changes \in SUBSET (Layers \X CompositionTypes)
          /\ \A c \in changes : Owner[c[1]] = d
      BY SMTT(30), <2>1, <1>ChangesOf
    <2>4. sf' = Told(d, changes, TRUE) /\ disp'[d].changes = changes
      BY Zenon
    <2> HIDE DEF changes
    <2>6. /\ layer' \in [Layers -> LayerRecord] /\ LayersElsewhere(d)
          /\ \A l \in LayersOf(d) :
               layer'[l].acquire = AcquireFence(d, l) /\ layer'[l].secure = layer[l].secure
      BY SMTT(30), <2>1, <1>Prepared
    <2>7. /\ sf' \in SfRecord
          /\ sf'.latched = sf.latched /\ sf'.sync = sf.sync /\ sf'.bypassed = sf.bypassed
      BY Zenon, <2>1, <2>3, <2>4, <1>ToldSf
    <2>8. /\ sf'.at[d] = "validated" /\ \A e \in Displays \ {d} : sf'.at[e] = sf.at[e]
          /\ \A l \in Layers : Owner[l] # d =>
               /\ sf'.type[l] = sf.type[l] /\ sf'.sync[l] = sf.sync[l]
               /\ l \in sf'.latched <=> l \in sf.latched
               /\ l \in sf'.bypassed <=> l \in sf.bypassed
      BY ZenonT(60), <2>1, <2>3, <2>4, <1>ToldElsewhere
    <2>9. LayersOf(d)' = LayersOf(d)
      BY Zenon DEF LayersOf
    <2>10. SecureNow(d)' = SecureNow(d)
      BY ZenonT(60), <2>6, <2>9 DEF SecureNow
    <2>11. TypeOK'
      <3>1. validated' \subseteq Displays
        BY Zenon, <2>1 DEF TypeOK, BuiltValidated
      <3>2. QED BY Zenon, <2>2, <2>6, <2>7, <3>1 DEF TypeOK
    <2>12. Elsewhere(d)
      <3>1. \A e \in Displays \ {d} : e \in validated' => e \in validated
        BY Zenon DEF BuiltValidated
      <3>2. QED BY ZenonT(60), <2>1, <2>2, <2>6, <2>8, <3>1, NothingElse
    <2>13. OwnInv(d)'
      BY Zenon, <2>1, <2>3, <2>4, <2>9 DEF DisplayInv, OwnInv
    <2>14. FlushInv(d)'
      BY Zenon, <2>2, <2>8 DEF FlushInv, Bypasses
    <2>15. ScreenInv(d)'
      BY Zenon, <2>1, <2>2, <1>ValidateScreen
    <2>16. FenceInv(d)'
      BY Zenon, <2>2, <2>7, <2>8, <2>9
    <2>17. AcquireInv(d)'
      BY Zenon, <2>1, <2>6, <2>7, <2>9, <1>ValidateAcquires
    <2>18. QED
      BY Zenon, <2>2, <2>8, <2>9, <2>10, <2>11, <2>12, <2>13, <2>14, <2>15, <2>16, <2>17
  (* A secure session starts or ends: nothing is prepared. *)
  <1>ValidateSkips.
    ASSUME IInv, NEW d \in Displays, NEW ok \in BOOLEAN, ValidateSkipPrepare(d, ok)
    PROVE  IInv'
    <2> USE <1>ValidateSkips
    <2> DEFINE s == SetSecureDisplay(d)
               sde == LayersOf(d)
               changes == LayerChanges(d, sde)
               r == [s EXCEPT !.skip_prepare = FALSE, !.flush = TRUE, !.bypass = TRUE,
                              !.changes = changes, !.target_dirty = FALSE,
                              !.skip_validate = FALSE]
    <2>1. TypeOK /\ DisplayInv(d)
      BY Zenon DEF IInv
    <2>2. /\ Builds(d, ok) /\ layer' = Composed(d, sde) /\ sf' = Told(d, changes, TRUE)
          /\ validated' = BuiltValidated(d) \union {d} /\ base' = BuiltBase(d, ok)
          /\ disp' = [disp EXCEPT ![d] = r]
      BY Zenon DEF ValidateSkipPrepare
    <2>3. /\ base' \in [Displays -> BaseRecord] /\ base'[d].state = base[d].state
          /\ \A e \in Displays \ {d} : base'[e] = base[e]
      BY Zenon, <2>1, <2>2, <1>BuildsBase
    <2>4. /\ s \in DispRecord /\ s.layer_set = disp[d].layer_set
          /\ s.flush_on_error = disp[d].flush_on_error
          /\ s.paused = disp[d].paused /\ s.secure = SecureNow(d)
      BY Zenon, <2>1, <1>SetsSecure
    <2>5. changes \in SUBSET (Layers \X CompositionTypes)
      BY Zenon, <2>1, <1>ChangesOf
    <2>6. changes = LayerChanges(d, sde)
      BY Zenon
    <2>7. \A l \in LayersOf(d) : layer'[l].sdm = "SDE"
      BY Zenon, <2>1, <2>2, <1>Prepared
    <2> HIDE DEF s, changes, sde
    <2>8. /\ r \in DispRecord /\ r.layer_set = disp[d].layer_set /\ r.changes = changes
          /\ r.flush_on_error = disp[d].flush_on_error /\ r.paused = disp[d].paused
          /\ r.secure = SecureNow(d) /\ r.flush /\ r.bypass
      BY Zenon, <2>4, <2>5 DEF DispRecord
    <2> HIDE DEF r
    <2>9. /\ disp' \in [Displays -> DispRecord] /\ disp'[d] = r
          /\ \A e \in Displays \ {d} : disp'[e] = disp[e]
      BY Zenon, <2>1, <2>2, <2>8, DispSet DEF TypeOK
    <2>10. /\ TypeOK' /\ Elsewhere(d)
           /\ OwnInv(d)' /\ FlushInv(d)' /\ ScreenInv(d)' /\ FenceInv(d)' /\ AcquireInv(d)'
           /\ LayersOf(d)' = LayersOf(d)
      <3>1. /\ Builds(d, ok) /\ layer' = Composed(d, sde) /\ sf' = Told(d, LayerChanges(d, sde), TRUE)
            /\ validated' = BuiltValidated(d) \union {d}
        BY Zenon, <2>2, <2>6
      <3>2. /\ disp'[d].layer_set = disp[d].layer_set /\ disp'[d].changes = LayerChanges(d, sde)
            /\ disp'[d].flush_on_error = disp[d].flush_on_error
            /\ disp'[d].paused = disp[d].paused /\ disp'[d].secure = SecureNow(d)
            /\ disp'[d].flush
        BY Zenon, <2>6, <2>8, <2>9
      <3>3. QED BY Zenon, <2>3, <2>9, <3>1, <3>2, <1>ValidateBuilds
    <2>11. PreparedInv(d)' /\ ComposedInv(d)'
      BY Zenon, <2>7, <2>8, <2>9, <2>10 DEF PreparedInv, ComposedInv
    <2>12. QED BY Zenon, <2>10, <2>11, OneDisplay DEF DisplayInv
  (* The frame is prepared. *)
  <1>ValidatePrepares.
    ASSUME IInv, NEW d \in Displays, NEW ok \in BOOLEAN, NEW sde, ValidatePrepared(d, ok, sde)
    PROVE  IInv'
    <2> USE <1>ValidatePrepares
    <2> DEFINE s == SetSecureDisplay(d)
               changes == LayerChanges(d, sde)
               r == [s EXCEPT !.bypass = FALSE, !.changes = changes,
                              !.target_dirty = FALSE, !.skip_validate = FALSE]
               b == BuiltBase(d, ok)
               pipes == sde \union (IF sde = LayersOf(d) THEN {} ELSE {Target})
               q == [b[d] EXCEPT !.needs_validate = FALSE, !.prepared = TRUE, !.hw_layers = pipes]
    <2>1. TypeOK /\ DisplayInv(d)
      BY Zenon DEF IInv
    <2>2. /\ Builds(d, ok) /\ layer' = Composed(d, sde) /\ sf' = Told(d, changes, TRUE)
          /\ validated' = BuiltValidated(d) \union {d}
          /\ disp' = [disp EXCEPT ![d] = r] /\ sde \subseteq LayersOf(d) /\ ~s.skip_prepare
      BY Zenon DEF ValidatePrepared, Prepares
    <2>3. /\ b \in [Displays -> BaseRecord] /\ b[d].state = base[d].state
          /\ \A e \in Displays \ {d} : b[e] = base[e]
      BY Zenon, <2>1, <1>BuildsBase
    <2>4. base' = [b EXCEPT ![d].needs_validate = FALSE, ![d].prepared = TRUE,
                            ![d].hw_layers = pipes]
      BY Zenon DEF ValidatePrepared
    <2>5. pipes \in SUBSET (Layers \union {Target})
      BY Zenon, <2>1, <2>2, Mine
    <2> HIDE DEF b
    <2>6. base' = [b EXCEPT ![d] = q]
      <3> HIDE DEF pipes
      <3>1. QED BY Zenon, <2>3, <2>4 DEF BaseRecord
    <2>7. /\ q \in BaseRecord /\ q.state = base[d].state /\ q.prepared /\ q.hw_layers = pipes
      <3> HIDE DEF pipes
      <3>1. b[d] \in BaseRecord
        BY Zenon, <2>3
      <3>2. QED BY Zenon, <2>3, <2>5, <3>1 DEF BaseRecord
    <2> HIDE DEF q, pipes
    <2>8. /\ base' \in [Displays -> BaseRecord] /\ base'[d] = q
          /\ \A e \in Displays \ {d} : base'[e] = base[e]
      BY Zenon, <2>3, <2>6, <2>7
    <2>9. /\ s \in DispRecord /\ s.layer_set = disp[d].layer_set /\ s.flush = disp[d].flush
          /\ s.flush_on_error = disp[d].flush_on_error
          /\ s.paused = disp[d].paused /\ s.secure = SecureNow(d)
      BY Zenon, <2>1, <1>SetsSecure
    <2>10. /\ changes \in SUBSET (Layers \X CompositionTypes)
           /\ \A c \in changes : c[2] = IF c[1] \in sde THEN "Device" ELSE "Client"
           /\ \A l \in LayersOf(d) : layer[l].req # (IF l \in sde THEN "Device" ELSE "Client") =>
                \E c \in changes : c[1] = l
      BY SMTT(30), <2>1, <1>ChangesOf
    <2>11. changes = LayerChanges(d, sde) /\ s.skip_prepare = SetSecureDisplay(d).skip_prepare
      BY Zenon
    <2> HIDE DEF s, changes
    <2>12. /\ r \in DispRecord /\ r.layer_set = disp[d].layer_set /\ r.changes = changes
           /\ r.flush_on_error = disp[d].flush_on_error /\ r.paused = disp[d].paused
           /\ r.secure = SecureNow(d) /\ r.flush = disp[d].flush
           /\ r.skip_prepare = s.skip_prepare /\ ~r.bypass
      BY Zenon, <2>9, <2>10 DEF DispRecord
    <2> HIDE DEF r
    <2>13. /\ disp' \in [Displays -> DispRecord] /\ disp'[d] = r
           /\ \A e \in Displays \ {d} : disp'[e] = disp[e]
      BY Zenon, <2>1, <2>2, <2>12, DispSet DEF TypeOK
    <2>14. /\ TypeOK' /\ Elsewhere(d)
           /\ OwnInv(d)' /\ FlushInv(d)' /\ ScreenInv(d)' /\ FenceInv(d)' /\ AcquireInv(d)'
           /\ LayersOf(d)' = LayersOf(d) /\ SecureNow(d)' = SecureNow(d)
           /\ sf'.at[d] = "validated" /\ ~disp[d].flush
      <3>1. base'[d].state = base[d].state
        BY Zenon, <2>7, <2>8
      <3>2. QED BY ZenonT(60), <2>2, <2>8, <2>11, <2>12, <2>13, <3>1, <1>ValidateBuilds
    <2>15. \A l \in LayersOf(d) :
              /\ layer'[l].req = layer[l].req /\ l \in Layers
              /\ layer'[l].dev = (IF l \in sde THEN "Device" ELSE "Client")
              /\ layer'[l].sdm = (IF l \in sde THEN "SDE" ELSE "GPU")
      BY SMTT(30), <2>1, <2>2, <1>Prepared, Mine
    <2>16. \A l \in Layers : IF \E c \in changes : c[1] = l
                             THEN \E c \in changes : c[1] = l /\ sf'.type[l] = c[2]
                             ELSE sf'.type[l] = sf.type[l]
      BY ZenonT(60), <2>1, <2>2, <2>10, <1>ToldSf
    <2>17. ASSUME NEW l \in LayersOf(d), l \notin pipes
           PROVE  /\ Target \in pipes /\ layer'[l].dev = "Client"
                  /\ sf'.type[l] = layer'[l].req => sf'.type[l] = "Client"
                  /\ \A c \in changes : c[1] = l => sf'.type[l] = "Client"
      <3>1. l \notin sde /\ Target \in pipes
        BY Zenon, <2>2, <2>17 DEF pipes
      <3>2. CASE \E c \in changes : c[1] = l
        BY SMTT(30), <2>10, <2>15, <2>16, <3>1, <3>2
      <3>3. CASE ~\E c \in changes : c[1] = l
        BY Zenon, <2>10, <2>15, <3>1, <3>3
      <3>4. QED BY Zenon, <2>15, <3>1, <3>2, <3>3
    <2>18. PreparedInv(d)'
      <3>1. pipes \subseteq LayersOf(d) \union {Target}
        BY Zenon, <2>2 DEF pipes
      <3>2. /\ ~disp'[d].flush /\ ~disp'[d].skip_prepare /\ disp'[d].secure = SecureNow(d)
            /\ disp'[d].changes = changes
            /\ base'[d].prepared /\ base'[d].hw_layers = pipes
        BY Zenon, <2>2, <2>7, <2>8, <2>12, <2>13, <2>14
      <3>3. QED BY Zenon, <2>13, <2>14, <2>17, <3>1, <3>2 DEF PreparedInv
    <2>19. ComposedInv(d)'
      <3>1. \A l \in LayersOf(d) : l \in pipes => l \in sde
        BY Zenon, <2>15, ConstantsAssumption DEF pipes
      <3>2. ~disp'[d].bypass /\ base'[d].hw_layers = pipes
        BY Zenon, <2>7, <2>8, <2>12, <2>13, <2>14
      <3>3. QED BY Zenon, <2>13, <2>14, <2>15, <3>1, <3>2 DEF ComposedInv
    <2>20. QED BY Zenon, <2>13, <2>14, <2>18, <2>19, OneDisplay DEF DisplayInv
  <1> QED BY Zenon, <1>ValidateBypassed, <1>ValidatesEmpty, <1>ValidateRefused, <1>ValidateSkips,
             <1>ValidatePrepares DEF Validate

-----------------------------------------------------------------------------
(* Present.                                                                *)

(* A frame that is committed, unless it was marked for bypass, was         *)
(* prepared, and its layers have not changed since.                        *)
LEMMA CommitsAsPrepared ==
    ASSUME TypeOK, NEW d \in Displays, DisplayInv(d), CommitsFrame(d), ~disp[d].bypass
    PROVE  /\ Ready(d) /\ base[d].prepared /\ ~disp[d].skip_prepare
           /\ base[d].hw_layers \subseteq LayersOf(d) \union {Target}
           /\ SecureNow(d) = disp[d].secure
           /\ \A l \in LayersOf(d) \ base[d].hw_layers :
                 /\ Target \in base[d].hw_layers
                 /\ sf.type[l] = layer[l].req => sf.type[l] = "Client"
  <1>1. Ready(d) /\ PreparedInv(d)
    BY Zenon DEF Ready, CommitsFrame, CommitsStack, Commits, StillValidated, DisplayInv
  <1>2. CASE sf.at[d] = "idle"
    <2>1. CanSkipValidate(d)
      BY Zenon, <1>1, <1>2 DEF PreparedInv, CommitsFrame, CommitsStack, StillValidated
    <2>2. QED BY Zenon, <1>1, <1>2, <2>1 DEF PreparedInv, CanSkipValidate
  <1>3. CASE sf.at[d] = "accepted"
    BY Zenon, <1>1, <1>3 DEF PreparedInv
  <1>4. QED BY Zenon, <1>2, <1>3 DEF CommitsFrame, CommitsStack, Commits, Presents

(* PresentDisplay keeps the invariant, whichever way it ends. *)
LEMMA PresentKeeps ==
    \A d \in Displays : IInv /\ Present(d) => IInv'
  (* CloseAcquireFds and PostCommitLayerStack close the acquire fences. *)
  <1>Closed.
    ASSUME TypeOK, NEW d \in Displays,
           layer' = CloseAcquireFds(d) \/ layer' = PostCommitLayer(d)
    PROVE  /\ layer' \in [Layers -> LayerRecord] /\ LayersElsewhere(d)
           /\ \A l \in LayersOf(d) :
                /\ layer'[l].req = layer[l].req /\ layer'[l].dev = layer[l].dev
                /\ layer'[l].sdm = layer[l].sdm /\ layer'[l].secure = layer[l].secure
                /\ layer'[l].needs_validate = layer[l].needs_validate
    <2> USE <1>Closed
    <2>1. layer' \in [Layers -> LayerRecord]
      BY ZenonT(60), LayerSets DEF CloseAcquireFds, PostCommitLayer, TypeOK
    <2>2. LayersOf(d) \subseteq Layers
      BY Zenon DEF TypeOK, DispRecord, LayersOf
    <2>3. layer \in [Layers -> LayerRecord]
      BY Zenon DEF TypeOK
    <2>4. LayersElsewhere(d)
      BY Zenon DEF CloseAcquireFds, PostCommitLayer, LayersElsewhere
    <2>5. ASSUME NEW l \in LayersOf(d)
          PROVE  /\ layer'[l].req = layer[l].req /\ layer'[l].dev = layer[l].dev
                 /\ layer'[l].sdm = layer[l].sdm /\ layer'[l].secure = layer[l].secure
                 /\ layer'[l].needs_validate = layer[l].needs_validate
      <3>1. CASE layer' = CloseAcquireFds(d)
        BY ZenonT(60), <2>2, <2>3, <3>1 DEF CloseAcquireFds, LayerRecord
      <3>2. CASE layer' = PostCommitLayer(d)
        BY ZenonT(60), <2>2, <2>3, <3>2 DEF PostCommitLayer, LayerRecord
      <3>3. QED BY Zenon, <3>1, <3>2
    <2>6. QED BY Zenon, <2>1, <2>4, <2>5
  (* After a present no layer of the display has a fresh buffer. *)
  <1>PresentedRecord.
    ASSUME TypeOK, NEW d \in Displays, NEW at \in {"idle", "presented"},
           NEW committed \in BOOLEAN
    PROVE  LET p == Presented(d, at, committed) IN
           /\ p \in SfRecord
           /\ p.at = [sf.at EXCEPT ![d] = at] /\ p.type = sf.type
           /\ p.latched = sf.latched /\ p.bypassed = sf.bypassed
           /\ \A l \in Layers \ LayersOf(d) : p.sync[l] = sf.sync[l]
           /\ \A l \in LayersOf(d) : p.sync[l] # "fresh"
    <2> USE <1>PresentedRecord
    <2> DEFINE y == [l \in Layers |-> IF l \notin LayersOf(d) THEN sf.sync[l]
                                      ELSE IF committed THEN "done"
                                      ELSE IF sf.sync[l] = "fresh" THEN "retried"
                                      ELSE sf.sync[l]]
               a == [sf.at EXCEPT ![d] = at]
               p == Presented(d, at, committed)
    <2>1. /\ y \in [Layers -> {"done", "fresh", "retried"}]
          /\ a \in [Displays -> {"idle", "validated", "accepted", "presented"}]
      BY Zenon DEF TypeOK, SfRecord
    <2>2. /\ sf.type \in [Layers -> CompositionTypes]
          /\ sf.latched \in SUBSET Layers /\ sf.bypassed \in SUBSET Layers
      BY Zenon DEF TypeOK, SfRecord
    <2>3. LayersOf(d) \subseteq Layers
      BY Zenon DEF TypeOK, DispRecord, LayersOf
    <2>4. /\ \A l \in Layers \ LayersOf(d) : y[l] = sf.sync[l]
          /\ \A l \in LayersOf(d) : y[l] # "fresh"
      BY Zenon, <2>3
    <2>5. p = [sf EXCEPT !.at[d] = at, !.sync = y]
      BY Zenon DEF Presented
    <2> HIDE DEF y
    <2>6. p = [at |-> a, type |-> sf.type, latched |-> sf.latched, sync |-> y,
               bypassed |-> sf.bypassed]
      BY Zenon, <2>5 DEF TypeOK, SfRecord
    <2> HIDE DEF a, p
    <2>7. /\ p \in SfRecord
          /\ p.at = a /\ p.type = sf.type /\ p.latched = sf.latched /\ p.sync = y
          /\ p.bypassed = sf.bypassed
      BY Zenon, <2>1, <2>2, <2>6 DEF SfRecord
    <2>8. QED BY Zenon, <2>4, <2>7 DEF a, p
  (* No present leaves a fresh buffer. *)
  <1>PresentAcquires.
    ASSUME TypeOK, NEW d \in Displays, DisplayInv(d), LayersOf(d)' = LayersOf(d),
           \A l \in Layers \ LayersOf(d) : sf'.sync[l] = sf.sync[l],
           \A l \in LayersOf(d) : sf'.sync[l] # "fresh"
    PROVE  AcquireInv(d)'
    BY <1>PresentAcquires, Zenon DEF AcquireInv, DisplayInv
  (* A present that is refused. *)
  <1>PresentRefused.
    ASSUME IInv, NEW d \in Displays, PresentNotValidated(d) \/ PresentNotPrepared(d)
    PROVE  IInv'
    <2> USE <1>PresentRefused
    <2>1. TypeOK /\ DisplayInv(d)
      BY Zenon DEF IInv
    <2>2. /\ sf.at[d] # "presented" /\ ~disp[d].flush
          /\ validated' = validated \ {d} /\ UNCHANGED <<disp, base, hw, fence>>
          /\ layer' = CloseAcquireFds(d) /\ sf' = Presented(d, "idle", FALSE)
      BY Zenon DEF PresentNotValidated, PresentNotPrepared, CommitsStack, Commits, Presents
    <2>3. /\ layer' \in [Layers -> LayerRecord] /\ LayersElsewhere(d)
      BY Zenon, <2>1, <2>2, <1>Closed
    <2>4. /\ sf' \in SfRecord
          /\ sf'.at = [sf.at EXCEPT ![d] = "idle"] /\ sf'.type = sf.type
          /\ sf'.latched = sf.latched /\ sf'.bypassed = sf.bypassed
          /\ \A l \in Layers \ LayersOf(d) : sf'.sync[l] = sf.sync[l]
          /\ \A l \in LayersOf(d) : sf'.sync[l] # "fresh"
      BY Zenon, <2>1, <2>2, <1>PresentedRecord
    <2>5. sf'.at[d] = "idle" /\ \A e \in Displays \ {d} : sf'.at[e] = sf.at[e]
      BY ZenonT(60), <2>1, <2>4 DEF TypeOK, SfRecord
    <2>6. LayersOf(d)' = LayersOf(d)
      BY Zenon, <2>2 DEF LayersOf
    <2>7. TypeOK'
      BY Zenon, <2>1, <2>2, <2>3, <2>4 DEF TypeOK
    <2>8. Elsewhere(d)
      <3>1. \A l \in Layers : Owner[l] # d => l \notin LayersOf(d)
        BY Zenon, <2>1, Mine
      <3>2. QED BY Zenon, <2>1, <2>2, <2>3, <2>4, <2>5, <3>1, NothingElse
    <2>9. DisplayInv(d)'
      <3>1. OwnInv(d)' /\ FlushInv(d)' /\ ScreenInv(d)'
        BY Zenon, <2>1, <2>2, <2>6 DEF DisplayInv, OwnInv, FlushInv, ScreenInv
      <3>2. ~Ready(d)'
        BY Zenon, <2>2 DEF Ready
      <3>3. FenceInv(d)'
        BY Zenon, <2>1, <2>2, <2>4, <2>5, <2>6, FencesStay
      <3>4. AcquireInv(d)'
        BY Zenon, <2>1, <2>4, <2>6, <1>PresentAcquires
      <3>5. QED BY Zenon, <3>1, <3>2, <3>3, <3>4 DEF DisplayInv, PreparedInv, ComposedInv
    <2>10. QED BY Zenon, <2>7, <2>8, <2>9, OneDisplay
  (* The driver shuts down under a commit. *)
  <1>PresentShutsDown.
    ASSUME IInv, NEW d \in Displays, PresentShutdown(d)
    PROVE  IInv'
    <2> USE <1>PresentShutsDown
    <2> DEFINE r == [disp[d] EXCEPT !.shutdown = TRUE]
    <2>1. TypeOK /\ DisplayInv(d)
      BY Zenon DEF IInv
    <2>2. /\ sf.at[d] # "presented" /\ UNCHANGED <<validated, base, hw, fence>>
          /\ ~disp[d].flush /\ layer' = CloseAcquireFds(d) /\ sf' = Presented(d, "idle", FALSE)
          /\ disp' = [disp EXCEPT ![d] = r]
      BY Zenon, <2>1 DEF PresentShutdown, CommitsFrame, CommitsStack, Commits, Presents, TypeOK
    <2>3. /\ r \in DispRecord /\ r.layer_set = disp[d].layer_set
          /\ r.changes = disp[d].changes /\ r.flush = disp[d].flush
          /\ r.flush_on_error = disp[d].flush_on_error /\ r.secure = disp[d].secure
          /\ r.skip_prepare = disp[d].skip_prepare /\ r.shutdown
      BY ZenonT(60), <2>1 DEF TypeOK, DispRecord
    <2> HIDE DEF r
    <2>4. /\ disp' \in [Displays -> DispRecord] /\ disp'[d] = r
          /\ \A e \in Displays \ {d} : disp'[e] = disp[e]
      BY Zenon, <2>1, <2>2, <2>3, DispSet DEF TypeOK
    <2>5. /\ layer' \in [Layers -> LayerRecord] /\ LayersElsewhere(d)
      BY Zenon, <2>1, <2>2, <1>Closed
    <2>6. /\ sf' \in SfRecord
          /\ sf'.at = [sf.at EXCEPT ![d] = "idle"] /\ sf'.type = sf.type
          /\ sf'.latched = sf.latched /\ sf'.bypassed = sf.bypassed
          /\ \A l \in Layers \ LayersOf(d) : sf'.sync[l] = sf.sync[l]
          /\ \A l \in LayersOf(d) : sf'.sync[l] # "fresh"
      BY Zenon, <2>1, <2>2, <1>PresentedRecord
    <2>7. sf'.at[d] = "idle" /\ \A e \in Displays \ {d} : sf'.at[e] = sf.at[e]
      BY ZenonT(60), <2>1, <2>6 DEF TypeOK, SfRecord
    <2>8. LayersOf(d)' = LayersOf(d)
      BY Zenon, <2>3, <2>4 DEF LayersOf
    <2>9. TypeOK'
      BY Zenon, <2>1, <2>2, <2>4, <2>5, <2>6 DEF TypeOK
    <2>10. Elsewhere(d)
      <3>1. \A l \in Layers : Owner[l] # d => l \notin LayersOf(d)
        BY Zenon, <2>1, Mine
      <3>2. QED BY Zenon, <2>1, <2>2, <2>4, <2>5, <2>6, <2>7, <3>1, NothingElse
    <2>11. DisplayInv(d)'
      <3>1. OwnInv(d)' /\ FlushInv(d)' /\ ScreenInv(d)'
        BY Zenon, <2>1, <2>2, <2>3, <2>4, <2>8 DEF DisplayInv, OwnInv, FlushInv, ScreenInv
      <3>2. ~Ready(d)'
        BY Zenon, <2>3, <2>4 DEF Ready
      <3>3. FenceInv(d)'
        BY Zenon, <2>1, <2>2, <2>6, <2>7, <2>8, FencesStay
      <3>4. AcquireInv(d)'
        BY Zenon, <2>1, <2>6, <2>8, <1>PresentAcquires
      <3>5. QED BY Zenon, <3>1, <3>2, <3>3, <3>4 DEF DisplayInv, PreparedInv, ComposedInv
    <2>12. QED BY Zenon, <2>9, <2>10, <2>11, OneDisplay
  (* Pushing a fence on every layer's queue. *)
  <1>Pushes.
    ASSUME TypeOK, NEW d \in Displays, NEW fences \in [Layers -> FenceRecord], NEW shown,
           fence' = PushReleaseFence(d, fences, shown)
    PROVE  /\ fence' \in [Layers -> FenceRecord]
           /\ \A l \in Layers \ LayersOf(d) : fence'[l] = fences[l]
           /\ \A l \in LayersOf(d) :
                /\ fence'[l].held = fences[l].held
                /\ fence'[l].queue =
                     Append(fences[l].queue,
                            IF l \in shown /\ layer[l].sdm # "GPU" THEN "next" ELSE "none")
    <2> USE <1>Pushes
    <2>1. LayersOf(d) \subseteq Layers
      BY Zenon DEF TypeOK, DispRecord, LayersOf
    <2>2. fence' \in [Layers -> FenceRecord]
      <3>1. ASSUME NEW r \in FenceRecord, NEW f \in Fences
            PROVE  [r EXCEPT !.queue = Append(@, f)] \in FenceRecord
        BY SMTT(30) DEF FenceRecord
      <3>2. "next" \in Fences /\ "none" \in Fences
        BY Zenon DEF Fences
      <3>3. QED BY Zenon, <3>1, <3>2 DEF PushReleaseFence
    <2>3. \A l \in Layers \ LayersOf(d) : fence'[l] = fences[l]
      BY Zenon DEF PushReleaseFence
    <2>4. ASSUME NEW l \in LayersOf(d)
          PROVE  /\ fence'[l].held = fences[l].held
                 /\ fence'[l].queue =
                      Append(fences[l].queue,
                             IF l \in shown /\ layer[l].sdm # "GPU" THEN "next" ELSE "none")
      BY Zenon, <2>1 DEF PushReleaseFence, FenceRecord
    <2>5. QED BY Zenon, <2>2, <2>3, <2>4
  (* The fence a present pushes is the one its frame is covered by. *)
  <1>PushProtects.
    ASSUME TypeOK, NEW d \in Displays, NEW fences \in [Layers -> FenceRecord], NEW shown,
           fence' = PushReleaseFence(d, fences, shown),
           sf'.at[d] = "presented", sf'.latched = sf.latched, NEW l \in LayersOf(d),
           Len(fences[l].queue) = 1,
           Safe(Later(fences[l].held, fences[l].queue[1]),
                IF l \in shown /\ layer[l].sdm # "GPU" THEN "next" ELSE "none", hw'[d], l)
    PROVE  Protected(d, l)'
    <2> USE <1>PushProtects
    <2> DEFINE new == IF l \in shown /\ layer[l].sdm # "GPU" THEN "next" ELSE "none"
    <2>1. new \in Fences
      BY Zenon DEF Fences
    <2>2. Safe(Later(fences[l].held, fences[l].queue[1]), new, hw'[d], l)
      BY Zenon
    <2>3. l \in Layers
      BY Zenon DEF TypeOK, DispRecord, LayersOf
    <2>4. fence'[l].held = fences[l].held /\ fence'[l].queue = Append(fences[l].queue, new)
      BY Zenon, <1>Pushes
    <2>5. fences[l].queue \in Seq(Fences)
      BY Zenon, <2>3 DEF FenceRecord
    <2> HIDE DEF new
    <2>6. /\ Len(fence'[l].queue) = 2 /\ fence'[l].queue[1] = fences[l].queue[1]
          /\ fence'[l].queue[2] = new
      BY SMTT(30), <2>1, <2>4, <2>5
    <2>7. Safe(Owed(l), Pushed(d, l), hw[d], l)' = Safe(Owed(l)', Pushed(d, l)', hw'[d], l)
      BY Zenon DEF Safe
    <2>8. Owed(l)' = Later(fences[l].held, fences[l].queue[1]) /\ Pushed(d, l)' = new
      BY Zenon, <2>4, <2>6 DEF Owed, Pushed
    <2>9. QED BY Zenon, <2>2, <2>6, <2>7, <2>8 DEF Protected
  (* Every layer a commit shows is the display's and has a composition in    *)
  (* hardware.                                                               *)
  <1>ShownLayers.
    ASSUME TypeOK, NEW d \in Displays, DisplayInv(d), NEW shown, PresentCommit(d, shown)
    PROVE  \A l \in Layers : l \in shown => l \in LayersOf(d) /\ layer[l].sdm = "SDE"
    <2> USE <1>ShownLayers
    <2>1. CommitsFrame(d) /\ Ready(d) /\ ComposedInv(d) /\ shown \in Shown(d)
      BY Zenon DEF PresentCommit, CommitsFrame, CommitsStack, Commits, StillValidated, Ready, DisplayInv
    <2>2. CASE disp[d].bypass
      BY Zenon, <2>1, <2>2 DEF Shown, ComposedInv
    <2>3. CASE ~disp[d].bypass
      <3>1. shown = base[d].hw_layers /\ shown \subseteq LayersOf(d) \union {Target}
        BY Zenon, <2>1, <2>3, CommitsAsPrepared DEF Shown
      <3>2. QED BY Zenon, <2>1, <3>1, ConstantsAssumption DEF ComposedInv
    <2>4. QED BY Zenon, <2>2, <2>3
  (* A commit too, and the fence it gives a layer covers the new buffer. *)
  <1>SafeCommitted.
    ASSUME NEW f \in Fences, NEW g \in Fences, NEW frames, NEW later, NEW l \in Layers,
           Safe(f, "none", frames, l), later.front = frames.next,
           later.next[l] = "none" \/ (later.next[l] = "cur" /\ g = "next")
    PROVE  Safe(Aged(f), g, later, l)
    BY Zenon, <1>SafeCommitted DEF Safe, Covers, Later, Aged, Fences
  (* The driver takes the frame. *)
  <1>PresentCommits.
    ASSUME IInv, NEW d \in Displays, NEW shown, PresentCommit(d, shown)
    PROVE  IInv'
    <2> USE <1>PresentCommits
    <2> DEFINE r == [disp[d] EXCEPT !.flush_on_error = TRUE, !.skip_validate = TRUE]
               frame == [l \in Layers |-> IF l \in shown THEN "cur" ELSE "none"]
               content == IF disp[d].bypass THEN "unprepared"
                          ELSE IF SecureNow(d) THEN "secure" ELSE "plain"
               h == [front |-> hw[d].next, next |-> frame, content |-> content]
               fences == Replaced(d)
    <2>1. TypeOK /\ DisplayInv(d)
      BY Zenon DEF IInv
    <2>2. /\ sf.at[d] # "presented" /\ sf' = Presented(d, "presented", TRUE)
          /\ ~Bypasses(d) /\ ~disp[d].flush /\ CommitsFrame(d) /\ UNCHANGED <<validated, base>>
          /\ layer' = PostCommitLayer(d) /\ fence' = FrameFences(d, fences, shown)
      BY Zenon DEF PresentCommit, CommitsFrame, CommitsStack, Commits, Presents
    <2>3. disp' = [disp EXCEPT ![d] = r]
      BY Zenon, <2>1 DEF PresentCommit, TypeOK, DispRecord
    <2>4. hw' = [hw EXCEPT ![d] = h]
      BY Zenon, <2>1 DEF PresentCommit, Queued, TypeOK
    <2>5. /\ r \in DispRecord /\ r.layer_set = disp[d].layer_set
          /\ r.changes = disp[d].changes /\ r.flush = disp[d].flush /\ r.flush_on_error
          /\ r.secure = disp[d].secure /\ r.skip_prepare = disp[d].skip_prepare
          /\ r.paused = disp[d].paused /\ r.shutdown = disp[d].shutdown
          /\ r.bypass = disp[d].bypass /\ r.skip_validate
      BY ZenonT(60), <2>1 DEF TypeOK, DispRecord
    <2>6. /\ h \in HwRecord /\ h.front = hw[d].next /\ h.content = content
          /\ \A l \in Layers : h.next[l] = IF l \in shown THEN "cur" ELSE "none"
      <3>1. frame \in Frames /\ hw[d].next \in Frames
        BY Zenon, <2>1 DEF Frames, TypeOK, HwRecord
      <3>2. content \in {"unprepared", "secure", "plain"}
        BY Zenon
      <3> HIDE DEF content
      <3>3. QED BY Zenon, <3>1, <3>2 DEF HwRecord
    <2>7. /\ fences \in [Layers -> FenceRecord]
          /\ \A l \in Layers :
               /\ Owner[l] # d => fences[l] = fence[l]
               /\ Owner[l] = d =>
                    /\ fences[l].held = Aged(fence[l].held)
                    /\ Len(fences[l].queue) = Len(fence[l].queue)
                    /\ \A i \in 1..Len(fence[l].queue) :
                         fences[l].queue[i] = Aged(fence[l].queue[i])
      BY Zenon, <2>1, ReplacedFences
    <2>8. content \in {"plain", "secure"} =>
             ~disp[d].bypass /\ content = IF SecureNow(d) THEN "secure" ELSE "plain"
      BY Zenon
    <2> HIDE DEF r, h, fences, content
    <2>9. /\ disp' \in [Displays -> DispRecord] /\ disp'[d] = r
          /\ \A e \in Displays \ {d} : disp'[e] = disp[e]
      BY Zenon, <2>1, <2>3, <2>5, DispSet DEF TypeOK
    <2>10. /\ hw' \in [Displays -> HwRecord] /\ hw'[d] = h
           /\ \A e \in Displays \ {d} : hw'[e] = hw[e]
      BY Zenon, <2>1, <2>4, <2>6, HwSet DEF TypeOK
    <2>11. /\ sf' \in SfRecord
           /\ sf'.at = [sf.at EXCEPT ![d] = "presented"] /\ sf'.type = sf.type
           /\ sf'.latched = sf.latched /\ sf'.bypassed = sf.bypassed
           /\ \A l \in Layers \ LayersOf(d) : sf'.sync[l] = sf.sync[l]
           /\ \A l \in LayersOf(d) : sf'.sync[l] # "fresh"
      BY Zenon, <2>1, <2>2, <1>PresentedRecord
    <2>12. sf'.at[d] = "presented" /\ \A e \in Displays \ {d} : sf'.at[e] = sf.at[e]
      BY ZenonT(60), <2>1, <2>11 DEF TypeOK, SfRecord
    <2>13. LayersOf(d)' = LayersOf(d) /\ ~Bypasses(d)'
      BY Zenon, <2>2, <2>5, <2>9 DEF LayersOf, Bypasses
    <2>14. /\ layer' \in [Layers -> LayerRecord] /\ LayersElsewhere(d)
           /\ \A l \in LayersOf(d) :
                  /\ layer'[l].req = layer[l].req /\ layer'[l].dev = layer[l].dev
                  /\ layer'[l].sdm = layer[l].sdm /\ layer'[l].secure = layer[l].secure
                  /\ layer'[l].needs_validate = layer[l].needs_validate
      BY Zenon, <2>1, <2>2, <1>Closed
    <2>15. /\ fence' \in [Layers -> FenceRecord]
           /\ \A l \in Layers \ LayersOf(d) : fence'[l] = fences[l]
      <3>1. fence' = fences \/ fence' = PushReleaseFence(d, fences, shown)
        BY Zenon, <2>2 DEF FrameFences
      <3>2. QED BY Zenon, <2>1, <2>7, <3>1, <1>Pushes
    <2>16. TypeOK'
      BY Zenon, <2>1, <2>2, <2>9, <2>10, <2>11, <2>14, <2>15 DEF TypeOK
    <2>17. Elsewhere(d)
      <3>1. \A l \in Layers : Owner[l] # d => l \notin LayersOf(d)
        BY Zenon, <2>1, Mine
      <3>2. \A l \in Layers : Owner[l] # d =>
                /\ fence'[l] = fence[l]
                /\ sf'.type[l] = sf.type[l] /\ sf'.sync[l] = sf.sync[l]
                /\ l \in sf'.latched <=> l \in sf.latched
                /\ l \in sf'.bypassed <=> l \in sf.bypassed
        BY Zenon, <2>7, <2>11, <2>15, <3>1
      <3>3. QED BY Zenon, <2>1, <2>2, <2>9, <2>10, <2>12, <2>14, <3>2, NothingElse
    <2>18. FenceInv(d)'
      <3>1. \A l \in Layers : l \in shown => l \in LayersOf(d) /\ layer[l].sdm = "SDE"
        BY Zenon, <2>1, <1>ShownLayers
      <3>2. ASSUME NEW l \in LayersOf(d) \ sf.bypassed
            PROVE  Protected(d, l)'
        <4> SUFFICES ASSUME d \notin SwapIntervalZero PROVE Protected(d, l)'
          BY Zenon DEF Protected
        <4> DEFINE new == IF l \in shown /\ layer[l].sdm # "GPU" THEN "next" ELSE "none"
        <4>1. l \in Layers /\ Owner[l] = d
          BY Zenon, <2>1, Mine
        <4>2. Len(fence[l].queue) = 1 /\ Safe(Owed(l), "none", hw[d], l)
          BY Zenon, <2>1, <2>2 DEF DisplayInv, FenceInv, Protected, Pushed
        <4>3. fence[l].held \in Fences /\ fence[l].queue[1] \in Fences
          BY SMTT(30), <2>1, <4>1, <4>2 DEF TypeOK, FenceRecord
        <4>4. /\ fences[l].held = Aged(fence[l].held) /\ Len(fences[l].queue) = 1
              /\ fences[l].queue[1] = Aged(fence[l].queue[1])
          BY SMTT(30), <2>7, <4>1, <4>2
        <4>5. Later(fences[l].held, fences[l].queue[1]) = Aged(Owed(l)) /\ Owed(l) \in Fences
          BY ZenonT(60), <4>3, <4>4, Ages DEF Owed
        <4>6. new \in Fences /\ (h.next[l] = "none" \/ (h.next[l] = "cur" /\ new = "next"))
          BY Zenon, <2>6, <3>1, <4>1 DEF Fences
        <4>7. Safe(Aged(Owed(l)), new, hw'[d], l)
          <5> HIDE DEF new
          <5>1. QED BY Zenon, <2>6, <2>10, <4>1, <4>2, <4>5, <4>6, <1>SafeCommitted
        <4>8. Safe(Later(fences[l].held, fences[l].queue[1]),
                   IF l \in shown /\ layer[l].sdm # "GPU" THEN "next" ELSE "none", hw'[d], l)
          BY Zenon, <4>5, <4>7
        <4> HIDE DEF new
        <4>9. fence' = PushReleaseFence(d, fences, shown)
          BY Zenon, <2>2 DEF FrameFences
        <4>10. QED BY Zenon, <2>1, <2>7, <2>11, <2>12, <4>4, <4>8, <4>9, <1>PushProtects
      <3>3. \A l \in Layers : Owner[l] = d /\ l \notin LayersOf(d) =>
               hw'[d].front[l] = "none" /\ hw'[d].next[l] = "none"
        BY Zenon, <2>1, <2>6, <2>10, <3>1 DEF DisplayInv, FenceInv
      <3>4. QED BY Zenon, <2>11, <2>13, <3>2, <3>3 DEF FenceInv
    <2>19. DisplayInv(d)'
      <3>1. OwnInv(d)' /\ FlushInv(d)'
        BY Zenon, <2>1, <2>2, <2>5, <2>9, <2>13 DEF DisplayInv, OwnInv, FlushInv
      <3>2. ScreenInv(d)'
        <4>1. base'[d].state # "Off"
          BY Zenon, <2>2 DEF CommitsFrame, Active
        <4>2. ~disp[d].bypass => SecureNow(d) = disp[d].secure
          BY Zenon, <2>1, <2>2, CommitsAsPrepared
        <4>3. hw'[d].content = content /\ disp'[d].secure = disp[d].secure /\ disp'[d].flush_on_error
          BY Zenon, <2>5, <2>6, <2>9, <2>10
        <4>4. disp[d].secure \in BOOLEAN
          BY Zenon, <2>1 DEF TypeOK, DispRecord
        <4>5. QED BY Zenon, <2>8, <4>1, <4>2, <4>3, <4>4 DEF ScreenInv
      <3>3. Ready(d)' => Ready(d)
        BY Zenon, <2>2, <2>5, <2>9, <2>13 DEF Ready
      <3>4. PreparedInv(d)'
        <4>1. SUFFICES ASSUME Ready(d)', ~disp[d].bypass
                       PROVE  PreparedInv(d)'
          BY Zenon, <2>5, <2>9 DEF PreparedInv
        <4>2. PreparedInv(d) /\ Ready(d)
          BY Zenon, <2>1, <3>3, <4>1 DEF DisplayInv
        <4>3. SecureNow(d) = disp[d].secure
          BY Zenon, <2>1, <2>2, <4>1, CommitsAsPrepared
        <4>4. SecureNow(d)' = SecureNow(d)
          BY Zenon, <2>13, <2>14 DEF SecureNow
        <4>5. QED
          <5>1. /\ disp'[d].flush = disp[d].flush /\ disp'[d].skip_prepare = disp[d].skip_prepare
                /\ disp'[d].secure = disp[d].secure /\ disp'[d].skip_validate
                /\ base' = base /\ sf'.at[d] = "presented"
            BY Zenon, <2>2, <2>5, <2>9, <2>12
          <5>2. QED BY ZenonT(60), <2>13, <2>14, <4>1, <4>2, <4>3, <4>4, <5>1 DEF PreparedInv
      <3>5. ComposedInv(d)'
        BY SMTT(30), <2>1, <2>2, <2>5, <2>9, <2>13, <2>14, <3>3 DEF DisplayInv, ComposedInv
      <3>6. AcquireInv(d)'
        BY Zenon, <2>1, <2>11, <2>13, <1>PresentAcquires
      <3>7. QED BY Zenon, <2>18, <3>1, <3>2, <3>4, <3>5, <3>6 DEF DisplayInv
    <2>20. QED BY Zenon, <2>16, <2>17, <2>19, OneDisplay
  (* A present that pushes -1 and commits nothing. *)
  <1>NonePushed.
    ASSUME TypeOK, NEW d \in Displays, DisplayInv(d), sf.at[d] # "presented",
           sf'.at[d] = "presented", LayersOf(d)' = LayersOf(d), sf'.latched = sf.latched,
           sf'.bypassed = sf.bypassed, UNCHANGED hw,
           fence' = PushReleaseFence(d, fence, {}) \/ fence' = FrameFences(d, fence, {})
    PROVE  FenceInv(d)'
    <2> USE <1>NonePushed
    <2>1. \A l \in LayersOf(d) \ sf.bypassed : d \notin SwapIntervalZero =>
             Len(fence[l].queue) = 1 /\ Safe(Owed(l), "none", hw[d], l)
      BY Zenon DEF DisplayInv, FenceInv, Protected, Pushed
    <2>2. ASSUME NEW l \in LayersOf(d) \ sf.bypassed
          PROVE  Protected(d, l)'
      <3> SUFFICES ASSUME d \notin SwapIntervalZero PROVE Protected(d, l)'
        BY Zenon DEF Protected
      <3>1. fence' = PushReleaseFence(d, fence, {})
        BY Zenon DEF FrameFences
      <3>2. QED BY SMTT(30), <2>1, <3>1, <1>PushProtects DEF TypeOK, Owed
    <2>3. QED BY Zenon, <2>2 DEF DisplayInv, FenceInv
  (* A present that submits nothing, while the driver shuts down, with no    *)
  (* layer, or on an inactive display.                                       *)
  <1>PresentSubmitsNothing.
    ASSUME IInv, NEW d \in Displays, PresentNothing(d) \/ PresentInactive(d)
    PROVE  IInv'
    <2> USE <1>PresentSubmitsNothing
    <2>1. TypeOK /\ DisplayInv(d)
      BY Zenon DEF IInv
    <2>2. /\ sf.at[d] # "presented" /\ ~disp[d].flush /\ UNCHANGED <<validated, hw>>
          /\ layer' = PostCommitLayer(d) /\ fence' = FrameFences(d, fence, {})
          /\ sf' = Presented(d, "presented", FALSE)
      BY Zenon DEF PresentNothing, PresentInactive, CommitsStack, Commits, Presents,
             PostCommitLayerStack
    <2>3. /\ layer' \in [Layers -> LayerRecord] /\ LayersElsewhere(d)
      BY Zenon, <2>1, <2>2, <1>Closed
    <2>4. /\ sf' \in SfRecord
          /\ sf'.at = [sf.at EXCEPT ![d] = "presented"] /\ sf'.type = sf.type
          /\ sf'.latched = sf.latched /\ sf'.bypassed = sf.bypassed
          /\ \A l \in Layers \ LayersOf(d) : sf'.sync[l] = sf.sync[l]
          /\ \A l \in LayersOf(d) : sf'.sync[l] # "fresh"
      BY Zenon, <2>1, <2>2, <1>PresentedRecord
    <2>5. sf'.at[d] = "presented" /\ \A e \in Displays \ {d} : sf'.at[e] = sf.at[e]
      BY ZenonT(60), <2>1, <2>4 DEF TypeOK, SfRecord
    <2>6. /\ fence' \in [Layers -> FenceRecord]
          /\ \A l \in Layers \ LayersOf(d) : fence'[l] = fence[l]
      <3>1. fence' = fence \/ fence' = PushReleaseFence(d, fence, {})
        BY Zenon, <2>2 DEF FrameFences
      <3>2. QED BY Zenon, <2>1, <3>1, <1>Pushes DEF TypeOK
    <2>7. /\ disp' \in [Displays -> DispRecord] /\ base' \in [Displays -> BaseRecord]
          /\ \A e \in Displays \ {d} : disp'[e] = disp[e] /\ base'[e] = base[e]
          /\ disp'[d].layer_set = disp[d].layer_set /\ disp'[d].changes = disp[d].changes
          /\ disp'[d].flush = disp[d].flush /\ disp'[d].flush_on_error = disp[d].flush_on_error
          /\ disp'[d].secure = disp[d].secure /\ disp'[d].skip_prepare = disp[d].skip_prepare
          /\ disp'[d].paused = disp[d].paused
          /\ base'[d].state = base[d].state
          /\ disp'[d].shutdown \/ LayersOf(d)' = {} \/ base'[d].needs_validate
      <3>1. CASE PresentNothing(d)
        BY Zenon, <2>1, <3>1 DEF PresentNothing, TypeOK, LayersOf
      <3>2. CASE PresentInactive(d)
        <4> DEFINE r == [disp[d] EXCEPT !.skip_validate = TRUE]
                   b == [base[d] EXCEPT !.needs_validate = TRUE]
        <4>1. disp' = [disp EXCEPT ![d] = r] /\ base' = [base EXCEPT ![d] = b]
          BY Zenon, <2>1, <3>2 DEF PresentInactive, TypeOK
        <4>2. /\ r \in DispRecord /\ r.layer_set = disp[d].layer_set
              /\ r.changes = disp[d].changes /\ r.flush = disp[d].flush
              /\ r.flush_on_error = disp[d].flush_on_error /\ r.secure = disp[d].secure
              /\ r.skip_prepare = disp[d].skip_prepare /\ r.paused = disp[d].paused
          BY ZenonT(60), <2>1 DEF TypeOK, DispRecord
        <4>3. b \in BaseRecord /\ b.state = base[d].state /\ b.needs_validate
          BY Zenon, <2>1 DEF TypeOK, BaseRecord
        <4> HIDE DEF r, b
        <4>4. /\ disp' \in [Displays -> DispRecord] /\ disp'[d] = r
              /\ \A e \in Displays \ {d} : disp'[e] = disp[e]
          BY Zenon, <2>1, <4>1, <4>2, DispSet DEF TypeOK
        <4>5. /\ base' \in [Displays -> BaseRecord] /\ base'[d] = b
              /\ \A e \in Displays \ {d} : base'[e] = base[e]
          BY Zenon, <2>1, <4>1, <4>3, BaseSet DEF TypeOK
        <4>6. QED BY Zenon, <4>2, <4>3, <4>4, <4>5
      <3>3. QED BY Zenon, <3>1, <3>2
    <2>8. LayersOf(d)' = LayersOf(d)
      BY Zenon, <2>7 DEF LayersOf
    <2>9. TypeOK'
      BY Zenon, <2>1, <2>2, <2>3, <2>4, <2>6, <2>7 DEF TypeOK
    <2>10. Elsewhere(d)
      <3>1. \A l \in Layers : Owner[l] # d => l \notin LayersOf(d)
        BY Zenon, <2>1, Mine
      <3>2. QED BY ZenonT(60), <2>1, <2>2, <2>3, <2>4, <2>5, <2>6, <2>7, <3>1, NothingElse
    <2>11. DisplayInv(d)'
      <3>1. OwnInv(d)' /\ FlushInv(d)' /\ ScreenInv(d)'
        BY Zenon, <2>1, <2>2, <2>7, <2>8 DEF DisplayInv, OwnInv, FlushInv, ScreenInv
      <3>2. ~Ready(d)'
        BY Zenon, <2>7 DEF Ready
      <3>3. FenceInv(d)'
        BY Zenon, <2>1, <2>2, <2>4, <2>5, <2>8, <1>NonePushed
      <3>4. AcquireInv(d)'
        BY Zenon, <2>1, <2>4, <2>8, <1>PresentAcquires
      <3>5. QED BY Zenon, <3>1, <3>2, <3>3, <3>4 DEF DisplayInv, PreparedInv, ComposedInv
    <2>12. QED BY Zenon, <2>9, <2>10, <2>11, OneDisplay
  (* DisplayBase::Flush: on an active display the prepared stack is gone, and *)
  (* after a flush the driver made the next frame has to be validated.       *)
  <1>FlushesBase.
    ASSUME TypeOK, NEW d \in Displays, NEW ok \in BOOLEAN, base' = FlushedBase(d, ok)
    PROVE  /\ base' \in [Displays -> BaseRecord]
           /\ \A e \in Displays \ {d} : base'[e] = base[e]
           /\ base'[d].state = base[d].state
           /\ base'[d].needs_validate <=> (base[d].needs_validate \/ (ok /\ Active(d)))
           /\ ~Active(d) => base'[d] = base[d]
    <2> USE <1>FlushesBase
    <2>1. CASE Active(d)
      <3>1. base[d] \in BaseRecord
        BY Zenon DEF TypeOK
      <3>2. base' = [base EXCEPT ![d] = FlushedRecord(base[d], ok)]
        BY Zenon, <2>1 DEF FlushedBase, FlushedRecord, TypeOK, BaseRecord
      <3>3. FlushedRecord(base[d], ok) \in BaseRecord
        BY Zenon, <3>1, FlushedRecords
      <3>4. /\ base' \in [Displays -> BaseRecord]
            /\ base'[d] = FlushedRecord(base[d], ok)
            /\ \A e \in Displays \ {d} : base'[e] = base[e]
        BY Zenon, <3>2, <3>3, BaseSet DEF TypeOK
      <3>5. /\ base'[d].state = base[d].state
            /\ base'[d].needs_validate <=> (base[d].needs_validate \/ ok)
        BY Zenon, <3>1, <3>4 DEF FlushedRecord, BaseRecord
      <3>6. QED BY Zenon, <2>1, <3>4, <3>5
    <2>2. CASE ~Active(d)
      BY Zenon, <2>2 DEF FlushedBase, TypeOK, BaseRecord
    <2>3. QED BY Zenon, <2>1, <2>2
  (* Updates paused, or the external display dark: nothing is submitted.     *)
  <1>PresentBypassed.
    ASSUME IInv, NEW d \in Displays, NEW ok \in BOOLEAN, PresentBypass(d, ok)
    PROVE  IInv'
    <2> USE <1>PresentBypassed
    <2> DEFINE done == d = "primary" /\ Active(d) /\ ok
               p == Presented(d, "presented", FALSE)
               b == sf.bypassed \union LayersOf(d)
    <2>1. TypeOK /\ DisplayInv(d)
      BY Zenon DEF IInv
    <2>2. /\ sf.at[d] # "presented" /\ Bypasses(d) /\ UNCHANGED <<disp, validated>>
          /\ layer' = CloseAcquireFds(d) /\ sf' = [p EXCEPT !.bypassed = b]
      <3>1. p.bypassed = sf.bypassed
        BY Zenon, <2>1 DEF Presented, TypeOK, SfRecord
      <3>2. QED BY Zenon, <3>1 DEF PresentBypass, Presents
    <2>3. /\ layer' \in [Layers -> LayerRecord] /\ LayersElsewhere(d)
      BY Zenon, <2>1, <2>2, <1>Closed
    <2>4. /\ base' \in [Displays -> BaseRecord] /\ hw' \in [Displays -> HwRecord]
          /\ \A e \in Displays \ {d} : base'[e] = base[e] /\ hw'[e] = hw[e]
          /\ base'[d].state = base[d].state
          /\ hw'[d].content \in {hw[d].content, "blank", "unflushed"}
          /\ hw[d].content = "blank" => hw'[d].content = "blank"
          /\ fence' \in [Layers -> FenceRecord]
          /\ \A l \in Layers : Owner[l] # d => fence'[l] = fence[l]
          /\ \A l \in Layers : Owner[l] = d /\ l \notin LayersOf(d) =>
               hw'[d].front[l] = "none" /\ hw'[d].next[l] = "none"
      <3>1. CASE d = "primary"
        <4> DEFINE x == Active(d) /\ ok
        <4>1. x \in BOOLEAN
          BY Zenon DEF Active
        <4>2. base' = FlushedBase(d, ok) /\ hw' = FlushedHw(d, x) /\ fence' = FlushedFence(d, x)
          BY Zenon, <3>1 DEF PresentBypass, Flush
        <4> HIDE DEF x
        <4>3. /\ base' \in [Displays -> BaseRecord]
              /\ \A e \in Displays \ {d} : base'[e] = base[e]
              /\ base'[d].state = base[d].state
          BY Zenon, <2>1, <4>2, <1>FlushesBase
        <4>4. /\ hw' \in [Displays -> HwRecord]
              /\ \A e \in Displays \ {d} : hw'[e] = hw[e]
              /\ hw'[d].content \in {hw[d].content, "blank", "unflushed"}
              /\ hw[d].content = "blank" => hw'[d].content = "blank"
          BY Zenon, <2>1, <4>1, <4>2, FlushesHw
        <4>5. /\ fence' \in [Layers -> FenceRecord]
              /\ \A l \in Layers : Owner[l] # d => fence'[l] = fence[l]
              /\ \A l \in Layers : Owner[l] = d /\ l \notin LayersOf(d) =>
                   hw'[d].front[l] = "none" /\ hw'[d].next[l] = "none"
          BY ZenonT(60), <2>1, <2>2, <4>1, <4>2, FlushesFences
        <4>6. QED BY Zenon, <4>3, <4>4, <4>5
      <3>2. CASE d # "primary"
        BY Zenon, <2>1, <3>2 DEF PresentBypass, TypeOK, DisplayInv, FenceInv
      <3>3. QED BY Zenon, <3>1, <3>2
    <2>5. /\ sf' \in SfRecord /\ sf'.at = [sf.at EXCEPT ![d] = "presented"]
          /\ sf'.type = sf.type /\ sf'.latched = sf.latched
          /\ sf'.bypassed = b
          /\ \A l \in Layers \ LayersOf(d) : sf'.sync[l] = sf.sync[l]
          /\ \A l \in LayersOf(d) : sf'.sync[l] # "fresh"
      <3>1. p = Presented(d, "presented", FALSE)
        BY Zenon
      <3> HIDE DEF p
      <3>2. /\ p \in SfRecord
            /\ p.at = [sf.at EXCEPT ![d] = "presented"] /\ p.type = sf.type
            /\ p.latched = sf.latched
            /\ \A l \in Layers \ LayersOf(d) : p.sync[l] = sf.sync[l]
            /\ \A l \in LayersOf(d) : p.sync[l] # "fresh"
        BY ZenonT(60), <2>1, <3>1, <1>PresentedRecord
      <3>3. b \in SUBSET Layers
        BY Zenon, <2>1, Mine DEF TypeOK, SfRecord
      <3>4. /\ sf' \in SfRecord /\ sf'.at = p.at /\ sf'.type = p.type /\ sf'.latched = p.latched
            /\ sf'.sync = p.sync /\ sf'.bypassed = b
        BY Zenon, <2>2, <3>2, <3>3 DEF SfRecord
      <3>5. QED BY Zenon, <3>2, <3>4
    <2>6. sf'.at[d] = "presented" /\ \A e \in Displays \ {d} : sf'.at[e] = sf.at[e]
      BY Zenon, <2>1, <2>5 DEF TypeOK, SfRecord
    <2>7. LayersOf(d)' = LayersOf(d) /\ Bypasses(d)'
      BY Zenon, <2>2 DEF LayersOf, Bypasses
    <2>8. TypeOK'
      BY Zenon, <2>1, <2>2, <2>3, <2>4, <2>5 DEF TypeOK
    <2>9. Elsewhere(d)
      <3>1. \A l \in Layers : Owner[l] # d => l \notin LayersOf(d)
        BY Zenon, <2>1, Mine
      <3>2. QED BY ZenonT(60), <2>1, <2>2, <2>3, <2>4, <2>5, <2>6, <3>1, NothingElse
    <2>10. DisplayInv(d)'
      <3>1. OwnInv(d)' /\ FlushInv(d)'
        BY Zenon, <2>1, <2>2, <2>7 DEF DisplayInv, OwnInv, FlushInv
      <3>2. ScreenInv(d)'
        BY Zenon, <2>1, <2>2, <2>4 DEF DisplayInv, ScreenInv
      <3>3. ~Ready(d)'
        BY Zenon, <2>7 DEF Ready
      <3>4. FenceInv(d)'
        BY ZenonT(60), <2>4, <2>5, <2>7 DEF FenceInv
      <3>5. AcquireInv(d)'
        BY Zenon, <2>1, <2>5, <2>7, <1>PresentAcquires
      <3>6. QED BY Zenon, <3>1, <3>2, <3>3, <3>4, <3>5 DEF DisplayInv, PreparedInv, ComposedInv
    <2>11. QED BY Zenon, <2>8, <2>9, <2>10, OneDisplay
  (* PostCommitLayerStack of a frame that is flushed: the driver's and the   *)
  (* layers' part of it.                                                     *)
  <1>PostCommitFlushes.
    ASSUME TypeOK, NEW d \in Displays, DisplayInv(d), NEW ok \in BOOLEAN, PostCommitFlush(d, ok),
           sf.at[d] # "presented", sf'.at[d] = "presented", LayersOf(d)' = LayersOf(d),
           sf'.latched = sf.latched, sf'.bypassed = sf.bypassed
    PROVE  /\ layer' \in [Layers -> LayerRecord] /\ LayersElsewhere(d)
           /\ \A l \in LayersOf(d) :
                /\ layer'[l].req = layer[l].req /\ layer'[l].dev = layer[l].dev
                /\ layer'[l].sdm = layer[l].sdm /\ layer'[l].secure = layer[l].secure
                /\ layer'[l].needs_validate = layer[l].needs_validate
           /\ base' \in [Displays -> BaseRecord] /\ hw' \in [Displays -> HwRecord]
           /\ \A e \in Displays \ {d} :
                base'[e] = base[e] /\ hw'[e] = hw[e] /\ (e \in validated' <=> e \in validated)
           /\ validated' \subseteq Displays
           /\ IF disp[d].flush_on_error
              THEN d \notin validated' /\ hw'[d].content \in {"blank", "unflushed"}
              ELSE UNCHANGED <<base, hw, validated>>
           /\ base'[d].state = base[d].state
           /\ hw[d].content = "blank" => hw'[d].content = "blank"
           /\ fence' \in [Layers -> FenceRecord]
           /\ \A l \in Layers : Owner[l] # d => fence'[l] = fence[l]
           /\ FenceInv(d)'
    <2> USE <1>PostCommitFlushes
    <2>1. /\ layer' \in [Layers -> LayerRecord] /\ LayersElsewhere(d)
          /\ \A l \in LayersOf(d) :
                  /\ layer'[l].req = layer[l].req /\ layer'[l].dev = layer[l].dev
                  /\ layer'[l].sdm = layer[l].sdm /\ layer'[l].secure = layer[l].secure
                  /\ layer'[l].needs_validate = layer[l].needs_validate
      <3>1. layer' = PostCommitLayer(d)
        BY Zenon DEF PostCommitFlush
      <3>2. QED BY Zenon, <3>1, <1>Closed
    <2>2. \A l \in Layers : Owner[l] # d => l \notin LayersOf(d)
      BY Zenon, Mine
    <2>3. CASE ~disp[d].flush_on_error
      <3>1. fence' = PushReleaseFence(d, fence, {}) /\ UNCHANGED <<base, hw, validated>>
        BY Zenon, <2>3 DEF PostCommitFlush
      <3>2. /\ fence' \in [Layers -> FenceRecord]
            /\ \A l \in Layers \ LayersOf(d) : fence'[l] = fence[l]
        BY Zenon, <3>1, <1>Pushes DEF TypeOK
      <3>3. FenceInv(d)'
        BY Zenon, <3>1, <1>NonePushed
      <3>4. QED BY Zenon, <2>1, <2>2, <2>3, <3>1, <3>2, <3>3 DEF TypeOK
    <2>4. CASE disp[d].flush_on_error
      <3> DEFINE x == Active(d) /\ ok
                 fences == FlushedFence(d, x)
      <3>1. x \in BOOLEAN
        BY Zenon DEF Active
      <3>2. /\ base' = FlushedBase(d, ok) /\ hw' = FlushedHw(d, x)
            /\ fence' = PushReleaseFence(d, fences, {}) /\ validated' = validated \ {d}
        BY Zenon, <2>4 DEF PostCommitFlush, Flush
      <3>3. fences = FlushedFence(d, x)
        BY Zenon
      <3> HIDE DEF x, fences
      <3>4. /\ base' \in [Displays -> BaseRecord]
            /\ \A e \in Displays \ {d} : base'[e] = base[e]
            /\ base'[d].state = base[d].state
        BY Zenon, <3>2, <1>FlushesBase
      <3>5. /\ hw' \in [Displays -> HwRecord]
            /\ \A e \in Displays \ {d} : hw'[e] = hw[e]
            /\ hw'[d].content \in {"blank", "unflushed"}
            /\ hw[d].content = "blank" => hw'[d].content = "blank"
        BY Zenon, <3>1, <3>2, FlushesHw
      <3>6. /\ fences \in [Layers -> FenceRecord]
            /\ \A l \in Layers : Owner[l] # d => fences[l] = fence[l]
            /\ \A l \in LayersOf(d) \ sf.bypassed : d \notin SwapIntervalZero =>
                  /\ Len(fences[l].queue) = 1
                  /\ Safe(Later(fences[l].held, fences[l].queue[1]), "none", hw'[d], l)
            /\ \A l \in Layers : Owner[l] = d /\ l \notin LayersOf(d) =>
                  hw'[d].front[l] = "none" /\ hw'[d].next[l] = "none"
        BY SMTT(30), <3>1, <3>2, <3>3, FlushesFences
      <3>7. /\ fence' \in [Layers -> FenceRecord]
            /\ \A l \in Layers \ LayersOf(d) : fence'[l] = fences[l]
        BY ZenonT(60), <3>2, <3>6, <1>Pushes
      <3>8. ASSUME NEW l \in LayersOf(d) \ sf.bypassed
            PROVE  Protected(d, l)'
        <4> SUFFICES ASSUME d \notin SwapIntervalZero PROVE Protected(d, l)'
          BY Zenon DEF Protected
        <4> QED BY SMTT(30), <3>2, <3>6, <1>PushProtects
      <3>9. FenceInv(d)'
        BY Zenon, <3>6, <3>8 DEF FenceInv
      <3>10. QED BY SMTT(30), <2>1, <2>2, <2>4, <3>2, <3>4, <3>5, <3>6, <3>7, <3>9 DEF TypeOK
    <2>5. QED BY Zenon, <2>3, <2>4
  (* A frame is flushed: the one Validate marked, or one the driver refused. *)
  <1>PresentFlushes.
    ASSUME IInv, NEW d \in Displays, NEW ok \in BOOLEAN, PresentFlush(d, ok) \/ PresentFails(d, ok)
    PROVE  IInv'
    <2> USE <1>PresentFlushes
    <2>1. TypeOK /\ DisplayInv(d)
      BY Zenon DEF IInv
    <2>2. /\ sf.at[d] # "presented" /\ sf' = Presented(d, "presented", FALSE) /\ ~Bypasses(d)
          /\ PostCommitFlush(d, ok)
      BY Zenon DEF PresentFlush, PresentFails, CommitsFrame, CommitsStack, Commits, Presents
    <2>3. /\ disp' \in [Displays -> DispRecord]
          /\ \A e \in Displays \ {d} : disp'[e] = disp[e]
          /\ disp'[d].layer_set = disp[d].layer_set /\ disp'[d].changes = disp[d].changes
          /\ disp'[d].secure = disp[d].secure /\ disp'[d].skip_prepare = disp[d].skip_prepare
          /\ disp'[d].paused = disp[d].paused /\ disp'[d].shutdown = disp[d].shutdown
          /\ disp'[d].bypass = disp[d].bypass
          /\ ~disp'[d].flush /\ ~disp'[d].flush_on_error
          /\ disp'[d].skip_validate \/ PresentFlush(d, ok)
      <3>1. CASE PresentFlush(d, ok)
        <4> DEFINE r == [disp[d] EXCEPT !.flush = FALSE, !.flush_on_error = FALSE]
        <4>1. disp' = [disp EXCEPT ![d] = r]
          BY Zenon, <2>1, <3>1 DEF PresentFlush, TypeOK, DispRecord
        <4>2. /\ r \in DispRecord /\ r.layer_set = disp[d].layer_set
              /\ r.changes = disp[d].changes /\ ~r.flush /\ ~r.flush_on_error
              /\ r.secure = disp[d].secure /\ r.skip_prepare = disp[d].skip_prepare
              /\ r.paused = disp[d].paused /\ r.shutdown = disp[d].shutdown
              /\ r.bypass = disp[d].bypass
          <5>1. disp[d] \in DispRecord
            BY Zenon, <2>1 DEF TypeOK
          <5>2. r \in DispRecord
            BY ZenonT(60), <5>1 DEF DispRecord
          <5>3. QED BY ZenonT(60), <5>1, <5>2 DEF DispRecord
        <4> HIDE DEF r
        <4>3. /\ disp' \in [Displays -> DispRecord] /\ disp'[d] = r
              /\ \A e \in Displays \ {d} : disp'[e] = disp[e]
          BY Zenon, <2>1, <4>1, <4>2, DispSet DEF TypeOK
        <4>4. QED BY Zenon, <3>1, <4>2, <4>3
      <3>2. CASE PresentFails(d, ok)
        <4> DEFINE r == [disp[d] EXCEPT !.skip_validate = TRUE, !.flush_on_error = FALSE]
        <4>1. disp' = [disp EXCEPT ![d] = r] /\ ~disp[d].flush
          BY Zenon, <2>1, <3>2 DEF PresentFails, TypeOK, DispRecord, CommitsFrame, CommitsStack, Commits
        <4>2. /\ r \in DispRecord /\ r.layer_set = disp[d].layer_set
              /\ r.changes = disp[d].changes /\ r.flush = disp[d].flush /\ ~r.flush_on_error
              /\ r.secure = disp[d].secure /\ r.skip_prepare = disp[d].skip_prepare
              /\ r.paused = disp[d].paused /\ r.shutdown = disp[d].shutdown
              /\ r.bypass = disp[d].bypass /\ r.skip_validate
          BY ZenonT(60), <2>1 DEF TypeOK, DispRecord
        <4> HIDE DEF r
        <4>3. /\ disp' \in [Displays -> DispRecord] /\ disp'[d] = r
              /\ \A e \in Displays \ {d} : disp'[e] = disp[e]
          BY Zenon, <2>1, <4>1, <4>2, DispSet DEF TypeOK
        <4>4. QED BY Zenon, <4>1, <4>2, <4>3
      <3>3. QED BY Zenon, <3>1, <3>2
    <2>4. /\ sf' \in SfRecord
          /\ sf'.at = [sf.at EXCEPT ![d] = "presented"] /\ sf'.type = sf.type
          /\ sf'.latched = sf.latched /\ sf'.bypassed = sf.bypassed
          /\ \A l \in Layers \ LayersOf(d) : sf'.sync[l] = sf.sync[l]
          /\ \A l \in LayersOf(d) : sf'.sync[l] # "fresh"
      BY ZenonT(60), <2>1, <2>2, <1>PresentedRecord
    <2>5. sf'.at[d] = "presented" /\ \A e \in Displays \ {d} : sf'.at[e] = sf.at[e]
      BY ZenonT(60), <2>1, <2>4 DEF TypeOK, SfRecord
    <2>6. LayersOf(d)' = LayersOf(d) /\ ~Bypasses(d)'
      BY Zenon, <2>2, <2>3 DEF LayersOf, Bypasses
    <2>7. /\ layer' \in [Layers -> LayerRecord] /\ LayersElsewhere(d)
          /\ \A l \in LayersOf(d) :
                  /\ layer'[l].req = layer[l].req /\ layer'[l].dev = layer[l].dev
                  /\ layer'[l].sdm = layer[l].sdm /\ layer'[l].secure = layer[l].secure
                  /\ layer'[l].needs_validate = layer[l].needs_validate
          /\ base' \in [Displays -> BaseRecord] /\ hw' \in [Displays -> HwRecord]
          /\ \A e \in Displays \ {d} :
                  base'[e] = base[e] /\ hw'[e] = hw[e] /\ (e \in validated' <=> e \in validated)
          /\ validated' \subseteq Displays
          /\ IF disp[d].flush_on_error
             THEN d \notin validated' /\ hw'[d].content \in {"blank", "unflushed"}
             ELSE UNCHANGED <<base, hw, validated>>
          /\ base'[d].state = base[d].state
          /\ hw[d].content = "blank" => hw'[d].content = "blank"
          /\ fence' \in [Layers -> FenceRecord]
          /\ \A l \in Layers : Owner[l] # d => fence'[l] = fence[l]
          /\ FenceInv(d)'
      BY Zenon, <2>1, <2>2, <2>4, <2>5, <2>6, <1>PostCommitFlushes
    <2>8. TypeOK'
      BY Zenon, <2>3, <2>4, <2>7 DEF TypeOK
    <2>9. Elsewhere(d)
      <3>1. \A l \in Layers : Owner[l] # d => l \notin LayersOf(d)
        BY Zenon, <2>1, Mine
      <3>2. QED BY ZenonT(60), <2>1, <2>3, <2>4, <2>5, <2>7, <3>1, NothingElse
    <2>10. DisplayInv(d)'
      <3>1. OwnInv(d)' /\ FlushInv(d)'
        BY Zenon, <2>1, <2>3, <2>6 DEF DisplayInv, OwnInv, FlushInv
      <3>2. ScreenInv(d)'
        BY Zenon, <2>1, <2>3, <2>7 DEF DisplayInv, ScreenInv
      <3>3. Ready(d)' => ~disp[d].flush_on_error /\ Ready(d) /\ UNCHANGED <<base, hw, validated>>
        BY Zenon, <2>2, <2>3, <2>6, <2>7 DEF Ready
      <3>4. PreparedInv(d)'
        <4>1. SUFFICES ASSUME Ready(d)', ~disp[d].bypass
                       PROVE  PreparedInv(d)'
          BY Zenon, <2>3 DEF PreparedInv
        <4>2. PresentFails(d, ok)
          BY Zenon, <2>1, <3>3, <4>1 DEF DisplayInv, PreparedInv, PresentFlush
        <4>3. CommitsFrame(d) /\ PreparedInv(d)
          BY Zenon, <2>1, <4>2 DEF PresentFails, DisplayInv
        <4>4. SecureNow(d) = disp[d].secure
          BY Zenon, <2>1, <4>1, <4>3, CommitsAsPrepared
        <4>5. SecureNow(d)' = SecureNow(d)
          BY Zenon, <2>6, <2>7 DEF SecureNow
        <4>6. disp'[d].skip_validate
          BY Zenon, <2>3, <4>2, <4>3 DEF PresentFlush, CommitsFrame, CommitsStack, Commits
        <4>7. QED
          BY SMTT(30), <2>3, <2>5, <2>6, <2>7, <3>3, <4>1, <4>3, <4>4, <4>5, <4>6 DEF PreparedInv
      <3>5. ComposedInv(d)'
        BY Zenon, <2>1, <2>3, <2>6, <2>7, <3>3 DEF DisplayInv, ComposedInv
      <3>6. AcquireInv(d)'
        BY Zenon, <2>1, <2>4, <2>6, <1>PresentAcquires
      <3>7. QED BY Zenon, <2>7, <3>1, <3>2, <3>4, <3>5, <3>6 DEF DisplayInv
    <2>11. QED BY Zenon, <2>8, <2>9, <2>10, OneDisplay
  <1> QED BY Zenon, <1>PresentBypassed, <1>PresentFlushes, <1>PresentRefused, <1>PresentSubmitsNothing,
             <1>PresentCommits, <1>PresentShutsDown DEF Present

-----------------------------------------------------------------------------
(* The invariant.                                                          *)

(* It holds when the displays are created. *)
LEMMA Initially ==
    ASSUME Init
    PROVE  IInv
  <1>1. TypeOK
    <2>1. NewLayer \in LayerRecord /\ NewFences \in FenceRecord /\ Blank \in Frames
      BY SMTT(30) DEF NewLayer, LayerRecord, CompositionTypes, NewFences, FenceRecord, Fences, Blank, Frames
    <2>2. disp \in [Displays -> DispRecord] /\ base \in [Displays -> BaseRecord]
      BY Zenon DEF Init, DispRecord, BaseRecord
    <2>3. hw \in [Displays -> HwRecord] /\ sf \in SfRecord
      BY Zenon, <2>1 DEF Init, HwRecord, SfRecord, CompositionTypes
    <2>4. QED BY Zenon, <2>1, <2>2, <2>3 DEF Init, TypeOK
  <1>2. ASSUME NEW d \in Displays
        PROVE  DisplayInv(d)
    <2>1. LayersOf(d) = {} /\ disp[d].changes = {} /\ ~disp[d].flush /\ ~Ready(d)
      BY Zenon DEF Init, LayersOf, Ready
    <2>2. /\ hw[d].content = "blank"
          /\ \A l \in Layers : hw[d].front[l] = "none" /\ hw[d].next[l] = "none"
          /\ \A l \in Layers : sf.sync[l] = "done"
      BY Zenon DEF Init, Blank
    <2>3. QED BY Zenon, <2>1, <2>2 DEF DisplayInv, OwnInv, FlushInv, PreparedInv, ComposedInv,
                                ScreenInv, FenceInv, AcquireInv
  <1>3. QED BY Zenon, <1>1, <1>2 DEF IInv

(* Every step keeps it. *)
LEMMA Inductive ==
    ASSUME IInv, [Next]_vars
    PROVE  IInv'
  <1>1. ASSUME HandleEvent \/ UNCHANGED vars
        PROVE  IInv'
    BY Zenon, <1>1, NothingButBits DEF HandleEvent, vars
  <1>2. QED BY Zenon, <1>1, PowerKeeps, LayerCallsKeep, ValidateKeeps, PresentKeeps, AcceptsChanges,
               SetsClientTarget, GetsReleaseFences DEF Next

(* Queues of -1 only. *)
LEMMA NoneQueues ==
    ASSUME NEW s \in Seq(Fences), \A j \in DOMAIN s : s[j] = "none"
    PROVE  /\ \A i \in DOMAIN Append(s, "none") : Append(s, "none")[i] = "none"
           /\ s # <<>> => \A i \in DOMAIN Tail(s) : Tail(s)[i] = "none"
  <1>1. "none" \in Fences
    BY SMTT(30) DEF Fences
  <1>2. DOMAIN s = 1..Len(s) /\ DOMAIN Append(s, "none") = 1..(Len(s) + 1)
    BY SMTT(30), <1>1
  <1>3. \A i \in DOMAIN Append(s, "none") : Append(s, "none")[i] = "none"
    BY SMTT(30), <1>1, <1>2
  <1>4. ASSUME s # <<>>
        PROVE  \A i \in DOMAIN Tail(s) : Tail(s)[i] = "none"
    <2>1. Tail(s) \in Seq(Fences) /\ Len(Tail(s)) = Len(s) - 1
      BY SMTT(30), <1>4
    <2>2. DOMAIN Tail(s) = 1..(Len(s) - 1)
      BY SMTT(30), <2>1
    <2>3. QED BY SMTT(30), <1>2, <1>4, <2>1, <2>2
  <1>5. QED BY Zenon, <1>3, <1>4

(* On a display with swap_interval_zero_ only -1 is ever pushed. *)
LEMMA DiscardKept ==
    ASSUME IInv, DiscardInv, [Next]_vars
    PROVE  DiscardInv'
  <1> DEFINE Drops(f) == \A l \in Layers : Owner[l] \in SwapIntervalZero =>
                            \A i \in DOMAIN f[l].queue : f[l].queue[i] = "none"
             Typed(f) == f \in [Layers -> FenceRecord]
  <1>1. TypeOK /\ Drops(fence) /\ Typed(fence)
    BY Zenon DEF IInv, TypeOK, DiscardInv, Discarded
  <1>2. ASSUME NEW d \in Displays
        PROVE  Drops(Replaced(d)) /\ Typed(Replaced(d))
    <2>1. Typed(Replaced(d))
      BY Zenon, <1>1, ReplacedFences
    <2>2. ASSUME NEW l \in Layers, Owner[l] \in SwapIntervalZero,
                 NEW i \in DOMAIN Replaced(d)[l].queue
          PROVE  Replaced(d)[l].queue[i] = "none"
      <3>1. CASE Owner[l] = d
        <4>1. Replaced(d)[l].queue = [j \in DOMAIN fence[l].queue |-> Aged(fence[l].queue[j])]
          BY Zenon, <3>1 DEF Replaced
        <4>2. i \in DOMAIN fence[l].queue /\ Replaced(d)[l].queue[i] = Aged(fence[l].queue[i])
          BY Zenon, <4>1
        <4>3. fence[l].queue[i] = "none"
          BY Zenon, <1>1, <2>2, <4>2
        <4>4. QED BY SMTT(30), <4>2, <4>3 DEF Aged
      <3>2. CASE Owner[l] # d
        BY Zenon, <1>1, <2>2, <3>2 DEF Replaced
      <3>3. QED BY Zenon, <3>1, <3>2
    <2>3. QED BY Zenon, <2>1, <2>2
  <1>3. ASSUME NEW d \in Displays, NEW done
        PROVE  Drops(FlushedFence(d, done)) /\ Typed(FlushedFence(d, done))
    BY Zenon, <1>1, <1>2 DEF FlushedFence
  <1>4. ASSUME NEW d \in Displays, NEW fences, Drops(fences), Typed(fences)
        PROVE  Drops(PushReleaseFence(d, fences, {}))
    <2>1. ASSUME NEW l \in Layers, Owner[l] \in SwapIntervalZero,
                 NEW i \in DOMAIN PushReleaseFence(d, fences, {})[l].queue
          PROVE  PushReleaseFence(d, fences, {})[l].queue[i] = "none"
      <3>1. fences[l] \in FenceRecord /\ fences[l].queue \in Seq(Fences)
        BY Zenon, <1>4 DEF FenceRecord
      <3>2. \A j \in DOMAIN fences[l].queue : fences[l].queue[j] = "none"
        BY Zenon, <1>4, <2>1
      <3>3. \/ PushReleaseFence(d, fences, {})[l] = fences[l]
            \/ PushReleaseFence(d, fences, {})[l] =
                 [fences[l] EXCEPT !.queue = Append(fences[l].queue, "none")]
        BY Zenon, <3>1 DEF PushReleaseFence, FenceRecord
      <3>4. \/ PushReleaseFence(d, fences, {})[l].queue = fences[l].queue
            \/ PushReleaseFence(d, fences, {})[l].queue = Append(fences[l].queue, "none")
        BY Zenon, <3>1, <3>3 DEF FenceRecord
      <3>5. QED BY Zenon, <2>1, <3>1, <3>2, <3>4, NoneQueues
    <2>2. QED BY Zenon, <2>1
  (* A display without it deals with no layer of one that has it. *)
  <1>5. ASSUME NEW d \in Displays, NEW fences, Drops(fences), NEW shown
        PROVE  Drops(FrameFences(d, fences, shown))
    <2>1. CASE d \in SwapIntervalZero
      BY Zenon, <1>5, <2>1 DEF FrameFences
    <2>2. CASE d \notin SwapIntervalZero
      <3>1. \A l \in LayersOf(d) : Owner[l] = d
        BY Zenon DEF IInv, DisplayInv, OwnInv
      <3>2. \A l \in Layers : Owner[l] \in SwapIntervalZero =>
               FrameFences(d, fences, shown)[l] = fences[l]
        BY Zenon, <2>2, <3>1 DEF FrameFences, PushReleaseFence
      <3>3. QED BY Zenon, <1>5, <3>2
    <2>3. QED BY Zenon, <2>1, <2>2
  <1>6. ASSUME NEW d \in Displays, GetReleaseFences(d)
        PROVE  Drops(fence')
    <2>1. ASSUME NEW l \in Layers, Owner[l] \in SwapIntervalZero, NEW i \in DOMAIN fence'[l].queue
          PROVE  fence'[l].queue[i] = "none"
      <3>1. fence[l].queue \in Seq(Fences)
        BY Zenon, <1>1 DEF FenceRecord
      <3>2. \A j \in DOMAIN fence[l].queue : fence[l].queue[j] = "none"
        BY Zenon, <1>1, <2>1
      <3>3. \/ fence'[l].queue = fence[l].queue
            \/ fence[l].queue = <<>> /\ fence'[l].queue = <<>>
            \/ fence[l].queue # <<>> /\ fence'[l].queue = Tail(fence[l].queue)
        BY Zenon, <1>6 DEF GetReleaseFences
      <3>4. QED BY Zenon, <2>1, <3>1, <3>2, <3>3, NoneQueues
    <2>2. QED BY Zenon, <2>1
  <1>7. ASSUME NEW d \in Displays
        PROVE  Drops(Signalled(d))
    BY Zenon, <1>1 DEF Signalled
  <1>8. ASSUME NEW l \in Layers, fence' = [fence EXCEPT ![l] = NewFences]
        PROVE  Drops(fence')
    <2>1. NewFences.queue = <<"none">>
      BY Zenon DEF NewFences
    <2>2. \A i \in DOMAIN NewFences.queue : NewFences.queue[i] = "none"
      BY SMTT(30), <2>1
    <2>3. QED BY Zenon, <1>1, <1>8, <2>2
  <1>9. Drops(fence) /\ Typed(fence)
    BY Zenon, <1>1
  <1> HIDE DEF Drops, Typed
  <1>10. ASSUME NEW d \in Displays, Present(d)
         PROVE  Drops(fence')
    <2>1. ASSUME NEW ok, PostCommitFlush(d, ok)
          PROVE  Drops(fence')
      BY Zenon, <1>3, <1>4, <1>9, <2>1 DEF PostCommitFlush
    <2>2. ASSUME NEW shown, PresentCommit(d, shown)
          PROVE  Drops(fence')
      BY Zenon, <1>2, <1>5, <2>2 DEF PresentCommit
    <2>3. ASSUME NEW ok, PresentBypass(d, ok)
          PROVE  Drops(fence')
      BY Zenon, <1>3, <1>9, <2>3 DEF PresentBypass
    <2>4. ASSUME PresentNothing(d) \/ PresentInactive(d)
          PROVE  Drops(fence')
      <3>1. fence' = FrameFences(d, fence, {})
        BY Zenon, <2>4 DEF PresentNothing, PresentInactive, PostCommitLayerStack
      <3>2. Drops(FrameFences(d, fence, {}))
        BY Zenon, <1>5, <1>9
      <3>3. QED BY Zenon, <3>1, <3>2
    <2>5. ASSUME NEW ok, PresentFlush(d, ok) \/ PresentFails(d, ok)
          PROVE  Drops(fence')
      BY Zenon, <2>1, <2>5 DEF PresentFlush, PresentFails
    <2>6. ASSUME PresentNotValidated(d) \/ PresentNotPrepared(d) \/ PresentShutdown(d)
          PROVE  Drops(fence')
      BY Zenon, <1>9, <2>6 DEF PresentNotValidated, PresentNotPrepared, PresentShutdown
    <2>7. QED BY Zenon, <1>10, <2>2, <2>3, <2>4, <2>5, <2>6 DEF Present
  <1>11. ASSUME NEW d \in Displays, Validate(d)
         PROVE  Drops(fence')
    <2>1. UNCHANGED fence \/ \E ok \in BOOLEAN : Builds(d, ok)
      BY Zenon, <1>11 DEF Validate, ValidateBypass, ValidateEmpty, ValidateShutdown,
             ValidateSkipPrepare, ValidateInactive, ValidatePrepared, ValidateFails, Prepares
    <2>2. QED BY Zenon, <1>3, <1>9, <2>1 DEF Builds
  <1>12. ASSUME NEW d \in Displays, LayerCalls(d)
         PROVE  Drops(fence')
    BY Zenon, <1>8, <1>9, <1>12 DEF LayerCalls, CreateLayer, DestroyLayer, SetLayerBuffer,
           SetLayerGeometry, SetLayerSurfaceDamage, SetLayerCompositionType
  <1>13. ASSUME NEW d \in Displays, NEW r, NEW f, PowerOff(d, r, f)
         PROVE  Drops(fence')
    BY Zenon, <1>3, <1>7, <1>13 DEF PowerOff
  <1>14. Drops(fence')
    BY Zenon, <1>6, <1>9, <1>10, <1>11, <1>12, <1>13 DEF Next, AcceptDisplayChanges, SetClientTarget,
           SetPowerMode, ToggleScreenUpdates, HandleEvent, vars
  <1>15. QED BY Zenon, <1>14 DEF Drops, DiscardInv, Discarded

(* IInv holds in every state of the frame protocol. *)
THEOREM Invariance == Spec => []IInv
  BY Initially, Inductive, PTL DEF Spec

(* So does DiscardInv: no fence of the driver is in a queue of a display   *)
(* with swap_interval_zero_.                                               *)
THEOREM DiscardInvariance == Spec => []DiscardInv
  <1>1. Init => DiscardInv
    <2>1. NewFences.queue = <<"none">>
      BY Zenon DEF NewFences
    <2>2. \A i \in DOMAIN NewFences.queue : NewFences.queue[i] = "none"
      BY SMTT(30), <2>1
    <2>3. QED BY Zenon, <2>2 DEF Init, DiscardInv, Discarded
  <1>2. IInv /\ DiscardInv /\ [Next]_vars => DiscardInv'
    BY Zenon, DiscardKept
  <1>3. QED BY <1>1, <1>2, Invariance, PTL DEF Spec

-----------------------------------------------------------------------------
(* What follows from it.                                                   *)

(* Between two frames every layer that no bypassed present has skipped has *)
(* one release fence left to hand out, however the frames before it ended: *)
(* PostCommitLayerStack pushes one per present and getReleaseFences takes  *)
(* one.  On a display with swap_interval_zero_ it has none of the driver's *)
(* fences.                                                                 *)
THEOREM FencesCirculateHolds == Spec => []FencesCirculate
  <1>1. ASSUME IInv, DiscardInv, NEW d \in Displays, Idle(d), NEW l \in LayersOf(d) \ sf.bypassed
        PROVE  IF d \in SwapIntervalZero THEN Discarded(l) ELSE Len(fence[l].queue) = 1
    <2>1. TypeOK /\ DisplayInv(d)
      BY Zenon, <1>1 DEF IInv
    <2>2. l \in Layers /\ Owner[l] = d
      BY Zenon, <2>1, Mine
    <2>3. d \notin SwapIntervalZero => Len(fence[l].queue) = 1
      BY Zenon, <1>1, <2>1 DEF DisplayInv, FenceInv, Protected, Idle
    <2>4. QED BY Zenon, <1>1, <2>2, <2>3 DEF DiscardInv
  <1>2. IInv /\ DiscardInv => FencesCirculate
    BY Zenon, <1>1 DEF FencesCirculate
  <1>3. QED BY <1>2, Invariance, DiscardInvariance, PTL

(* What DisplayBase commits was prepared since the stack was built, but    *)
(* for a frame marked for GPU bypass.                                      *)
THEOREM CommitsPreparedHolds == Spec => CommitsPrepared
  <1>1. ASSUME IInv, NEW d \in Displays, Committed(d)
        PROVE  base[d].prepared \/ disp[d].bypass
    <2>1. TypeOK /\ DisplayInv(d) /\ CommitsFrame(d)
      BY Zenon, <1>1 DEF IInv, Committed, PresentCommit
    <2>2. QED BY Zenon, <2>1, CommitsAsPrepared
  <1>2. IInv =>
         \A d \in Displays : Committed(d) => base[d].prepared \/ disp[d].bypass
    BY Zenon, <1>1
  <1>3. QED BY <1>2, Invariance, PTL DEF Spec, CommitsPrepared

(* Every layer of a committed frame has a pipe, or SurfaceFlinger drew it  *)
(* into the client target, which has one.                                  *)
THEOREM NothingMissingHolds == Spec => NothingMissing
  <1>1. ASSUME IInv, NEW d \in Displays, Committed(d), ~disp[d].bypass,
               NEW l \in LayersOf(d), sf.type[l] = layer[l].req
        PROVE  \/ l \in base[d].hw_layers
               \/ Target \in base[d].hw_layers /\ sf.type[l] = "Client"
    <2>1. TypeOK /\ DisplayInv(d) /\ CommitsFrame(d)
      BY Zenon, <1>1 DEF IInv, Committed, PresentCommit
    <2>2. QED BY Zenon, <1>1, <2>1, CommitsAsPrepared
  <1>2. IInv =>
         \A d \in Displays : Committed(d) /\ ~disp[d].bypass =>
           \A l \in {k \in LayersOf(d) : sf.type[k] = layer[k].req} :
              \/ l \in base[d].hw_layers
              \/ Target \in base[d].hw_layers /\ sf.type[l] = "Client"
    BY Zenon, <1>1
  <1>3. QED BY <1>2, Invariance, PTL DEF Spec, NothingMissing

(* The first commit of a buffer carries its acquire fence: only a present  *)
(* closes it, and a present that did not commit leaves no fresh buffer,    *)
(* but for the displays with swap_interval_zero_, where a validate does.   *)
THEOREM AcquireHonouredHolds == Spec => AcquireHonoured
  <1>1. ASSUME IInv, NEW d \in Displays \ SwapIntervalZero, NEW l \in LayersOf(d), sf.sync[l] = "fresh"
        PROVE  layer[l].acquire = "open"
    <2>1. TypeOK /\ DisplayInv(d)
      BY Zenon, <1>1 DEF IInv
    <2>2. QED BY Zenon, <1>1, <2>1, Mine DEF DisplayInv, AcquireInv
  <1>2. IInv =>
         \A d \in Displays \ SwapIntervalZero : Committed(d) =>
           \A l \in {k \in LayersOf(d) : hw'[d].next[k] = "cur"} :
              sf.sync[l] = "fresh" => layer[l].acquire = "open"
    BY Zenon, <1>1
  <1>3. QED BY <1>2, Invariance, PTL DEF Spec, AcquireHonoured

(* The fence a buffer goes back with does not signal while the panel may   *)
(* still show the buffer: the fences GetReleaseFences pops and holds are   *)
(* those of the frames the buffer was in.  Where swap_interval_zero_ is    *)
(* set none is handed out.                                                 *)
THEOREM NoEarlyReleaseHolds == Spec => NoEarlyRelease
  <1>1. ASSUME IInv, NEW d \in Displays \ SwapIntervalZero, GetReleaseFences(d),
               NEW l \in (LayersOf(d) \cap sf.latched) \ sf.bypassed
        PROVE  LET given == Later(fence[l].held, PopReleaseFence(l)) IN
               /\ hw[d].next[l] = "prev" => given = "next"
               /\ hw[d].front[l] = "prev" => given # "none"
    <2>1. TypeOK /\ DisplayInv(d) /\ sf.at[d] = "presented"
      BY Zenon, <1>1 DEF IInv, GetReleaseFences
    <2>2. l \in Layers /\ Len(fence[l].queue) = 2 /\ Covers(Owed(l), hw[d], l, "prev")
      BY Zenon, <2>1, Mine DEF DisplayInv, FenceInv, Protected, Safe
    <2>3. fence[l].queue \in Seq(Fences)
      BY Zenon, <2>1, <2>2 DEF TypeOK, FenceRecord
    <2>4. PopReleaseFence(l) = fence[l].queue[1]
      BY SMTT(30), <2>2, <2>3 DEF PopReleaseFence
    <2>5. QED BY Zenon, <2>2, <2>4 DEF Owed, Covers
  <1>2. IInv =>
         \A d \in Displays \ SwapIntervalZero : GetReleaseFences(d) =>
           \A l \in (LayersOf(d) \cap sf.latched) \ sf.bypassed :
              LET given == Later(fence[l].held, PopReleaseFence(l)) IN
                /\ hw[d].next[l] = "prev" => given = "next"
                /\ hw[d].front[l] = "prev" => given # "none"
    BY Zenon, <1>1
  <1>3. QED BY <1>2, Invariance, PTL DEF Spec, NoEarlyRelease

(* Secure and other content never follow each other on a video-mode panel  *)
(* without a flush, and the external display never shows secure content.   *)
THEOREM SecureFlushedHolds == Spec => SecureFlushed
  <1>1. ASSUME IInv, NEW d \in Displays, Committed(d)
        PROVE  /\ d = "primary" /\ ~CmdMode =>
                    {hw[d].content, hw'[d].content} # {"plain", "secure"}
               /\ d = "external" => hw'[d].content # "secure"
    <2>1. TypeOK /\ DisplayInv(d) /\ CommitsFrame(d) /\ ~Bypasses(d) /\ ~disp[d].flush
      BY Zenon, <1>1 DEF IInv, Committed, PresentCommit, CommitsFrame, CommitsStack, Commits
    <2>2. hw'[d].content = IF disp[d].bypass THEN "unprepared"
                           ELSE IF SecureNow(d) THEN "secure" ELSE "plain"
      BY SMTT(30), <1>1, <2>1 DEF Committed, PresentCommit, Queued, TypeOK
    <2>3. CASE disp[d].bypass
      BY Zenon, <2>2, <2>3
    <2>4. CASE ~disp[d].bypass
      <3>1. SecureNow(d) = disp[d].secure /\ ~disp[d].skip_prepare
        BY Zenon, <2>1, <2>4, CommitsAsPrepared
      <3>2. disp[d].secure \in BOOLEAN
        BY Zenon, <2>1 DEF TypeOK, DispRecord
      <3>3. d = "external" => ~disp[d].secure
        BY Zenon, <2>1 DEF Bypasses
      <3>4. d = "primary" /\ ~CmdMode =>
               hw[d].content # IF disp[d].secure THEN "plain" ELSE "secure"
        BY Zenon, <2>1, <3>1 DEF DisplayInv, ScreenInv
      <3>5. QED BY Zenon, <2>2, <2>4, <3>1, <3>2, <3>3, <3>4
    <2>5. QED BY Zenon, <2>3, <2>4
  <1>2. IInv =>
         \A d \in Displays : Committed(d) =>
           /\ d = "primary" /\ ~CmdMode =>
                {hw[d].content, hw'[d].content} # {"plain", "secure"}
           /\ d = "external" => hw'[d].content # "secure"
    BY Zenon, <1>1
  <1>3. QED BY <1>2, Invariance, PTL DEF Spec, SecureFlushed
=============================================================================
