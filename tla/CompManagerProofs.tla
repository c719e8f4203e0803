------------------------- MODULE CompManagerProofs -------------------------
(***************************************************************************)
(* Proofs about CompManager, for every list of pipes and all scopes.  The  *)
(* inductive invariant is a conjunction of one formula per concern (IInv   *)
(* in CompManager); each is shown to be preserved in a lemma of its own.   *)
(***************************************************************************)
EXTENDS CompManager, WellFoundedInduction, TLAPS

-----------------------------------------------------------------------------
(* The resource manager.                                                   *)

\* The least element that GetPipe picks is one of the set's.
LEMMA MinIsMember ==
    ASSUME NEW S \in SUBSET Nat, S # {}
    PROVE  Min(S) \in S
<1>. DEFINE R == {ss \in Nat \X Nat : ss[1] < ss[2]}
<1>1. IsWellFoundedOn(R, Nat)
    BY Zenon, NatLessThanWellFounded DEF OpToRel
<1>2. PICK x \in S : \A y \in S : <<y, x>> \notin R
    <2>. HIDE DEF R
    <2>. QED  BY Zenon, <1>1, WFMin
<1>3. ASSUME NEW y \in S PROVE x =< y
    <2>1. <<y, x>> \notin R
        BY Zenon, <1>2
    <2>2. ~(y < x)
        BY Zenon, <2>1
    <2>. QED  BY SMTT(30), <2>2
<1>. QED  BY Zenon, <1>3 DEF Min

\* GetPipe finds pipes that no display has.
LEMMA GetPipeFree ==
    ASSUME NEW pipes, NEW need_scale \in BOOLEAN
    PROVE  GetPipe(pipes, need_scale) \subseteq Reserved(pipes, NoBlock)
<1>. DEFINE order == PipeOrder(need_scale)
            found == {k \in DOMAIN order : SearchPipe(pipes, order[k]) # {}}
<1>1. DOMAIN order \subseteq Nat
    BY SMTT(30) DEF PipeOrder
<1>2. CASE found = {}
    BY Zenon, <1>2 DEF GetPipe
<1>3. CASE found # {}
    <2>. DEFINE free == SearchPipe(pipes, order[Min(found)])
    <2>1. Min(found) \in found
        BY Zenon, <1>1, <1>3, MinIsMember
    <2>2. free # {} /\ free \subseteq Reserved(pipes, NoBlock)
        BY Zenon, <2>1 DEF SearchPipe
    <2>3. free \subseteq Nat
        BY SMTT(30), <2>2 DEF Reserved, Pipes
    <2>4. Min(free) \in free
        BY Zenon, <2>2, <2>3, MinIsMember
    <2>5. GetPipe(pipes, need_scale) = {Min(free)}
        BY Zenon, <1>3 DEF GetPipe
    <2>. QED  BY Zenon, <2>2, <2>4, <2>5
<1>. QED  BY Zenon, <1>2, <1>3

\* What an operation on display d's behalf leaves of a table: the pipes it says it gave to
\* d are d's, d loses none, and the other displays keep theirs.
Takes(pipes, d, o) ==
    /\ o.pipes \in PipeTable
    /\ o.config \subseteq Reserved(o.pipes, d)
    /\ Reserved(pipes, d) \subseteq Reserved(o.pipes, d)
    /\ \A e \in Displays \ {d} : Reserved(o.pipes, e) = Reserved(pipes, e)

\* A half frame takes its pipe from the free ones.
LEMMA HalfFrameTakes ==
    ASSUME NEW pipes \in PipeTable, NEW d \in Displays, NEW need_scale \in BOOLEAN,
           NEW o \in HalfFrame(pipes, d, need_scale)
    PROVE  Takes(pipes, d, o)
<1>. DEFINE pipe == GetPipe(pipes, need_scale)
            taken == [i \in Pipes |-> IF i \in pipe THEN [pipes[i] EXCEPT !.hw_block_id = d] ELSE pipes[i]]
<1>1. pipe \subseteq Reserved(pipes, NoBlock)
    BY Zenon, GetPipeFree
<1>2. taken \in PipeTable
    BY Zenon DEF PipeTable
<1>3. Reserved(taken, d) = Reserved(pipes, d) \cup pipe
    BY Zenon, <1>1 DEF PipeTable, Reserved
<1>4. \A e \in Displays \ {d} : Reserved(taken, e) = Reserved(pipes, e)
    BY Zenon, <1>1 DEF PipeTable, Reserved, Displays, NoBlock
<1>5. \/ o.pipes = pipes /\ o.config = {}
      \/ o.pipes = taken /\ o.config \subseteq pipe
    BY SMTT(30) DEF HalfFrame, Outcome
<1>. QED  BY Zenon, <1>2, <1>3, <1>4, <1>5 DEF Takes

\* Releasing the pipes of a display leaves it none, and the others theirs.
LEMMA ReleaseFrees ==
    ASSUME NEW pipes \in PipeTable, NEW d \in Displays
    PROVE  /\ Release(pipes, d) \in PipeTable
           /\ \A e \in Displays \ {d} : Reserved(Release(pipes, d), e) = Reserved(pipes, e)
BY Zenon DEF Release, PipeTable, Reserved, Displays, NoBlock

\* Whatever Prepare comes to, the pipes of the frame are the display's, and the
\* other display keeps its own.
LEMMA PrepareTakes ==
    ASSUME src_pipes_ \in PipeTable, NEW d \in Displays, NEW config \in Configs,
           NEW o \in ResourcePrepare(d, config)
    PROVE  /\ o.pipes \in PipeTable
           /\ o.config \subseteq Reserved(o.pipes, d)
           /\ \A e \in Displays \ {d} : Reserved(o.pipes, e) = Reserved(src_pipes_, e)
<1>. DEFINE released == Release(src_pipes_, d)
            left == HalfFrame(released, d, config[1])
            both(l) == {Outcome(r.ok, r.pipes, l.config \cup r.config) : r \in HalfFrame(l.pipes, d, config[2])}
<1>1. CASE config = <<>>
    BY SMTT(30), <1>1 DEF ResourcePrepare, Outcome
<1>2. CASE config # <<>>
    <2>1. released \in PipeTable /\ \A e \in Displays \ {d} : Reserved(released, e) = Reserved(src_pipes_, e)
        BY Zenon, ReleaseFrees
    <2>2. config[1] \in BOOLEAN
        BY SMTT(30), <1>2 DEF Configs
    <2>3. \A l \in left : Takes(released, d, l)
        BY Zenon, <2>1, <2>2, HalfFrameTakes
    <2>4. CASE o \in left
        BY Zenon, <2>1, <2>3, <2>4 DEF Takes
    <2>5. CASE Len(config) # 1 /\ \E l \in left : o \in both(l)
        <3>1. PICK l \in left : o \in both(l)
            BY Zenon, <2>5
        <3>2. PICK r \in HalfFrame(l.pipes, d, config[2]) : o = Outcome(r.ok, r.pipes, l.config \cup r.config)
            BY Zenon, <3>1
        <3>3. Takes(released, d, l)
            BY Zenon, <2>3
        <3>4. config[2] \in BOOLEAN
            BY SMTT(30), <1>2, <2>5 DEF Configs
        <3>5. Takes(l.pipes, d, r)
            BY SMTT(30), <3>3, <3>4, HalfFrameTakes DEF Takes
        <3>6. o.pipes = r.pipes /\ o.config = l.config \cup r.config
            BY Zenon, <3>2 DEF Outcome
        <3>. QED  BY Zenon, <2>1, <3>3, <3>5, <3>6 DEF Takes
    <2>6. CASE Len(config) = 1
        BY Zenon, <1>2, <2>4, <2>6 DEF ResourcePrepare
    <2>7. CASE Len(config) # 1
        <3>1. o \in UNION {IF l.ok THEN both(l) ELSE {l} : l \in left}
            BY Zenon, <1>2, <2>7 DEF ResourcePrepare
        <3>2. PICK l \in left : o \in (IF l.ok THEN both(l) ELSE {l})
            BY Zenon, <3>1
        <3>3. o \in both(l) \/ o = l
            BY Zenon, <3>2
        <3>. QED  BY Zenon, <2>4, <2>5, <2>7, <3>3
    <2>. QED  BY Zenon, <2>6, <2>7
<1>. QED  BY Zenon, <1>1, <1>2

-----------------------------------------------------------------------------
(* The inductive invariant.                                                *)

\* Where a call leaves SurfaceFlinger's thread.
LEMMA AtType ==
    ASSUME NEW place \in Places \ {"attempt"}, NEW d \in registered_displays_, CallsInv,
           sf' = At(place, d), UNCHANGED <<compVars, scope>>, validated' \subseteq Displays
    PROVE  CallsInv'
BY Zenon DEF At, Threads, CallsInv, compVars, Displays

\* A call that returns.
LEMMA RestType ==
    ASSUME CallsInv, Returns, UNCHANGED <<compVars, scope>>, validated' \subseteq Displays
    PROVE  CallsInv'
BY Zenon, AtType DEF Returns, AtRest, Places, CallsInv, Displays

\* A call that is about to write the bits.
LEMMA WritesType ==
    ASSUME CallsInv, NEW d \in registered_displays_, NEW bits \in SUBSET Displays, Writes(d, bits),
           UNCHANGED <<compVars, scope, validated>>
    PROVE  CallsInv' /\ sf'.at = "bits" /\ sf'.bits = bits
BY SMTT(30) DEF Writes, CallsInv, Threads, Places, compVars, Displays

\* SurfaceFlinger's thread stays on a registered display; the uevent thread waits for it.
LEMMA CallsStep ==
    ASSUME CallsInv, Next
    PROVE  CallsInv'
<1>0. UNCHANGED scope
    BY Zenon DEF Next, Proceeds
<1>1. CASE \E d \in Displays : PrePrepare(d)
    <2>1. PICK d \in Displays : PrePrepare(d)
        BY Zenon, <1>1
    <2>2. UNCHANGED <<compVars, scope, validated>>
        BY Zenon, <1>0, <2>1 DEF PrePrepare
    <2>3. CASE Returns
        BY Zenon, <2>2, <2>3, RestType DEF CallsInv
    <2>4. ASSUME NEW attempts \in 1..scope.attempts, NEW secure \in scope.secure,
                 sf' = [at |-> "prepare", on |-> d, max |-> attempts, left |-> attempts, bits |-> {},
                        secure |-> secure]
          PROVE  CallsInv'
        <3>. scope.attempts \in Nat /\ scope.secure \subseteq BOOLEAN
            BY Zenon, ScopeAssumption DEF CallsInv
        <3>1. attempts \in Nat /\ secure \in BOOLEAN
            BY SMTT(30)
        <3>2. d \in registered_displays_
            BY Zenon, <2>1 DEF PrePrepare, Known
        <3>. QED  BY Zenon, <2>2, <2>4, <3>1, <3>2 DEF CallsInv, Threads, Places, compVars
    <2>. QED  BY Zenon, <2>1, <2>3, <2>4 DEF PrePrepare
<1>2. CASE \E d \in Displays : CommitLayerStack(d)
    <2>1. PICK d \in Displays : CommitLayerStack(d)
        BY Zenon, <1>2
    <2>2. UNCHANGED <<compVars, scope, validated>> /\ d \in registered_displays_ /\ validated' \subseteq Displays
        BY Zenon, <1>0, <2>1 DEF CommitLayerStack, Known, CallsInv
    <2>3. CASE Writes(d, validated \ {d})
        BY Zenon, <2>2, <2>3, WritesType
    <2>4. CASE sf' = At("tested", d)
        BY Zenon, <2>2, <2>4, AtType DEF Places
    <2>. QED  BY Zenon, <2>1, <2>3, <2>4 DEF CommitLayerStack
<1>3. CASE \E d \in Displays : Flush(d)
    <2>1. PICK d \in Displays : Flush(d)
        BY Zenon, <1>3
    <2>2. UNCHANGED <<compVars, scope, validated>> /\ d \in registered_displays_ /\ validated \ {d} \subseteq Displays
        BY Zenon, <1>0, <2>1 DEF Flush, Known, CallsInv
    <2>3. Writes(d, validated \ {d})
        BY Zenon, <2>1 DEF Flush
    <2>. QED  BY Zenon, <2>2, <2>3, WritesType
<1>4. CASE \E d \in Displays, state \in scope.states : SetDisplayState(d, state)
    <2>1. PICK d \in Displays, state \in scope.states : SetDisplayState(d, state)
        BY Zenon, <1>4
    <2>2. UNCHANGED <<compVars, scope>> /\ d \in registered_displays_ /\ validated' \subseteq Displays
        BY Zenon, <1>0, <2>1 DEF SetDisplayState, PowerReturns, Known, CallsInv
    <2>3. \/ Returns
          \/ \E place \in {"purge", "count", "power"} : sf' = At(place, d)
        BY Zenon, <2>1 DEF SetDisplayState, PowerReturns
    <2>. QED  BY Zenon, <2>2, <2>3, AtType, RestType DEF Places
<1>5. CASE PrepareStrategyConstraints
    <2>1. UNCHANGED <<compVars, scope, validated>> /\ validated' \subseteq Displays
        BY Zenon, <1>0, <1>5 DEF PrepareStrategyConstraints, CallsInv
    <2>2. CASE Returns
        BY Zenon, <2>1, <2>2, RestType
    <2>3. CASE sf.left # 0 /\ Goes("attempt")
        BY SMTT(30), <2>1, <2>3 DEF Goes, CallsInv, Threads, Places, compVars
    <2>. QED  BY Zenon, <1>5, <2>2, <2>3 DEF PrepareStrategyConstraints
<1>6. CASE Attempt
    <2>1. UNCHANGED <<compVars, scope, validated>> /\ validated' \subseteq Displays
        BY Zenon, <1>0, <1>6 DEF Attempt, CallsInv
    <2>2. CASE Returns
        BY Zenon, <2>1, <2>2, RestType
    <2>3. ASSUME CountsOne("validate") \/ (sf.left > 1 /\ CountsOne("attempt"))
          PROVE  CallsInv'
        <3>1. sf.left - 1 \in Nat
            BY SMTT(30), <1>6 DEF Attempt, CallsInv, Threads
        <3>. QED  BY SMTT(30), <2>1, <2>3, <3>1 DEF CountsOne, CallsInv, Threads, Places, compVars
    <2>. QED  BY Zenon, <1>6, <2>2, <2>3 DEF Attempt
<1>7. CASE Validate
    <2>1. UNCHANGED <<compVars, scope, validated>> /\ validated' \subseteq Displays
        BY Zenon, <1>0, <1>7 DEF Validate, CallsInv
    <2>2. CASE Goes("prepare")
        BY Zenon, <2>1, <2>2 DEF Goes, CallsInv, Threads, Places, compVars
    <2>. QED  BY Zenon, <1>7, <2>1, <2>2, AtType, RestType DEF Validate, CallsInv, Places
<1>8. CASE SetValidated
    <2>1. UNCHANGED <<compVars, scope, validated>> /\ Writes(sf.on, validated \cup {sf.on})
        BY Zenon, <1>0, <1>8 DEF SetValidated
    <2>2. sf.on \in registered_displays_ /\ validated \cup {sf.on} \subseteq Displays
        BY Zenon DEF CallsInv, Threads
    <2>. QED  BY Zenon, <2>1, <2>2, WritesType
<1>9. CASE PostCommit
    BY Zenon, <1>0, <1>9 DEF PostCommit, Returns, AtRest, At, CallsInv, Threads, compVars, Places, Displays
<1>10. CASE PurgeOff
    BY Zenon, <1>0, <1>10 DEF PurgeOff, Goes, CallsInv, Threads, compVars, Places, Displays
<1>11. CASE ReadConfigured
    BY Zenon, <1>0, <1>11 DEF ReadConfigured, CallsInv, Threads, compVars, Places, Displays
<1>12. CASE ResetConfigured
    BY Zenon, <1>0, <1>12 DEF ResetConfigured, PowerReturns, Returns, AtRest, At, CallsInv, Threads, compVars, Places,
       Displays
<1>13. CASE CountRegistered
    BY Zenon, <1>0, <1>13 DEF CountRegistered, Goes, CallsInv, Threads, compVars, Places, Displays
<1>14. CASE SetSafeMode
    BY Zenon, <1>0, <1>14 DEF SetSafeMode, PowerReturns, Returns, AtRest, At, CallsInv, Threads, compVars, Places,
       Displays
<1>15. CASE OtherPowerState
    BY Zenon, <1>0, <1>15 DEF OtherPowerState, PowerReturns, Returns, AtRest, At, CallsInv, Threads, compVars, Places,
       Displays
<1>16. CASE RegisterDisplay
    BY Zenon, <1>0, <1>16 DEF RegisterDisplay, CallsInv, Threads, compVars, Places, Displays
<1>17. CASE UnregisterDisplay
    BY Zenon, <1>0, <1>17 DEF UnregisterDisplay, Known, CallsInv, Threads, compVars, Places, Displays
<1>18. CASE ProcessIdleTimeout
    BY Zenon, <1>0, <1>18 DEF ProcessIdleTimeout, CallsInv, Threads, compVars, Places, Displays
<1>19. CASE \E hot \in BOOLEAN : ThermalEvent(hot)
    BY Zenon, <1>0, <1>19 DEF ThermalEvent, CallsInv, Threads, compVars, Places, Displays
<1>20. CASE Commit
    <2>1. UNCHANGED <<compVars, scope, validated>> /\ sf.on \in registered_displays_ /\ validated' \subseteq Displays
        BY Zenon, <1>0, <1>20 DEF Commit, CallsInv
    <2>2. sf' = At("committed", sf.on) \/ Returns \/ Writes(sf.on, validated \ {sf.on})
        BY Zenon, <1>20 DEF Commit
    <2>. QED  BY Zenon, <2>1, <2>2, AtType, RestType, WritesType DEF Places
<1>21. CASE WriteBits
    <2>1. UNCHANGED <<compVars, scope>> /\ validated' \subseteq Displays /\ Returns
        BY Zenon, <1>0, <1>21 DEF WriteBits, CallsInv, Threads
    <2>. QED  BY Zenon, <2>1, RestType
<1>22. CASE DisplayCreated
    BY Zenon, <1>0, <1>22 DEF DisplayCreated, CallsInv, compVars
<1>. QED
    BY Zenon, <1>1, <1>2, <1>3, <1>4, <1>5, <1>6, <1>7, <1>8, <1>9, <1>10, <1>11, <1>12, <1>13, <1>14, <1>15, <1>16,
       <1>17, <1>18, <1>19, <1>20, <1>21, <1>22
    DEF Next, Proceeds, Calls, Preparing, Committing, Switching, Adding, Others

\* The secure flags follow the HDMI display's content.
LEMMA SecureStep ==
    ASSUME CallsInv, SecureInv, Next
    PROVE  SecureInv'
<1>1. CASE \E d \in Displays : PrePrepare(d)
    BY SMTT(30), <1>1 DEF PrePrepare, Returns, AtRest, At, CallsInv, Threads, SecureInv, Displays, compVars, secureVars,
       observers, primarySeen
<1>2. CASE \E d \in Displays : CommitLayerStack(d)
    BY SMTT(30), <1>2 DEF CommitLayerStack, Writes, At, CallsInv, Threads, SecureInv, Displays, compVars, secureVars, observers, primarySeen
<1>3. CASE \E d \in Displays : Flush(d)
    BY SMTT(30), <1>3 DEF Flush, Writes, CallsInv, Threads, SecureInv, Displays, compVars, secureVars, observers, primarySeen
<1>4. CASE \E d \in Displays, state \in scope.states : SetDisplayState(d, state)
    BY SMTT(30), <1>4 DEF SetDisplayState, At, PowerReturns, Returns, AtRest, CallsInv, Threads, SecureInv, Displays,
       compVars, secureVars, observers, primarySeen
<1>5. CASE PrepareStrategyConstraints
    <2>1. UNCHANGED registered_displays_
        BY Zenon, <1>5 DEF PrepareStrategyConstraints, compVars
    <2>2. CASE PrimaryConstraints
        BY Zenon, <2>1, <2>2 DEF PrimaryConstraints, SecureInv
    <2>3. CASE sf.on = "hdmi" /\ ExternalContent
        <3>1. registered_displays_' = Displays
            BY Zenon, <2>1, <2>3 DEF CallsInv, Displays
        <3>2. secure_external_layer_' = sf.secure /\ shown' = IF sf.secure THEN "secure" ELSE "clear"
            BY Zenon, <2>3 DEF ExternalContent
        <3>3. secure_external_layer_' \in BOOLEAN /\ secure_external_transition_' \in BOOLEAN
            BY Zenon, <2>3 DEF ExternalContent, CallsInv, Threads, SecureInv
        <3>4. (shown' = "clear" => ~secure_external_layer_') /\ (shown' = "secure" => secure_external_layer_')
            BY Zenon, <3>2
        <3>5. ASSUME owed' PROVE secure_external_layer_' /\ secure_external_transition_'
            <4>1. sf.secure /\ (owed \/ shown = "clear")
                BY Zenon, <2>3, <3>5 DEF ExternalContent
            <4>2. secure_external_transition_ \/ sf.secure # secure_external_layer_
                BY Zenon, <4>1 DEF SecureInv
            <4>. QED  BY Zenon, <2>3, <3>2, <4>1, <4>2 DEF ExternalContent
        <3>. QED  BY Zenon, <3>1, <3>3, <3>4, <3>5 DEF SecureInv
    <2>. QED  BY Zenon, <1>5, <2>2, <2>3 DEF PrepareStrategyConstraints
<1>6. CASE Attempt
    BY Zenon, <1>6 DEF Attempt, CountsOne, Returns, AtRest, At, CallsInv, Threads, SecureInv, Displays, compVars,
       secureVars, observers, primarySeen
<1>7. CASE Validate
    BY Zenon, <1>7 DEF Validate, Returns, AtRest, At, Goes, CallsInv, Threads, SecureInv, Displays, compVars,
       secureVars, observers, primarySeen
<1>8. CASE SetValidated
    BY Zenon, <1>8 DEF SetValidated, Writes, CallsInv, Threads, SecureInv, Displays, compVars, secureVars,
       observers, primarySeen
<1>9. CASE PostCommit
    BY Zenon, <1>9 DEF PostCommit, Returns, AtRest, At, CallsInv, Threads, SecureInv, Displays, compVars, secureVars,
       observers, primarySeen
<1>10. CASE PurgeOff
    BY Zenon, <1>10 DEF PurgeOff, Goes, CallsInv, Threads, SecureInv, Displays, compVars, secureVars, observers,
       primarySeen
<1>11. CASE ReadConfigured
    BY Zenon, <1>11 DEF ReadConfigured, CallsInv, Threads, SecureInv, Displays, compVars, secureVars, observers,
       primarySeen
<1>12. CASE ResetConfigured
    BY Zenon, <1>12 DEF ResetConfigured, PowerReturns, Returns, AtRest, At, CallsInv, Threads, SecureInv, Displays,
       compVars, secureVars, observers, primarySeen
<1>13. CASE CountRegistered
    BY Zenon, <1>13 DEF CountRegistered, Goes, CallsInv, Threads, SecureInv, Displays, compVars, secureVars, observers,
       primarySeen
<1>14. CASE SetSafeMode
    BY Zenon, <1>14 DEF SetSafeMode, PowerReturns, Returns, AtRest, At, CallsInv, Threads, SecureInv, Displays,
       compVars, secureVars, observers, primarySeen
<1>15. CASE OtherPowerState
    BY Zenon, <1>15 DEF OtherPowerState, PowerReturns, Returns, AtRest, At, CallsInv, Threads, SecureInv, Displays,
       compVars, secureVars, observers, primarySeen
<1>16. CASE RegisterDisplay
    BY Zenon, <1>16 DEF RegisterDisplay, CallsInv, Threads, SecureInv, Displays, compVars, secureVars, observers,
       primarySeen
<1>17. CASE UnregisterDisplay
    BY Zenon, <1>17 DEF UnregisterDisplay, CallsInv, Threads, SecureInv, Displays, compVars, secureVars, observers,
       primarySeen
<1>18. CASE ProcessIdleTimeout
    BY Zenon, <1>18 DEF ProcessIdleTimeout, CallsInv, Threads, SecureInv, Displays, compVars, secureVars, observers,
       primarySeen
<1>19. CASE \E hot \in BOOLEAN : ThermalEvent(hot)
    BY SMTT(30), <1>19 DEF ThermalEvent, CallsInv, Threads, SecureInv, Displays, compVars, secureVars, observers,
       primarySeen
<1>20. CASE Commit
    BY SMTT(30), <1>20 DEF Commit, At, Returns, AtRest, Writes, CallsInv, Threads, SecureInv, Displays, compVars, secureVars,
       observers, primarySeen
<1>21. CASE WriteBits
    BY Zenon, <1>21 DEF WriteBits, Returns, AtRest, At, CallsInv, Threads, SecureInv, Displays, compVars, secureVars,
       observers, primarySeen
<1>22. CASE DisplayCreated
    BY Zenon, <1>22 DEF DisplayCreated, CallsInv, SecureInv, Displays, compVars, secureVars,
       observers, primarySeen
<1>. QED
    BY Zenon, <1>1, <1>2, <1>3, <1>4, <1>5, <1>6, <1>7, <1>8, <1>9, <1>10, <1>11, <1>12, <1>13, <1>14, <1>15, <1>16,
       <1>17, <1>18, <1>19, <1>20, <1>21, <1>22
    DEF Next, Proceeds, Calls, Preparing, Committing, Switching, Adding, Others

\* Whatever prepares the primary reads the thermal flag, and raising it takes back the bit
\* that lets SurfaceFlinger commit.
LEMMA ThermalStep ==
    ASSUME CallsInv, ThermalInv, Next
    PROVE  ThermalInv'
<1>1. CASE \E d \in Displays : PrePrepare(d)
    BY SMTT(30), <1>1 DEF PrePrepare, Returns, AtRest, At, CallsInv, Threads, ThermalInv, primaryVars, observers,
       primarySeen
<1>2. CASE \E d \in Displays : CommitLayerStack(d)
    BY SMTT(30), <1>2 DEF CommitLayerStack, Writes, At, CallsInv, Threads, ThermalInv, primaryVars, observers, primarySeen
<1>3. CASE \E d \in Displays : Flush(d)
    BY SMTT(30), <1>3 DEF Flush, Writes, CallsInv, Threads, ThermalInv, primaryVars, observers, primarySeen
<1>4. CASE \E d \in Displays, state \in scope.states : SetDisplayState(d, state)
    BY SMTT(30), <1>4 DEF SetDisplayState, At, PowerReturns, Returns, AtRest, CallsInv, Threads, ThermalInv, primaryVars,
       observers, primarySeen
<1>5. CASE PrepareStrategyConstraints
    <2>1. UNCHANGED <<thermal_fallback_, validated>>
        BY Zenon, <1>5 DEF PrepareStrategyConstraints
    <2>2. CASE PrimaryConstraints
        <3>1. thermal_fallback_ => constraints'
            BY Zenon, <2>2 DEF PrimaryConstraints
        <3>. QED  BY Zenon, <2>1, <3>1 DEF ThermalInv
    <2>3. CASE sf.on = "hdmi" /\ ExternalContent
        <3>1. UNCHANGED <<constraints, late>>
            BY Zenon, <2>3 DEF ExternalContent
        <3>2. (sf'.on = "hdmi" \/ sf'.at = "rest") /\ sf'.at # "bits"
            BY SMTT(30), <1>5, <2>3 DEF PrepareStrategyConstraints, Returns, AtRest, At, Goes, CallsInv, Threads
        <3>. QED  BY Zenon, <2>1, <3>1, <3>2 DEF ThermalInv
    <2>. QED  BY Zenon, <1>5, <2>2, <2>3 DEF PrepareStrategyConstraints
<1>6. CASE Attempt
    BY SMTT(30), <1>6 DEF Attempt, CountsOne, Returns, AtRest, At, CallsInv, Threads, ThermalInv, primaryVars, observers,
       primarySeen
<1>7. CASE Validate
    BY SMTT(30), <1>7 DEF Validate, Returns, AtRest, At, Goes, CallsInv, Threads, ThermalInv, primaryVars, observers,
       primarySeen
<1>8. CASE SetValidated
    BY Zenon, <1>8 DEF SetValidated, Writes, CallsInv, Threads, ThermalInv, primaryVars, observers,
       primarySeen
<1>9. CASE PostCommit
    BY Zenon, <1>9 DEF PostCommit, Returns, AtRest, At, CallsInv, Threads, ThermalInv, primaryVars, observers,
       primarySeen
<1>10. CASE PurgeOff
    BY Zenon, <1>10 DEF PurgeOff, Goes, CallsInv, Threads, ThermalInv, primaryVars, observers, primarySeen
<1>11. CASE ReadConfigured
    BY Zenon, <1>11 DEF ReadConfigured, CallsInv, Threads, ThermalInv, primaryVars, observers, primarySeen
<1>12. CASE ResetConfigured
    BY Zenon, <1>12 DEF ResetConfigured, PowerReturns, Returns, AtRest, At, CallsInv, Threads, ThermalInv, primaryVars,
       observers, primarySeen
<1>13. CASE CountRegistered
    BY Zenon, <1>13 DEF CountRegistered, Goes, CallsInv, Threads, ThermalInv, primaryVars, observers, primarySeen
<1>14. CASE SetSafeMode
    BY Zenon, <1>14 DEF SetSafeMode, PowerReturns, Returns, AtRest, At, CallsInv, Threads, ThermalInv, primaryVars,
       observers, primarySeen
<1>15. CASE OtherPowerState
    BY Zenon, <1>15 DEF OtherPowerState, PowerReturns, Returns, AtRest, At, CallsInv, Threads, ThermalInv, primaryVars,
       observers, primarySeen
<1>16. CASE RegisterDisplay
    BY Zenon, <1>16 DEF RegisterDisplay, CallsInv, Threads, ThermalInv, primaryVars, observers, primarySeen
<1>17. CASE UnregisterDisplay
    BY Zenon, <1>17 DEF UnregisterDisplay, CallsInv, Threads, ThermalInv, primaryVars, observers, primarySeen
<1>18. CASE ProcessIdleTimeout
    BY Zenon, <1>18 DEF ProcessIdleTimeout, CallsInv, Threads, ThermalInv, primaryVars, observers, primarySeen
<1>19. CASE \E hot \in BOOLEAN : ThermalEvent(hot)
    <2>1. PICK hot \in BOOLEAN : ThermalEvent(hot)
        BY Zenon, <1>19
    <2>2. validated' = {} /\ UNCHANGED sf
        BY Zenon, <2>1 DEF ThermalEvent
    <2>3. ASSUME thermal_fallback_',
                 \/ sf.at \in {"prepared", "tested"} /\ sf.on = "primary"
                 \/ sf.at = "bits" /\ "primary" \in sf.bits
          PROVE  late'
        BY Zenon, <2>1, <2>3 DEF ThermalEvent
    <2>4. ~(sf.on = "primary" /\ sf.at \in {"attempt", "validate"})
        BY Zenon, <2>1 DEF ThermalEvent, InDisplay
    <2>. QED  BY Zenon, <2>2, <2>3, <2>4 DEF ThermalInv
<1>20. CASE Commit
    BY SMTT(30), <1>20 DEF Commit, At, Returns, AtRest, Writes, CallsInv, Threads, ThermalInv, primaryVars, observers,
       primarySeen
<1>21. CASE WriteBits
    BY Zenon, <1>21 DEF WriteBits, Returns, AtRest, At, CallsInv, Threads, ThermalInv, primaryVars, observers,
       primarySeen
<1>22. CASE DisplayCreated
    BY Zenon, <1>22 DEF DisplayCreated, CallsInv, ThermalInv, primaryVars, observers,
       primarySeen
<1>. QED
    BY Zenon, <1>1, <1>2, <1>3, <1>4, <1>5, <1>6, <1>7, <1>8, <1>9, <1>10, <1>11, <1>12, <1>13, <1>14, <1>15, <1>16,
       <1>17, <1>18, <1>19, <1>20, <1>21, <1>22
    DEF Next, Proceeds, Calls, Preparing, Committing, Switching, Adding, Others

\* The sets of displays behind safe mode, the unlocked update included.
LEMMA SafeStep ==
    ASSUME CallsInv, SafeInv, Next
    PROVE  SafeInv'
<1>1. CASE \E d \in Displays : PrePrepare(d)
    BY SMTT(30), <1>1 DEF PrePrepare, Returns, AtRest, At, CallsInv, Threads, SafeInv, SafeUntilConfigured, SafeModeEnds,
       Displays, compVars, observers, safeSeen
<1>2. CASE \E d \in Displays : CommitLayerStack(d)
    BY SMTT(30), <1>2 DEF CommitLayerStack, Writes, At, CallsInv, Threads, SafeInv, SafeUntilConfigured, SafeModeEnds, Displays, compVars,
       observers, safeSeen
<1>3. CASE \E d \in Displays : Flush(d)
    BY SMTT(30), <1>3 DEF Flush, Writes, CallsInv, Threads, SafeInv, SafeUntilConfigured, SafeModeEnds, Displays, compVars,
       observers, safeSeen
<1>4. CASE \E d \in Displays, state \in scope.states : SetDisplayState(d, state)
    BY SMTT(30), <1>4 DEF SetDisplayState, At, PowerReturns, Returns, AtRest, CallsInv, Threads, SafeInv,
       SafeUntilConfigured, SafeModeEnds, Displays, compVars, observers, safeSeen
<1>5. CASE PrepareStrategyConstraints
    BY SMTT(30), <1>5 DEF PrepareStrategyConstraints, Goes, Returns, AtRest, At, CallsInv, Threads, SafeInv,
       SafeUntilConfigured, SafeModeEnds, Displays, compVars, observers, safeSeen
<1>6. CASE Attempt
    BY SMTT(30), <1>6 DEF Attempt, CountsOne, Returns, AtRest, At, CallsInv, Threads, SafeInv, SafeUntilConfigured,
       SafeModeEnds, Displays, compVars, observers, safeSeen
<1>7. CASE Validate
    BY SMTT(30), <1>7 DEF Validate, Returns, AtRest, At, Goes, CallsInv, Threads, SafeInv, SafeUntilConfigured,
       SafeModeEnds, Displays, compVars, observers, safeSeen
<1>8. CASE SetValidated
    BY Zenon, <1>8 DEF SetValidated, Writes, CallsInv, Threads, SafeInv, SafeUntilConfigured,
       SafeModeEnds, Displays, compVars, observers, safeSeen
<1>9. CASE PostCommit
    BY ZenonT(60), <1>9 DEF PostCommit, Returns, AtRest, At, CallsInv, Threads, SafeInv, SafeUntilConfigured, SafeModeEnds,
       Displays, compVars, observers, safeSeen
<1>10. CASE PurgeOff
    BY Zenon, <1>10 DEF PurgeOff, Goes, CallsInv, Threads, SafeInv, SafeUntilConfigured, SafeModeEnds, Displays,
       compVars, observers, safeSeen
<1>11. CASE ReadConfigured
    BY Zenon, <1>11 DEF ReadConfigured, CallsInv, Threads, SafeInv, SafeUntilConfigured, SafeModeEnds, Displays,
       compVars, observers, safeSeen
<1>12. CASE ResetConfigured
    BY Zenon, <1>12 DEF ResetConfigured, PowerReturns, Returns, AtRest, At, CallsInv, Threads, SafeInv,
       SafeUntilConfigured, SafeModeEnds, Displays, compVars, observers, safeSeen
<1>13. CASE CountRegistered
    BY Zenon, <1>13 DEF CountRegistered, Goes, CallsInv, Threads, SafeInv, SafeUntilConfigured, SafeModeEnds, Displays,
       compVars, observers, safeSeen
<1>14. CASE SetSafeMode
    BY Zenon, <1>14 DEF SetSafeMode, PowerReturns, Returns, AtRest, At, CallsInv, Threads, SafeInv,
       SafeUntilConfigured, SafeModeEnds, Displays, compVars, observers, safeSeen
<1>15. CASE OtherPowerState
    BY Zenon, <1>15 DEF OtherPowerState, PowerReturns, Returns, AtRest, At, CallsInv, Threads, SafeInv,
       SafeUntilConfigured, SafeModeEnds, Displays, compVars, observers, safeSeen
<1>16. CASE RegisterDisplay
    BY Zenon, <1>16 DEF RegisterDisplay, CallsInv, Threads, SafeInv, SafeUntilConfigured, SafeModeEnds, Displays,
       compVars, observers, safeSeen
<1>17. CASE UnregisterDisplay
    BY Zenon, <1>17 DEF UnregisterDisplay, CallsInv, Threads, SafeInv, SafeUntilConfigured, SafeModeEnds, Displays,
       compVars, observers, safeSeen
<1>18. CASE ProcessIdleTimeout
    BY Zenon, <1>18 DEF ProcessIdleTimeout, CallsInv, Threads, SafeInv, SafeUntilConfigured, SafeModeEnds, Displays,
       compVars, observers, safeSeen
<1>19. CASE \E hot \in BOOLEAN : ThermalEvent(hot)
    BY SMTT(30), <1>19 DEF ThermalEvent, CallsInv, Threads, SafeInv, SafeUntilConfigured, SafeModeEnds, Displays,
       compVars, observers, safeSeen
<1>20. CASE Commit
    BY SMTT(30), <1>20 DEF Commit, At, Returns, AtRest, Writes, CallsInv, Threads, SafeInv, SafeUntilConfigured,
       SafeModeEnds, Displays, compVars, observers, safeSeen
<1>21. CASE WriteBits
    BY Zenon, <1>21 DEF WriteBits, Returns, AtRest, At, CallsInv, Threads, SafeInv, SafeUntilConfigured,
       SafeModeEnds, Displays, compVars, observers, safeSeen
<1>22. CASE DisplayCreated
    BY Zenon, <1>22 DEF DisplayCreated, CallsInv, SafeInv, SafeUntilConfigured,
       SafeModeEnds, Displays, compVars, observers, safeSeen
<1>. QED
    BY Zenon, <1>1, <1>2, <1>3, <1>4, <1>5, <1>6, <1>7, <1>8, <1>9, <1>10, <1>11, <1>12, <1>13, <1>14, <1>15, <1>16,
       <1>17, <1>18, <1>19, <1>20, <1>21, <1>22
    DEF Next, Proceeds, Calls, Preparing, Committing, Switching, Adding, Others

\* A frame that is forgotten, and pipes that are taken or released for one display,
\* do no harm to the other's.
LEMMA OneDisplay ==
    ASSUME CallsInv, PipesInv, NEW d \in Displays, base' \in Bases, src_pipes_' \in PipeTable,
           base'[d].config \subseteq Reserved(src_pipes_', d),
           \A e \in Displays \ {d} : /\ base'[e].config = base[e].config
                                     /\ Reserved(src_pipes_', e) = Reserved(src_pipes_, e),
           sf'.at = "purge" => sf'.on = d /\ base'[d].config = {}
    PROVE  PipesInv'
BY Zenon DEF PipesInv, Reserved

\* The pipes of every frame.
LEMMA PipesStep ==
    ASSUME CallsInv, PipesInv, Next
    PROVE  PipesInv'
<1>1. CASE \E d \in Displays : PrePrepare(d)
    <2>1. PICK d \in Displays : PrePrepare(d)
        BY Zenon, <1>1
    <2>2. base' = [base EXCEPT ![d].needs_validate = TRUE, ![d].config = {}] /\ UNCHANGED src_pipes_
        BY Zenon, <2>1 DEF PrePrepare
    <2>3. base' \in Bases /\ base'[d].config = {} /\ \A e \in Displays \ {d} : base'[e] = base[e]
        BY ZenonT(60), <2>2 DEF PipesInv, Bases
    <2>4. sf'.at # "purge"
        BY SMTT(30), <2>1 DEF PrePrepare, Returns, AtRest, At
    <2>. QED  BY Zenon, <2>2, <2>3, <2>4, OneDisplay DEF PipesInv
<1>2. CASE \E d \in Displays : CommitLayerStack(d)
    BY SMTT(30), <1>2 DEF CommitLayerStack, Writes, At, PipesInv
<1>3. CASE \E d \in Displays : Flush(d)
    <2>1. PICK d \in Displays : Flush(d)
        BY Zenon, <1>3
    <2>2. CASE UNCHANGED <<base, src_pipes_>>
        BY SMTT(30), <2>1, <2>2 DEF Flush, Writes, PipesInv
    <2>3. ASSUME \/ base' = [base EXCEPT ![d].config = {}, ![d].needs_validate = TRUE] /\ ResourcePurge(d)
                 \/ base' = [base EXCEPT ![d].config = {}] /\ UNCHANGED src_pipes_
          PROVE  PipesInv'
        <3>1. base' \in Bases /\ base'[d].config = {} /\ \A e \in Displays \ {d} : base'[e] = base[e]
            BY SMTT(30), <2>3 DEF PipesInv, Bases
        <3>2. /\ src_pipes_' \in PipeTable
              /\ \A e \in Displays \ {d} : Reserved(src_pipes_', e) = Reserved(src_pipes_, e)
            BY SMTT(30), <2>3, ReleaseFrees DEF ResourcePurge, PipesInv
        <3>3. sf'.at # "purge"
            BY SMTT(30), <2>1 DEF Flush, Writes
        <3>. QED  BY Zenon, <3>1, <3>2, <3>3, OneDisplay
    <2>. QED  BY Zenon, <2>1, <2>2, <2>3 DEF Flush
<1>4. CASE \E d \in Displays, state \in scope.states : SetDisplayState(d, state)
    <2>1. PICK d \in Displays, state \in scope.states : SetDisplayState(d, state)
        BY Zenon, <1>4
    <2>2. UNCHANGED src_pipes_
        BY Zenon, <2>1 DEF SetDisplayState
    <2>3. state \in PowerStates
        BY Zenon, ScopeAssumption DEF CallsInv
    <2>4. /\ base' \in Bases /\ base'[d].config \in {{}, base[d].config}
          /\ \A e \in Displays \ {d} : base'[e] = base[e]
        BY SMTT(30), <2>1, <2>3 DEF SetDisplayState, PipesInv, Bases
    <2>5. sf'.at = "purge" => sf'.on = d /\ base'[d].config = {}
        BY SMTT(30), <2>1, <2>3 DEF SetDisplayState, At, PowerReturns, Returns, AtRest, PipesInv, Bases
    <2>. QED  BY Zenon, <2>2, <2>4, <2>5, OneDisplay DEF PipesInv
<1>5. CASE PrepareStrategyConstraints
    BY SMTT(30), <1>5 DEF PrepareStrategyConstraints, Goes, Returns, AtRest, At, CallsInv, Threads, PipesInv
<1>6. CASE Attempt
    <2>1. sf'.at # "purge"
        <3>1. Returns \/ CountsOne("validate") \/ CountsOne("attempt")
            BY Zenon, <1>6 DEF Attempt
        <3>. QED  BY SMTT(30), <3>1 DEF CountsOne, Returns, AtRest, At
    <2>2. CASE UNCHANGED <<src_pipes_, base>>
        BY Zenon, <2>1, <2>2 DEF PipesInv
    <2>3. ASSUME NEW frame \in scope.frames, NEW outcome \in ResourcePrepare(sf.on, frame),
                 src_pipes_' = outcome.pipes, base' = [base EXCEPT ![sf.on].config = outcome.config]
          PROVE  PipesInv'
        <3>1. frame \in Configs /\ sf.on \in Displays
            BY Zenon, ScopeAssumption DEF CallsInv, Threads
        <3>2. /\ outcome.pipes \in PipeTable /\ outcome.config \subseteq Reserved(outcome.pipes, sf.on)
              /\ \A e \in Displays \ {sf.on} : Reserved(outcome.pipes, e) = Reserved(src_pipes_, e)
            BY Zenon, <3>1, PrepareTakes DEF PipesInv
        <3>3. outcome.config \subseteq Pipes
            BY Zenon, <3>2 DEF Reserved
        <3>4. /\ base' \in Bases /\ base'[sf.on].config = outcome.config
              /\ \A e \in Displays \ {sf.on} : base'[e] = base[e]
            BY ZenonT(60), <2>3, <3>1, <3>3 DEF PipesInv, Bases
        <3>. QED  BY Zenon, <2>1, <2>3, <3>1, <3>2, <3>4, OneDisplay
    <2>. QED  BY Zenon, <1>6, <2>2, <2>3 DEF Attempt
<1>7. CASE Validate
    <2>1. UNCHANGED src_pipes_ /\ sf'.at # "purge"
        BY SMTT(30), <1>7 DEF Validate, At, Returns, AtRest, Goes, CallsInv, Threads
    <2>2. base' \in Bases /\ \A e \in Displays : base'[e].config = base[e].config
        <3>1. base' = base \/ base' = [base EXCEPT ![sf.on].needs_validate = FALSE]
            BY Zenon, <1>7 DEF Validate
        <3>2. CASE base' = [base EXCEPT ![sf.on].needs_validate = FALSE]
            <4>. base \in Bases /\ sf.on \in Displays
                BY Zenon DEF PipesInv, CallsInv, Threads
            <4>1. base' \in Bases
                BY ZenonT(60), <3>2 DEF Bases
            <4>2. ASSUME NEW e \in Displays PROVE base'[e].config = base[e].config
                BY Zenon, <3>2 DEF PipesInv, Bases
            <4>. QED  BY Zenon, <4>1, <4>2
        <3>. QED  BY Zenon, <3>1, <3>2 DEF PipesInv
    <2>. QED  BY Zenon, <2>1, <2>2 DEF PipesInv
<1>8. CASE SetValidated
    BY Zenon, <1>8 DEF SetValidated, Writes, PipesInv
<1>9. CASE PostCommit
    <2>1. UNCHANGED base /\ sf'.at # "purge"
        BY Zenon, <1>9 DEF PostCommit, Returns, AtRest, At
    <2>2. /\ src_pipes_' \in PipeTable
          /\ \A d \in Displays : Reserved(src_pipes_, d) \subseteq Reserved(src_pipes_', d)
        BY SMTT(30), <1>9 DEF PostCommit, ResourcePostCommit, PipesInv, PipeTable, Reserved
    <2>. QED  BY Zenon, <2>1, <2>2 DEF PipesInv
<1>10. CASE PurgeOff
    <2>1. /\ src_pipes_' = Release(src_pipes_, sf.on) /\ UNCHANGED base
          /\ base[sf.on].config = {} /\ sf.on \in Displays
        BY Zenon, <1>10 DEF PurgeOff, ResourcePurge, PipesInv, CallsInv, Threads
    <2>2. sf'.at # "purge"
        BY Zenon, <1>10 DEF PurgeOff, Goes, CallsInv, Threads
    <2>. QED  BY ZenonT(60), <2>1, <2>2, ReleaseFrees, OneDisplay DEF PipesInv
<1>11. CASE ReadConfigured
    BY Zenon, <1>11 DEF ReadConfigured, CallsInv, Threads, PipesInv
<1>12. CASE ResetConfigured
    BY Zenon, <1>12 DEF ResetConfigured, PowerReturns, Returns, AtRest, At, PipesInv
<1>13. CASE CountRegistered
    BY Zenon, <1>13 DEF CountRegistered, Goes, CallsInv, Threads, PipesInv
<1>14. CASE SetSafeMode
    BY Zenon, <1>14 DEF SetSafeMode, PowerReturns, Returns, AtRest, At, PipesInv
<1>15. CASE OtherPowerState
    BY Zenon, <1>15 DEF OtherPowerState, PowerReturns, Returns, AtRest, At, PipesInv
<1>16. CASE RegisterDisplay
    BY Zenon, <1>16 DEF RegisterDisplay, PipesInv
<1>17. CASE UnregisterDisplay
    <2>1. /\ src_pipes_' = Release(src_pipes_, "hdmi") /\ base' = [base EXCEPT !["hdmi"] = NewBase]
          /\ UNCHANGED sf /\ sf.on # "hdmi" /\ "hdmi" \in Displays
        BY Zenon, <1>17 DEF UnregisterDisplay, ResourcePurge, Displays
    <2>2. base' \in Bases /\ base'["hdmi"].config = {} /\ \A e \in Displays \ {"hdmi"} : base'[e] = base[e]
        BY Zenon, <2>1 DEF NewBase, PipesInv, Bases, PowerStates
    <2>3. src_pipes_' \in PipeTable
          /\ \A e \in Displays \ {"hdmi"} : Reserved(src_pipes_', e) = Reserved(src_pipes_, e)
        BY Zenon, <2>1, ReleaseFrees DEF PipesInv
    <2>. QED  BY Zenon, <2>1, <2>2, <2>3 DEF PipesInv, CallsInv, Threads
<1>18. CASE ProcessIdleTimeout
    BY Zenon, <1>18 DEF ProcessIdleTimeout, PipesInv
<1>19. CASE \E hot \in BOOLEAN : ThermalEvent(hot)
    BY Zenon, <1>19 DEF ThermalEvent, PipesInv
<1>20. CASE Commit
    BY SMTT(30), <1>20 DEF Commit, At, Returns, AtRest, Writes, CallsInv, Threads, PipesInv
<1>21. CASE WriteBits
    BY Zenon, <1>21 DEF WriteBits, Returns, AtRest, At, CallsInv, Threads, PipesInv
<1>22. CASE DisplayCreated
    BY Zenon, <1>22 DEF DisplayCreated, CallsInv, PipesInv
<1>. QED
    BY Zenon, <1>1, <1>2, <1>3, <1>4, <1>5, <1>6, <1>7, <1>8, <1>9, <1>10, <1>11, <1>12, <1>13, <1>14, <1>15, <1>16,
       <1>17, <1>18, <1>19, <1>20, <1>21, <1>22
    DEF Next, Proceeds, Calls, Preparing, Committing, Switching, Adding, Others

\* The inductive invariant holds initially,
LEMMA InitIInv == Init => IInv
<1>. SUFFICES ASSUME Init PROVE IInv
    BY Zenon
<1>1. CallsInv
    BY Zenon DEF Init, AtRest, At, CallsInv, Threads, Places, Displays
<1>2. PipesInv
    <2>1. src_pipes_ \in PipeTable
        BY Zenon DEF Init, ResourceInit, PipeTable
    <2>2. base \in Bases /\ \A d \in Displays : base[d].config = {}
        BY Zenon DEF Init, NewBase, Bases, PowerStates
    <2>. QED  BY Zenon, <2>1, <2>2 DEF Init, AtRest, At, PipesInv
<1>3. SafeInv /\ SecureInv /\ ThermalInv
    BY Zenon DEF Init, SafeInv, SafeUntilConfigured, SafeModeEnds, SecureInv, ThermalInv, AtRest, At
<1>. QED  BY Zenon, <1>1, <1>2, <1>3 DEF IInv

\* is preserved by every step,
LEMMA StepIInv == IInv /\ [Next]_vars => IInv'
<1>1. CASE IInv /\ Next
    BY Zenon, <1>1, CallsStep, PipesStep, SafeStep, SecureStep, ThermalStep DEF IInv
<1>2. CASE IInv /\ UNCHANGED vars
    BY Zenon, <1>2 DEF IInv, CallsInv, PipesInv, SafeInv, SafeUntilConfigured, SafeModeEnds, SecureInv, ThermalInv,
                vars, compVars, secureVars, primaryVars, observers, safeSeen, primarySeen, Reserved
<1>. QED  BY Zenon, <1>1, <1>2

\* and so holds in every state.
LEMMA Invariance == Spec => []IInv
BY InitIInv, StepIInv, PTL DEF Spec

\* For all pipes and scopes: the pipes of a frame that is prepared stay reserved for its
\* display, through every interleaving with the other display's calls, until it is
\* prepared anew, flushed, switched off or unregistered.
THEOREM FramesKeepPipesHolds == Spec => []FramesKeepPipes
<1>1. IInv => FramesKeepPipes
    <2>1. IInv => /\ registered_displays_ \subseteq Displays
                  /\ \A d \in Displays : base[d].config \subseteq Reserved(src_pipes_, d)
        BY Zenon DEF IInv, CallsInv, PipesInv, Displays
    <2>. QED  BY Zenon, <2>1 DEF FramesKeepPipes
<1>. QED  BY <1>1, Invariance, PTL

\* A display that was added keeps all displays in safe mode until it has shown a frame,
\* as long as no unlocked update of configured_displays_ has undone a locked one.
THEOREM SafeUntilConfiguredHolds == Spec => []SafeUntilConfigured
<1>1. IInv => SafeUntilConfigured
    BY Zenon DEF IInv, SafeInv
<1>. QED  BY <1>1, Invariance, PTL

\* Safe mode is off once every display has shown a frame since its last cause, with the
\* same exception.
THEOREM SafeModeEndsHolds == Spec => []SafeModeEnds
<1>1. IInv => SafeModeEnds
    BY Zenon DEF IInv, SafeInv
<1>. QED  BY <1>1, Invariance, PTL

\* The primary is prepared in safe mode after the HDMI content has turned secure, and is
\* committed in no other mode while it is hot, unless the thermal event fell where
\* HWCDisplay handles the validated bit without the display's mutex.
THEOREM PrimaryFallsBackHolds == Spec => PrimaryFallsBack
<1>. DEFINE Falls == /\ sf.at = "prepare" /\ sf'.at = "attempt" /\ sf.on = "primary" /\ owed => constraints'
                     /\ /\ sf.at = "tested" /\ sf'.at = "committed" /\ sf.on = "primary"
                        /\ thermal_fallback_ /\ ~late
                        => constraints
<1>1. IInv /\ [Next]_vars => [Falls]_vars
    <2>. SUFFICES ASSUME IInv, Next PROVE Falls
        BY Zenon
    <2>1. ASSUME sf.at = "prepare", sf'.at = "attempt", sf.on = "primary", owed
          PROVE  constraints'
        <3>1. PrepareStrategyConstraints
            BY Zenon, <2>1 DEF Next, Proceeds, Calls, PrePrepare, CommitLayerStack, Flush, SetDisplayState, Preparing,
               Attempt, Validate, SetValidated, Committing, Commit, PostCommit, WriteBits, Switching, PurgeOff,
               ReadConfigured, ResetConfigured, CountRegistered, SetSafeMode, OtherPowerState, Adding,
               RegisterDisplay, DisplayCreated, Others, UnregisterDisplay, ProcessIdleTimeout, ThermalEvent
        <3>2. PrimaryConstraints
            BY Zenon, <2>1, <3>1 DEF PrepareStrategyConstraints
        <3>. QED  BY Zenon, <2>1, <3>2 DEF PrimaryConstraints, IInv, SecureInv
    <2>2. ASSUME sf.at = "tested", sf'.at = "committed", sf.on = "primary", thermal_fallback_, ~late
          PROVE  constraints
        BY Zenon, <2>2 DEF IInv, ThermalInv
    <2>. QED  BY Zenon, <2>1, <2>2
<1>. QED  BY <1>1, Invariance, PTL DEF Spec, PrimaryFallsBack
=============================================================================
