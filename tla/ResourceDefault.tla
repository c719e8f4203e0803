--------------------------- MODULE ResourceDefault ---------------------------
(***************************************************************************)
(* The default resource manager of the display HAL (sdm/libs/core/         *)
(* resource_default.cpp): which source pipe of the display processor       *)
(* fetches the frame buffer of which display.  It is the one CompManager   *)
(* creates when the proprietary extension library is absent.  A frame has  *)
(* one layer, the GPU's, and takes one pipe, or two when it is too wide.   *)
(*                                                                         *)
(* Rectangles are left out: what Config makes of them is whether the frame *)
(* is refused, whether it is split and which of its halves are scaled.     *)
(***************************************************************************)
EXTENDS Naturals, Sequences, FiniteSetsExt

CONSTANTS hw_pipes,            \* the types of the pipes, in the driver's order
          has_non_scalar_rgb

num_pipe_ == Len(hw_pipes)
Pipes == 1..num_pipe_
PipesOf(type) == {i \in Pipes : hw_pipes[i] = type}

(* The driver lists the pipes by type, so that a pipe's place in its list  *)
(* (SourcePipe::index) is its place in src_pipes_; and it lists two after  *)
(* the VIG pipes, the ones the splash screen uses.                         *)
ASSUME PipeAssumption ==
    /\ \A i \in Pipes : hw_pipes[i] \in {"VIG", "RGB", "DMA"}
    /\ \A i, j \in Pipes : i < j => /\ hw_pipes[j] = "VIG" => hw_pipes[i] = "VIG"
                                    /\ hw_pipes[i] = "DMA" => hw_pipes[j] = "DMA"
    /\ num_pipe_ >= Cardinality(PipesOf("VIG")) + 2
    /\ has_non_scalar_rgb \in BOOLEAN

Displays == {"primary", "hdmi"}   \* each has a hardware block of its own
NoBlock == "none"

VARIABLE src_pipes_   \* [Pipes -> [owner, hw_block_id]]

\* The first two pipes that are not VIG pipes belong to the kernel.
ResourceInit ==
    LET vig == Cardinality(PipesOf("VIG"))
    IN  src_pipes_ = [i \in Pipes |-> [owner |-> IF i \in {vig + 1, vig + 2} THEN "kernel" ELSE "user",
                                       hw_block_id |-> NoBlock]]

Reserved(pipes, d) == {i \in Pipes : pipes[i].owner = "user" /\ pipes[i].hw_block_id = d}

\* Variant of Release for mutation: whoever holds the pipes.
Release_Anyones(pipes, d) ==
    [i \in Pipes |-> IF pipes[i].owner = "user" THEN [owner |-> "user", hw_block_id |-> NoBlock]
                                                ELSE pipes[i]]

\* SourcePipe::ResetState of the display's pipes.
Release(pipes, d) ==
    [i \in Pipes |-> IF i \in Reserved(pipes, d) THEN [owner |-> "user", hw_block_id |-> NoBlock]
                                                 ELSE pipes[i]]

SearchPipe(pipes, type) == PipesOf(type) \cap Reserved(pipes, NoBlock)

\* The types to search, in this order.  DMA pipes do not scale.
PipeOrder(need_scale) ==
    IF ~need_scale THEN <<"DMA", "RGB", "VIG">>
    ELSE IF has_non_scalar_rgb THEN <<"VIG">> ELSE <<"RGB", "VIG">>

\* The pipe found, none when the search fails.
GetPipe(pipes, need_scale) ==
    LET order == PipeOrder(need_scale)
        found == {k \in DOMAIN order : SearchPipe(pipes, order[k]) # {}}
    IN  IF found = {} THEN {} ELSE {Min(SearchPipe(pipes, order[Min(found)]))}

Outcome(ok, pipes, config) == [ok |-> ok, pipes |-> pipes, config |-> config]

\* A pipe for one half of a frame; one that is scaled may be scaled down
\* further than SetDecimationFactor allows.
HalfFrame(pipes, d, need_scale) ==
    LET pipe == GetPipe(pipes, need_scale)
        taken == [i \in Pipes |-> IF i \in pipe THEN [pipes[i] EXCEPT !.hw_block_id = d] ELSE pipes[i]]
    IN  IF pipe = {} THEN {Outcome(FALSE, pipes, {})}
        ELSE {Outcome(TRUE, taken, pipe)} \cup (IF need_scale THEN {Outcome(FALSE, taken, {})} ELSE {})

(* What Config makes of a frame: which of its one or two halves need       *)
(* scaling; none when the frame is refused.                                *)
Configs == {<<>>} \cup [1..1 -> BOOLEAN] \cup [1..2 -> BOOLEAN]

(* The outcomes of Prepare.  Of a frame that is not refused the display's  *)
(* pipes are first released; what an attempt that fails has taken stays    *)
(* taken.                                                                  *)
ResourcePrepare(d, config) ==
    LET left == HalfFrame(Release(src_pipes_, d), d, config[1])
        both(l) == {Outcome(r.ok, r.pipes, l.config \cup r.config) : r \in HalfFrame(l.pipes, d, config[2])}
    IN  IF config = <<>> THEN {Outcome(FALSE, src_pipes_, {})}
        ELSE IF Len(config) = 1 THEN left
        ELSE UNION {IF l.ok THEN both(l) ELSE {l} : l \in left}

\* UnregisterDisplay and Purge.
ResourcePurge(d) == src_pipes_' = Release(src_pipes_, d)

\* The primary's first frame takes over the pipes the splash screen used on it.
ResourcePostCommit(d, first) ==
    src_pipes_' = [i \in Pipes |->
        IF first /\ d = "primary" /\ src_pipes_[i].hw_block_id = d
        THEN [src_pipes_[i] EXCEPT !.owner = "user"] ELSE src_pipes_[i]]
==============================================================================
