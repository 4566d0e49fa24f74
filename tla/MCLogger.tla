------------------------------ MODULE MCLogger ------------------------------
(***************************************************************************)
(* Instances of Logger: the numbers are given in the configurations.       *)
(***************************************************************************)
EXTENDS Logger

\* What RepeatsAccounted and the steps look at: all but the entries counted
\* as discarded and overrun, which no step reads.
Effective ==
    <<log_total, messages, old, seqfile, pc, walk, pos, batch, wrote, world>>
=============================================================================
