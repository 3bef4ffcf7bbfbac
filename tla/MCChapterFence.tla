---------------------------- MODULE MCChapterFence ----------------------------
(* An instance of ChapterFence for TLC. *)
EXTENDS ChapterFence, TLC

\* chapter_step_order of the director_v2 executors
ScriptOrder == <<"ASSEMBLE", "DIRECT", "PRODUCE", "REVIEW", "CANON">>

\* Nothing is claimed of what follows a failure recorded late that kept the lease,
\* and a timer that does not come is one that comes later.
Bounded == ~reopened /\ ~refused

Symmetry == Permutations(Workers)
===============================================================================
