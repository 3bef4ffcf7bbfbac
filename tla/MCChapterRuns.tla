---------------------------- MODULE MCChapterRuns ----------------------------
(* Instances of ChapterRuns for TLC. *)
EXTENDS ChapterRuns

\* chapter_step_order of the director_v2 executors
ScriptOrder == <<"ASSEMBLE", "DIRECT", "PRODUCE", "REVIEW", "CANON">>
===============================================================================
