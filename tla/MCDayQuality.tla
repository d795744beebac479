---------------------------- MODULE MCDayQuality ----------------------------
(* TLC instance of DayQuality.                                               *)
EXTENDS DayQuality

Content(fidelity, seconds, detail) ==
  [fidelity |-> fidelity, seconds |-> seconds, detail |-> detail]

\* Nothing, and sure; nothing, and not sure; a project without entities;
\* one with entities.
FourContents ==
  {Content("verified_zero", FALSE, {}), Content("coarse_project", FALSE, {}),
   Content("coarse_project", TRUE, {}), Content("entity_detail", TRUE, {"p"})}

\* States that differ only in the history doc_quality is about, or in what the
\* worker has read when nothing but the repetition of its result is left, have
\* the same steps and the same properties otherwise.
Observed ==
  <<now, archive, layer, rows, overtaken,
    IF work # None /\ work.result # None THEN <<work.newest, work.result>> ELSE work>>
==============================================================================
