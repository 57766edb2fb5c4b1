---------------------------- MODULE MCDiscipline ----------------------------
(* Two sources, either of which may drive the clock. *)
EXTENDS Discipline

CONSTANTS a, b

MCSources == {a, b}

=============================================================================
