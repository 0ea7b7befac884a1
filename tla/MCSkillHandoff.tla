--------------------------- MODULE MCSkillHandoff ---------------------------
\* SkillHandoff needs no definitions for model checking; the instance is in
\* SkillHandoff.cfg.
EXTENDS SkillHandoff

=============================================================================
