---------------------------- MODULE MCSkillCache ----------------------------
(* Two chat models, two compilations at a time, one edit of the skill. *)
EXTENDS SkillProperties
=============================================================================
