---------------------------- MODULE MCTopicMatch ----------------------------
(* Every pair of strings of up to three levels, empty levels and wildcards *)
(* included on both sides.                                                 *)
EXTENDS TopicMatch

CONSTANTS Levels, MaxLevels

MCStrings == UNION {[1 .. n -> Levels] : n \in 1 .. MaxLevels}
=============================================================================
