---------------------------- MODULE TopicStrings ----------------------------
(***************************************************************************)
(* Topic and pattern strings of Tema_2, and what check_topic_regexp        *)
(* (utils.c) decides about them, in closed form.  TopicMatch walks the     *)
(* token lists the way the C loop does and shows that it returns this.     *)
(*                                                                         *)
(* A C string is the sequence of its levels, cut at every '/': "upb/+" is  *)
(* <<"upb", "+">>, "/upb" is <<"", "upb">> and "" is <<"">>.  The packets  *)
(* hold at most 50 bytes of it, so the copies into 101 bytes never cut it. *)
(***************************************************************************)
EXTENDS Naturals, Sequences

Star == "*"
Plus == "+"

\* strtok_r on "/": adjacent, leading and trailing separators give no token.
Tokens(string) == SelectSeq(string, LAMBDA level : level # "")

\* One level of the topic against one of the pattern (not a '*').
LevelMatches(level, pattern) == pattern = Plus \/ pattern = level

\* The first n levels of the pattern are no '*' and match those of the topic.
FirstLevelsMatch(t, r, n) ==
  \A j \in 1 .. n : r[j] # Star /\ LevelMatches(t[j], r[j])

\* The decision on token lists: level by level up to the first '*', which
\* accepts whatever the topic has left and whatever follows in the pattern.
Covers(t, r) ==
  \/ Len(t) = Len(r) /\ FirstLevelsMatch(t, r, Len(r))
  \/ \E k \in 1 .. Len(r) :
       r[k] = Star /\ k - 1 <= Len(t) /\ FirstLevelsMatch(t, r, k - 1)

\* check_topic_regexp(topic, regexp).
Matches(topic, regexp) ==
  topic = regexp \/ Covers(Tokens(topic), Tokens(regexp))
=============================================================================
