----------------------------- MODULE TopicMatch -----------------------------
(***************************************************************************)
(* check_topic_regexp of Tema_2/utils.c, one step per turn of its loop:    *)
(* does a published topic match a subscribed pattern?  publish() asks it   *)
(* for every entry of topic_map.                                           *)
(***************************************************************************)
EXTENDS TopicStrings

CONSTANT Strings   \* the strings a topic or a pattern can be

ASSUME StringsAssumption ==
  \A s \in Strings : s \in Seq(STRING) /\ Tokens(s) \in Seq(STRING)

VARIABLES
  topic, regexp,               \* the two arguments
  topicTokens, regexpTokens,   \* what strtok_r has left to give: topic_token and
                               \* regexp_token are their heads, NULL when empty
  pc,                          \* "compare", "loop" or "done"
  result                       \* the value returned, once done

vars == <<topic, regexp, topicTokens, regexpTokens, pc, result>>
arguments == <<topic, regexp>>
tokens == <<topicTokens, regexpTokens>>

Init ==
  /\ topic \in Strings
  /\ regexp \in Strings
  /\ topicTokens = <<>>
  /\ regexpTokens = <<>>
  /\ pc = "compare"
  /\ result = FALSE

Return(value) ==
  /\ pc' = "done"
  /\ result' = value
  /\ UNCHANGED <<arguments, tokens>>

-----------------------------------------------------------------------------
(* Before the loop: the strcmp shortcut, else the first two strtok_r calls. *)

SameString == pc = "compare" /\ topic = regexp /\ Return(TRUE)

Tokenize ==
  /\ pc = "compare"
  /\ topic # regexp
  /\ topicTokens' = Tokens(topic)
  /\ regexpTokens' = Tokens(regexp)
  /\ pc' = "loop"
  /\ UNCHANGED <<arguments, result>>

-----------------------------------------------------------------------------
(* One turn of the loop, by the pattern's next level. *)

AtLevel == pc = "loop" /\ regexpTokens # <<>>

\* Mutant: '*' needs a level like any other.
TopicTooShortForStar == AtLevel /\ topicTokens = <<>> /\ Return(FALSE)

\* topic_token is NULL and the pattern still asks for a level.
TopicTooShort ==
  AtLevel /\ topicTokens = <<>> /\ Head(regexpTokens) # Star /\ Return(FALSE)

\* '*' accepts at once: what follows it in the pattern is never looked at.
StarAccepts == AtLevel /\ Head(regexpTokens) = Star /\ Return(TRUE)

Mismatch ==
  /\ AtLevel /\ topicTokens # <<>>
  /\ Head(regexpTokens) # Star
  /\ ~LevelMatches(Head(topicTokens), Head(regexpTokens))
  /\ Return(FALSE)

\* Mutant: the pattern's rest is left where the topic's rest belongs.
NextLevelCrossed ==
  /\ AtLevel /\ topicTokens # <<>>
  /\ Head(regexpTokens) # Star
  /\ LevelMatches(Head(topicTokens), Head(regexpTokens))
  /\ topicTokens' = Tail(regexpTokens)
  /\ regexpTokens' = Tail(topicTokens)
  /\ UNCHANGED <<arguments, pc, result>>

NextLevel ==
  /\ AtLevel /\ topicTokens # <<>>
  /\ Head(regexpTokens) # Star
  /\ LevelMatches(Head(topicTokens), Head(regexpTokens))
  /\ topicTokens' = Tail(topicTokens)
  /\ regexpTokens' = Tail(regexpTokens)
  /\ UNCHANGED <<arguments, pc, result>>

\* Mutant: what is left of the topic is not looked at.
PatternExhaustedAlways == pc = "loop" /\ regexpTokens = <<>> /\ Return(TRUE)

\* The pattern is exhausted: a match only if the topic is too.
PatternExhausted ==
  pc = "loop" /\ regexpTokens = <<>> /\ Return(topicTokens = <<>>)

Next ==
  \/ SameString \/ Tokenize
  \/ TopicTooShort \/ StarAccepts \/ Mismatch \/ NextLevel \/ PatternExhausted

Spec == Init /\ [][Next]_vars

-----------------------------------------------------------------------------
(* What a pattern means to the test-suite (test.py): '*' stands for any run *)
(* of levels and the rest of the pattern must match the rest of the topic.  *)
(* cut[j] is the number of topic levels the first j pattern levels take.    *)

WildcardSense(t, r) ==
  \E cut \in [0 .. Len(r) -> 0 .. Len(t)] :
    /\ cut[0] = 0 /\ cut[Len(r)] = Len(t)
    /\ \A j \in 1 .. Len(r) :
         IF r[j] = Star THEN cut[j - 1] <= cut[j]
         ELSE cut[j] = cut[j - 1] + 1 /\ LevelMatches(t[cut[j]], r[j])

InWildcardSense == WildcardSense(Tokens(topic), Tokens(regexp))

StarOnlyLast(r) == \A j \in 1 .. Len(r) - 1 : r[j] # Star

TypeOK ==
  /\ topic \in Strings /\ regexp \in Strings
  /\ topicTokens \in Seq(STRING) /\ Len(topicTokens) <= Len(Tokens(topic))
  /\ regexpTokens \in Seq(STRING) /\ Len(regexpTokens) <= Len(Tokens(regexp))
  /\ pc \in {"compare", "loop", "done"}
  /\ result \in BOOLEAN

\* The loop returns the closed form that the broker's model uses, whatever the
\* strings: equal strings, or level by level up to the pattern's first '*'
\* (utils.c check_topic_regexp).
ReturnsMatches == pc = "done" => (result <=> Matches(topic, regexp))

\* A subscriber never misses a topic its pattern covers: whatever the wildcards
\* mean to the test-suite, the code says yes (utils.c check_topic_regexp).
NeverMissed == pc = "done" /\ InWildcardSense => result

\* When '*' is at most the last level of the pattern, the code decides exactly
\* what the wildcards mean; the early acceptance is then no shortcut.
ExactWhenStarLast ==
  pc = "done" /\ StarOnlyLast(Tokens(regexp)) /\ topic # regexp
    => (result <=> InWildcardSense)

\* What run_test_c2_subscribe_star_wildcard expects of "*/pressure" (test.py):
\* a topic that does not end as the pattern does is not delivered.
StarMatchesRun ==
  pc = "done" /\ topic # regexp => (result <=> InWildcardSense)
=============================================================================
