-------------------------- MODULE TopicMatchProofs --------------------------
(***************************************************************************)
(* The token loop of check_topic_regexp returns Matches(topic, regexp) for *)
(* all strings, whatever their length.  The loop invariant: the tokens not *)
(* yet consumed are covered exactly when the whole lists are.  And what    *)
(* that closed form has to do with what the wildcards mean.                *)
(***************************************************************************)
EXTENDS TopicMatch, FiniteSetTheorems, TLAPS

-----------------------------------------------------------------------------
(* What one turn of the loop may conclude from the first level of each side. *)

LEMMA LevelsConsumed ==
  ASSUME NEW t \in Seq(STRING), NEW r \in Seq(STRING), t # <<>>, r # <<>>,
         r[1] # Star, LevelMatches(t[1], r[1])
  PROVE  Covers(Tail(t), Tail(r)) <=> Covers(t, r)
<1> DEFINE t1 == Tail(t)
           r1 == Tail(r)
<1>1. /\ t1 \in Seq(STRING) /\ Len(t1) = Len(t) - 1 /\ Len(t) \in Nat /\ Len(t) >= 1
      /\ r1 \in Seq(STRING) /\ Len(r1) = Len(r) - 1 /\ Len(r) \in Nat /\ Len(r) >= 1
      /\ \A j \in 1 .. Len(t1) : t1[j] = t[j + 1]
      /\ \A j \in 1 .. Len(r1) : r1[j] = r[j + 1]
  OBVIOUS
<1> HIDE DEF t1, r1
<1>0. Len(t) = Len(t1) + 1 /\ Len(r) = Len(r1) + 1
  BY <1>1
<1>2. ASSUME NEW n \in 0 .. Len(r1), n <= Len(t1)
      PROVE  FirstLevelsMatch(t1, r1, n) <=> FirstLevelsMatch(t, r, n + 1)
  <2>1. ASSUME FirstLevelsMatch(t1, r1, n), NEW j \in 1 .. n + 1
        PROVE  r[j] # Star /\ LevelMatches(t[j], r[j])
    <3>1. CASE j = 1  BY <3>1
    <3>2. CASE j > 1
      <4>1. /\ j - 1 \in 1 .. n /\ (j - 1) + 1 = j
            /\ j - 1 \in 1 .. Len(r1) /\ j - 1 \in 1 .. Len(t1)
        BY <1>1, <1>2, <3>2
      <4>2. r1[j - 1] = r[(j - 1) + 1] /\ t1[j - 1] = t[(j - 1) + 1]
        BY <1>1, <4>1
      <4>3. r1[j - 1] = r[j] /\ t1[j - 1] = t[j]
        BY <4>1, <4>2
      <4> QED BY <4>1, <4>3, <2>1 DEF FirstLevelsMatch
    <3> QED BY <3>1, <3>2
  <2>2. ASSUME FirstLevelsMatch(t, r, n + 1), NEW j \in 1 .. n
        PROVE  r1[j] # Star /\ LevelMatches(t1[j], r1[j])
    <3>1. j \in 1 .. Len(r1) /\ j \in 1 .. Len(t1) /\ j + 1 \in 1 .. n + 1
      BY <1>1, <1>2
    <3>2. r1[j] = r[j + 1] /\ t1[j] = t[j + 1]
      BY <1>1, <3>1
    <3> QED BY <3>1, <3>2, <2>2 DEF FirstLevelsMatch
  <2> QED BY <2>1, <2>2 DEF FirstLevelsMatch
<1>3. ASSUME Covers(t1, r1) PROVE Covers(t, r)
  <2>1. CASE Len(t1) = Len(r1) /\ FirstLevelsMatch(t1, r1, Len(r1))
    <3>1. FirstLevelsMatch(t, r, Len(r1) + 1)
      BY <2>1, <1>1, <1>2
    <3>2. Len(t1) = Len(r1)
      BY <2>1
    <3>3. Len(t) = Len(r) /\ Len(r1) + 1 = Len(r)
      BY <3>2, <1>0, Zenon
    <3> QED BY <3>1, <3>3 DEF Covers
  <2>2. CASE \E k \in 1 .. Len(r1) :
               r1[k] = Star /\ k - 1 <= Len(t1) /\ FirstLevelsMatch(t1, r1, k - 1)
    <3>1. PICK k \in 1 .. Len(r1) :
             r1[k] = Star /\ k - 1 <= Len(t1) /\ FirstLevelsMatch(t1, r1, k - 1)
      BY <2>2
    <3>2. k + 1 \in 1 .. Len(r) /\ r[k + 1] = Star /\ (k + 1) - 1 <= Len(t)
      BY <3>1, <1>1
    <3>3. FirstLevelsMatch(t, r, (k - 1) + 1)
      BY <3>1, <1>1, <1>2
    <3>4. (k - 1) + 1 = (k + 1) - 1
      OBVIOUS
    <3> QED BY <3>2, <3>3, <3>4 DEF Covers
  <2> QED BY <1>3, <2>1, <2>2 DEF Covers
<1>4. ASSUME Covers(t, r) PROVE Covers(t1, r1)
  <2>1. CASE Len(t) = Len(r) /\ FirstLevelsMatch(t, r, Len(r))
    <3>1. FirstLevelsMatch(t, r, Len(r1) + 1)
      BY <2>1, <1>1
    <3> QED BY <3>1, <2>1, <1>1, <1>2 DEF Covers
  <2>2. CASE \E k \in 1 .. Len(r) :
               r[k] = Star /\ k - 1 <= Len(t) /\ FirstLevelsMatch(t, r, k - 1)
    <3>1. PICK k \in 1 .. Len(r) :
             r[k] = Star /\ k - 1 <= Len(t) /\ FirstLevelsMatch(t, r, k - 1)
      BY <2>2
    <3>2. k # 1  BY <3>1
    <3>3. k - 1 \in 1 .. Len(r1) /\ r1[k - 1] = Star /\ (k - 1) - 1 <= Len(t1)
      BY <3>1, <3>2, <1>1
    <3>4. FirstLevelsMatch(t, r, ((k - 1) - 1) + 1)
      BY <3>1
    <3>5. (k - 1) - 1 \in 0 .. Len(r1)
      BY <3>3, <1>1
    <3>6. FirstLevelsMatch(t1, r1, (k - 1) - 1)
      BY <3>3, <3>4, <3>5, <1>2
    <3> QED BY <3>3, <3>6 DEF Covers
  <2> QED BY <1>4, <2>1, <2>2 DEF Covers
<1> QED BY <1>3, <1>4 DEF t1, r1

LEMMA LevelsDiffer ==
  ASSUME NEW t \in Seq(STRING), NEW r \in Seq(STRING), r # <<>>, r[1] # Star,
         t = <<>> \/ ~LevelMatches(t[1], r[1])
  PROVE  ~Covers(t, r)
<1>1. Len(r) >= 1
  OBVIOUS
<1>2. ASSUME NEW n \in 1 .. Len(r), n <= Len(t) PROVE ~FirstLevelsMatch(t, r, n)
  BY <1>2 DEF FirstLevelsMatch
<1>3. ~(Len(t) = Len(r) /\ FirstLevelsMatch(t, r, Len(r)))
  BY <1>1, <1>2
<1>4. ASSUME NEW k \in 1 .. Len(r), r[k] = Star, k - 1 <= Len(t),
             FirstLevelsMatch(t, r, k - 1)
      PROVE  FALSE
  <2>1. k # 1 BY <1>4
  <2> QED BY <2>1, <1>2, <1>4
<1> QED BY <1>3, <1>4 DEF Covers

LEMMA StarCovers ==
  ASSUME NEW t \in Seq(STRING), NEW r \in Seq(STRING), r # <<>>, r[1] = Star
  PROVE  Covers(t, r)
<1>1. 1 \in 1 .. Len(r) /\ 1 - 1 <= Len(t)
  OBVIOUS
<1>2. FirstLevelsMatch(t, r, 1 - 1)
  BY DEF FirstLevelsMatch
<1> QED BY <1>1, <1>2 DEF Covers

LEMMA NoLevelsLeft ==
  ASSUME NEW t \in Seq(STRING)
  PROVE  Covers(t, <<>>) <=> t = <<>>
BY DEF Covers, FirstLevelsMatch

-----------------------------------------------------------------------------
(* The inductive invariant. *)

LoopInv ==
  pc = "loop" =>
    /\ topic # regexp
    /\ Covers(topicTokens, regexpTokens) <=> Covers(Tokens(topic), Tokens(regexp))

IInv == TypeOK /\ LoopInv /\ ReturnsMatches

LEMMA InitIInv == Init => IInv
<1>1. Init => TypeOK
  <2>1. <<>> \in Seq(STRING) /\ \A s \in Seq(STRING) : Len(<<>>) <= Len(s)
    OBVIOUS
  <2>2. "compare" \in {"compare", "loop", "done"} /\ FALSE \in BOOLEAN
    OBVIOUS
  <2>3. \A s \in Strings : Tokens(s) \in Seq(STRING)
    BY StringsAssumption
  <2> QED BY <2>1, <2>2, <2>3, Zenon DEF Init, TypeOK
<1>2. Init => LoopInv /\ ReturnsMatches
  BY DEF Init, LoopInv, ReturnsMatches
<1> QED BY <1>1, <1>2 DEF IInv

LEMMA NextIInv == IInv /\ [Next]_vars => IInv'
<1> SUFFICES ASSUME IInv, [Next]_vars PROVE IInv'
  OBVIOUS
<1> USE DEF IInv
<1>1. CASE SameString
  <2>1. topic' = topic /\ regexp' = regexp /\ pc' = "done" /\ result' = TRUE
    BY <1>1 DEF SameString, Return, arguments
  <2>2. Matches(topic', regexp')
    BY <1>1, <2>1 DEF SameString, Matches
  <2>3. TypeOK'
    BY <1>1, <2>1 DEF SameString, Return, tokens, TypeOK
  <2> QED BY <2>1, <2>2, <2>3 DEF LoopInv, ReturnsMatches
<1>2. CASE Tokenize
  <2>1. Tokens(topic) \in Seq(STRING) /\ Tokens(regexp) \in Seq(STRING)
    BY StringsAssumption DEF TypeOK
  <2>2. topic' = topic /\ regexp' = regexp /\ result' = result /\ pc' = "loop"
    BY <1>2 DEF Tokenize, arguments
  <2>3. Tokens(topic)' = Tokens(topic) /\ Tokens(regexp)' = Tokens(regexp)
    BY <2>2
  <2> QED BY <1>2, <2>1, <2>2, <2>3 DEF Tokenize, TypeOK, LoopInv, ReturnsMatches
<1>3. ASSUME Return(FALSE), pc = "loop", ~Covers(topicTokens, regexpTokens)
      PROVE  IInv'
  <2>1. topic' = topic /\ regexp' = regexp /\ pc' = "done" /\ result' = FALSE
    BY <1>3 DEF Return, arguments
  <2>2. ~Matches(topic', regexp')
    BY <1>3, <2>1 DEF LoopInv, Matches
  <2>3. TypeOK'
    BY <1>3, <2>1 DEF Return, tokens, TypeOK
  <2> QED BY <2>1, <2>2, <2>3 DEF LoopInv, ReturnsMatches
<1>4. ASSUME Return(TRUE), pc = "loop", Covers(topicTokens, regexpTokens)
      PROVE  IInv'
  <2>1. topic' = topic /\ regexp' = regexp /\ pc' = "done" /\ result' = TRUE
    BY <1>4 DEF Return, arguments
  <2>2. Matches(topic', regexp')
    BY <1>4, <2>1 DEF LoopInv, Matches
  <2>3. TypeOK'
    BY <1>4, <2>1 DEF Return, tokens, TypeOK
  <2> QED BY <2>1, <2>2, <2>3 DEF LoopInv, ReturnsMatches
<1>5. CASE TopicTooShort
  <2>1. /\ topicTokens \in Seq(STRING) /\ regexpTokens \in Seq(STRING)
        /\ topicTokens = <<>> /\ regexpTokens # <<>> /\ regexpTokens[1] # Star
    BY <1>5 DEF TopicTooShort, AtLevel, TypeOK
  <2>2. ~Covers(topicTokens, regexpTokens)
    BY <2>1, LevelsDiffer
  <2> QED BY <1>3, <1>5, <2>2 DEF TopicTooShort, AtLevel
<1>6. CASE StarAccepts
  <2>1. Covers(topicTokens, regexpTokens)
    BY <1>6, StarCovers DEF StarAccepts, AtLevel, TypeOK
  <2> QED BY <1>4, <1>6, <2>1 DEF StarAccepts, AtLevel
<1>7. CASE Mismatch
  <2>1. ~Covers(topicTokens, regexpTokens)
    BY <1>7, LevelsDiffer DEF Mismatch, AtLevel, TypeOK
  <2> QED BY <1>3, <1>7, <2>1 DEF Mismatch, AtLevel
<1>8. CASE NextLevel
  <2>1. Covers(topicTokens', regexpTokens') <=> Covers(topicTokens, regexpTokens)
    BY <1>8, LevelsConsumed DEF NextLevel, AtLevel, TypeOK
  <2>2. topic' = topic /\ regexp' = regexp /\ pc' = "loop" /\ result' = result
    BY <1>8 DEF NextLevel, AtLevel, arguments
  <2>3. /\ topicTokens' \in Seq(STRING) /\ Len(topicTokens') <= Len(topicTokens)
        /\ regexpTokens' \in Seq(STRING) /\ Len(regexpTokens') <= Len(regexpTokens)
    BY <1>8 DEF NextLevel, AtLevel, TypeOK
  <2>5. /\ Tokens(topic') = Tokens(topic) /\ Tokens(topic) \in Seq(STRING)
        /\ Tokens(regexp') = Tokens(regexp) /\ Tokens(regexp) \in Seq(STRING)
    BY <2>2, StringsAssumption DEF TypeOK
  <2>6. Len(topicTokens') <= Len(Tokens(topic')) /\ Len(regexpTokens') <= Len(Tokens(regexp'))
    BY <2>3, <2>5 DEF TypeOK
  <2>4. LoopInv'
    BY <1>8, <2>1, <2>2 DEF LoopInv, NextLevel, AtLevel
  <2> QED BY <2>2, <2>3, <2>4, <2>6 DEF TypeOK, ReturnsMatches
<1>9. CASE PatternExhausted
  <2>1. Covers(topicTokens, regexpTokens) <=> topicTokens = <<>>
    BY <1>9, NoLevelsLeft DEF PatternExhausted, TypeOK
  <2>2. CASE topicTokens = <<>>
    BY <1>4, <1>9, <2>1, <2>2 DEF PatternExhausted, Return
  <2>3. CASE topicTokens # <<>>
    BY <1>3, <1>9, <2>1, <2>3 DEF PatternExhausted, Return
  <2> QED BY <2>2, <2>3
<1>10. CASE UNCHANGED vars
  BY <1>10 DEF vars, TypeOK, LoopInv, ReturnsMatches
<1> QED BY <1>1, <1>2, <1>5, <1>6, <1>7, <1>8, <1>9, <1>10 DEF Next

THEOREM Invariance == Spec => []IInv
<1> QED BY InitIInv, NextIInv, PTL DEF Spec

\* The types of the walk hold for strings of any length.
THEOREM TypesHold == Spec => []TypeOK
<1>1. IInv => TypeOK  BY DEF IInv
<1> QED BY <1>1, Invariance, PTL

\* check_topic_regexp returns Matches(topic, regexp), for any two strings.
THEOREM LoopReturnsMatches == Spec => []ReturnsMatches
<1>1. IInv => ReturnsMatches  BY DEF IInv
<1> QED BY <1>1, Invariance, PTL

-----------------------------------------------------------------------------
(* The closed form against what the wildcards mean. *)

LEMMA LeastExists ==
  ASSUME NEW n \in Nat, NEW K \in SUBSET (0 .. n), K # {}
  PROVE  \E x \in K : \A y \in K : x <= y
<1> DEFINE Below == {0 .. k : k \in K}
<1>1. Below \in SUBSET FiniteSubsetsOf(Nat) /\ Below # {}
  <2>1. \A k \in K : IsFiniteSet(0 .. k) /\ (0 .. k) \in SUBSET Nat
    BY FS_Interval
  <2> QED BY <2>1 DEF FiniteSubsetsOf
<1>2. PICK I \in Below : \A J \in Below : ~(<<J, I>> \in StrictSubsetOrdering(Nat))
  BY <1>1, WFMin, FS_StrictSubsetOrderingWellFounded
<1>3. PICK x \in K : I = 0 .. x
  BY <1>2
<1>4. \A y \in K : x <= y
  <2> SUFFICES ASSUME NEW y \in K, y < x PROVE FALSE
    OBVIOUS
  <2>1. (0 .. y) \in Below /\ (0 .. y) \subseteq (0 .. x) /\ x \in 0 .. x /\ x \notin 0 .. y
    OBVIOUS
  <2>2. <<0 .. y, 0 .. x>> \in StrictSubsetOrdering(Nat)
    BY <2>1 DEF StrictSubsetOrdering
  <2> QED BY <1>2, <1>3, <2>1, <2>2
<1> QED BY <1>4

\* cut of WildcardSense, with its conditions.
Cuts(cut, t, r) ==
  /\ cut \in [0 .. Len(r) -> 0 .. Len(t)]
  /\ cut[0] = 0 /\ cut[Len(r)] = Len(t)
  /\ \A j \in 1 .. Len(r) :
       IF r[j] = Star THEN cut[j - 1] <= cut[j]
       ELSE cut[j] = cut[j - 1] + 1 /\ LevelMatches(t[cut[j]], r[j])

LEMMA SenseIsCut ==
  ASSUME NEW t, NEW r
  PROVE  WildcardSense(t, r) <=> \E cut : Cuts(cut, t, r)
BY DEF WildcardSense, Cuts

\* Before the first '*' each level of the pattern takes one level of the topic.
LEMMA OneLevelEach ==
  ASSUME NEW t \in Seq(STRING), NEW r \in Seq(STRING), NEW cut, Cuts(cut, t, r),
         NEW n \in 0 .. Len(r), \A j \in 1 .. n : r[j] # Star
  PROVE  n <= Len(t) /\ cut[n] = n /\ FirstLevelsMatch(t, r, n)
<1> DEFINE Wrong == {j \in 0 .. n : cut[j] # j}
<1>1. \A j \in 1 .. n : cut[j] = cut[j - 1] + 1 /\ LevelMatches(t[cut[j]], r[j])
  BY DEF Cuts
<1>2. Wrong = {}
  <2> SUFFICES ASSUME Wrong # {} PROVE FALSE
    OBVIOUS
  <2>1. PICK x \in Wrong : \A y \in Wrong : x <= y
    <3>1. Wrong \in SUBSET (0 .. n) /\ n \in Nat
      OBVIOUS
    <3> HIDE DEF Wrong
    <3> QED BY <3>1, LeastExists
  <2>2. x \in 1 .. n
    BY <2>1 DEF Cuts
  <2>3. x - 1 \in 0 .. n /\ x - 1 \notin Wrong
    BY <2>1, <2>2
  <2> QED BY <1>1, <2>1, <2>2, <2>3
<1>3. \A j \in 0 .. n : cut[j] = j
  BY <1>2
<1>4. cut[n] \in 0 .. Len(t)
  BY DEF Cuts
<1>5. \A j \in 1 .. n : LevelMatches(t[j], r[j])
  <2> HIDE DEF Wrong
  <2> QED BY <1>1, <1>3
<1>6. cut[n] = n /\ n <= Len(t)
  BY <1>3, <1>4
<1> QED BY <1>5, <1>6 DEF FirstLevelsMatch

LEMMA SenseCovers ==
  ASSUME NEW t \in Seq(STRING), NEW r \in Seq(STRING), WildcardSense(t, r)
  PROVE  Covers(t, r)
<1> DEFINE Stars == {j \in 1 .. Len(r) : r[j] = Star}
<1>1. PICK cut : Cuts(cut, t, r)
  BY SenseIsCut
<1>2. CASE Stars = {}
  <2>1. cut[Len(r)] = Len(r) /\ FirstLevelsMatch(t, r, Len(r))
    BY <1>1, <1>2, OneLevelEach
  <2> QED BY <1>1, <2>1 DEF Cuts, Covers
<1>3. CASE Stars # {}
  <2>1. PICK k \in Stars : \A j \in Stars : k <= j
    <3>1. Stars \in SUBSET (0 .. Len(r)) /\ Len(r) \in Nat
      OBVIOUS
    <3> HIDE DEF Stars
    <3> QED BY <1>3, <3>1, LeastExists
  <2>2. k \in 1 .. Len(r) /\ r[k] = Star /\ k - 1 \in 0 .. Len(r)
        /\ \A j \in 1 .. k - 1 : r[j] # Star
    BY <2>1
  <2>3. k - 1 <= Len(t) /\ FirstLevelsMatch(t, r, k - 1)
    BY <1>1, <2>2, OneLevelEach
  <2> QED BY <2>2, <2>3 DEF Covers
<1> QED BY <1>2, <1>3

LEMMA CoversSense ==
  ASSUME NEW t \in Seq(STRING), NEW r \in Seq(STRING), StarOnlyLast(r), Covers(t, r)
  PROVE  WildcardSense(t, r)
<1>1. CASE Len(t) = Len(r) /\ FirstLevelsMatch(t, r, Len(r))
  <2> DEFINE cut == [j \in 0 .. Len(r) |-> j]
  <2>1. Cuts(cut, t, r)
    BY <1>1 DEF Cuts, FirstLevelsMatch
  <2> QED BY <2>1, SenseIsCut
<1>2. CASE \E k \in 1 .. Len(r) :
             r[k] = Star /\ k - 1 <= Len(t) /\ FirstLevelsMatch(t, r, k - 1)
  <2>1. PICK k \in 1 .. Len(r) :
          r[k] = Star /\ k - 1 <= Len(t) /\ FirstLevelsMatch(t, r, k - 1)
    BY <1>2
  <2>2. k = Len(r)
    BY <2>1 DEF StarOnlyLast
  <2> DEFINE cut == [j \in 0 .. Len(r) |-> IF j = Len(r) THEN Len(t) ELSE j]
  <2>3. cut \in [0 .. Len(r) -> 0 .. Len(t)] /\ cut[0] = 0 /\ cut[Len(r)] = Len(t)
        /\ \A j \in 0 .. Len(r) - 1 : cut[j] = j
    BY <2>1, <2>2
  <2> HIDE DEF cut
  <2>4. ASSUME NEW j \in 1 .. Len(r)
        PROVE  IF r[j] = Star THEN cut[j - 1] <= cut[j]
               ELSE cut[j] = cut[j - 1] + 1 /\ LevelMatches(t[cut[j]], r[j])
    <3>1. CASE j = Len(r)
      BY <2>1, <2>2, <2>3, <3>1
    <3>2. CASE j # Len(r)
      <4>1. j \in 1 .. k - 1 /\ cut[j] = j /\ cut[j - 1] = j - 1
        BY <2>2, <2>3, <3>2
      <4> QED BY <2>1, <4>1 DEF FirstLevelsMatch
    <3> QED BY <3>1, <3>2
  <2>5. Cuts(cut, t, r)
    BY <2>3, <2>4 DEF Cuts
  <2> QED BY <2>5, SenseIsCut
<1> QED BY <1>1, <1>2 DEF Covers

\* Whatever the wildcards mean to the test-suite, the code says yes: a subscriber
\* misses no topic that its pattern covers, for strings of any length.
THEOREM NothingMissed == Spec => []NeverMissed
<1>1. IInv => NeverMissed
  <2> SUFFICES ASSUME IInv, pc = "done", InWildcardSense PROVE result
    BY DEF NeverMissed
  <2>1. Tokens(topic) \in Seq(STRING) /\ Tokens(regexp) \in Seq(STRING)
    BY StringsAssumption DEF IInv, TypeOK
  <2>2. Covers(Tokens(topic), Tokens(regexp))
    BY <2>1, SenseCovers DEF InWildcardSense
  <2> QED BY <2>2 DEF IInv, ReturnsMatches, Matches
<1> QED BY <1>1, Invariance, PTL

\* With '*' at most in the last level the code decides exactly what the wildcards
\* mean, for strings of any length.
THEOREM ExactIfStarLast == Spec => []ExactWhenStarLast
<1>1. IInv => ExactWhenStarLast
  <2> SUFFICES ASSUME IInv, pc = "done", StarOnlyLast(Tokens(regexp)), topic # regexp
               PROVE  result <=> InWildcardSense
    BY DEF ExactWhenStarLast
  <2>1. Tokens(topic) \in Seq(STRING) /\ Tokens(regexp) \in Seq(STRING)
    BY StringsAssumption DEF IInv, TypeOK
  <2>2. InWildcardSense <=> Covers(Tokens(topic), Tokens(regexp))
    BY <2>1, SenseCovers, CoversSense DEF InWildcardSense
  <2> QED BY <2>2 DEF IInv, ReturnsMatches, Matches
<1> QED BY <1>1, Invariance, PTL
=============================================================================
