------------------------ MODULE StorePatternProofs ------------------------
(* The pattern matcher stays inside its strings and answers soundly, for   *)
(* every key and every pattern.                                            *)
EXTENDS StorePattern, TLAPS

\* One more pattern element matches one more piece of the key.
LEMMA ExtendMatch ==
    ASSUME NEW s, NEW t, NEW i \in Nat, NEW j \in Nat, NEW i2 \in Nat, i < i2,
           PrefixMatches(s, t, i, j),
           IF t[j + 1] = Token THEN \A m \in (i + 1)..i2 : s[m] # Slash
                             ELSE i2 = i + 1 /\ s[i2] = t[j + 1]
    PROVE  PrefixMatches(s, t, i2, j + 1)
  <1>1. PICK cut \in [0..j -> 0..i] :
           /\ cut[0] = 0
           /\ cut[j] = i
           /\ \A n \in 1..j :
                IF t[n] = Token
                THEN cut[n - 1] < cut[n] /\ \A m \in (cut[n - 1] + 1)..cut[n] : s[m] # Slash
                ELSE cut[n] = cut[n - 1] + 1 /\ s[cut[n]] = t[n]
    BY DEF PrefixMatches
  <1> DEFINE longer == [n \in 0..(j + 1) |-> IF n = j + 1 THEN i2 ELSE cut[n]]
  <1>2. longer \in [0..(j + 1) -> 0..i2]
    BY <1>1
  <1>3. longer[0] = 0 /\ longer[j + 1] = i2 /\ longer[j] = i
    BY <1>1
  <1>4. ASSUME NEW n \in 1..j PROVE longer[n] = cut[n] /\ longer[n - 1] = cut[n - 1]
    BY <1>1
  <1>5. ASSUME NEW n \in 1..(j + 1)
        PROVE  IF t[n] = Token
               THEN /\ longer[n - 1] < longer[n]
                    /\ \A m \in (longer[n - 1] + 1)..longer[n] : s[m] # Slash
               ELSE longer[n] = longer[n - 1] + 1 /\ s[longer[n]] = t[n]
    <2>1. CASE n = j + 1
      <3>1. longer[n - 1] = i /\ longer[n] = i2
        BY <1>3, <2>1
      <3> HIDE DEF longer
      <3> QED BY <2>1, <3>1
    <2>2. CASE n # j + 1
      <3>1. n \in 1..j
        BY <2>2
      <3>2. longer[n] = cut[n] /\ longer[n - 1] = cut[n - 1]
        BY <1>4, <3>1
      <3> HIDE DEF longer
      <3> QED BY <1>1, <3>1, <3>2
    <2> QED BY <2>1, <2>2
  <1> HIDE DEF longer
  <1> QED BY <1>2, <1>3, <1>5 DEF PrefixMatches

\* The empty pattern matches the empty text.
LEMMA EmptyMatch ==
    ASSUME NEW s, NEW t
    PROVE  PrefixMatches(s, t, 0, 0)
  <1> DEFINE cut == [n \in 0..0 |-> 0]
  <1>1. cut \in [0..0 -> 0..0] /\ cut[0] = 0
    OBVIOUS
  <1>2. \A n \in 1..0 : FALSE
    OBVIOUS
  <1> QED BY <1>1, <1>2 DEF PrefixMatches

\* The strengthening: what lies before the two pointers matches, and inside a
\* token the piece it has taken so far holds no separator.
Consumed ==
    /\ pc = "start" => k = 1 /\ p = 1
    /\ pc = "loop" => PrefixMatches(key, pattern, k - 1, p - 1)
    /\ pc = "run" =>
         /\ p <= Len(pattern) /\ pattern[p] = Token
         /\ \E i \in 0..(k - 1) :
              /\ PrefixMatches(key, pattern, i, p - 1)
              /\ \A m \in (i + 1)..(k - 1) : key[m] # Slash
              /\ i < k - 1 \/ At(k) \notin {End, Slash}

Inductive == TypeOK /\ Consumed /\ MatchIsSound

\* The matcher's pointers stay inside the two strings and a positive answer is
\* one the pattern denotes, in the state after every step.
LEMMA MatcherStep ==
    ASSUME Inductive, [Next]_vars
    PROVE  Inductive'
  <1> USE PatternAssumption
  <1>0. /\ Len(key) \in Nat /\ Len(pattern) \in Nat
        /\ k \in Nat /\ p \in Nat
        /\ \A i \in 1..Len(key) : key[i] \in Chars \cup {Slash}
        /\ \A i \in 1..Len(pattern) : pattern[i] \in Chars \cup {Slash, Token}
    BY DEF Inductive, TypeOK, Text, Pattern
  <1>1. CASE UNCHANGED vars
    BY <1>1 DEF Inductive, TypeOK, Consumed, MatchIsSound, At, vars
  <1>2. CASE Enter
    <2>1. CASE ExactOrPrefix(key, pattern) /\ Answer(TRUE)
      BY <1>2, <2>1 DEF Inductive, TypeOK, Consumed, MatchIsSound, Answer
    <2>2. CASE Answer(FALSE)
      BY <2>2 DEF Inductive, TypeOK, Consumed, MatchIsSound, Answer
    <2>3. CASE pc' = "loop" /\ UNCHANGED <<key, pattern, k, p>>
      <3>1. k = 1 /\ p = 1
        BY <1>2 DEF Enter, Inductive, Consumed
      <3>2. PrefixMatches(key, pattern, k - 1, p - 1)
        BY <3>1, EmptyMatch
      <3> QED BY <2>3, <3>2 DEF Inductive, TypeOK, Consumed, MatchIsSound
    <2> QED BY <1>2, <2>1, <2>2, <2>3 DEF Enter
  <1>3. CASE Compare
    <2>1. CASE Answer(FALSE)
      BY <2>1 DEF Inductive, TypeOK, Consumed, MatchIsSound, Answer
    <2>2. CASE /\ pattern[p] = Token /\ At(k) \notin {End, Slash}
               /\ pc' = "run" /\ UNCHANGED <<key, pattern, k, p>>
      <3>1. PrefixMatches(key, pattern, k - 1, p - 1) /\ p <= Len(pattern)
        BY <1>3 DEF Compare, Inductive, Consumed
      <3>2. k - 1 \in 0..(k - 1) /\ \A m \in ((k - 1) + 1)..(k - 1) : FALSE
        BY <1>0 DEF Inductive, TypeOK
      <3>3. Consumed'
        BY <2>2, <3>1, <3>2 DEF Consumed, At
      <3> QED BY <2>2, <3>3 DEF Inductive, TypeOK, MatchIsSound
    <2>3. CASE /\ pattern[p] # Token /\ At(k) = pattern[p]
               /\ k' = k + 1 /\ p' = p + 1 /\ UNCHANGED <<key, pattern, pc>>
      <3>1. /\ PrefixMatches(key, pattern, k - 1, p - 1)
            /\ p <= Len(pattern) /\ pc = "loop"
        BY <1>3 DEF Compare, Inductive, Consumed
      <3>2. k <= Len(key) /\ key[k] = pattern[p]
        BY <1>0, <2>3, <3>1 DEF At, Inductive, TypeOK
      <3>3. k - 1 \in Nat /\ p - 1 \in Nat /\ k - 1 < k /\ (p - 1) + 1 = p
        BY <1>0 DEF Inductive, TypeOK
      <3>4. PrefixMatches(key, pattern, k, (p - 1) + 1)
        BY <1>0, <2>3, <3>1, <3>2, <3>3, ExtendMatch
      <3>5. k' - 1 = k /\ p' - 1 = (p - 1) + 1
        BY <1>0, <2>3
      <3>6. Consumed'
        BY <2>3, <3>1, <3>4, <3>5 DEF Consumed
      <3> QED BY <1>0, <2>3, <3>1, <3>2, <3>6 DEF Inductive, TypeOK, MatchIsSound
    <2> QED BY <1>3, <2>1, <2>2, <2>3 DEF Compare
  <1>4. CASE Skip
    <2>0. PICK i \in 0..(k - 1) :
            /\ PrefixMatches(key, pattern, i, p - 1)
            /\ \A m \in (i + 1)..(k - 1) : key[m] # Slash
            /\ i < k - 1 \/ At(k) \notin {End, Slash}
      BY <1>4 DEF Skip, Inductive, Consumed
    <2>1. pc = "run" /\ p <= Len(pattern) /\ pattern[p] = Token
      BY <1>4 DEF Skip, Inductive, Consumed
    <2>2. CASE At(k) \notin {End, Slash} /\ k' = k + 1 /\ UNCHANGED <<key, pattern, pc, p>>
      <3>1. k <= Len(key) /\ key[k] # Slash
        BY <1>0, <2>2 DEF At, Inductive, TypeOK
      <3>2. /\ i \in 0..(k' - 1) /\ i < k' - 1
            /\ \A m \in (i + 1)..(k' - 1) : key[m] # Slash
        BY <1>0, <2>0, <2>2, <3>1
      <3>3. Consumed'
        BY <2>0, <2>1, <2>2, <3>2 DEF Consumed
      <3> QED BY <1>0, <2>1, <2>2, <3>1, <3>3 DEF Inductive, TypeOK, MatchIsSound
    <2>3. CASE /\ At(k) \in {End, Slash} /\ p' = p + 1 /\ pc' = "loop"
               /\ UNCHANGED <<key, pattern, k>>
      <3>1. /\ i \in Nat /\ p - 1 \in Nat /\ k - 1 \in Nat /\ i < k - 1
            /\ (p - 1) + 1 = p
        BY <1>0, <2>0, <2>3 DEF Inductive, TypeOK
      <3>2. PrefixMatches(key, pattern, k - 1, (p - 1) + 1)
        BY <2>0, <2>1, <3>1, ExtendMatch
      <3>3. p' - 1 = (p - 1) + 1
        BY <1>0, <2>3
      <3>4. Consumed'
        BY <2>3, <3>2, <3>3 DEF Consumed
      <3> QED BY <1>0, <2>1, <2>3, <3>4 DEF Inductive, TypeOK, MatchIsSound
    <2> QED BY <1>4, <2>2, <2>3 DEF Skip
  <1>5. CASE Finish
    <2>1. CASE At(k) = End
      <3>1. k - 1 = Len(key) /\ p - 1 = Len(pattern)
        BY <1>0, <1>5, <2>1 DEF Finish, At, Inductive, TypeOK
      <3>2. Matches(key, pattern)
        BY <1>5, <3>1 DEF Finish, Inductive, Consumed, Matches
      <3> QED BY <1>5, <3>2 DEF Finish, Answer, Inductive, TypeOK, Consumed, MatchIsSound
    <2>2. CASE At(k) # End
      BY <1>5, <2>2 DEF Finish, Answer, Inductive, TypeOK, Consumed, MatchIsSound
    <2> QED BY <2>1, <2>2
  <1> QED BY <1>1, <1>2, <1>3, <1>4, <1>5 DEF Next

\* string_matches_store_pattern, for every key and every pattern: the loops of
\* match_component_regex_cstr never read past the terminator of either string,
\* and a session is told of a key only if its pattern denotes the key.
THEOREM MatcherCorrect == Spec => [](TypeOK /\ MatchIsSound)
  <1>1. Init => Inductive
    BY PatternAssumption DEF Init, Inductive, TypeOK, Consumed, MatchIsSound, Text, Pattern
  <1>2. Inductive /\ [Next]_vars => Inductive'
    BY MatcherStep
  <1>3. Inductive => TypeOK /\ MatchIsSound
    BY DEF Inductive
  <1> QED BY <1>1, <1>2, <1>3, PTL DEF Spec
=============================================================================
