---------------------------- MODULE StorePattern ----------------------------
(***************************************************************************)
(* The pattern matcher behind configd's notification patterns:             *)
(* string_matches_store_pattern and match_component_regex_cstr of          *)
(* userland/configd/panthera_configd.c.                                    *)
(*                                                                         *)
(* A key is a sequence of characters.  A pattern is a sequence of          *)
(* characters and of the token "[^/]+", which is one element here, Token.    *)
(* The matcher is a loop over two pointers, k into the key and p into the  *)
(* pattern, that never backs up: it is compared with what the pattern      *)
(* denotes as a regular expression.                                        *)
(***************************************************************************)
EXTENDS Integers, Sequences, FiniteSets

CONSTANTS
    Chars,       \* characters other than the separator
    Slash,       \* the separator "/"
    Token,         \* the token "[^/]+"
    End,         \* the terminating NUL
    BufferSize,  \* size of keyBuf and patternBuf, 512 in the code
    Keys,        \* the keys considered
    Patterns     \* the patterns considered

Text    == Seq(Chars \cup {Slash})
Pattern == Seq(Chars \cup {Slash, Token})

ASSUME PatternAssumption ==
    /\ Slash \notin Chars
    /\ Token \notin Chars \cup {Slash}
    /\ End \notin Chars \cup {Slash, Token}
    /\ BufferSize \in Nat \ {0}
    /\ Keys \subseteq Text
    /\ Patterns \subseteq Pattern

VARIABLES
    key, pattern,   \* the arguments
    pc,             \* "start", "loop", "run" (inside the token), "yes", "no"
    k, p            \* the next character of the key and of the pattern

vars == <<key, pattern, pc, k, p>>

-----------------------------------------------------------------------------
Init ==
    /\ key \in Keys
    /\ pattern \in Patterns
    /\ pc = "start"
    /\ k = 1
    /\ p = 1

HasPrefix(s, t) == Len(t) <= Len(s) /\ \A i \in DOMAIN t : s[i] = t[i]

\* string_matches_exact_or_prefix
ExactOrPrefix(s, t) ==
    \/ t = << >>
    \/ s = t
    \/ t # << >> /\ t[Len(t)] = Slash /\ HasPrefix(s, t)

Tokens(t)     == {i \in DOMAIN t : t[i] = Token}
ByteLength(t) == Len(t) + 4 * Cardinality(Tokens(t))

\* Both strings and their terminators fit the buffers.
Fits(s, t) == Len(s) < BufferSize /\ ByteLength(t) < BufferSize

Answer(b) ==
    /\ pc' = IF b THEN "yes" ELSE "no"
    /\ UNCHANGED <<key, pattern, k, p>>

\* string_matches_store_pattern, up to the call of the matcher.
Enter ==
    /\ pc = "start"
    /\ \/ ExactOrPrefix(key, pattern) /\ Answer(TRUE)
       \/ /\ ~ExactOrPrefix(key, pattern)
          /\ \/ (Tokens(pattern) = {} \/ ~Fits(key, pattern)) /\ Answer(FALSE)
             \/ /\ Tokens(pattern) # {} /\ Fits(key, pattern)
                /\ pc' = "loop"
                /\ UNCHANGED <<key, pattern, k, p>>

\* *key, which is NUL after the last character.
At(i) == IF i <= Len(key) THEN key[i] ELSE End

\* The body of the outer loop: the token, or a character.
Compare ==
    /\ pc = "loop"
    /\ p <= Len(pattern)
    /\ \/ /\ pattern[p] = Token
          /\ \/ At(k) \in {End, Slash} /\ Answer(FALSE)
             \/ At(k) \notin {End, Slash} /\ pc' = "run" /\ UNCHANGED <<key, pattern, k, p>>
       \/ /\ pattern[p] # Token
          /\ \/ At(k) # pattern[p] /\ Answer(FALSE)
             \/ /\ At(k) = pattern[p]
                /\ k' = k + 1
                /\ p' = p + 1
                /\ UNCHANGED <<key, pattern, pc>>

\* Faulty variant of the inner loop: it forgets the end of the key.
SkipToSlash ==
    /\ pc = "run"
    /\ \/ /\ At(k) # Slash
          /\ k' = k + 1
          /\ UNCHANGED <<key, pattern, pc, p>>
       \/ /\ At(k) = Slash
          /\ p' = p + 1
          /\ pc' = "loop"
          /\ UNCHANGED <<key, pattern, k>>

\* Faulty variant of the inner loop: it also skips one separator.
SkipSlash ==
    /\ pc = "run"
    /\ \/ /\ At(k) \notin {End, Slash}
          /\ k' = k + 1
          /\ UNCHANGED <<key, pattern, pc, p>>
       \/ /\ At(k) \in {End, Slash}
          /\ k' = IF At(k) = Slash THEN k + 1 ELSE k
          /\ p' = p + 1
          /\ pc' = "loop"
          /\ UNCHANGED <<key, pattern>>

\* The inner loop: the token takes all it can, and gives nothing back.
Skip ==
    /\ pc = "run"
    /\ \/ /\ At(k) \notin {End, Slash}
          /\ k' = k + 1
          /\ UNCHANGED <<key, pattern, pc, p>>
       \/ /\ At(k) \in {End, Slash}
          /\ p' = p + 1
          /\ pc' = "loop"
          /\ UNCHANGED <<key, pattern, k>>

\* Faulty variant: the rest of the key is ignored.
FinishAnywhere == pc = "loop" /\ p > Len(pattern) /\ Answer(TRUE)

\* The pattern is used up: so must the key be.
Finish == pc = "loop" /\ p > Len(pattern) /\ Answer(At(k) = End)

Next == Enter \/ Compare \/ Skip \/ Finish

Spec == Init /\ [][Next]_vars

-----------------------------------------------------------------------------
(* What a pattern denotes                                                  *)

\* The first j elements of the pattern t match the first i characters of s:
\* cut gives where the part of each element ends.
PrefixMatches(s, t, i, j) ==
    \E cut \in [0..j -> 0..i] :
        /\ cut[0] = 0
        /\ cut[j] = i
        /\ \A n \in 1..j :
             IF t[n] = Token
             THEN cut[n - 1] < cut[n] /\ \A m \in (cut[n - 1] + 1)..cut[n] : s[m] # Slash
             ELSE cut[n] = cut[n - 1] + 1 /\ s[cut[n]] = t[n]

Matches(s, t) == PrefixMatches(s, t, Len(s), Len(t))

\* Patterns of whole components, as the SCDynamicStoreKeyCreate functions make
\* them: a token ends its component.
ComponentPattern(t) ==
    \A i \in Tokens(t) : i = Len(t) \/ t[i + 1] = Slash

\* The two pointers stay inside the strings, their terminators included: the
\* loops of match_component_regex_cstr never read past a NUL.
TypeOK ==
    /\ key \in Text
    /\ pattern \in Pattern
    /\ pc \in {"start", "loop", "run", "yes", "no"}
    /\ k \in 1..(Len(key) + 1)
    /\ p \in 1..(Len(pattern) + 1)

\* string_matches_store_pattern never notifies a session of a key its pattern
\* does not denote: a positive answer is an exact match, a prefix of whole
\* components, or a match of the regular expression.
MatchIsSound ==
    pc = "yes" => ExactOrPrefix(key, pattern) \/ Matches(key, pattern)

\* For patterns of whole components the matcher, which never backs up, misses
\* no key that fits its buffers.
MatchIsComplete ==
    pc = "no" /\ ComponentPattern(pattern) /\ Fits(key, pattern) =>
        ~ExactOrPrefix(key, pattern) /\ ~Matches(key, pattern)

=============================================================================
