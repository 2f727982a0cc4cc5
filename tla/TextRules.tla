------------------------------ MODULE TextRules ------------------------------
(***************************************************************************)
(* What the pipeline reads off a text before it asks anybody: its          *)
(* normalized form, by which duplicates are found                          *)
(* (utils/text_normalization.py), whether there is anything to classify,   *)
(* and the category its keywords name (utils/category_matching.py,         *)
(* TicketService._check_regex_fast_path).  A text is a sequence of         *)
(* characters; a few stand for each class the rules tell apart.            *)
(***************************************************************************)
EXTENDS Integers, SequencesExt

CONSTANTS
  Keywords,           \* Keywords[c]: the keywords of category c
  FastPathMaxLength,  \* FAST_PATH_MAX_LENGTH
  MaxLength           \* bound: the longest text

Small == {"a", "b"}
Capital == [A |-> "a", B |-> "b"]
Neither == {"9"}  \* a digit or an underscore: \w, and no letter
Punctuation == {","}
Whitespace == {"space", "tab"}

Characters == Small \cup DOMAIN Capital \cup Neither \cup Punctuation \cup Whitespace

ASSUME TextAssumption ==
  /\ IsFiniteSet(DOMAIN Keywords)
  /\ \A c \in DOMAIN Keywords : Keywords[c] \subseteq Seq(Small) \ {<<>>}
  /\ FastPathMaxLength \in Nat
  /\ MaxLength \in Nat

VARIABLE text

Init == text = <<>>

Type(c) ==
  /\ Len(text) < MaxLength
  /\ text' = Append(text, c)

Next == \E c \in Characters : Type(c)

Spec == Init /\ [][Next]_text

-----------------------------------------------------------------------------
(* normalize_text *)

LowerOf(c) == IF c \in DOMAIN Capital THEN Capital[c] ELSE c

Lower(s) == [i \in DOMAIN s |-> LowerOf(s[i])]

Mut_WithoutPunctuation(s) == [i \in DOMAIN s |-> IF s[i] \in Punctuation THEN "space" ELSE s[i]]

\* re.sub puts a replacement in the place of each match.  Nothing takes the
\* place of a punctuation mark.
WithoutPunctuation(s) ==
  FlattenSeq([i \in DOMAIN s |-> IF s[i] \in Punctuation THEN <<>> ELSE <<s[i]>>])

\* Every run of whitespace becomes one space, in the place of its first character.
Collapsed(s) ==
  FlattenSeq([i \in DOMAIN s |->
                IF s[i] \notin Whitespace THEN <<s[i]>>
                ELSE IF i > 1 /\ s[i - 1] \in Whitespace THEN <<>>
                ELSE <<"space">>])

Stripped(s) ==
  LET Kept == {i \in DOMAIN s : s[i] \notin Whitespace}
  IN  IF Kept = {} THEN <<>> ELSE SubSeq(s, Min(Kept), Max(Kept))

Normalized(s) == Stripped(Collapsed(WithoutPunctuation(Lower(s))))

-----------------------------------------------------------------------------
(* is_degenerate_text, match_single_category, _check_regex_fast_path *)

Mut_DegenerateWithoutWords(n) == n = <<>>

Degenerate(n) == \A i \in DOMAIN n : n[i] \notin Small

\* The categories one of whose keywords is a substring.
Matches(n) == {c \in DOMAIN Keywords : \E k \in Keywords[c] : k \in SubSeqs(n)}

Mut_MatchSingleGuesses(n) == IF Matches(n) = {} THEN {} ELSE {CHOOSE c \in Matches(n) : TRUE}

\* The category, as a set of at most one.
MatchSingle(n) == IF Cardinality(Matches(n)) = 1 THEN Matches(n) ELSE {}

FastPath(n) == IF Len(n) > FastPathMaxLength THEN {} ELSE MatchSingle(n)

-----------------------------------------------------------------------------
(* Properties *)

\* Where the characters of words are in s, in order.
WordPlaces(s) ==
  FlattenSeq([i \in DOMAIN s |->
                IF s[i] \in Punctuation \cup Whitespace THEN <<>> ELSE <<i>>])

\* n is the words of s in small letters, one space between two that are apart
\* in s and no other character.
IsNormalForm(n, s) ==
  LET p == WordPlaces(s)
      q == WordPlaces(n)
      Apart(i, j) == \E k \in i .. j : s[k] \in Whitespace
  IN  /\ Len(q) = Len(p)
      /\ \A x \in DOMAIN p : n[q[x]] = LowerOf(s[p[x]])
      /\ \A x \in 1 .. Len(p) - 1 :
           IF Apart(p[x], p[x + 1])
           THEN q[x + 1] = q[x] + 2 /\ n[q[x] + 1] = "space"
           ELSE q[x + 1] = q[x] + 1
      /\ IF p = <<>> THEN n = <<>> ELSE q[1] = 1 /\ Last(q) = Len(n)

\* The normalized text is the words of the text and nothing else: two texts that
\* differ in case, punctuation or spacing are duplicates, and normalizing what
\* claim_pending reads back would change nothing (text_normalization.py:7-10).
NormalFormOfText == IsNormalForm(Normalized(text), text)

\* A ticket is closed as meaningless exactly when its text has no letter, and
\* never one that a keyword could classify (test_text_normalization.py:34).
DegenerateHasNoLetters ==
  LET n == Normalized(text)
  IN  /\ Degenerate(n) <=> \A i \in DOMAIN text : LowerOf(text[i]) \notin Small
      /\ Degenerate(n) => Matches(n) = {}

\* "Conflicting signals fall through to the LLM instead of guessing"
\* (category_matching.py:23-24): nothing added to a text that is ambiguous, or
\* too long, brings it back to the fast path, and nothing turns one category
\* into another.
DoubtRemains ==
  [][LET n == Normalized(text)
         after == FastPath(Normalized(text'))
     IN  after # {} => FastPath(n) = after \/ Matches(n) = {}]_text
=============================================================================
