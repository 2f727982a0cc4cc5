-------------------------- MODULE TextRulesProofs --------------------------
(***************************************************************************)
(* The text rules for texts of any length, any keywords and any limit of   *)
(* the fast path.  A text grows by one character, and its normalized form  *)
(* by nothing, by that character or by a space and that character          *)
(* (NormalizedStep): the properties follow from this one step.  The step   *)
(* rests on what FlattenSeq makes of one more piece, for which a recursive *)
(* function is needed that exists and is the only one; both are shown by   *)
(* the smallest index that would have none, or two.                        *)
(***************************************************************************)
EXTENDS TextRules, TLAPS, FiniteSetTheorems, SequenceTheorems, WellFoundedInduction

-----------------------------------------------------------------------------
(* Numbers *)

\* A set of numbers has a smallest one: take the one with the fewest below it.
LEMMA Least ==
  ASSUME NEW S \in SUBSET Nat, S # {}
  PROVE  \E m \in S : \A j \in S : m <= j
<1> DEFINE Below(i) == {k \in S : k < i}
           Belows == {Below(i) : i \in S}
           Smaller == StrictSubsetOrdering(S)
<1>1. Belows # {} /\ Belows \subseteq FiniteSubsetsOf(S)
  <2>1. ASSUME NEW i \in S PROVE Below(i) \in SUBSET S /\ IsFiniteSet(Below(i))
    <3>1. i \in Nat /\ IsFiniteSet(0 .. i)
      BY FS_Interval
    <3>2. \A k \in S : k < i => k \in 0 .. i
      BY <3>1
    <3>3. {k \in S : k < i} \subseteq 0 .. i
      BY <3>2
    <3> QED
      BY <3>1, <3>3, FS_Subset
  <2> QED
    BY <2>1 DEF FiniteSubsetsOf
<1>2. IsWellFoundedOn(Smaller, FiniteSubsetsOf(S))
  BY FS_StrictSubsetOrderingWellFounded
<1>3. PICK A \in Belows : \A B \in Belows : <<B, A>> \notin Smaller
  <2> HIDE DEF Belows, Smaller
  <2> QED
    BY <1>1, <1>2, WFMin
<1>4. PICK m \in S : A = Below(m)
  BY <1>3
<1>5. ASSUME NEW j \in S, j < m PROVE FALSE
  <2>1. /\ \A k \in S : k < j => k < m
        /\ ~(j < j)
        /\ Below(j) = {k \in S : k < j} /\ Below(m) = {k \in S : k < m}
    BY <1>5
  <2> HIDE DEF Below
  <2>2. Below(j) \subseteq Below(m) /\ j \in Below(m) /\ j \notin Below(j)
    BY <1>5, <2>1
  <2>3. Below(j) \in Belows /\ Below(m) \subseteq S
    BY <2>1
  <2>4. <<Below(j), Below(m)>> \in Smaller
    BY <2>2, <2>3 DEF StrictSubsetOrdering
  <2> QED
    BY <1>3, <1>4, <2>3, <2>4
<1> QED
  BY <1>5

LEMMA MinOf ==
  ASSUME NEW S \in SUBSET Nat, S # {}
  PROVE  Min(S) \in S /\ \A j \in S : Min(S) <= j
BY Least DEF Min

LEMMA MaxOf ==
  ASSUME NEW S \in SUBSET Nat, S # {}, NEW n \in Nat, \A j \in S : j <= n
  PROVE  Max(S) \in S /\ \A j \in S : Max(S) >= j
<1> DEFINE Down == {n - j : j \in S}
<1>1. Down \in SUBSET Nat /\ Down # {}
  <2>1. \A j \in S : n - j \in Nat
    OBVIOUS
  <2> QED
    BY <2>1
<1>2. PICK m \in Down : \A d \in Down : m <= d
  BY <1>1, Least
<1>3. PICK k \in S : m = n - k
  BY <1>2
<1>4. ASSUME NEW j \in S PROVE k >= j
  <2>1. n - k <= n - j /\ j \in Nat /\ k \in Nat
    BY <1>2, <1>3
  <2> QED
    BY <2>1
<1> QED
  BY <1>4 DEF Max

-----------------------------------------------------------------------------
(* FlattenSeq *)

\* f concatenates ss from the first piece to the last.
Flattens(f, ss) ==
  f = [i \in 1 .. Len(ss) |-> IF i = 1 THEN ss[i] ELSE f[i - 1] \o ss[i]]

LEMMA FlattensOneMore ==
  ASSUME NEW C, NEW ss \in Seq(C), NEW x \in C, NEW f, Flattens(f, ss)
  PROVE  Flattens([i \in 1 .. Len(ss) + 1 |->
                     IF i <= Len(ss) THEN f[i]
                     ELSE IF i = 1 THEN x ELSE f[i - 1] \o x], Append(ss, x))
<1> DEFINE n == Len(ss)
           tt == Append(ss, x)
           g == [i \in 1 .. n + 1 |->
                   IF i <= n THEN f[i] ELSE IF i = 1 THEN x ELSE f[i - 1] \o x]
<1>1. /\ n \in Nat /\ Len(tt) = n + 1 /\ tt[n + 1] = x
      /\ \A i \in 1 .. n : tt[i] = ss[i]
  OBVIOUS
<1>2. \A i \in 1 .. n : f[i] = IF i = 1 THEN ss[i] ELSE f[i - 1] \o ss[i]
  BY DEF Flattens
<1> HIDE DEF n, tt
<1>3. \A i \in 1 .. n + 1 : g[i] = IF i = 1 THEN tt[i] ELSE g[i - 1] \o tt[i]
  <2>1. CASE n = 0
    BY <1>1, <2>1
  <2>2. ASSUME n # 0, NEW i \in 1 .. n
        PROVE  g[i] = IF i = 1 THEN tt[i] ELSE g[i - 1] \o tt[i]
    <3>1. g[i] = f[i] /\ (i # 1 => g[i - 1] = f[i - 1]) /\ tt[i] = ss[i]
      BY <1>1, <2>2
    <3> QED
      BY <1>2, <2>2, <3>1
  <2>3. CASE n # 0
    <3>1. g[n + 1] = f[n] \o x /\ g[n] = f[n]
      BY <1>1, <2>3
    <3>2. n + 1 # 1 /\ (n + 1) - 1 = n /\ \A i \in 1 .. n + 1 : i \in 1 .. n \/ i = n + 1
      BY <1>1, <2>3
    <3> HIDE DEF g
    <3>3. g[n + 1] = g[(n + 1) - 1] \o tt[n + 1]
      BY <1>1, <3>1, <3>2
    <3> QED
      BY <2>2, <2>3, <3>2, <3>3
  <2> QED
    BY <2>1, <2>3
<1>4. g = [i \in 1 .. Len(tt) |-> IF i = 1 THEN tt[i] ELSE g[i - 1] \o tt[i]]
  BY <1>1, <1>3
<1> QED
  BY <1>4 DEF Flattens, n, tt

LEMMA FlattensExists ==
  ASSUME NEW C
  PROVE  \A ss \in Seq(C) : \E f : Flattens(f, ss)
<1> DEFINE Bad == {n \in Nat : \E ss \in Seq(C) : Len(ss) = n /\ ~\E f : Flattens(f, ss)}
<1>1. SUFFICES ASSUME Bad # {} PROVE FALSE
  OBVIOUS
<1>2. PICK n \in Bad : \A j \in Bad : n <= j
  BY <1>1, Least
<1>3. PICK ss \in Seq(C) : Len(ss) = n /\ ~\E f : Flattens(f, ss)
  BY <1>2
<1>4. n # 0
  <2>1. Len(ss) = 0 => Flattens([i \in 1 .. 0 |-> 0], ss)
    BY DEF Flattens
  <2> QED
    BY <1>3, <2>1
<1> DEFINE front == [i \in 1 .. n - 1 |-> ss[i]]
<1>5. /\ front \in Seq(C) /\ Len(front) = n - 1 /\ n - 1 \in Nat
      /\ ss[n] \in C /\ ss = Append(front, ss[n])
  BY <1>3, <1>4
<1>6. n - 1 \notin Bad
  BY <1>2, <1>5
<1> HIDE DEF front
<1>7. PICK f : Flattens(f, front)
  BY <1>5, <1>6
<1> QED
  BY <1>3, <1>5, <1>7, FlattensOneMore

LEMMA FlattensUnique ==
  ASSUME NEW C, NEW ss \in Seq(C), NEW f, NEW g, Flattens(f, ss), Flattens(g, ss)
  PROVE  f = g
<1> DEFINE n == Len(ss)
           Bad == {i \in 1 .. n : f[i] # g[i]}
<1>1. n \in Nat
  OBVIOUS
<1> HIDE DEF n
<1>2. /\ \A i \in 1 .. n : f[i] = IF i = 1 THEN ss[i] ELSE f[i - 1] \o ss[i]
      /\ \A i \in 1 .. n : g[i] = IF i = 1 THEN ss[i] ELSE g[i - 1] \o ss[i]
      /\ f = [i \in 1 .. n |-> f[i]] /\ g = [i \in 1 .. n |-> g[i]]
  BY DEF Flattens, n
<1>3. Bad \in SUBSET Nat
  BY <1>1
<1>4. SUFFICES ASSUME Bad # {} PROVE FALSE
  BY <1>2
<1>5. PICK m \in Bad : \A j \in Bad : m <= j
  BY <1>3, <1>4, Least
<1>6. m \in 1 .. n /\ f[m] # g[m]
  OBVIOUS
<1>7. m # 1
  BY <1>2, <1>6
<1>8. m - 1 \in 1 .. n /\ ~(m <= m - 1)
  BY <1>1, <1>6, <1>7
<1>9. f[m - 1] = g[m - 1]
  BY <1>5, <1>8
<1> QED
  BY <1>2, <1>6, <1>7, <1>9

LEMMA FlattenOf ==
  ASSUME NEW C, NEW ss \in Seq(C), NEW f, Flattens(f, ss), Len(ss) # 0
  PROVE  FlattenSeq(ss) = f[Len(ss)]
<1>1. FlattenSeq(ss) = (CHOOSE g : Flattens(g, ss))[Len(ss)]
  BY DEF FlattenSeq, Flattens
<1>2. Flattens(CHOOSE g : Flattens(g, ss), ss)
  OBVIOUS
<1> QED
  BY <1>1, <1>2, FlattensUnique

\* No piece makes nothing, and one more piece is added at the end.
LEMMA FlattenNone == FlattenSeq(<<>>) = <<>>
  BY DEF FlattenSeq

LEMMA FlattenOneMore ==
  ASSUME NEW D, NEW ss \in Seq(Seq(D)), NEW x \in Seq(D)
  PROVE  FlattenSeq(Append(ss, x)) = FlattenSeq(ss) \o x
<1>1. PICK f : Flattens(f, ss)
  BY FlattensExists
<1> DEFINE n == Len(ss)
           g == [i \in 1 .. n + 1 |->
                   IF i <= n THEN f[i] ELSE IF i = 1 THEN x ELSE f[i - 1] \o x]
<1>2. Flattens(g, Append(ss, x))
  BY <1>1, FlattensOneMore
<1>3. n \in Nat /\ Append(ss, x) \in Seq(Seq(D)) /\ Len(Append(ss, x)) = n + 1
  OBVIOUS
<1>4. FlattenSeq(Append(ss, x)) = g[n + 1]
  <2> HIDE DEF g, n
  <2>1. Len(Append(ss, x)) # 0
    BY <1>3
  <2> QED
    BY <1>2, <1>3, <2>1, FlattenOf
<1>5. CASE n = 0
  <2>1. ss = <<>> /\ <<>> \o x = x
    BY <1>5
  <2>2. g[n + 1] = x
    BY <1>5
  <2> QED
    BY <1>4, <2>1, <2>2, FlattenNone
<1>6. CASE n # 0
  <2>1. g[n + 1] = f[n] \o x
    BY <1>3, <1>6
  <2>2. FlattenSeq(ss) = f[n]
    BY <1>1, <1>6, FlattenOf
  <2> QED
    BY <1>4, <2>1, <2>2
<1> QED
  BY <1>5, <1>6

LEMMA FlattenType ==
  ASSUME NEW D, NEW ss \in Seq(Seq(D))
  PROVE  FlattenSeq(ss) \in Seq(D)
<1>1. PICK f : Flattens(f, ss)
  BY FlattensExists
<1> DEFINE n == Len(ss)
           Bad == {i \in 1 .. n : f[i] \notin Seq(D)}
<1>2. n \in Nat /\ \A i \in 1 .. n : ss[i] \in Seq(D)
  OBVIOUS
<1>3. CASE n = 0
  <2>1. ss = <<>> /\ <<>> \in Seq(D)
    BY <1>3
  <2> QED
    BY <2>1, FlattenNone
<1>4. CASE n # 0
  <2>1. FlattenSeq(ss) = f[n]
    BY <1>1, <1>4, FlattenOf
  <2>2. \A i \in 1 .. n : f[i] = IF i = 1 THEN ss[i] ELSE f[i - 1] \o ss[i]
    BY <1>1 DEF Flattens
  <2> HIDE DEF n
  <2>3. SUFFICES ASSUME Bad # {} PROVE FALSE
    BY <1>2, <1>4, <2>1
  <2>4. Bad \in SUBSET Nat
    BY <1>2
  <2>5. PICK m \in Bad : \A j \in Bad : m <= j
    BY <2>3, <2>4, Least
  <2>6. m \in 1 .. n /\ f[m] \notin Seq(D)
    OBVIOUS
  <2>7. m # 1
    BY <1>2, <2>2, <2>6
  <2>8. m - 1 \in 1 .. n /\ ~(m <= m - 1)
    BY <1>2, <2>6, <2>7
  <2>9. f[m - 1] \in Seq(D)
    BY <2>5, <2>8
  <2>10. ss[m] \in Seq(D) /\ f[m] = f[m - 1] \o ss[m]
    BY <1>2, <2>2, <2>6, <2>7
  <2>11. f[m - 1] \o ss[m] \in Seq(D)
    BY <2>9, <2>10
  <2> QED
    BY <2>6, <2>10, <2>11
<1> QED
  BY <1>3, <1>4

-----------------------------------------------------------------------------
(* One more character *)

LEMMA Classes ==
  /\ "space" \in Characters /\ "space" \in Whitespace /\ "space" \notin Small
  /\ \A c \in Characters :
       /\ LowerOf(c) \in Characters
       /\ LowerOf(c) \in Punctuation <=> c \in Punctuation
       /\ LowerOf(c) \in Whitespace <=> c \in Whitespace
       /\ c \in Punctuation => c \notin Whitespace
       /\ LowerOf(c) \in Small => c \notin Punctuation \cup Whitespace
<1>1. /\ DOMAIN Capital = {"A", "B"} /\ Capital["A"] = "a" /\ Capital["B"] = "b"
      /\ Characters = {"a", "b", "A", "B", "9", ",", "space", "tab"}
  BY DEF Characters, Small, Capital, Neither, Punctuation, Whitespace
<1>2. /\ LowerOf("A") = "a" /\ LowerOf("B") = "b"
      /\ \A c \in {"a", "b", "9", ",", "space", "tab"} : LowerOf(c) = c
  BY <1>1 DEF LowerOf
<1> QED
  BY <1>1, <1>2 DEF Small, Punctuation, Whitespace

LEMMA WithoutPunctuationOneMore ==
  ASSUME NEW s \in Seq(Characters), NEW c \in Characters
  PROVE  /\ WithoutPunctuation(s) \in Seq(Characters)
         /\ WithoutPunctuation(Append(s, c)) =
              IF c \in Punctuation THEN WithoutPunctuation(s)
              ELSE Append(WithoutPunctuation(s), c)
<1> DEFINE Piece(x) == IF x \in Punctuation THEN <<>> ELSE <<x>>
           Pieces(r) == [i \in DOMAIN r |-> Piece(r[i])]
<1>1. \A x \in Characters : Piece(x) \in Seq(Characters)
  OBVIOUS
<1>2. /\ DOMAIN s = 1 .. Len(s) /\ Len(s) \in Nat
      /\ DOMAIN Append(s, c) = 1 .. Len(s) + 1
      /\ \A i \in 1 .. Len(s) : s[i] \in Characters /\ Append(s, c)[i] = s[i]
      /\ Append(s, c)[Len(s) + 1] = c
  OBVIOUS
<1> HIDE DEF Piece
<1>3. Pieces(s) \in Seq(Seq(Characters)) /\ Len(Pieces(s)) = Len(s)
  BY <1>1, <1>2
<1>4. Pieces(Append(s, c)) = Append(Pieces(s), Piece(c))
  BY <1>2, <1>3
<1>5. /\ FlattenSeq(Pieces(s)) \in Seq(Characters)
      /\ FlattenSeq(Pieces(Append(s, c))) = FlattenSeq(Pieces(s)) \o Piece(c)
  <2> HIDE DEF Pieces
  <2> QED
    BY <1>1, <1>3, <1>4, FlattenType, FlattenOneMore
<1>6. WithoutPunctuation(s) = FlattenSeq(Pieces(s))
  BY DEF WithoutPunctuation, Piece
<1>7. WithoutPunctuation(Append(s, c)) = FlattenSeq(Pieces(Append(s, c)))
  BY DEF WithoutPunctuation, Piece
<1> HIDE DEF Pieces
<1> QED
  BY <1>5, <1>6, <1>7 DEF Piece

LEMMA CollapsedOneMore ==
  ASSUME NEW s \in Seq(Characters), NEW c \in Characters
  PROVE  /\ Collapsed(s) \in Seq(Characters)
         /\ Collapsed(Append(s, c)) =
              IF c \notin Whitespace THEN Append(Collapsed(s), c)
              ELSE IF Len(s) > 0 /\ s[Len(s)] \in Whitespace THEN Collapsed(s)
              ELSE Append(Collapsed(s), "space")
<1> DEFINE Piece(r, i) == IF r[i] \notin Whitespace THEN <<r[i]>>
                          ELSE IF i > 1 /\ r[i - 1] \in Whitespace THEN <<>>
                          ELSE <<"space">>
           Pieces(r) == [i \in DOMAIN r |-> Piece(r, i)]
           t == Append(s, c)
           n == Len(s)
<1>1. /\ n \in Nat /\ DOMAIN s = 1 .. n /\ t \in Seq(Characters)
      /\ DOMAIN t = 1 .. n + 1 /\ (n + 1) - 1 = n
      /\ \A i \in 1 .. n : s[i] \in Characters /\ t[i] = s[i]
      /\ t[n + 1] = c
  OBVIOUS
<1> HIDE DEF t, n
<1>2. \A i \in 1 .. n : Piece(s, i) \in Seq(Characters)
  BY <1>1, Classes
<1>3. Piece(t, n + 1) \in Seq(Characters)
  BY <1>1, Classes
<1>4. ASSUME NEW i \in 1 .. n PROVE Piece(t, i) = Piece(s, i)
  <2>1. t[i] = s[i] /\ (i > 1 => t[i - 1] = s[i - 1])
    BY <1>1
  <2> QED
    BY <2>1
<1>5. Piece(t, n + 1) = IF c \notin Whitespace THEN <<c>>
                        ELSE IF n > 0 /\ s[n] \in Whitespace THEN <<>>
                        ELSE <<"space">>
  <2>1. n + 1 > 1 <=> n > 0
    BY <1>1
  <2>2. n > 0 => t[n] = s[n]
    BY <1>1
  <2> QED
    BY <1>1, <2>1, <2>2
<1> HIDE DEF Piece
<1>6. Pieces(s) \in Seq(Seq(Characters)) /\ Len(Pieces(s)) = n
  BY <1>1, <1>2
<1>7. Pieces(t) = Append(Pieces(s), Piece(t, n + 1))
  BY <1>1, <1>4, <1>6
<1>8. /\ FlattenSeq(Pieces(s)) \in Seq(Characters)
      /\ FlattenSeq(Pieces(t)) = FlattenSeq(Pieces(s)) \o Piece(t, n + 1)
  <2> HIDE DEF Pieces
  <2> QED
    BY <1>3, <1>6, <1>7, FlattenType, FlattenOneMore
<1>9. Collapsed(s) = FlattenSeq(Pieces(s)) /\ Collapsed(t) = FlattenSeq(Pieces(t))
  BY DEF Collapsed, Piece
<1> HIDE DEF Pieces
<1>10. /\ \A u \in Seq(Characters) : u \o <<>> = u
       /\ \A u \in Seq(Characters), x \in Characters : u \o <<x>> = Append(u, x)
  OBVIOUS
<1>11. /\ Collapsed(s) \in Seq(Characters)
       /\ Collapsed(t) = Collapsed(s) \o Piece(t, n + 1)
  BY <1>8, <1>9
<1>12. CASE c \notin Whitespace
  BY <1>5, <1>10, <1>11, <1>12 DEF t, n
<1>13. CASE c \in Whitespace /\ n > 0 /\ s[n] \in Whitespace
  BY <1>5, <1>10, <1>11, <1>13 DEF t, n
<1>14. CASE c \in Whitespace /\ ~(n > 0 /\ s[n] \in Whitespace)
  BY <1>5, <1>10, <1>11, <1>14, Classes DEF t, n
<1> QED
  BY <1>12, <1>13, <1>14

LEMMA WordPlacesOneMore ==
  ASSUME NEW s \in Seq(Characters), NEW c \in Characters
  PROVE  /\ WordPlaces(s) \in Seq(Nat)
         /\ WordPlaces(Append(s, c)) =
              IF c \in Punctuation \cup Whitespace THEN WordPlaces(s)
              ELSE Append(WordPlaces(s), Len(s) + 1)
<1> DEFINE Piece(x, i) == IF x \in Punctuation \cup Whitespace THEN <<>> ELSE <<i>>
           Pieces(r) == [i \in DOMAIN r |-> Piece(r[i], i)]
           t == Append(s, c)
           n == Len(s)
<1>1. /\ n \in Nat /\ DOMAIN s = 1 .. n /\ t \in Seq(Characters)
      /\ DOMAIN t = 1 .. n + 1
      /\ \A i \in 1 .. n : t[i] = s[i]
      /\ t[n + 1] = c
  OBVIOUS
<1> HIDE DEF t, n
<1>2. \A x, i : i \in Nat => Piece(x, i) \in Seq(Nat)
  OBVIOUS
<1> HIDE DEF Piece
<1>3. Pieces(s) \in Seq(Seq(Nat)) /\ Len(Pieces(s)) = n
  BY <1>1, <1>2
<1>4. Pieces(t) = Append(Pieces(s), Piece(c, n + 1))
  BY <1>1, <1>3
<1>5. Piece(c, n + 1) \in Seq(Nat)
  BY <1>1, <1>2
<1>6. /\ FlattenSeq(Pieces(s)) \in Seq(Nat)
      /\ FlattenSeq(Pieces(t)) = FlattenSeq(Pieces(s)) \o Piece(c, n + 1)
  <2> HIDE DEF Pieces
  <2> QED
    BY <1>3, <1>4, <1>5, FlattenType, FlattenOneMore
<1>7. WordPlaces(s) = FlattenSeq(Pieces(s)) /\ WordPlaces(t) = FlattenSeq(Pieces(t))
  BY DEF WordPlaces, Piece
<1> HIDE DEF Pieces
<1> QED
  BY <1>6, <1>7 DEF t, n, Piece

LEMMA NothingYet ==
  /\ WithoutPunctuation(<<>>) = <<>> /\ Collapsed(<<>>) = <<>>
  /\ WordPlaces(<<>>) = <<>>
<1>1. DOMAIN <<>> = {}
  OBVIOUS
<1> QED
  BY FlattenNone DEF WithoutPunctuation, Collapsed, WordPlaces

\* What the punctuation and the capitals leave.
Clean(s) == WithoutPunctuation(Lower(s))

LEMMA CleanOneMore ==
  ASSUME NEW s \in Seq(Characters), NEW c \in Characters
  PROVE  /\ Clean(s) \in Seq(Characters)
         /\ Clean(Append(s, c)) = IF c \in Punctuation THEN Clean(s)
                                  ELSE Append(Clean(s), LowerOf(c))
<1>1. Lower(s) \in Seq(Characters) /\ Len(Lower(s)) = Len(s)
  BY Classes DEF Lower
<1>2. Lower(Append(s, c)) = Append(Lower(s), LowerOf(c))
  BY <1>1 DEF Lower
<1> QED
  BY <1>1, <1>2, Classes, WithoutPunctuationOneMore DEF Clean

-----------------------------------------------------------------------------
(* Stripped *)

Blank(k) == \A i \in DOMAIN k : k[i] \in Whitespace

\* The first and the last character of k that is no whitespace.
Ends(k, lo, hi) ==
  /\ lo \in DOMAIN k /\ k[lo] \notin Whitespace
  /\ hi \in DOMAIN k /\ k[hi] \notin Whitespace
  /\ \A i \in DOMAIN k : k[i] \notin Whitespace => lo <= i /\ i <= hi

LEMMA StrippedBlank ==
  ASSUME NEW k, Blank(k)
  PROVE  Stripped(k) = <<>>
BY DEF Stripped, Blank

LEMMA StrippedBetween ==
  ASSUME NEW k \in Seq(Characters), NEW lo \in Nat, NEW hi \in Nat, Ends(k, lo, hi)
  PROVE  /\ lo <= hi
         /\ Stripped(k) \in Seq(Characters)
         /\ Len(Stripped(k)) = hi - lo + 1
         /\ \A i \in 1 .. hi - lo + 1 : Stripped(k)[i] = k[lo + i - 1]
<1> DEFINE Kept == {i \in DOMAIN k : k[i] \notin Whitespace}
<1>1. /\ Len(k) \in Nat /\ DOMAIN k = 1 .. Len(k)
      /\ lo \in 1 .. Len(k) /\ hi \in 1 .. Len(k) /\ lo <= hi
      /\ lo \in Kept /\ hi \in Kept
      /\ \A i \in Kept : i \in Nat /\ lo <= i /\ i <= hi
      /\ \A i \in lo .. hi : k[i] \in Characters
  BY DEF Ends
<1>2. Stripped(k) = SubSeq(k, Min(Kept), Max(Kept))
  BY <1>1 DEF Stripped
<1> HIDE DEF Kept
<1>3. Kept \in SUBSET Nat /\ Kept # {}
  BY <1>1
<1>4. Min(Kept) = lo
  <2>1. Min(Kept) \in Kept /\ \A j \in Kept : Min(Kept) <= j
    BY <1>3, MinOf
  <2>2. Min(Kept) <= lo /\ lo <= Min(Kept) /\ Min(Kept) \in Nat /\ lo \in Nat
    BY <1>1, <2>1
  <2> QED
    BY <2>2
<1>5. Max(Kept) = hi
  <2>1. Max(Kept) \in Kept /\ \A j \in Kept : Max(Kept) >= j
    BY <1>1, <1>3, MaxOf
  <2>2. Max(Kept) >= hi /\ Max(Kept) <= hi /\ Max(Kept) \in Nat /\ hi \in Nat
    BY <1>1, <2>1
  <2> QED
    BY <2>2
<1>6. Stripped(k) = SubSeq(k, lo, hi)
  BY <1>2, <1>4, <1>5
<1> QED
  BY <1>1, <1>6, SubSeqProperties

LEMMA EndsExist ==
  ASSUME NEW k \in Seq(Characters), ~Blank(k)
  PROVE  \E lo, hi \in DOMAIN k : Ends(k, lo, hi)
<1> DEFINE Kept == {i \in DOMAIN k : k[i] \notin Whitespace}
<1>1. /\ Kept \in SUBSET Nat /\ Kept # {}
      /\ Len(k) \in Nat /\ \A i \in Kept : i <= Len(k)
  BY DEF Blank
<1>2. /\ Min(Kept) \in Kept /\ \A j \in Kept : Min(Kept) <= j
      /\ Max(Kept) \in Kept /\ \A j \in Kept : Max(Kept) >= j
  <2> HIDE DEF Kept
  <2> QED
    BY <1>1, MinOf, MaxOf
<1>3. \A j \in Kept : j <= Max(Kept)
  BY <1>1, <1>2
<1> QED
  BY <1>2, <1>3 DEF Ends

\* Whitespace at the end is stripped off.
LEMMA StrippedOneSpaceMore ==
  ASSUME NEW k \in Seq(Characters), NEW x \in Characters \cap Whitespace
  PROVE  /\ Blank(Append(k, x)) <=> Blank(k)
         /\ Stripped(Append(k, x)) = Stripped(k)
<1> DEFINE m == Append(k, x)
<1>1. /\ Len(k) \in Nat /\ m \in Seq(Characters) /\ DOMAIN k = 1 .. Len(k)
      /\ DOMAIN m = 1 .. Len(k) + 1 /\ m[Len(k) + 1] = x
      /\ \A i \in 1 .. Len(k) : m[i] = k[i]
  OBVIOUS
<1> HIDE DEF m
<1>2. Blank(m) <=> Blank(k)
  BY <1>1 DEF Blank
<1>3. CASE Blank(k)
  BY <1>2, <1>3, StrippedBlank DEF m
<1>4. CASE ~Blank(k)
  <2>1. PICK lo, hi \in DOMAIN k : Ends(k, lo, hi)
    BY <1>4, EndsExist
  <2>2. Ends(m, lo, hi)
    BY <1>1, <2>1 DEF Ends
  <2>3. /\ lo \in Nat /\ hi \in Nat /\ lo >= 1 /\ hi <= Len(k)
        /\ Stripped(k) \in Seq(Characters) /\ Stripped(m) \in Seq(Characters)
        /\ Len(Stripped(m)) = Len(Stripped(k)) /\ Len(Stripped(k)) = hi - lo + 1
    BY <1>1, <2>1, <2>2, StrippedBetween
  <2>4. ASSUME NEW i \in 1 .. hi - lo + 1 PROVE Stripped(m)[i] = Stripped(k)[i]
    <3>1. Stripped(m)[i] = m[lo + i - 1] /\ Stripped(k)[i] = k[lo + i - 1]
      BY <1>1, <2>1, <2>2, StrippedBetween
    <3>2. lo + i - 1 \in 1 .. Len(k)
      BY <1>1, <2>3
    <3> QED
      BY <1>1, <3>1, <3>2
  <2>5. Stripped(m) = Stripped(k)
    BY <2>3, <2>4, SeqEqual
  <2> QED
    BY <1>2, <2>5 DEF m
<1> QED
  BY <1>2, <1>3, <1>4 DEF m

\* Anything else takes the whitespace before it into the text.
LEMMA StrippedOneMore ==
  ASSUME NEW k \in Seq(Characters), NEW x \in Characters \ Whitespace
  PROVE  /\ ~Blank(Append(k, x))
         /\ Blank(k) => Stripped(Append(k, x)) = <<x>>
         /\ \A lo, hi \in Nat : Ends(k, lo, hi) =>
              /\ Stripped(Append(k, x)) \in Seq(Characters)
              /\ Len(Stripped(Append(k, x))) = Len(k) - lo + 2
              /\ \A i \in 1 .. Len(k) - lo + 2 :
                   Stripped(Append(k, x))[i] = Append(k, x)[lo + i - 1]
<1> DEFINE m == Append(k, x)
<1>1. /\ Len(k) \in Nat /\ m \in Seq(Characters) /\ DOMAIN k = 1 .. Len(k)
      /\ DOMAIN m = 1 .. Len(k) + 1 /\ m[Len(k) + 1] = x
      /\ \A i \in 1 .. Len(k) : m[i] = k[i]
  OBVIOUS
<1> HIDE DEF m
<1>2. ~Blank(m)
  BY <1>1 DEF Blank
<1>3. ASSUME Blank(k) PROVE Stripped(m) = <<x>>
  <2>1. Ends(m, Len(k) + 1, Len(k) + 1)
    BY <1>1, <1>3 DEF Ends, Blank
  <2> DEFINE e == Len(k) + 1
  <2>2. e \in Nat /\ m[e] = x /\ Ends(m, e, e)
    BY <1>1, <2>1
  <2> HIDE DEF e
  <2>3. e - e + 1 = 1 /\ e + 1 - 1 = e
    BY <2>2
  <2>4. /\ Stripped(m) \in Seq(Characters)
        /\ Len(Stripped(m)) = e - e + 1
        /\ \A i \in 1 .. e - e + 1 : Stripped(m)[i] = m[e + i - 1]
    BY <1>1, <2>2, StrippedBetween
  <2>5. Len(Stripped(m)) = 1 /\ Stripped(m)[1] = x
    BY <2>2, <2>3, <2>4
  <2> DEFINE alone == <<x>>
  <2>6. alone \in Seq(Characters) /\ Len(alone) = 1 /\ alone[1] = x
    OBVIOUS
  <2> HIDE DEF alone
  <2>7. \A i \in 1 .. Len(Stripped(m)) : Stripped(m)[i] = alone[i]
    BY <2>5, <2>6
  <2>8. Stripped(m) = alone
    BY <2>4, <2>5, <2>6, <2>7, SeqEqual
  <2> QED
    BY <2>8 DEF alone
<1>4. ASSUME NEW lo \in Nat, NEW hi \in Nat, Ends(k, lo, hi)
      PROVE  /\ Stripped(m) \in Seq(Characters)
             /\ Len(Stripped(m)) = Len(k) - lo + 2
             /\ \A i \in 1 .. Len(k) - lo + 2 : Stripped(m)[i] = m[lo + i - 1]
  <2>1. Ends(m, lo, Len(k) + 1) /\ lo \in 1 .. Len(k)
    BY <1>1, <1>4 DEF Ends
  <2> DEFINE e == Len(k) + 1
  <2>2. e \in Nat /\ e - lo + 1 = Len(k) - lo + 2 /\ Ends(m, lo, e)
    BY <1>1, <2>1
  <2> HIDE DEF e
  <2>3. /\ Stripped(m) \in Seq(Characters)
        /\ Len(Stripped(m)) = e - lo + 1
        /\ \A i \in 1 .. e - lo + 1 : Stripped(m)[i] = m[lo + i - 1]
    BY <1>1, <2>2, StrippedBetween
  <2> QED
    BY <2>2, <2>3
<1> QED
  BY <1>2, <1>3, <1>4 DEF m

-----------------------------------------------------------------------------
(* Normalized *)

Trailing(k) == Len(k) > 0 /\ k[Len(k)] \in Whitespace

\* Whitespace is single spaces, and none of it is next to another.
Spaced(k) ==
  \A i \in DOMAIN k : k[i] \in Whitespace =>
    k[i] = "space" /\ (i > 1 => k[i - 1] \notin Whitespace)

LEMMA StrippedAddsOne ==
  ASSUME NEW k \in Seq(Characters), NEW x \in Characters \ Whitespace,
         ~Blank(k), ~Trailing(k)
  PROVE  Stripped(Append(k, x)) = Append(Stripped(k), x)
<1>1. PICK lo, hi \in DOMAIN k : Ends(k, lo, hi)
  BY EndsExist
<1> DEFINE m == Append(k, x)
           n == Stripped(k)
           r == Stripped(m)
<1>2. /\ Len(k) \in Nat /\ lo \in Nat /\ hi \in Nat
      /\ 1 <= lo /\ lo <= Len(k) /\ 1 <= hi /\ hi <= Len(k)
      /\ m[Len(k) + 1] = x /\ \A i \in 1 .. Len(k) : m[i] = k[i]
  OBVIOUS
<1>3. hi = Len(k)
  BY <1>1, <1>2 DEF Ends, Trailing
<1>4. /\ n \in Seq(Characters) /\ Len(n) = Len(k) - lo + 1
      /\ \A i \in 1 .. Len(k) - lo + 1 : n[i] = k[lo + i - 1]
  BY <1>1, <1>2, <1>3, StrippedBetween
<1>5. /\ r \in Seq(Characters) /\ Len(r) = Len(k) - lo + 2
      /\ \A i \in 1 .. Len(k) - lo + 2 : r[i] = m[lo + i - 1]
  BY <1>1, <1>2, StrippedOneMore
<1> HIDE DEF m, n, r
<1>6. /\ Append(n, x) \in Seq(Characters) /\ Len(Append(n, x)) = Len(n) + 1
      /\ \A i \in 1 .. Len(n) : Append(n, x)[i] = n[i]
      /\ Append(n, x)[Len(n) + 1] = x
  BY <1>4
<1>7. Len(r) = Len(n) + 1
  BY <1>2, <1>4, <1>5
<1>8. ASSUME NEW i \in 1 .. Len(r) PROVE r[i] = Append(n, x)[i]
  <2>1. CASE i \in 1 .. Len(n)
    <3>1. r[i] = m[lo + i - 1] /\ n[i] = k[lo + i - 1] /\ lo + i - 1 \in 1 .. Len(k)
      BY <1>2, <1>4, <1>5, <2>1
    <3> QED
      BY <1>2, <1>6, <2>1, <3>1
  <2>2. CASE i = Len(n) + 1
    <3>1. lo + i - 1 = Len(k) + 1
      BY <1>2, <1>4, <2>2
    <3>2. r[i] = m[lo + i - 1]
      BY <1>5, <1>8
    <3> QED
      BY <1>2, <1>6, <2>2, <3>1, <3>2
  <2> QED
    BY <1>4, <1>7, <2>1, <2>2
<1>9. r = Append(n, x)
  BY <1>5, <1>6, <1>7, <1>8, SeqEqual
<1> QED
  BY <1>9 DEF m, n, r

LEMMA StrippedAddsTwo ==
  ASSUME NEW k \in Seq(Characters), NEW x \in Characters \ Whitespace,
         ~Blank(k), Trailing(k), Spaced(k)
  PROVE  Stripped(Append(k, x)) = Append(Append(Stripped(k), "space"), x)
<1>1. PICK lo, hi \in DOMAIN k : Ends(k, lo, hi)
  BY EndsExist
<1> DEFINE m == Append(k, x)
           n == Stripped(k)
           r == Stripped(m)
           both == Append(Append(n, "space"), x)
<1>2. /\ Len(k) \in Nat /\ lo \in Nat /\ hi \in Nat
      /\ 1 <= lo /\ lo <= Len(k) /\ 1 <= hi /\ hi <= Len(k)
      /\ m[Len(k) + 1] = x /\ \A i \in 1 .. Len(k) : m[i] = k[i]
  OBVIOUS
<1>3. hi = Len(k) - 1 /\ k[hi + 1] = "space"
  <2>1. k[Len(k)] = "space" /\ (Len(k) > 1 => k[Len(k) - 1] \notin Whitespace)
    BY <1>2 DEF Trailing, Spaced
  <2>2. hi # Len(k) /\ k[hi] \notin Whitespace
    BY <1>1 DEF Ends, Trailing
  <2>3. hi < Len(k) /\ Len(k) > 1 /\ Len(k) - 1 \in 1 .. Len(k)
    BY <1>2, <2>2
  <2>4. Len(k) - 1 <= hi
    BY <1>1, <1>2, <2>1, <2>3 DEF Ends
  <2>5. hi = Len(k) - 1 /\ hi + 1 = Len(k)
    BY <1>2, <2>3, <2>4
  <2> QED
    BY <2>1, <2>5
<1>4. /\ n \in Seq(Characters) /\ Len(n) = hi - lo + 1
      /\ \A i \in 1 .. hi - lo + 1 : n[i] = k[lo + i - 1]
      /\ lo <= hi
  BY <1>1, <1>2, StrippedBetween
<1>5. /\ r \in Seq(Characters) /\ Len(r) = Len(k) - lo + 2
      /\ \A i \in 1 .. Len(k) - lo + 2 : r[i] = m[lo + i - 1]
  BY <1>1, <1>2, StrippedOneMore
<1> HIDE DEF m, n, r
<1>6. /\ both \in Seq(Characters) /\ Len(both) = Len(n) + 2
      /\ \A i \in 1 .. Len(n) : both[i] = n[i]
      /\ both[Len(n) + 1] = "space" /\ both[Len(n) + 2] = x
  <2> DEFINE one == Append(n, "space")
  <2>1. /\ Len(n) \in Nat
        /\ one \in Seq(Characters) /\ Len(one) = Len(n) + 1
        /\ \A i \in 1 .. Len(n) : one[i] = n[i]
        /\ one[Len(n) + 1] = "space"
    BY <1>4, Classes
  <2> HIDE DEF one
  <2>2. /\ Append(one, x) \in Seq(Characters) /\ Len(Append(one, x)) = Len(one) + 1
        /\ \A i \in 1 .. Len(one) : Append(one, x)[i] = one[i]
        /\ Append(one, x)[Len(one) + 1] = x
    BY <2>1
  <2>3. /\ Len(one) + 1 = Len(n) + 2 /\ Len(n) + 1 \in 1 .. Len(one)
        /\ \A i \in 1 .. Len(n) : i \in 1 .. Len(one)
    BY <2>1
  <2> QED
    BY <2>1, <2>2, <2>3 DEF one
<1> HIDE DEF both
<1>7. Len(r) = Len(n) + 2
  BY <1>2, <1>3, <1>4, <1>5
<1>8. ASSUME NEW i \in 1 .. Len(r) PROVE r[i] = both[i]
  <2>0. r[i] = m[lo + i - 1]
    BY <1>5
  <2>1. CASE i \in 1 .. Len(n)
    <3>1. i \in Nat /\ i \in 1 .. hi - lo + 1
      BY <1>4, <2>1
    <3>2. lo + i - 1 \in 1 .. Len(k)
      BY <1>2, <1>3, <3>1
    <3>3. n[i] = k[lo + i - 1]
      BY <1>4, <3>1
    <3> QED
      BY <1>2, <1>6, <2>0, <2>1, <3>2, <3>3
  <2>2. CASE i = Len(n) + 1
    <3>1. lo + i - 1 = hi + 1
      <4>1. Len(n) = hi - lo + 1
        BY <1>4
      <4> QED
        BY <1>2, <2>2, <4>1
    <3>2. hi + 1 \in 1 .. Len(k)
      <4>1. hi = Len(k) - 1
        BY <1>3
      <4> QED
        BY <1>2, <4>1
    <3> QED
      BY <1>2, <1>3, <1>6, <2>0, <2>2, <3>1, <3>2
  <2>3. CASE i = Len(n) + 2
    <3>1. lo + i - 1 = Len(k) + 1
      <4>1. Len(n) = hi - lo + 1
        BY <1>4
      <4>2. lo + i - 1 = hi + 2
        <5>1. \A a, b \in Nat : a + ((b - a + 1) + 2) - 1 = b + 2
          OBVIOUS
        <5> QED
          BY <1>2, <2>3, <4>1, <5>1
      <4>3. hi = Len(k) - 1
        BY <1>3
      <4> QED
        BY <1>2, <4>2, <4>3
    <3> QED
      BY <1>2, <1>6, <2>0, <2>3, <3>1
  <2> QED
    BY <1>4, <1>7, <2>1, <2>2, <2>3
<1>9. r = both
  BY <1>5, <1>6, <1>7, <1>8, SeqEqual
<1> QED
  BY <1>9 DEF m, n, r, both

\* The text before it is stripped.
Line(s) == Collapsed(Clean(s))

Tidy(s) ==
  /\ Clean(s) \in Seq(Characters) /\ Line(s) \in Seq(Characters)
  /\ Spaced(Line(s))
  /\ Trailing(Clean(s)) <=> Trailing(Line(s))

LEMMA TidyStep ==
  ASSUME NEW s \in Seq(Characters), NEW c \in Characters, Tidy(s)
  PROVE  /\ Tidy(Append(s, c))
         /\ Line(Append(s, c)) =
              IF c \in Punctuation \/ (c \in Whitespace /\ Trailing(Line(s))) THEN Line(s)
              ELSE Append(Line(s), IF c \in Whitespace THEN "space" ELSE LowerOf(c))
<1> DEFINE w == Clean(s)
           k == Line(s)
           x == LowerOf(c)
           y == IF c \in Whitespace THEN "space" ELSE x
<1>1. /\ w \in Seq(Characters) /\ k \in Seq(Characters) /\ x \in Characters
      /\ y \in Characters
      /\ y \in Whitespace <=> c \in Whitespace
      /\ y \in Whitespace => y = "space"
      /\ x \in Whitespace <=> c \in Whitespace
  BY Classes DEF Tidy
<1>2. CASE c \in Punctuation
  <2>1. Clean(Append(s, c)) = w
    BY <1>2, CleanOneMore
  <2> QED
    BY <1>2, <2>1 DEF Tidy, Line
<1>3. CASE c \notin Punctuation
  <2>1. Clean(Append(s, c)) = Append(w, x)
    BY <1>3, CleanOneMore
  <2>2. Trailing(Append(w, x)) <=> c \in Whitespace
    BY <1>1 DEF Trailing
  <2>3. Line(Append(s, c)) =
          IF c \in Whitespace /\ Trailing(k) THEN k ELSE Append(k, y)
    <3> HIDE DEF w, x
    <3>1. Line(Append(s, c)) = Collapsed(Append(w, x)) /\ k = Collapsed(w)
      BY <2>1 DEF Line, w
    <3>2. Trailing(w) <=> Trailing(k)
      BY DEF Tidy, w
    <3> HIDE DEF k
    <3> QED
      BY <1>1, <3>1, <3>2, CollapsedOneMore DEF Trailing
  <2>4. CASE c \in Whitespace /\ Trailing(k)
    BY <1>1, <1>3, <2>1, <2>2, <2>3, <2>4 DEF Tidy
  <2>5. CASE ~(c \in Whitespace /\ Trailing(k))
    <3> HIDE DEF w, k, x, y
    <3>1. /\ Append(k, y) \in Seq(Characters)
          /\ Trailing(Append(k, y)) <=> c \in Whitespace
      <4>1. /\ Append(k, y) \in Seq(Characters) /\ Len(Append(k, y)) > 0
            /\ Append(k, y)[Len(Append(k, y))] = y
        BY <1>1
      <4> QED
        BY <1>1, <4>1 DEF Trailing
    <3>2. Spaced(Append(k, y))
      <4>1. /\ Len(k) \in Nat /\ DOMAIN k = 1 .. Len(k)
            /\ DOMAIN Append(k, y) = 1 .. Len(k) + 1
            /\ Append(k, y)[Len(k) + 1] = y
            /\ \A i \in 1 .. Len(k) : Append(k, y)[i] = k[i]
        BY <1>1
      <4>2. Spaced(k)
        BY DEF Tidy, k
      <4>3. ASSUME NEW i \in 1 .. Len(k), Append(k, y)[i] \in Whitespace
            PROVE  /\ Append(k, y)[i] = "space"
                   /\ i > 1 => Append(k, y)[i - 1] \notin Whitespace
        <5>1. /\ i \in DOMAIN k /\ k[i] \in Whitespace /\ Append(k, y)[i] = k[i]
              /\ i > 1 => Append(k, y)[i - 1] = k[i - 1]
          BY <4>1, <4>3
        <5> QED
          BY <4>2, <5>1 DEF Spaced
      <4>4. ASSUME y \in Whitespace
            PROVE  y = "space" /\ (Len(k) + 1 > 1 => Append(k, y)[Len(k)] \notin Whitespace)
        <5>1. y = "space" /\ ~Trailing(k)
          BY <1>1, <2>5, <4>4
        <5>2. Len(k) + 1 > 1 => Len(k) > 0 /\ Len(k) \in 1 .. Len(k)
          BY <4>1
        <5>3. Len(k) + 1 > 1 => Append(k, y)[Len(k)] = k[Len(k)]
          BY <4>1, <5>2
        <5> QED
          BY <5>1, <5>2, <5>3 DEF Trailing
      <4>5. (Len(k) + 1) - 1 = Len(k) /\ \A i \in 1 .. Len(k) + 1 : i \in 1 .. Len(k) \/ i = Len(k) + 1
        BY <4>1
      <4> QED
        BY <4>1, <4>3, <4>4, <4>5 DEF Spaced
    <3>3. Append(w, x) \in Seq(Characters)
      BY <1>1
    <3>4. Line(Append(s, c)) = Append(k, y)
      BY <2>3, <2>5
    <3> QED
      BY <1>3, <2>1, <2>2, <2>5, <3>1, <3>2, <3>3, <3>4 DEF Tidy, k, y, x
  <2> QED
    BY <2>4, <2>5
<1> QED
  BY <1>2, <1>3

\* What one more character does to the normalized text.
LEMMA NormalizedStep ==
  ASSUME NEW s \in Seq(Characters), NEW c \in Characters, Tidy(s)
  PROVE  /\ Blank(Line(s)) => Normalized(s) = <<>>
         /\ Blank(Line(Append(s, c))) <=>
              Blank(Line(s)) /\ c \in Punctuation \cup Whitespace
         /\ Normalized(Append(s, c)) =
              IF c \in Punctuation \cup Whitespace THEN Normalized(s)
              ELSE IF Blank(Line(s)) THEN <<LowerOf(c)>>
              ELSE IF Trailing(Line(s))
                   THEN Append(Append(Normalized(s), "space"), LowerOf(c))
              ELSE Append(Normalized(s), LowerOf(c))
<1>1. /\ Normalized(s) = Stripped(Line(s))
      /\ Normalized(Append(s, c)) = Stripped(Line(Append(s, c)))
  BY DEF Normalized, Line, Clean
<1>2. /\ Line(s) \in Seq(Characters) /\ Spaced(Line(s))
      /\ Blank(Line(s)) => Normalized(s) = <<>>
  BY <1>1, StrippedBlank DEF Tidy
<1>3. CASE c \in Punctuation
  BY <1>1, <1>2, <1>3, TidyStep
<1>4. CASE c \in Whitespace
  <2>1. Line(Append(s, c)) = Line(s) \/ Line(Append(s, c)) = Append(Line(s), "space")
    BY <1>4, TidyStep
  <2>2. /\ Stripped(Line(Append(s, c))) = Stripped(Line(s))
        /\ Blank(Line(Append(s, c))) <=> Blank(Line(s))
    BY <1>2, <2>1, StrippedOneSpaceMore, Classes
  <2> QED
    BY <1>1, <1>2, <1>4, <2>2
<1>5. CASE c \notin Punctuation \cup Whitespace
  <2>1. /\ Line(Append(s, c)) = Append(Line(s), LowerOf(c))
        /\ LowerOf(c) \in Characters \ Whitespace
    BY <1>5, TidyStep, Classes
  <2> QED
    BY <1>1, <1>2, <1>5, <2>1, StrippedOneMore, StrippedAddsOne, StrippedAddsTwo
<1> QED
  BY <1>3, <1>4, <1>5

-----------------------------------------------------------------------------
(* The words *)

\* IsNormalForm, with the places of the words given.
Form(n, s, q, p) ==
  /\ Len(q) = Len(p)
  /\ \A x \in DOMAIN p : n[q[x]] = LowerOf(s[p[x]])
  /\ \A x \in 1 .. Len(p) - 1 :
       IF \E k \in p[x] .. p[x + 1] : s[k] \in Whitespace
       THEN q[x + 1] = q[x] + 2 /\ n[q[x] + 1] = "space"
       ELSE q[x + 1] = q[x] + 1
  /\ IF p = <<>> THEN n = <<>> ELSE q[1] = 1 /\ Last(q) = Len(n)

\* Where the words are is inside of the text.
Within(p, s) == \A x \in DOMAIN p : p[x] \in DOMAIN s

\* There is a gap after the last word.
Gap(p, s) == \E k \in p[Len(p)] .. Len(s) : s[k] \in Whitespace

\* What the invariant adds to IsNormalForm.
Placed(s) ==
  /\ Within(WordPlaces(s), s)
  /\ Within(WordPlaces(Normalized(s)), Normalized(s))
  /\ WordPlaces(s) = <<>> <=> Blank(Line(s))
  /\ WordPlaces(s) # <<>> => (Trailing(Line(s)) <=> Gap(WordPlaces(s), s))

LEMMA Inside ==
  ASSUME NEW n \in Nat, NEW i \in 1 .. n, NEW j \in 1 .. n
  PROVE  /\ \A k \in i .. j : k \in 1 .. n
         /\ \A k \in i .. n + 1 : k = n + 1 \/ (k \in i .. n /\ k \in 1 .. n)
OBVIOUS

LEMMA FormIs ==
  ASSUME NEW n, NEW s
  PROVE  IsNormalForm(n, s) <=> Form(n, s, WordPlaces(n), WordPlaces(s))
BY DEF IsNormalForm, Form

\* A character that is of no word leaves the form as it is.
LEMMA FormStays ==
  ASSUME NEW s \in Seq(Characters), NEW c \in Characters, NEW n \in Seq(Characters),
         NEW p \in Seq(Nat), NEW q \in Seq(Nat), Within(p, s), Form(n, s, q, p)
  PROVE  Form(n, Append(s, c), q, p) /\ Within(p, Append(s, c))
<1> DEFINE t == Append(s, c)
<1>1. /\ Len(s) \in Nat /\ DOMAIN s = 1 .. Len(s) /\ DOMAIN t = 1 .. Len(s) + 1
      /\ \A i \in 1 .. Len(s) : t[i] = s[i]
      /\ Len(p) \in Nat /\ DOMAIN p = 1 .. Len(p)
  OBVIOUS
<1> HIDE DEF t
<1>2. \A x \in DOMAIN p : p[x] \in 1 .. Len(s)
  BY <1>1 DEF Within
<1>3. \A x \in DOMAIN p : t[p[x]] = s[p[x]]
  BY <1>1, <1>2
<1>4. ASSUME NEW x \in 1 .. Len(p) - 1
      PROVE  (\E k \in p[x] .. p[x + 1] : t[k] \in Whitespace)
               <=> \E k \in p[x] .. p[x + 1] : s[k] \in Whitespace
  <2>1. x \in 1 .. Len(p) /\ x + 1 \in 1 .. Len(p)
    BY <1>1
  <2>2. Len(s) \in Nat /\ p[x] \in 1 .. Len(s) /\ p[x + 1] \in 1 .. Len(s)
    BY <1>1, <1>2, <2>1
  <2>3. \A k \in p[x] .. p[x + 1] : k \in 1 .. Len(s)
    BY <2>2, Inside
  <2> QED
    BY <1>1, <2>3
<1>5. Form(n, t, q, p)
  BY <1>3, <1>4 DEF Form
<1>6. Within(p, t)
  BY <1>1, <1>2 DEF Within
<1> QED
  BY <1>5, <1>6 DEF t

\* A character of a word is one more place in the text and in its form, gap
\* characters further on.
LEMMA FormGrows ==
  ASSUME NEW s \in Seq(Characters), NEW c \in Characters, c \notin Whitespace,
         NEW n \in Seq(Characters), NEW m \in Seq(Characters),
         NEW p \in Seq(Nat), NEW q \in Seq(Nat), p # <<>>,
         Within(p, s), Within(q, n), Form(n, s, q, p),
         NEW gap \in {1, 2}, gap = 2 <=> Gap(p, s),
         Len(m) = Len(n) + gap, \A i \in DOMAIN n : m[i] = n[i],
         m[Len(n) + gap] = LowerOf(c), gap = 2 => m[Len(n) + 1] = "space"
  PROVE  /\ Form(m, Append(s, c), Append(q, Len(n) + gap), Append(p, Len(s) + 1))
         /\ Within(Append(p, Len(s) + 1), Append(s, c))
         /\ Within(Append(q, Len(n) + gap), m)
<1> DEFINE t == Append(s, c)
           u == Append(p, Len(s) + 1)
           v == Append(q, Len(n) + gap)
           l == Len(p)
<1>1. /\ Len(s) \in Nat /\ DOMAIN s = 1 .. Len(s) /\ DOMAIN t = 1 .. Len(s) + 1
      /\ \A i \in 1 .. Len(s) : t[i] = s[i]
      /\ t[Len(s) + 1] = c
      /\ Len(n) \in Nat /\ DOMAIN n = 1 .. Len(n) /\ DOMAIN m = 1 .. Len(n) + gap
  OBVIOUS
<1>2. /\ l \in Nat /\ l >= 1 /\ DOMAIN p = 1 .. l /\ DOMAIN u = 1 .. l + 1
      /\ Len(u) = l + 1 /\ u[l + 1] = Len(s) + 1
      /\ \A x \in 1 .. l : u[x] = p[x] /\ p[x] \in Nat
      /\ u # <<>>
  <2>1. l \in Nat /\ l >= 1 /\ DOMAIN p = 1 .. l /\ Len(s) + 1 \in Nat
    OBVIOUS
  <2>2. /\ u \in Seq(Nat) /\ Len(u) = l + 1 /\ u[l + 1] = Len(s) + 1
        /\ \A x \in 1 .. l : u[x] = p[x] /\ p[x] \in Nat
    BY <2>1
  <2>3. DOMAIN u = 1 .. l + 1 /\ u # <<>>
    BY <2>1, <2>2
  <2> QED
    BY <2>1, <2>2, <2>3
<1>3. /\ Len(q) = l /\ DOMAIN q = 1 .. l /\ DOMAIN v = 1 .. l + 1
      /\ Len(v) = l + 1 /\ v[l + 1] = Len(n) + gap
      /\ \A x \in 1 .. l : v[x] = q[x] /\ q[x] \in Nat
      /\ q[1] = 1 /\ q[l] = Len(n)
  <2>1. Len(q) = l /\ q[1] = 1 /\ q[Len(q)] = Len(n)
    BY DEF Form, Last
  <2>2. Len(q) \in Nat /\ Len(n) + gap \in Nat
    OBVIOUS
  <2> QED
    BY <2>1, <2>2
<1> HIDE DEF t, u, v, l
<1>4. /\ \A x \in 1 .. l : p[x] \in 1 .. Len(s)
      /\ \A x \in 1 .. l : q[x] \in 1 .. Len(n)
  BY <1>1, <1>2, <1>3 DEF Within
<1>5. \A x \in 1 .. l + 1 : x \in 1 .. l \/ x = l + 1
  BY <1>2
<1>6. Within(u, t) /\ Within(v, m)
  <2>1. \A x \in 1 .. l : u[x] \in DOMAIN t /\ v[x] \in DOMAIN m
    BY <1>1, <1>2, <1>3, <1>4
  <2>2. u[l + 1] \in DOMAIN t /\ v[l + 1] \in DOMAIN m
    BY <1>1, <1>2, <1>3
  <2> QED
    BY <1>2, <1>3, <1>5, <2>1, <2>2 DEF Within
<1>7. ASSUME NEW x \in DOMAIN u PROVE m[v[x]] = LowerOf(t[u[x]])
  <2>1. CASE x \in 1 .. l
    <3>1. m[v[x]] = n[q[x]] /\ t[u[x]] = s[p[x]]
      BY <1>1, <1>2, <1>3, <1>4, <2>1
    <3> QED
      BY <1>2, <2>1, <3>1 DEF Form
  <2>2. CASE x = l + 1
    BY <1>1, <1>2, <1>3, <2>2
  <2> QED
    BY <1>2, <1>5, <2>1, <2>2
<1>8. ASSUME NEW x \in 1 .. Len(u) - 1
      PROVE  IF \E k \in u[x] .. u[x + 1] : t[k] \in Whitespace
             THEN v[x + 1] = v[x] + 2 /\ m[v[x] + 1] = "space"
             ELSE v[x + 1] = v[x] + 1
  <2>1. x \in 1 .. l /\ (x < l => x \in 1 .. l - 1 /\ x + 1 \in 1 .. l)
    BY <1>2
  <2>2. CASE x < l
    <3>1. /\ u[x] = p[x] /\ u[x + 1] = p[x + 1] /\ v[x] = q[x] /\ v[x + 1] = q[x + 1]
          /\ p[x] \in 1 .. Len(s) /\ p[x + 1] \in 1 .. Len(s)
          /\ q[x] \in 1 .. Len(n) /\ q[x + 1] \in 1 .. Len(n)
      BY <1>2, <1>3, <1>4, <2>1, <2>2
    <3>2. \A k \in p[x] .. p[x + 1] : k \in 1 .. Len(s) /\ t[k] = s[k]
      <4>1. Len(s) \in Nat /\ p[x] \in 1 .. Len(s) /\ p[x + 1] \in 1 .. Len(s)
        BY <1>1, <3>1
      <4>2. \A i, j \in 1 .. Len(s) : \A k \in i .. j : k \in 1 .. Len(s)
        BY <4>1, Inside
      <4>3. \A k \in p[x] .. p[x + 1] : k \in 1 .. Len(s)
        BY <4>1, <4>2
      <4> QED
        BY <1>1, <4>3
    <3>3. IF \E k \in p[x] .. p[x + 1] : s[k] \in Whitespace
          THEN q[x + 1] = q[x] + 2 /\ n[q[x] + 1] = "space"
          ELSE q[x + 1] = q[x] + 1
      BY <1>2, <2>1, <2>2 DEF Form, l
    <3>4. q[x + 1] = q[x] + 2 => q[x] + 1 \in 1 .. Len(n)
      <4>1. \A a, b \in 1 .. Len(n) : b = a + 2 => a + 1 \in 1 .. Len(n)
        BY <1>1
      <4> QED
        BY <3>1, <4>1
    <3>5. q[x + 1] = q[x] + 2 => m[q[x] + 1] = n[q[x] + 1]
      BY <1>1, <3>4
    <3> QED
      BY <3>1, <3>2, <3>3, <3>5
  <2>3. CASE x = l
    <3>1. /\ u[x] = p[l] /\ u[x + 1] = Len(s) + 1 /\ p[l] \in 1 .. Len(s)
          /\ v[x] = Len(n) /\ v[x + 1] = Len(n) + gap
      BY <1>2, <1>3, <1>4, <2>1, <2>3
    <3>2. \A k \in p[l] .. Len(s) + 1 :
            k = Len(s) + 1 \/ (k \in p[l] .. Len(s) /\ t[k] = s[k])
      <4>1. Len(s) \in Nat /\ p[l] \in 1 .. Len(s)
        BY <1>1, <3>1
      <4>2. \A k \in p[l] .. Len(s) + 1 :
              k = Len(s) + 1 \/ (k \in p[l] .. Len(s) /\ k \in 1 .. Len(s))
        BY <4>1, Inside
      <4> QED
        BY <1>1, <4>2
    <3>3. \A k \in p[l] .. Len(s) : k \in p[l] .. Len(s) + 1 /\ t[k] = s[k]
      BY <1>1, <3>1
    <3>4. (\E k \in p[l] .. Len(s) + 1 : t[k] \in Whitespace) <=> Gap(p, s)
      BY <1>1, <3>2, <3>3 DEF Gap, l
    <3> QED
      BY <3>1, <3>4
  <2> QED
    BY <1>2, <2>1, <2>2, <2>3
<1>9. v[1] = 1 /\ Last(v) = Len(m)
  BY <1>2, <1>3 DEF Last
<1>10. Form(m, t, v, u)
  BY <1>2, <1>3, <1>7, <1>8, <1>9 DEF Form
<1> QED
  BY <1>6, <1>10 DEF t, u, v

-----------------------------------------------------------------------------
(* The invariant *)

SameLetters(s) ==
  Degenerate(Normalized(s)) <=> \A i \in DOMAIN s : LowerOf(s[i]) \notin Small

TextFits(s) ==
  /\ s \in Seq(Characters) /\ Normalized(s) \in Seq(Characters)
  /\ Tidy(s)
  /\ SameLetters(s)
  /\ IsNormalForm(Normalized(s), s)
  /\ Placed(s)

LEMMA FirstText == TextFits(<<>>)
<1>1. Lower(<<>>) = <<>>
  BY DEF Lower
<1>2. Clean(<<>>) = <<>> /\ Line(<<>>) = <<>>
  BY <1>1, NothingYet DEF Clean, Line
<1>3. /\ <<>> \in Seq(Characters) /\ DOMAIN <<>> = {} /\ Len(<<>>) = 0
      /\ Blank(<<>>) /\ Spaced(<<>>) /\ ~Trailing(<<>>)
  BY DEF Blank, Spaced, Trailing
<1>4. Normalized(<<>>) = <<>>
  BY <1>2, <1>3, StrippedBlank DEF Normalized, Line, Clean
<1>5. Tidy(<<>>)
  BY <1>2, <1>3 DEF Tidy
<1>6. SameLetters(<<>>)
  BY <1>3, <1>4 DEF SameLetters, Degenerate
<1>7. Form(<<>>, <<>>, <<>>, <<>>)
  BY <1>3 DEF Form
<1>8. IsNormalForm(Normalized(<<>>), <<>>)
  BY <1>4, <1>7, NothingYet, FormIs
<1>9. Placed(<<>>)
  BY <1>2, <1>3, <1>4, NothingYet DEF Placed, Within
<1> QED
  BY <1>3, <1>4, <1>5, <1>6, <1>8, <1>9 DEF TextFits

LEMMA LettersStep ==
  ASSUME NEW s, TextFits(s), NEW c \in Characters
  PROVE  /\ Normalized(Append(s, c)) \in Seq(Characters)
         /\ SameLetters(Append(s, c))
<1> DEFINE n == Normalized(s)
           m == Normalized(Append(s, c))
           x == LowerOf(c)
<1>1. /\ s \in Seq(Characters) /\ Tidy(s) /\ n \in Seq(Characters)
      /\ Degenerate(n) <=> \A i \in DOMAIN s : LowerOf(s[i]) \notin Small
      /\ x \in Characters
      /\ x \in Small => c \notin Punctuation \cup Whitespace
  BY Classes DEF TextFits, SameLetters
<1>2. (\A i \in DOMAIN Append(s, c) : LowerOf(Append(s, c)[i]) \notin Small)
        <=> Degenerate(n) /\ x \notin Small
  <2>1. /\ DOMAIN s = 1 .. Len(s) /\ DOMAIN Append(s, c) = 1 .. Len(s) + 1
        /\ Len(s) \in Nat /\ Append(s, c)[Len(s) + 1] = c
        /\ \A i \in 1 .. Len(s) : Append(s, c)[i] = s[i]
    BY <1>1
  <2>2. \A i : i \in 1 .. Len(s) + 1 <=> i \in 1 .. Len(s) \/ i = Len(s) + 1
    BY <2>1
  <2> QED
    BY <1>1, <2>1, <2>2
<1>3. ASSUME NEW r \in Seq(Characters), NEW y \in Characters
      PROVE  /\ Append(r, y) \in Seq(Characters)
             /\ Degenerate(Append(r, y)) <=> Degenerate(r) /\ y \notin Small
  <2>1. /\ DOMAIN r = 1 .. Len(r) /\ DOMAIN Append(r, y) = 1 .. Len(r) + 1
        /\ Len(r) \in Nat /\ Append(r, y)[Len(r) + 1] = y
        /\ \A i \in 1 .. Len(r) : Append(r, y)[i] = r[i]
        /\ Append(r, y) \in Seq(Characters)
    OBVIOUS
  <2>2. \A i : i \in 1 .. Len(r) + 1 <=> i \in 1 .. Len(r) \/ i = Len(r) + 1
    BY <2>1
  <2> QED
    BY <2>1, <2>2 DEF Degenerate
<1> HIDE DEF n, m, x
<1>4. m \in Seq(Characters) /\ (Degenerate(m) <=> Degenerate(n) /\ x \notin Small)
  <2>1. CASE c \in Punctuation \cup Whitespace
    <3>1. m = n
      BY <1>1, <2>1, NormalizedStep DEF m, n
    <3> QED
      BY <1>1, <2>1, <3>1
  <2>2. CASE c \notin Punctuation \cup Whitespace /\ Blank(Line(s))
    <3>1. n = <<>> /\ m = Append(<<>>, x)
      BY <1>1, <2>2, NormalizedStep DEF m, n, x
    <3> QED
      BY <1>1, <1>3, <3>1
  <2>3. CASE c \notin Punctuation \cup Whitespace /\ ~Blank(Line(s)) /\ Trailing(Line(s))
    <3>1. m = Append(Append(n, "space"), x)
      BY <1>1, <2>3, NormalizedStep DEF m, n, x
    <3>2. /\ Append(n, "space") \in Seq(Characters)
          /\ Degenerate(Append(n, "space")) <=> Degenerate(n)
      BY <1>1, <1>3, Classes
    <3> QED
      BY <1>1, <1>3, <3>1, <3>2
  <2>4. CASE c \notin Punctuation \cup Whitespace /\ ~Blank(Line(s)) /\ ~Trailing(Line(s))
    <3>1. m = Append(n, x)
      BY <1>1, <2>4, NormalizedStep DEF m, n, x
    <3> QED
      BY <1>1, <1>3, <3>1
  <2> QED
    BY <2>1, <2>2, <2>3, <2>4
<1> QED
  BY <1>2, <1>4 DEF SameLetters, m

LEMMA FormStep ==
  ASSUME NEW s, TextFits(s), NEW c \in Characters
  PROVE  IsNormalForm(Normalized(Append(s, c)), Append(s, c)) /\ Placed(Append(s, c))
<1> DEFINE t == Append(s, c)
           n == Normalized(s)
           m == Normalized(t)
           p == WordPlaces(s)
           q == WordPlaces(n)
           x == LowerOf(c)
<1>1. /\ s \in Seq(Characters) /\ t \in Seq(Characters) /\ n \in Seq(Characters)
      /\ p \in Seq(Nat) /\ q \in Seq(Nat)
      /\ x \in Characters
      /\ x \in Punctuation \cup Whitespace <=> c \in Punctuation \cup Whitespace
      /\ Tidy(s) /\ Tidy(t) /\ Line(s) \in Seq(Characters)
  BY Classes, WordPlacesOneMore, TidyStep DEF TextFits, Tidy
<1>2. /\ Form(n, s, q, p) /\ Within(p, s) /\ Within(q, n)
      /\ p = <<>> <=> Blank(Line(s))
      /\ p # <<>> => (Trailing(Line(s)) <=> Gap(p, s))
  BY FormIs DEF TextFits, Placed
<1>3. IsNormalForm(m, t) <=> Form(m, t, WordPlaces(m), WordPlaces(t))
  BY FormIs
<1>4. /\ Len(s) \in Nat /\ DOMAIN s = 1 .. Len(s) /\ DOMAIN t = 1 .. Len(s) + 1
      /\ Len(t) = Len(s) + 1 /\ t[Len(s) + 1] = c
      /\ \A i \in 1 .. Len(s) : t[i] = s[i]
  BY <1>1
<1>5. CASE c \in Punctuation \cup Whitespace
  <2>1. m = n /\ WordPlaces(t) = p /\ (Blank(Line(t)) <=> Blank(Line(s)))
    BY <1>1, <1>5, NormalizedStep, WordPlacesOneMore
  <2>2. Form(n, t, q, p) /\ Within(p, t)
    BY <1>1, <1>2, FormStays
  <2>3. Trailing(Line(t)) <=> Trailing(Line(s)) \/ c \in Whitespace
    <3>1. CASE Line(t) = Line(s) /\ (c \in Whitespace => Trailing(Line(s)))
      BY <3>1
    <3>2. CASE Line(t) = Append(Line(s), "space") /\ c \in Whitespace
      BY <1>1, <3>2, Classes DEF Trailing
    <3> QED
      BY <1>1, <1>5, <3>1, <3>2, TidyStep, Classes
  <2>4. ASSUME p # <<>>
        PROVE  Gap(p, t) <=> Gap(p, s) \/ c \in Whitespace
    <3>1. p[Len(p)] \in 1 .. Len(s)
      <4>1. Len(p) \in DOMAIN p
        BY <1>1, <2>4
      <4> QED
        BY <1>2, <1>4, <4>1 DEF Within
    <3>2. \A k \in p[Len(p)] .. Len(s) + 1 :
            k = Len(s) + 1 \/ (k \in p[Len(p)] .. Len(s) /\ k \in 1 .. Len(s))
      BY <1>4, <3>1, Inside
    <3>3. /\ Len(s) + 1 \in p[Len(p)] .. Len(s) + 1
          /\ \A k \in p[Len(p)] .. Len(s) : k \in 1 .. Len(s) /\ k \in p[Len(p)] .. Len(s) + 1
      BY <1>4, <3>1
    <3> HIDE DEF p, t
    <3> QED
      BY <1>4, <3>2, <3>3 DEF Gap
  <2> HIDE DEF t, n, m, p, q
  <2>5. Placed(t)
    BY <1>2, <2>1, <2>2, <2>3, <2>4 DEF Placed, m, n, q
  <2> QED
    BY <1>3, <2>1, <2>2, <2>5 DEF t, m, q
<1>6. CASE c \notin Punctuation \cup Whitespace
  <2>1. /\ WordPlaces(t) = Append(p, Len(s) + 1)
        /\ Line(t) = Append(Line(s), x)
        /\ ~Blank(Line(t))
    BY <1>1, <1>6, WordPlacesOneMore, TidyStep, NormalizedStep
  <2>2. ~Trailing(Line(t))
    BY <1>1, <1>6, <2>1 DEF Trailing
  <2>3. /\ WordPlaces(t) # <<>> /\ ~Gap(WordPlaces(t), t)
    <3>1. /\ Len(p) \in Nat /\ Len(Append(p, Len(s) + 1)) = Len(p) + 1
          /\ Append(p, Len(s) + 1)[Len(p) + 1] = Len(s) + 1
      BY <1>1, <1>4
    <3>2. \A k \in Len(s) + 1 .. Len(s) + 1 : k = Len(s) + 1
      BY <1>4
    <3> QED
      BY <1>4, <1>6, <2>1, <3>1, <3>2 DEF Gap
  <2>4. CASE p = <<>>
    <3>1. n = <<>> /\ m = <<x>>
      BY <1>1, <1>2, <1>6, <2>4, NormalizedStep
    <3>2. WordPlaces(m) = <<1>>
      <4>1. <<>> \in Seq(Characters) /\ Append(<<>>, x) = <<x>> /\ Len(<<>>) + 1 = 1
            /\ Append(<<>>, 1) = <<1>>
        BY <1>1
      <4> QED
        BY <1>1, <1>6, <3>1, <4>1, NothingYet, WordPlacesOneMore
    <3>3. WordPlaces(t) = <<Len(s) + 1>>
      BY <1>1, <2>1, <2>4
    <3>4. Form(<<x>>, t, <<1>>, <<Len(s) + 1>>)
      BY <1>4 DEF Form, Last
    <3>5. Within(<<Len(s) + 1>>, t) /\ Within(<<1>>, <<x>>)
      BY <1>4 DEF Within
    <3> HIDE DEF t, m
    <3> QED
      BY <1>3, <2>1, <2>2, <2>3, <3>1, <3>2, <3>3, <3>4, <3>5 DEF Placed, t, m
  <2>5. CASE p # <<>>
    <3> DEFINE gap == IF Trailing(Line(s)) THEN 2 ELSE 1
    <3>1. /\ gap \in {1, 2} /\ (gap = 2 <=> Gap(p, s))
      BY <1>2, <2>5
    <3>2. m = IF Trailing(Line(s)) THEN Append(Append(n, "space"), x) ELSE Append(n, x)
      BY <1>1, <1>2, <1>6, <2>5, NormalizedStep
    <3>3. /\ Len(n) \in Nat
          /\ \A r \in Seq(Characters), y \in Characters :
               /\ Append(r, y) \in Seq(Characters)
               /\ Len(Append(r, y)) = Len(r) + 1
               /\ Append(r, y)[Len(r) + 1] = y
               /\ \A i \in 1 .. Len(r) : Append(r, y)[i] = r[i]
          /\ DOMAIN n = 1 .. Len(n)
      BY <1>1
    <3> HIDE DEF t, m, n, p, q
    <3>4. CASE Trailing(Line(s))
      <4> DEFINE one == Append(n, "space")
      <4>1. /\ one \in Seq(Characters) /\ Len(one) = Len(n) + 1
            /\ one[Len(n) + 1] = "space" /\ \A i \in 1 .. Len(n) : one[i] = n[i]
        BY <1>1, <3>3, Classes
      <4> HIDE DEF one
      <4>2. m = Append(one, x) /\ gap = 2
        BY <3>2, <3>4 DEF one
      <4>3. /\ m \in Seq(Characters) /\ Len(m) = Len(one) + 1
            /\ m[Len(one) + 1] = x /\ \A i \in 1 .. Len(one) : m[i] = one[i]
        BY <1>1, <3>3, <4>1, <4>2
      <4>4. /\ Len(one) + 1 = Len(n) + 2 /\ Len(n) + 1 \in 1 .. Len(one)
            /\ \A i \in 1 .. Len(n) : i \in 1 .. Len(one)
        BY <3>3, <4>1
      <4>5. /\ m \in Seq(Characters) /\ Len(m) = Len(n) + 2
            /\ m[Len(n) + 2] = x /\ m[Len(n) + 1] = "space"
            /\ \A i \in DOMAIN n : m[i] = n[i]
        BY <3>3, <4>1, <4>3, <4>4
      <4>6. WordPlaces(m) = Append(q, Len(n) + 2)
        <5>1. WordPlaces(one) = q
          BY <1>1, Classes, WordPlacesOneMore DEF one, q
        <5> QED
          BY <1>1, <1>6, <4>1, <4>2, <4>4, <5>1, WordPlacesOneMore
      <4>7. /\ Form(m, Append(s, c), Append(q, Len(n) + 2), Append(p, Len(s) + 1))
            /\ Within(Append(p, Len(s) + 1), Append(s, c))
            /\ Within(Append(q, Len(n) + 2), m)
        <5>1. /\ s \in Seq(Characters) /\ n \in Seq(Characters) /\ m \in Seq(Characters)
              /\ p \in Seq(Nat) /\ q \in Seq(Nat) /\ p # <<>> /\ c \notin Whitespace
              /\ Within(p, s) /\ Within(q, n) /\ Form(n, s, q, p)
          BY <1>1, <1>2, <1>6, <2>5, <4>5
        <5>2. /\ 2 \in {1, 2} /\ (2 = 2 <=> Gap(p, s))
              /\ Len(m) = Len(n) + 2 /\ m[Len(n) + 2] = LowerOf(c)
              /\ 2 = 2 => m[Len(n) + 1] = "space"
              /\ \A i \in DOMAIN n : m[i] = n[i]
          BY <3>1, <4>2, <4>5, <4>6 DEF x
        <5> QED
          BY <5>1, <5>2, FormGrows
      <4> QED
        BY <1>3, <2>1, <2>2, <2>3, <4>6, <4>7 DEF Placed, t, m
    <3>5. CASE ~Trailing(Line(s))
      <4>1. m = Append(n, x) /\ gap = 1
        BY <3>2, <3>5
      <4>2. /\ m \in Seq(Characters) /\ Len(m) = Len(n) + 1
            /\ m[Len(n) + 1] = x /\ \A i \in DOMAIN n : m[i] = n[i]
        BY <1>1, <3>3, <4>1
      <4>3. WordPlaces(m) = Append(q, Len(n) + 1)
        BY <1>1, <1>6, <4>1, WordPlacesOneMore DEF q
      <4>4. /\ Form(m, Append(s, c), Append(q, Len(n) + 1), Append(p, Len(s) + 1))
            /\ Within(Append(p, Len(s) + 1), Append(s, c))
            /\ Within(Append(q, Len(n) + 1), m)
        <5>1. /\ s \in Seq(Characters) /\ n \in Seq(Characters) /\ m \in Seq(Characters)
              /\ p \in Seq(Nat) /\ q \in Seq(Nat) /\ p # <<>> /\ c \notin Whitespace
              /\ Within(p, s) /\ Within(q, n) /\ Form(n, s, q, p)
          BY <1>1, <1>2, <1>6, <2>5, <4>2
        <5>2. /\ 1 \in {1, 2} /\ (1 = 2 <=> Gap(p, s))
              /\ Len(m) = Len(n) + 1 /\ m[Len(n) + 1] = LowerOf(c)
              /\ 1 = 2 => m[Len(n) + 1] = "space"
              /\ \A i \in DOMAIN n : m[i] = n[i]
          BY <3>1, <4>1, <4>2, <4>3 DEF x
        <5> QED
          BY <5>1, <5>2, FormGrows
      <4> QED
        BY <1>3, <2>1, <2>2, <2>3, <4>3, <4>4 DEF Placed, t, m
    <3> QED
      BY <3>4, <3>5
  <2> QED
    BY <2>4, <2>5
<1> QED
  BY <1>5, <1>6

LEMMA FitsStep == TextFits(text) /\ [Next]_text => TextFits(text')
<1>1. ASSUME TextFits(text), NEW c \in Characters, Type(c) PROVE TextFits(text')
  <2>1. text' = Append(text, c) /\ text \in Seq(Characters) /\ Tidy(text)
    BY <1>1 DEF Type, TextFits
  <2>2. Append(text, c) \in Seq(Characters) /\ Tidy(Append(text, c))
    BY <2>1, TidyStep
  <2> QED
    BY <1>1, <2>1, <2>2, LettersStep, FormStep DEF TextFits
<1>2. TextFits(text) /\ text' = text => TextFits(text')
  OBVIOUS
<1> QED
  BY <1>1, <1>2 DEF Next

-----------------------------------------------------------------------------
(* Theorems *)

\* normalize_text gives the words of a text and single spaces between them, for
\* texts of any length: duplicates are the texts with the same words.
THEOREM NormalFormHolds == Spec => []NormalFormOfText
<1>1. Init => TextFits(text)
  BY FirstText DEF Init
<1>2. TextFits(text) /\ [Next]_text => TextFits(text)'
  BY FitsStep
<1>3. TextFits(text) => NormalFormOfText
  BY DEF TextFits, NormalFormOfText
<1> QED
  BY <1>1, <1>2, <1>3, PTL DEF Spec

\* A normalized text without letters contains no keyword.
LEMMA NoLettersNoMatch ==
  ASSUME NEW n \in Seq(Characters), Degenerate(n)
  PROVE  Matches(n) = {}
<1> SUFFICES ASSUME NEW a \in DOMAIN Keywords, NEW k \in Keywords[a], k \in SubSeqs(n)
             PROVE  FALSE
  BY DEF Matches
<1>1. k \in Seq(Small) /\ k # <<>>
  BY TextAssumption
<1>2. PICK i, j \in 0 .. Len(n) : k = SubSeq(n, i + 1, j)
  BY DEF SubSeqs
<1>3. Len(k) \in Nat /\ Len(k) >= 1 /\ k[1] \in Small
  BY <1>1
<1>4. /\ Len(n) \in Nat /\ i \in Nat /\ j \in Nat /\ i + 1 \in Int /\ j \in Int
      /\ j <= Len(n) /\ \A x \in i + 1 .. j : n[x] \in Characters
  BY <1>2
<1>5. i + 1 <= j
  <2>1. Len(k) = IF i + 1 <= j THEN j - (i + 1) + 1 ELSE 0
    BY <1>2, <1>4, SubSeqProperties
  <2> QED
    BY <1>3, <2>1
<1>6. k[1] = n[(i + 1) + 1 - 1]
  <2>1. \A x \in 1 .. j - (i + 1) + 1 : SubSeq(n, i + 1, j)[x] = n[(i + 1) + x - 1]
    BY <1>4, SubSeqProperties
  <2>2. 1 \in 1 .. j - (i + 1) + 1
    BY <1>4, <1>5
  <2> QED
    BY <1>2, <2>1, <2>2
<1>7. (i + 1) + 1 - 1 = i + 1 /\ i + 1 \in DOMAIN n
  BY <1>4, <1>5
<1> QED
  BY <1>3, <1>6, <1>7 DEF Degenerate

\* is_degenerate_text and match_single_category never claim the same text, of
\* any length and for any keywords.
THEOREM DegenerateHolds == Spec => []DegenerateHasNoLetters
<1>1. Init => TextFits(text)
  BY FirstText DEF Init
<1>2. TextFits(text) /\ [Next]_text => TextFits(text)'
  BY FitsStep
<1>3. TextFits(text) => DegenerateHasNoLetters
  BY NoLettersNoMatch DEF TextFits, SameLetters, DegenerateHasNoLetters
<1> QED
  BY <1>1, <1>2, <1>3, PTL DEF Spec

\* What a text contains, a longer one with the same beginning contains.
LEMMA MatchesStay ==
  ASSUME NEW n \in Seq(Characters), NEW m \in Seq(Characters), Len(n) <= Len(m),
         \A i \in 1 .. Len(n) : m[i] = n[i]
  PROVE  Matches(n) \subseteq Matches(m)
<1>1. Len(n) \in Nat /\ Len(m) \in Nat
  OBVIOUS
<1>2. ASSUME NEW i \in 0 .. Len(n), NEW j \in 0 .. Len(n)
      PROVE  SubSeq(n, i + 1, j) = SubSeq(m, i + 1, j)
  <2>1. /\ i \in Nat /\ j \in Nat /\ i + 1 \in Int /\ j \in Int
        /\ \A x \in i + 1 .. j : x \in 1 .. Len(n)
        /\ \A x \in i + 1 .. j : n[x] \in Characters /\ m[x] = n[x]
    BY <1>1
  <2> DEFINE l == i + 1
  <2>2. l \in Int /\ j \in Int /\ \A x \in l .. j : n[x] \in Characters /\ m[x] = n[x]
    BY <2>1
  <2> HIDE DEF l
  <2>3. /\ SubSeq(n, l, j) \in Seq(Characters) /\ SubSeq(m, l, j) \in Seq(Characters)
        /\ Len(SubSeq(n, l, j)) = IF l <= j THEN j - l + 1 ELSE 0
        /\ Len(SubSeq(m, l, j)) = IF l <= j THEN j - l + 1 ELSE 0
        /\ \A x \in 1 .. j - l + 1 : SubSeq(n, l, j)[x] = n[l + x - 1]
        /\ \A x \in 1 .. j - l + 1 : SubSeq(m, l, j)[x] = m[l + x - 1]
    BY <2>2, SubSeqProperties
  <2>4. ASSUME NEW x \in 1 .. Len(SubSeq(n, l, j))
        PROVE  SubSeq(n, l, j)[x] = SubSeq(m, l, j)[x]
    <3>1. l <= j
      BY <2>3
    <3>2. x \in 1 .. j - l + 1
      BY <2>3, <3>1
    <3>3. l + x - 1 \in l .. j
      BY <2>2, <3>2
    <3> QED
      BY <2>2, <2>3, <3>2, <3>3
  <2>5. SubSeq(n, l, j) = SubSeq(m, l, j)
    BY <2>3, <2>4, SeqEqual
  <2> QED
    BY <2>5 DEF l
<1>3. SubSeqs(n) \subseteq SubSeqs(m)
  <2>1. \A i \in 0 .. Len(n) : i \in 0 .. Len(m)
    BY <1>1
  <2> QED
    BY <1>2, <2>1 DEF SubSeqs
<1> QED
  BY <1>3 DEF Matches

\* One more character adds to the end of the normalized text, or nothing.
LEMMA NormalizedGrows ==
  ASSUME NEW s, TextFits(s), NEW c \in Characters
  PROVE  LET n == Normalized(s)
             m == Normalized(Append(s, c))
         IN  Len(n) <= Len(m) /\ \A i \in 1 .. Len(n) : m[i] = n[i]
<1> DEFINE n == Normalized(s)
           m == Normalized(Append(s, c))
           x == LowerOf(c)
<1>1. n \in Seq(Characters) /\ s \in Seq(Characters) /\ Tidy(s) /\ x \in Characters
  BY Classes DEF TextFits
<1>2. \/ m = n
      \/ n = <<>> /\ m = <<x>>
      \/ m = Append(Append(n, "space"), x)
      \/ m = Append(n, x)
  BY <1>1, NormalizedStep
<1> SUFFICES Len(n) <= Len(m) /\ \A i \in 1 .. Len(n) : m[i] = n[i]
  OBVIOUS
<1> HIDE DEF n, m, x
<1>3. \A r \in Seq(Characters), y \in Characters :
        /\ Append(r, y) \in Seq(Characters) /\ Len(r) \in Nat
        /\ Len(Append(r, y)) = Len(r) + 1
        /\ \A i \in 1 .. Len(r) : Append(r, y)[i] = r[i]
  OBVIOUS
<1>4. CASE m = n
  BY <1>1, <1>4
<1>5. CASE n = <<>> /\ m = <<x>>
  BY <1>1, <1>5
<1>6. CASE m = Append(n, x)
  BY <1>1, <1>3, <1>6
<1>7. CASE m = Append(Append(n, "space"), x)
  <2> DEFINE one == Append(n, "space")
  <2>1. /\ one \in Seq(Characters) /\ Len(n) \in Nat /\ Len(one) = Len(n) + 1
        /\ \A i \in 1 .. Len(n) : one[i] = n[i] /\ i \in 1 .. Len(one)
    BY <1>1, <1>3, Classes
  <2> HIDE DEF one
  <2>2. Len(m) = Len(one) + 1 /\ \A i \in 1 .. Len(one) : m[i] = one[i]
    BY <1>1, <1>3, <1>7, <2>1 DEF one
  <2> QED
    BY <2>1, <2>2
<1> QED
  BY <1>2, <1>4, <1>5, <1>6, <1>7

\* Nothing that is added to a text takes a doubt away that
\* _check_regex_fast_path had, for any keywords and any limit.
THEOREM DoubtRemainsHolds == Spec => DoubtRemains
<1>1. Init => TextFits(text)
  BY FirstText DEF Init
<1>2. TextFits(text) /\ [Next]_text => TextFits(text)'
  BY FitsStep
<1> DEFINE Doubt == FastPath(Normalized(text')) # {} =>
                      \/ FastPath(Normalized(text)) = FastPath(Normalized(text'))
                      \/ Matches(Normalized(text)) = {}
<1>3. TextFits(text) /\ [Next]_text => [Doubt]_text
  <2> SUFFICES ASSUME TextFits(text), NEW c \in Characters, Type(c),
                      FastPath(Normalized(text')) # {}, Matches(Normalized(text)) # {}
               PROVE  FastPath(Normalized(text)) = FastPath(Normalized(text'))
    BY DEF Next
  <2> DEFINE n == Normalized(text)
             m == Normalized(Append(text, c))
  <2>1. text' = Append(text, c)
    BY DEF Type
  <2>2. n \in Seq(Characters) /\ m \in Seq(Characters)
    BY LettersStep DEF TextFits
  <2>3. Len(n) <= Len(m) /\ Matches(n) \subseteq Matches(m)
    <3>1. Len(n) <= Len(m) /\ \A i \in 1 .. Len(n) : m[i] = n[i]
      BY NormalizedGrows
    <3> HIDE DEF n, m
    <3> QED
      BY <2>2, <3>1, MatchesStay
  <2>4. FastPath(m) # {} /\ Matches(n) # {}
    BY <2>1
  <2> HIDE DEF n, m
  <2>5. /\ ~(Len(m) > FastPathMaxLength) /\ Cardinality(Matches(m)) = 1
        /\ FastPath(m) = Matches(m)
    BY <2>4 DEF FastPath, MatchSingle
  <2>6. IsFiniteSet(Matches(m))
    BY TextAssumption, FS_Subset DEF Matches
  <2>7. Matches(n) = Matches(m)
    BY <2>3, <2>4, <2>5, <2>6, FS_Singleton
  <2>8. ~(Len(n) > FastPathMaxLength)
    BY <2>2, <2>3, <2>5, TextAssumption
  <2>9. FastPath(n) = FastPath(m)
    BY <2>5, <2>7, <2>8 DEF FastPath, MatchSingle
  <2> QED
    BY <2>1, <2>9 DEF n, m
<1> QED
  BY <1>1, <1>2, <1>3, PTL DEF Spec, DoubtRemains
=============================================================================
