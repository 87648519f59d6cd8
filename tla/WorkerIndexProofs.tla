------------------------- MODULE WorkerIndexProofs --------------------------
(***************************************************************************)
(* The two passes over a file agree, whatever is in it.                    *)
(*                                                                         *)
(* What the first pass has found is laid out over the text (Found): line j *)
(* begins at starts[j] and ends at ends[j], nothing but blanks and empty   *)
(* lines lies between two (Line), and line_sizes[j] is the number of its   *)
(* characters that are not in a tag (Seen).  One more line, without a      *)
(* character, may come from blanks at the end of a file (Trailing): get()  *)
(* fails there and ch is what it was.  The second pass is somewhere in the *)
(* same layout (Parsing), so that it reads the same characters and does    *)
(* not meet the end of the file before the last line.                      *)
(*                                                                         *)
(* Then what the words and the lines of a text are, for WorkerTrieProofs   *)
(* and WorkerExactProofs: Tokens splits a line at its blanks into its      *)
(* words, and the lines that the layout finds are those that LineOf        *)
(* numbers.                                                                *)
(***************************************************************************)
EXTENDS WorkerIndex, SequenceTheorems, FiniteSetTheorems, WellFoundedInduction, TLAPS

FirstPass == {"count", "countLine"}
SecondPass == {"parse", "parseLine", "words"}
Passes == FirstPass \cup SecondPass
Skipped == Blanks \cup {NL}

(* Each variable holds a value of its kind; the lines that are stored are those parsed. *)
Types ==
  /\ textfiles \in Seq([path : Int, text : Seq(1..255)])
  /\ ch \in Int /\ html_tag \in BOOLEAN /\ curline \in Seq(Int)
  /\ lines \in Seq(Seq(Seq(Int)))
  /\ line_sizes \in Seq(Nat) /\ lineID \in 0..Len(line_sizes) /\ fileID \in Nat
  /\ parsePc \in Passes \cup {"loop", "exited", "endless"}
  /\ parsePc \in Passes => fileID < Len(textfiles) /\ pos \in 1..(Len(text) + 1)
  /\ parsePc \in FirstPass => Len(lines) = fileID /\ lineID = 0
  /\ parsePc \in SecondPass =>
       /\ Len(lines) = fileID + 1
       /\ Len(lines[fileID + 1]) = (IF parsePc = "words" THEN lineID + 1 ELSE lineID)
  /\ parsePc = "countLine" => Len(line_sizes) > 0
  /\ parsePc \in {"parseLine", "words"} => lineID < Len(line_sizes)

(* In a line that begins at b: a tag is open before the character at p, it is a part of a *)
(* tag, and those before it that are not.                                                 *)
Open(s, b, p) == \E q \in b..(p - 1) : s[q] = LT /\ \A r \in q..(p - 1) : s[r] # GT
Inside(s, b, p) == Open(s, b, p) \/ s[p] = LT
Seen(s, b, p) == {q \in b..(p - 1) : ~Inside(s, b, q)}

(* A line of s from b to its end e, or the beginning of one; f is where the stream is after *)
(* the line before.                                                                         *)
Begun(s, f, b) == b \in f..Len(s) /\ (\A q \in f..(b - 1) : s[q] \in Skipped) /\ s[b] \notin Skipped
Line(s, f, b, e) ==
  Begun(s, f, b) /\ e \in b..Len(s) /\ s[e] = NL /\ \A q \in b..(e - 1) : s[q] # NL
Trailing(s, f, b, e) ==
  /\ f \in 1..Len(s) /\ b = Len(s) + 1 /\ e = Len(s)
  /\ (\A q \in f..Len(s) : s[q] \in Skipped) /\ s[Len(s)] \in Blanks

(* The first m lines of s. *)
Marks(s, m) == [1..m -> 0..(Len(s) + 1)]
From(ends, j) == IF j = 1 THEN 1 ELSE ends[j - 1] + 1
Found(s, sizes, starts, ends, m) ==
  \A j \in 1..m :
    /\ From(ends, j) \in Nat \ {0}
    /\ Line(s, From(ends, j), starts[j], ends[j]) \/ Trailing(s, From(ends, j), starts[j], ends[j])
    /\ sizes[j] = Cardinality(Seen(s, starts[j], ends[j]))

(* The first pass is behind the m-th line, ... *)
Behind(s, f, p) == f \in 1..p /\ (\A q \in f..(p - 1) : s[q] \in Skipped) /\ (p = f \/ s[p - 1] = NL)
(* ... or in it; count characters of it were seen. *)
Within(s, f, b, e, count) ==
  \/ /\ Begun(s, f, b) /\ pos - 1 \in b..Len(s) /\ ch = s[pos - 1]
     /\ \A q \in b..(pos - 2) : s[q] # NL
     /\ (html_tag <=> Open(s, b, pos - 1)) /\ count = Cardinality(Seen(s, b, pos - 1))
  \/ Trailing(s, f, b, e) /\ pos = b /\ count = 0 /\ ~html_tag

(* Behind the last line there is none. *)
Rest(s, f) ==
  f \in 1..(Len(s) + 1) /\ (\A q \in f..Len(s) : s[q] \in Skipped) /\ (f <= Len(s) => s[Len(s)] = NL)

(* What is known in the first pass. *)
Counting ==
  LET m == Len(line_sizes)
  IN  /\ parsePc = "count" =>
           \E starts, ends \in Marks(text, m) :
             Found(text, line_sizes, starts, ends, m) /\ Behind(text, From(ends, m + 1), pos)
      /\ parsePc = "countLine" =>
           \E starts, ends \in Marks(text, m) :
             /\ Found(text, line_sizes, starts, ends, m - 1) /\ From(ends, m) \in Nat \ {0}
             /\ Within(text, From(ends, m), starts[m], ends[m], line_sizes[m])

(* The second pass, in what the first has found: before line lineID + 1, in it, or behind it. *)
Ahead(s, f, b, e) ==
  pos \in f..b /\ (Trailing(s, f, b, e) => pos <= Len(s))
Parsing ==
  LET m == Len(line_sizes)
      k == lineID + 1
  IN  parsePc \in SecondPass =>
        \E starts, ends \in Marks(text, m) :
          /\ Found(text, line_sizes, starts, ends, m) /\ Rest(text, From(ends, m + 1))
          /\ parsePc = "parse" /\ lineID < m => Ahead(text, From(ends, k), starts[k], ends[k])
          /\ parsePc = "parseLine" =>
               /\ Within(text, From(ends, k), starts[k], ends[k], Len(curline))
               /\ Line(text, From(ends, k), starts[k], ends[k]) => pos - 1 <= ends[k]
               /\ curline = Spelt(text, Seen(text, starts[k], pos - 1))
          /\ parsePc = "words" =>
               pos = ends[k] + 1 /\ curline = Spelt(text, Seen(text, starts[k], ends[k]))
(* The lines that are stored have the lengths that were counted. *)
Stored ==
  parsePc \in SecondPass =>
    \A j \in 1..Len(lines[fileID + 1]) : Len(lines[fileID + 1][j]) = line_sizes[j]

Codes == 1..255

(* The rank of q in a set of numbers, and the number of a rank. *)
RankIn(S, q) == Cardinality({r \in S : r <= q})
Nth(S, j) == CHOOSE q \in S : RankIn(S, q) = j

IndexInv == Types /\ Counting /\ Parsing /\ Stored

-----------------------------------------------------------------------------
(* A set of numbers that is not empty has a least one. *)
LEMMA LeastIsThere ==
  ASSUME NEW S, S \subseteq Nat, S # {}
  PROVE  Least(S) \in S /\ \A k \in S : Least(S) <= k
<1> DEFINE L == {pair \in Nat \X Nat : pair[1] < pair[2]}
<1>1. IsWellFoundedOn(L, Nat)
  BY NatLessThanWellFounded DEF OpToRel
<1>2. PICK m \in S : \A k \in S : <<k, m>> \notin L
  <2> HIDE DEF L
  <2> QED BY <1>1, WFMin
<1>3. \A k \in S : m <= k
  <2> SUFFICES ASSUME NEW k \in S, k < m PROVE FALSE
    OBVIOUS
  <2> QED BY <1>2
<1> QED BY <1>2, <1>3 DEF Least

(* Induction, with a set in the place of the predicate. *)
LEMMA Induction ==
  ASSUME NEW S, 0 \in S, \A n \in Nat : n \in S => n + 1 \in S
  PROVE  \A n \in Nat : n \in S
<1> SUFFICES ASSUME NEW m \in Nat, m \notin S PROVE FALSE
  OBVIOUS
<1> DEFINE others == {n \in Nat : n \notin S}
<1>1. PICK n \in others : \A k \in others : n <= k
  <2>1. others \subseteq Nat /\ others # {}
    OBVIOUS
  <2> HIDE DEF others
  <2> QED BY <2>1, LeastIsThere
<1>2. n \in Nat /\ n # 0 /\ n \notin S
  BY <1>1
<1>3. n - 1 \in Nat /\ (n - 1) + 1 = n /\ n - 1 \notin S
  BY <1>2
<1>4. n - 1 \in others
  BY <1>3
<1> QED BY <1>1, <1>2, <1>4

(* Sets of numbers, and the elements of a finite one by rank. *)
IntSets == SUBSET Int

(* A set is in IntSets if and only if its members are integers. *)
LEMMA IntSet == \A S : S \in IntSets <=> \A q \in S : q \in Int
BY DEF IntSets

(* Rank and member of a rank are inverse to each other, and both keep the order. *)
LEMMA Ranks ==
  ASSUME NEW S \in IntSets, IsFiniteSet(S)
  PROVE  /\ Cardinality(S) \in Nat
         /\ \A q \in S : RankIn(S, q) \in 1..Cardinality(S) /\ Nth(S, RankIn(S, q)) = q
         /\ \A q, r \in S : q < r <=> RankIn(S, q) < RankIn(S, r)
         /\ \A j \in 1..Cardinality(S) : Nth(S, j) \in S /\ RankIn(S, Nth(S, j)) = j
         /\ \A i, j \in 1..Cardinality(S) : i < j <=> Nth(S, i) < Nth(S, j)
<1> DEFINE To(q) == {r \in S : r <= q}
<1>1. Cardinality(S) \in Nat
  BY FS_CardinalityType
<1>2. \A q \in S : IsFiniteSet(To(q)) /\ Cardinality(To(q)) \in 1..Cardinality(S)
  <2> SUFFICES ASSUME NEW q \in S PROVE IsFiniteSet(To(q)) /\ Cardinality(To(q)) \in 1..Cardinality(S)
    OBVIOUS
  <2>1. To(q) \in SUBSET S /\ q \in To(q)
    BY IntSet
  <2> HIDE DEF To
  <2>2. IsFiniteSet(To(q)) /\ Cardinality(To(q)) <= Cardinality(S)
    BY <2>1, FS_Subset
  <2>3. Cardinality(To(q)) \in Nat /\ Cardinality(To(q)) # 0
    BY <2>1, <2>2, FS_CardinalityType, FS_EmptySet
  <2> QED BY <1>1, <2>2, <2>3
<1>3. ASSUME NEW q \in S, NEW r \in S, q < r PROVE Cardinality(To(q)) < Cardinality(To(r))
  <2>0. \A x \in S : x \in Int
    BY IntSet
  <2>1. To(q) \in SUBSET To(r) /\ r \in To(r) /\ r \notin To(q)
    <3>1. \A x \in To(q) : x \in S /\ x <= r
      BY <1>3, <2>0
    <3>2. r <= r /\ ~(r <= q)
      BY <1>3, <2>0
    <3> QED BY <3>1, <3>2
  <2>2. IsFiniteSet(To(r)) /\ Cardinality(To(q)) \in Nat /\ Cardinality(To(r)) \in Nat
    BY <1>1, <1>2
  <2> HIDE DEF To
  <2>3. Cardinality(To(q)) <= Cardinality(To(r)) /\ (Cardinality(To(r)) = Cardinality(To(q)) => To(r) = To(q))
    BY <2>1, <2>2, FS_Subset
  <2> QED BY <2>1, <2>2, <2>3
<1>r. \A q : RankIn(S, q) = Cardinality(To(q))
  BY DEF RankIn
<1> HIDE DEF To
<1>4. \A q \in S : RankIn(S, q) \in 1..Cardinality(S) /\ RankIn(S, q) \in Int
  BY <1>2, <1>r
<1>5. \A q, r \in S : q < r => RankIn(S, q) < RankIn(S, r)
  BY <1>3, <1>r
<1>6. \A q, r \in S : q < r <=> RankIn(S, q) < RankIn(S, r)
  BY <1>4, <1>5, IntSet
<1>7. \A q, r \in S : RankIn(S, q) = RankIn(S, r) => q = r
  BY <1>4, <1>5, IntSet
<1>8. \A j \in 1..Cardinality(S) : \E q \in S : RankIn(S, q) = j
  <2> DEFINE f == [q \in S |-> RankIn(S, q)]
             T == 1..Cardinality(S)
  <2>1. f \in Injection(S, T)
    BY <1>4, <1>7 DEF Injection, IsInjective
  <2>2. IsFiniteSet(T) /\ Cardinality(T) = Cardinality(S)
    BY <1>1, FS_Interval
  <2>3. f \in Surjection(S, T)
    <3> HIDE DEF f, T
    <3> QED BY <2>1, <2>2, FS_Injection
  <2> QED BY <2>3 DEF Surjection
<1>9. \A j \in 1..Cardinality(S) : Nth(S, j) \in S /\ RankIn(S, Nth(S, j)) = j
  BY <1>8 DEF Nth
<1>10. \A q \in S : Nth(S, RankIn(S, q)) = q
  BY <1>4, <1>7, <1>9
<1>11. \A i, j \in 1..Cardinality(S) : i < j <=> Nth(S, i) < Nth(S, j)
  <2> SUFFICES ASSUME NEW i \in 1..Cardinality(S), NEW j \in 1..Cardinality(S)
               PROVE  i < j <=> Nth(S, i) < Nth(S, j)
    OBVIOUS
  <2>1. PICK q, r \in S : q = Nth(S, i) /\ r = Nth(S, j) /\ RankIn(S, q) = i /\ RankIn(S, r) = j
    BY <1>9
  <2>2. q \in S /\ r \in S
    BY <2>1
  <2>3. q < r <=> RankIn(S, q) < RankIn(S, r)
    BY <1>6, <2>2
  <2> QED BY <2>1, <2>3
<1> QED BY <1>1, <1>4, <1>6, <1>9, <1>10, <1>11

(* What a set of positions spells, position by position. *)
LEMMA SpeltIs ==
  ASSUME NEW s, NEW S \in IntSets, IsFiniteSet(S)
  PROVE  Spelt(s, S) = [j \in 1..Cardinality(S) |-> s[Nth(S, j)]]
BY DEF Spelt, Nth, RankIn

(* What is spelt grows by its last letter. *)
GrowsBy(s, S, x, T, D) == T = S \cup {x} /\ s[x] \in D /\ \A q \in S : q < x /\ s[q] \in D

(* A set that grows by a last position spells one character more. *)
LEMMA SpeltNext ==
  ASSUME NEW D, NEW s, NEW S \in IntSets, IsFiniteSet(S), NEW x \in Int, NEW T, GrowsBy(s, S, x, T, D)
  PROVE  Spelt(s, T) = Append(Spelt(s, S), s[x])
<1>0. T = S \cup {x} /\ s[x] \in D /\ \A q \in S : q < x /\ s[q] \in D
  BY DEF GrowsBy
<1> DEFINE n == Cardinality(S)
<1>1. IsFiniteSet(T) /\ Cardinality(T) = n + 1 /\ T \in IntSets /\ n \in Nat /\ x \notin S
  BY FS_AddElement, FS_CardinalityType, IntSet, <1>0
<1>2. \A q \in S : RankIn(T, q) = RankIn(S, q)
  <2> SUFFICES ASSUME NEW q \in S PROVE {r \in T : r <= q} = {r \in S : r <= q}
    BY DEF RankIn
  <2>1. ~(x <= q)
    BY IntSet, <1>0
  <2> QED BY <2>1, <1>0
<1>3. RankIn(T, x) = n + 1
  <2>1. {r \in T : r <= x} = T
    <3>1. \A r \in T : r \in Int /\ r <= x
      BY IntSet, <1>0
    <3> QED BY <3>1
  <2> QED BY <1>1, <2>1 DEF RankIn
<1> HIDE DEF n
<1>4. Cardinality(S) = n
  BY DEF n
<1>5. \A j \in 1..n : Nth(S, j) \in S /\ Nth(T, j) = Nth(S, j)
  <2> SUFFICES ASSUME NEW j \in 1..n PROVE Nth(S, j) \in S /\ Nth(T, j) = Nth(S, j)
    OBVIOUS
  <2>1. Nth(S, j) \in S /\ RankIn(S, Nth(S, j)) = j
    BY <1>4, Ranks
  <2>2. RankIn(T, Nth(S, j)) = j /\ Nth(S, j) \in T
    BY <1>2, <2>1, <1>0
  <2>3. Nth(T, RankIn(T, Nth(S, j))) = Nth(S, j)
    BY <1>1, <2>2, Ranks
  <2> QED BY <2>1, <2>2, <2>3
<1>6. Nth(T, n + 1) = x
  <2>1. x \in T
    BY <1>0
  <2> QED BY <1>1, <1>3, <2>1, Ranks
<1>7. Spelt(s, S) = [j \in 1..n |-> s[Nth(S, j)]] /\ Spelt(s, T) = [j \in 1..(n + 1) |-> s[Nth(T, j)]]
  BY <1>1, <1>4, SpeltIs
<1>8. Spelt(s, S) \in Seq(D) /\ Len(Spelt(s, S)) = n
  <2>0. n \in Nat
    BY <1>1, <1>4
  <2>1. \A j \in 1..n : s[Nth(S, j)] \in D
    BY <1>5, <1>0
  <2> QED BY <1>7, <2>0, <2>1
<1>9. Spelt(s, T) = Append(Spelt(s, S), s[x])
  <2>0. n \in Nat
    BY <1>1, <1>4
  <2>1. \A j \in 1..(n + 1) : s[Nth(T, j)] \in D
    <3> SUFFICES ASSUME NEW j \in 1..(n + 1) PROVE s[Nth(T, j)] \in D
      OBVIOUS
    <3>1. j \in 1..n \/ j = n + 1
      BY <2>0
    <3>2. j \in 1..n => Nth(T, j) \in S
      BY <1>5
    <3> QED BY <1>6, <3>1, <3>2, <1>0
  <2>2. Spelt(s, T) \in Seq(D) /\ Len(Spelt(s, T)) = n + 1
    BY <1>1, <1>7, <2>1
  <2>3. Append(Spelt(s, S), s[x]) \in Seq(D) /\ Len(Append(Spelt(s, S), s[x])) = n + 1
    BY <1>8, <1>0
  <2>4. ASSUME NEW j \in 1..(n + 1) PROVE Spelt(s, T)[j] = Append(Spelt(s, S), s[x])[j]
    <3>1. CASE j = n + 1
      BY <1>1, <1>6, <1>7, <1>8, <3>1
    <3>2. CASE j # n + 1
      <4>1. j \in 1..n
        BY <1>1, <3>2
      <4>2. Append(Spelt(s, S), s[x])[j] = Spelt(s, S)[j]
        BY <1>1, <1>8, <4>1
      <4> QED BY <1>5, <1>7, <4>1, <4>2
    <3> QED BY <3>1, <3>2
  <2> QED BY <2>2, <2>3, <2>4, SeqEqual
<1> QED BY <1>9

(* During the two passes over a file, pos is within its text or just behind it. *)
LEMMA TextIsText ==
  ASSUME Types, parsePc \in Passes
  PROVE  text \in Seq(1..255) /\ Len(text) \in Nat /\ pos \in 1..(Len(text) + 1)
<1>1. textfiles[fileID + 1] \in [path : Int, text : Seq(1..255)]
  <2> DEFINE R == [path : Int, text : Seq(1..255)]
  <2>1. textfiles \in Seq(R) /\ fileID \in Nat /\ fileID < Len(textfiles)
    BY DEF Types
  <2> HIDE DEF R
  <2>2. textfiles[fileID + 1] \in R
    BY <2>1
  <2> QED BY <2>2 DEF R
<1>2. pos \in 1..(Len(text) + 1)
  BY DEF Types
<1> QED BY <1>1, <1>2 DEF text

(* Where ignore_whitespace stops. *)
LEMMA Skips ==
  ASSUME Len(text) \in Nat, NEW p \in 1..(Len(text) + 1)
  PROVE  /\ ignore_whitespace(p) \in p..(Len(text) + 1)
         /\ \A r \in p..(ignore_whitespace(p) - 1) : text[r] \in Blanks
         /\ ignore_whitespace(p) <= Len(text) => text[ignore_whitespace(p)] \notin Blanks
<1> DEFINE S == {q \in p..(Len(text) + 1) : q > Len(text) \/ text[q] \notin Blanks}
<1>1. S \subseteq Nat /\ Len(text) + 1 \in S
  OBVIOUS
<1>2. Least(S) \in S /\ \A k \in S : Least(S) <= k
  <2> HIDE DEF S
  <2> QED BY <1>1, LeastIsThere
<1>3. Least(S) \in p..(Len(text) + 1) /\ (Least(S) > Len(text) \/ text[Least(S)] \notin Blanks)
  BY <1>2
<1>4. \A r \in p..(Least(S) - 1) : text[r] \in Blanks
  <2> SUFFICES ASSUME NEW r \in p..(Least(S) - 1), text[r] \notin Blanks PROVE FALSE
    OBVIOUS
  <2>1. r \in S
    BY <1>3
  <2> QED BY <1>2, <1>3, <2>1
<1> QED BY <1>3, <1>4 DEF ignore_whitespace

(* What is open, and what was seen, one character on. *)
LEMMA OpenNext ==
  ASSUME NEW s, NEW b \in Nat, NEW p \in Nat, b <= p
  PROVE  /\ Open(s, b, p + 1) <=> (Inside(s, b, p) /\ s[p] # GT)
         /\ ~Open(s, b, b)
<1>1. ~Open(s, b, b)
  BY DEF Open
<1>2. ASSUME Open(s, b, p + 1) PROVE Inside(s, b, p) /\ s[p] # GT
  <2>1. PICK q \in b..p : s[q] = LT /\ \A r \in q..p : s[r] # GT
    BY <1>2 DEF Open
  <2>2. CASE q = p
    BY <2>1, <2>2 DEF Inside
  <2>3. CASE q < p
    BY <2>1, <2>3 DEF Inside, Open
  <2> QED BY <2>1, <2>2, <2>3
<1>3. ASSUME Inside(s, b, p), s[p] # GT PROVE Open(s, b, p + 1)
  <2>1. CASE s[p] = LT
    BY <2>1, <1>3 DEF Open
  <2>2. CASE Open(s, b, p)
    <3>1. PICK q \in b..(p - 1) : s[q] = LT /\ \A r \in q..(p - 1) : s[r] # GT
      BY <2>2 DEF Open
    <3>2. \A r \in q..p : s[r] # GT
      BY <3>1, <1>3
    <3> QED BY <3>1, <3>2 DEF Open
  <2> QED BY <2>1, <2>2, <1>3 DEF Inside
<1> QED BY <1>1, <1>2, <1>3

(* One position more adds one character, or none if it is inside. *)
LEMMA SeenNext ==
  ASSUME NEW s, NEW b \in Nat, NEW p \in Nat
  PROVE  /\ IsFiniteSet(Seen(s, b, p)) /\ Cardinality(Seen(s, b, p)) \in Nat
         /\ p <= b => Cardinality(Seen(s, b, p)) = 0
         /\ b <= p => Cardinality(Seen(s, b, p + 1)) =
                        (IF Inside(s, b, p) THEN Cardinality(Seen(s, b, p)) ELSE Cardinality(Seen(s, b, p)) + 1)
<1>1. IsFiniteSet(Seen(s, b, p))
  <2>1. IsFiniteSet(b..(p - 1)) /\ Seen(s, b, p) \in SUBSET (b..(p - 1))
    BY FS_Interval DEF Seen
  <2> QED BY <2>1, FS_Subset
<1>2. ASSUME p <= b PROVE Cardinality(Seen(s, b, p)) = 0
  <2>1. Seen(s, b, p) = {}
    BY <1>2 DEF Seen
  <2> QED BY <2>1, FS_EmptySet
<1>3. ASSUME b <= p, Inside(s, b, p) PROVE Seen(s, b, p + 1) = Seen(s, b, p)
  BY <1>3 DEF Seen
<1>4. ASSUME b <= p, ~Inside(s, b, p)
      PROVE  Seen(s, b, p + 1) = Seen(s, b, p) \cup {p} /\ p \notin Seen(s, b, p)
  BY <1>4 DEF Seen
<1>5. Cardinality(Seen(s, b, p)) \in Nat
  BY <1>1, FS_CardinalityType
<1> QED BY <1>1, <1>2, <1>3, <1>4, <1>5, FS_AddElement

(* More positions add characters and take none away. *)
LEMMA SeenGrows ==
  ASSUME NEW s, NEW b \in Nat, NEW p \in Nat, NEW e \in Nat, p <= e
  PROVE  Cardinality(Seen(s, b, p)) <= Cardinality(Seen(s, b, e))
<1>1. Seen(s, b, p) \in SUBSET Seen(s, b, e)
  BY DEF Seen
<1> QED BY <1>1, SeenNext, FS_Subset

(* What is spelt by the characters that were seen, one on. *)
LEMMA SpeltOn ==
  ASSUME NEW s \in Seq(Codes), NEW b \in Nat \ {0}, NEW p \in b..Len(s)
  PROVE  Spelt(s, Seen(s, b, p + 1)) =
           (IF Inside(s, b, p) THEN Spelt(s, Seen(s, b, p)) ELSE Append(Spelt(s, Seen(s, b, p)), s[p]))
<1>0. b \in Nat /\ p \in Nat /\ p \in 1..Len(s) /\ b <= p /\ Len(s) \in Nat /\ p \in Int
  OBVIOUS
<1>1. CASE Inside(s, b, p)
  <2>1. Seen(s, b, p + 1) = Seen(s, b, p)
    BY <1>0, <1>1 DEF Seen
  <2> QED BY <1>1, <2>1
<1>2. CASE ~Inside(s, b, p)
  <2>1. Seen(s, b, p + 1) = Seen(s, b, p) \cup {p}
    BY <1>0, <1>2 DEF Seen
  <2>2. Seen(s, b, p) \in IntSets /\ \A q \in Seen(s, b, p) : q \in 1..Len(s) /\ q < p
    BY <1>0, IntSet DEF Seen
  <2>3. IsFiniteSet(Seen(s, b, p))
    BY <1>0, SeenNext
  <2>4. s[p] \in Codes /\ \A q \in Seen(s, b, p) : q < p /\ s[q] \in Codes
    BY <1>0, <2>2, ElementOfSeq
  <2>5. PICK S \in IntSets : S = Seen(s, b, p)
    BY <2>2
  <2>6. IsFiniteSet(S) /\ (\A q \in S : q < p /\ s[q] \in Codes) /\ p \in Int /\ s[p] \in Codes
    BY <1>0, <2>3, <2>4, <2>5
  <2>7. Spelt(s, S \cup {p}) = Append(Spelt(s, S), s[p])
    <3>1. PICK D, x, T : D = Codes /\ x = p /\ T = S \cup {p}
      OBVIOUS
    <3>2. x \in Int /\ GrowsBy(s, S, x, T, D)
      BY <2>6, <3>1 DEF GrowsBy
    <3>3. Spelt(s, T) = Append(Spelt(s, S), s[x])
      BY <2>6, <3>2, SpeltNext
    <3> QED BY <3>1, <3>3
  <2> QED BY <1>2, <2>1, <2>5, <2>7
<1> QED BY <1>1, <1>2

-----------------------------------------------------------------------------
(* Types. *)
LEMMA InitTypes == IndexInit => Types
<1> DEFINE R == [path : Int, text : Seq(1..255)]
<1> SUFFICES ASSUME IndexInit PROVE Types
  OBVIOUS
<1>1. textfiles \in Seq(R)
  BY IndexAssumption DEF IndexInit
<1>2. ASSUME textfiles # <<>> PROVE 0 < Len(textfiles) /\ pos \in 1..(Len(text) + 1)
  <2>0. textfiles \in Seq(R)
    BY <1>1
  <2> HIDE DEF R
  <2>1. 0 < Len(textfiles) /\ textfiles[1] \in R
    BY <2>0, <1>2, EmptySeq
  <2>2. textfiles[1].text \in Seq(1..255)
    BY <2>1 DEF R
  <2> QED BY <2>1, <2>2 DEF IndexInit, text
<1>3. /\ ch \in Int /\ html_tag \in BOOLEAN /\ curline \in Seq(Int) /\ lines \in Seq(Seq(Seq(Int)))
      /\ line_sizes \in Seq(Nat) /\ lineID = 0 /\ fileID = 0 /\ Len(lines) = 0 /\ Len(line_sizes) = 0
  <2>1. <<>> \in Seq(Int) /\ <<>> \in Seq(Seq(Seq(Int))) /\ <<>> \in Seq(Nat)
    <3>1. \A S : <<>> \in Seq(S)
      BY EmptySeq
    <3> QED BY <3>1
  <2>2. html_tag = FALSE /\ curline = <<>> /\ lines = <<>> /\ line_sizes = <<>>
        /\ lineID = 0 /\ fileID = 0
    BY DEF IndexInit
  <2>3. ch \in Int /\ html_tag \in BOOLEAN /\ lineID = 0 /\ fileID = 0
    <3>1. ch = Unset /\ html_tag = FALSE /\ lineID = 0 /\ fileID = 0
      BY DEF IndexInit
    <3>2. Unset \in Int
      BY DEF Unset
    <3>3. html_tag \in BOOLEAN
      BY <3>1
    <3> QED BY <3>1, <3>2, <3>3
  <2>4. curline \in Seq(Int) /\ lines \in Seq(Seq(Seq(Int))) /\ line_sizes \in Seq(Nat)
    BY <2>1, <2>2, Zenon
  <2>5. Len(lines) = 0 /\ Len(line_sizes) = 0
    BY <2>2
  <2> QED BY <2>3, <2>4, <2>5
<1>4. (parsePc = "loop" /\ textfiles = <<>>) \/ (parsePc = "count" /\ textfiles # <<>>)
  BY DEF IndexInit
<1> QED BY <1>1, <1>2, <1>3, <1>4 DEF Types, Passes, FirstPass, SecondPass

(* Every step keeps the types. *)
LEMMA TypesNext == Types /\ [IndexNext]_indexVars => Types'
<1> SUFFICES ASSUME Types, [IndexNext]_indexVars PROVE Types'
  OBVIOUS
<1> USE DEF Passes, FirstPass, SecondPass
<1> DEFINE Reads == pos' \in 1..(Len(text) + 1) /\ ch' \in Int /\ html_tag' \in BOOLEAN
<1>g. ASSUME parsePc \in Passes, NEW q \in 1..(Len(text) + 1), get(q)
      PROVE  pos' \in 1..(Len(text) + 1) /\ ch' \in Int
  <2>1. text \in Seq(1..255) /\ Len(text) \in Nat /\ ch \in Int
    BY <1>g, TextIsText DEF Types
  <2>2. CASE q <= Len(text)
    <3>0. q \in 1..Len(text)
      BY <2>1, <2>2
    <3>1. text[q] \in 1..255
      BY <2>1, <3>0, ElementOfSeq
    <3> QED BY <3>1, <2>1, <2>2, <1>g DEF get
  <2>3. CASE ~(q <= Len(text))
    BY <2>1, <2>3, <1>g DEF get, Garbage, NL, LT
  <2> QED BY <2>2, <2>3
<1>s. ASSUME parsePc \in Passes, StartLine PROVE Reads
  <2>1. ignore_whitespace(pos) \in 1..(Len(text) + 1)
    BY <1>s, Skips, TextIsText
  <2>2. get(ignore_whitespace(pos)) /\ html_tag' = FALSE
    BY <1>s DEF StartLine
  <2> QED BY <2>1, <2>2, <1>s, <1>g
<1>e. ASSUME parsePc \in Passes, IgnoreEmptyLine PROVE pos' \in 1..(Len(text) + 1) /\ ch' = ch
  BY <1>e, Skips, TextIsText DEF IgnoreEmptyLine, AfterEmptyLine
<1>n. ASSUME parsePc \in Passes, NextChar PROVE Reads
  BY <1>n, <1>g, TextIsText DEF NextChar, InTag, Types
<1>1. CASE count_lines
  <2>1. parsePc \in Passes /\ UNCHANGED <<textfiles, fileID, lineID, curline, lines>> /\ text' = text
    BY <1>1 DEF count_lines, mapVars, text
  <2>2. CASE IgnoreEmptyLine /\ UNCHANGED <<parsePc, html_tag, line_sizes>>
    BY <2>1, <2>2, <1>e, <1>1 DEF Types, count_lines
  <2>3. CASE StartLine /\ parsePc' = "countLine" /\ line_sizes' = Append(line_sizes, 0)
    BY <2>1, <2>3, <1>s, <1>1 DEF Types, count_lines
  <2> QED BY <1>1, <2>2, <2>3 DEF count_lines
<1>2. CASE CountChar
  <2>1. parsePc \in Passes /\ UNCHANGED <<textfiles, fileID, lineID, curline, lines>> /\ text' = text
    BY <1>2 DEF CountChar, mapVars, text
  <2>2. CASE AtEnd
    BY <2>1, <2>2, <1>2 DEF Types, CountChar, streamVars
  <2>3. CASE ~AtEnd
    <3>1. Reads /\ parsePc = "countLine" /\ parsePc' = parsePc
      BY <2>1, <2>3, <1>n, <1>2 DEF CountChar
    <3>2. line_sizes' = [line_sizes EXCEPT ![Len(line_sizes)] = char_count(@)]
      BY <2>3, <1>2 DEF CountChar
    <3>3. line_sizes' \in Seq(Nat) /\ Len(line_sizes') = Len(line_sizes)
      <4>1. line_sizes \in Seq(Nat) /\ Len(line_sizes) > 0
        BY <3>1 DEF Types
      <4>2. char_count(line_sizes[Len(line_sizes)]) \in Nat
        BY <4>1 DEF char_count
      <4> QED BY <4>1, <4>2, <3>2
    <3> QED BY <2>1, <3>1, <3>3 DEF Types
  <2> QED BY <2>2, <2>3
<1>3. CASE CountedLine
  BY <1>3 DEF CountedLine, Types, fileVars, streamVars, mapVars, text
<1>4. CASE CountedLines
  <2>1. parsePc = "count" /\ pos' = 1 /\ ch' = Unset /\ text' = text /\ parsePc' \in {"exited", "parse"}
        /\ UNCHANGED <<textfiles, fileID, line_sizes, lineID, html_tag, curline>>
    BY <1>4 DEF CountedLines, fileVars, text
  <2>2. pos' \in 1..(Len(text) + 1) /\ ch' \in Int
    BY <2>1, TextIsText DEF Unset
  <2>3. lines \in Seq(Seq(Seq(Int))) /\ Len(lines) = fileID /\ lineID = 0
    BY <2>1 DEF Types
  <2>4. CASE parsePc' = "exited"
    BY <2>1, <2>2, <2>3, <2>4, <1>4 DEF Types, CountedLines
  <2>5. CASE parsePc' = "parse"
    <3>1. lines' = Append(lines, <<>>)
      BY <2>5, <1>4 DEF CountedLines
    <3>2. lines' \in Seq(Seq(Seq(Int))) /\ Len(lines') = fileID + 1 /\ lines'[fileID + 1] = <<>>
      BY <3>1, <2>3, EmptySeq
    <3> QED BY <2>1, <2>2, <2>3, <2>5, <3>2, EmptySeq DEF Types
  <2> QED BY <2>1, <2>4, <2>5
<1>5. CASE parse_text
  <2>1. parsePc \in Passes /\ UNCHANGED <<textfiles, fileID, lineID, lines, line_sizes>> /\ text' = text
    BY <1>5 DEF parse_text, mapVars, fileVars, text
  <2>2. CASE IgnoreEmptyLine /\ UNCHANGED <<parsePc, html_tag, curline>>
    BY <2>1, <2>2, <1>e, <1>5 DEF Types, parse_text
  <2>3. CASE StartLine /\ parsePc' = "parseLine" /\ curline' = <<>>
    BY <2>1, <2>3, <1>s, <1>5 DEF Types, parse_text, MoreToParse
  <2> QED BY <1>5, <2>2, <2>3 DEF parse_text
<1>6. CASE ParseChar
  <2>1. parsePc \in Passes /\ UNCHANGED <<textfiles, fileID, lineID, lines, line_sizes>> /\ text' = text
    BY <1>6 DEF ParseChar, fileVars, text
  <2>2. CASE AtEnd /\ InTag /\ ch # GT
    BY <2>1, <2>2, <1>6 DEF Types, ParseChar, streamVars
  <2>3. CASE ~(AtEnd /\ InTag /\ ch # GT)
    <3>1. Reads /\ parsePc = "parseLine" /\ parsePc' = parsePc
      BY <2>1, <2>3, <1>n, <1>6 DEF ParseChar
    <3>2. curline' \in Seq(Int)
      <4>1. curline \in Seq(Int) /\ ch \in Int
        BY DEF Types
      <4>2. curline' = curline \/ curline' = Append(curline, ch)
        BY <2>3, <1>6 DEF ParseChar
      <4> QED BY <4>1, <4>2
    <3> QED BY <2>1, <3>1, <3>2 DEF Types
  <2> QED BY <2>2, <2>3
<1>7. CASE StoreLine
  <2>1. parsePc = "parseLine" /\ parsePc' = "words" /\ text' = text
        /\ UNCHANGED <<textfiles, fileID, line_sizes, lineID, pos, ch, html_tag, curline>>
    BY <1>7 DEF StoreLine, fileVars, streamVars, text
  <2>2. lines' = [lines EXCEPT ![fileID + 1] = Append(@, curline)]
    BY <1>7 DEF StoreLine
  <2>3. PICK n \in Nat : /\ n = fileID + 1 /\ n = Len(lines) /\ n \in 1..Len(lines)
                         /\ lines[n] \in Seq(Seq(Int)) /\ Len(lines[n]) = lineID
    BY <2>1 DEF Types, SecondPass
  <2>4. Append(lines[n], curline) \in Seq(Seq(Int)) /\ Len(Append(lines[n], curline)) = lineID + 1
    <3>1. PICK g \in Seq(Seq(Int)) : g = lines[n] /\ Len(g) = lineID
      BY <2>3
    <3>2. curline \in Seq(Int)
      BY DEF Types
    <3>3. Append(g, curline) \in Seq(Seq(Int)) /\ Len(Append(g, curline)) = Len(g) + 1
      BY <3>2
    <3> QED BY <3>1, <3>3
  <2>5. /\ lines' \in Seq(Seq(Seq(Int))) /\ Len(lines') = n
        /\ lines'[n] = Append(lines[n], curline)
    BY <2>2, <2>3, <2>4 DEF Types
  <2> QED BY <2>1, <2>3, <2>4, <2>5 DEF Types, SecondPass, Passes, FirstPass
<1>8. CASE InsertLetter
  BY <1>8 DEF InsertLetter, Types, fileVars, streamVars, mapVars, text
<1>9. CASE InsertedWord
  BY <1>9 DEF InsertedWord, Types, fileVars, streamVars, text
<1>10. CASE InsertedLine
  BY <1>10 DEF InsertedLine, Types, streamVars, mapVars, text
<1>11. CASE Parsed_text
  BY <1>11 DEF Parsed_text, Types, mapVars, Unset, text
<1>12. CASE UNCHANGED indexVars
  BY <1>12 DEF indexVars, Types, fileVars, streamVars, mapVars, text
<1> QED BY <1>1, <1>2, <1>3, <1>4, <1>5, <1>6, <1>7, <1>8, <1>9, <1>10, <1>11, <1>12 DEF IndexNext

-----------------------------------------------------------------------------
(* The layout. *)

(* It depends on the first m lines only. *)
LEMMA FoundStays ==
  ASSUME NEW s, NEW sizes, NEW starts, NEW ends, NEW m \in Nat, Found(s, sizes, starts, ends, m),
         NEW sizes2, NEW starts2, NEW ends2,
         \A j \in 1..m : sizes2[j] = sizes[j] /\ starts2[j] = starts[j] /\ ends2[j] = ends[j]
  PROVE  /\ Found(s, sizes2, starts2, ends2, m)
         /\ From(ends2, m + 1) = From(ends, m + 1)
<1>1. \A j \in 1..(m + 1) : From(ends2, j) = From(ends, j)
  BY DEF From
<1> QED BY <1>1 DEF Found

-----------------------------------------------------------------------------
(* The first pass. *)

(* An empty line leaves the lengths that were counted as they are. *)
LEMMA CountEmptyLine ==
  ASSUME Types, Counting, parsePc = "count", IgnoreEmptyLine,
         UNCHANGED <<textfiles, fileID, parsePc, line_sizes>>
  PROVE  Counting'
<1> DEFINE m == Len(line_sizes)
           q == ignore_whitespace(pos)
<1>0. text' = text /\ text \in Seq(1..255) /\ Len(text) \in Nat /\ pos \in 1..(Len(text) + 1)
  BY TextIsText DEF text, Passes, FirstPass
<1>1. PICK starts, ends \in Marks(text, m) :
        Found(text, line_sizes, starts, ends, m) /\ Behind(text, From(ends, m + 1), pos)
  BY DEF Counting
<1>2. q \in pos..Len(text) /\ text[q] = NL /\ pos' = q + 1 /\ \A r \in pos..(q - 1) : text[r] \in Blanks
  BY <1>0, Skips DEF IgnoreEmptyLine, AfterEmptyLine
<1>3. Behind(text, From(ends, m + 1), q + 1)
  BY <1>0, <1>1, <1>2 DEF Behind, Skipped
<1>4. parsePc' = "count" /\ line_sizes' = line_sizes
  OBVIOUS
<1> QED BY <1>0, <1>1, <1>2, <1>3, <1>4 DEF Counting

(* A line begins: after the blanks, or at the end of the file if there is nothing else. *)
LEMMA LineBegins ==
  ASSUME Types, parsePc \in Passes, ~AtEnd, StartLine, NEW f \in 1..pos,
         \A q \in f..(pos - 1) : text[q] \in Skipped, UNCHANGED <<textfiles, fileID>>
  PROVE  \E b \in pos..(Len(text) + 1) :
           /\ text[b] \notin Skipped \/ b = Len(text) + 1
           /\ \A q \in f..(b - 1) : text[q] \in Skipped
           /\ \A e : e = Len(text) => Within(text, f, b, e, 0)'
<1>0. text' = text /\ Len(text) \in Nat /\ pos \in 1..Len(text)
  BY TextIsText DEF text, AtEnd
<1>b. PICK b : b = ignore_whitespace(pos)
  OBVIOUS
<1>1. /\ b \in pos..(Len(text) + 1) /\ (b <= Len(text) => text[b] \notin Skipped)
      /\ \A r \in pos..(b - 1) : text[r] \in Blanks
  BY <1>0, <1>b, Skips DEF StartLine, Skipped
<1>2. \A q \in f..(b - 1) : text[q] \in Skipped
  BY <1>0, <1>1 DEF Skipped
<1>3. get(b) /\ html_tag' = FALSE
  BY <1>b DEF StartLine
<1>4. CASE b <= Len(text)
  <2>1. ch' = text[b] /\ pos' = b + 1 /\ pos' - 1 = b /\ pos' - 2 = b - 1
    BY <1>0, <1>1, <1>3, <1>4 DEF get
  <2>2. ~Open(text, b, b) /\ Cardinality(Seen(text, b, b)) = 0
    BY <1>0, <1>1, OpenNext, SeenNext
  <2>3. Begun(text, f, b)
    BY <1>0, <1>1, <1>2, <1>4 DEF Begun
  <2>4. \A e : Within(text, f, b, e, 0)'
    BY <1>0, <1>1, <1>3, <1>4, <2>1, <2>2, <2>3 DEF Within
  <2> QED BY <1>1, <1>2, <1>4, <2>4
<1>5. CASE b = Len(text) + 1
  <2>1. pos' = b
    BY <1>0, <1>1, <1>3, <1>5 DEF get
  <2>2. text[Len(text)] \in Blanks
    BY <1>0, <1>1, <1>5
  <2>3. \A e : e = Len(text) => Trailing(text, f, b, e)
    BY <1>0, <1>2, <1>5, <2>2 DEF Trailing
  <2>4. \A e : e = Len(text) => Within(text, f, b, e, 0)'
    BY <1>0, <1>3, <2>1, <2>3 DEF Within
  <2> QED BY <1>1, <1>2, <1>5, <2>4
<1> QED BY <1>0, <1>1, <1>4, <1>5

(* A line that starts has length 0. *)
LEMMA CountStarts ==
  ASSUME Types, Counting, parsePc = "count", ~AtEnd, StartLine, parsePc' = "countLine",
         line_sizes' = Append(line_sizes, 0), UNCHANGED <<textfiles, fileID>>
  PROVE  Counting'
<1>m. PICK m \in Nat : m = Len(line_sizes)
  BY DEF Types
<1>0. text' = text /\ Len(text) \in Nat /\ pos \in 1..(Len(text) + 1) /\ parsePc \in Passes
      /\ line_sizes \in Seq(Nat)
  BY TextIsText DEF text, Passes, FirstPass, Types
<1>1. PICK starts, ends \in Marks(text, m) :
        Found(text, line_sizes, starts, ends, m) /\ Behind(text, From(ends, m + 1), pos)
  BY <1>m DEF Counting
<1>f. PICK f : f = From(ends, m + 1)
  OBVIOUS
<1>2. f \in 1..pos /\ \A q \in f..(pos - 1) : text[q] \in Skipped
  BY <1>1, <1>f DEF Behind
<1>3. PICK b \in pos..(Len(text) + 1) : Within(text, f, b, Len(text), 0)'
  BY <1>0, <1>2, LineBegins
<1>4. /\ Len(line_sizes') = m + 1 /\ line_sizes'[m + 1] = 0
      /\ \A j \in 1..m : line_sizes'[j] = line_sizes[j]
  BY <1>0, <1>m
<1>5. PICK starts2, ends2 \in Marks(text, m + 1) :
        /\ \A j \in 1..m : starts2[j] = starts[j] /\ ends2[j] = ends[j]
        /\ starts2[m + 1] = b /\ ends2[m + 1] = Len(text)
  <2> DEFINE S == [j \in 1..(m + 1) |-> IF j <= m THEN starts[j] ELSE b]
             E == [j \in 1..(m + 1) |-> IF j <= m THEN ends[j] ELSE Len(text)]
  <2>1. S \in Marks(text, m + 1) /\ E \in Marks(text, m + 1)
    BY <1>0 DEF Marks
  <2>2. /\ \A j \in 1..m : S[j] = starts[j] /\ E[j] = ends[j]
        /\ S[m + 1] = b /\ E[m + 1] = Len(text)
    OBVIOUS
  <2> HIDE DEF S, E
  <2> QED BY <2>1, <2>2
<1>6. \A j \in 1..m : line_sizes'[j] = line_sizes[j] /\ starts2[j] = starts[j] /\ ends2[j] = ends[j]
  BY <1>4, <1>5
<1>7. Found(text, line_sizes', starts2, ends2, m) /\ From(ends2, m + 1) = f
  <2>1. Found(text, line_sizes', starts2, ends2, m)
    <3>1. \A j \in 1..m : From(ends2, j) = From(ends, j)
      BY <1>m, <1>5 DEF From
    <3>2. Found(text, line_sizes, starts, ends, m)
      BY <1>1
    <3> QED BY <1>6, <3>1, <3>2 DEF Found
  <2>2. From(ends2, m + 1) = From(ends, m + 1)
    BY <1>m, <1>5 DEF From
  <2> QED BY <2>1, <2>2, <1>f
<1>8. f \in Nat \ {0}
  BY <1>0, <1>2
<1>9. (m + 1) - 1 = m
  BY <1>0
<1> QED BY <1>0, <1>3, <1>4, <1>5, <1>7, <1>8, <1>9 DEF Counting

(* A character of a line: what is open and what was seen follow html_tag and the count. *)
LEMMA WithinNext ==
  ASSUME text \in Seq(1..255), NEW s, s = text, Len(s) \in Nat, NEW b \in Nat, NEW p \in Nat,
         b <= p, p < Len(s),
         pos = p + 1, ch = s[p], html_tag \in BOOLEAN, html_tag <=> Open(s, b, p), NextChar
  PROVE  /\ pos' = p + 2 /\ ch' = s[p + 1] /\ (html_tag' <=> Open(s, b, p + 1))
         /\ InTag <=> Inside(s, b, p)
         /\ Cardinality(Seen(s, b, p + 1)) =
              (IF InTag THEN Cardinality(Seen(s, b, p)) ELSE Cardinality(Seen(s, b, p)) + 1)
<1>1. InTag <=> Inside(s, b, p)
  BY DEF InTag, Inside
<1>2. pos' = p + 2 /\ ch' = s[p + 1]
  <2>1. get(pos) /\ pos <= Len(text)
    BY DEF NextChar
  <2> QED BY <2>1 DEF get
<1>3. html_tag' <=> Open(s, b, p + 1)
  <2>1. html_tag' <=> (InTag /\ ch # GT)
    BY DEF NextChar
  <2> QED BY <1>1, <2>1, OpenNext
<1> QED BY <1>1, <1>2, <1>3, SeenNext

(* A character of a line, counted or skipped. *)
LEMMA CountNext ==
  ASSUME Types, Counting, CountChar
  PROVE  Counting'
<1>1. CASE AtEnd
  BY <1>1 DEF CountChar, Counting
<1>2. CASE ~AtEnd
  <2>m. PICK m \in Nat : m = Len(line_sizes) /\ m > 0
    BY DEF Types, CountChar
  <2>0. /\ text' = text /\ text \in Seq(1..255) /\ Len(text) \in Nat /\ pos \in 1..Len(text)
        /\ line_sizes \in Seq(Nat) /\ html_tag \in BOOLEAN /\ parsePc = "countLine" /\ parsePc' = "countLine"
    BY <1>2, TextIsText DEF text, Passes, FirstPass, Types, CountChar, AtEnd
  <2>1. PICK starts, ends \in Marks(text, m) :
          /\ Found(text, line_sizes, starts, ends, m - 1) /\ From(ends, m) \in Nat \ {0}
          /\ Within(text, From(ends, m), starts[m], ends[m], line_sizes[m])
    BY <2>0, <2>m DEF Counting
  <2>2. PICK b : b = starts[m]
    OBVIOUS
  <2>3. PICK p : p = pos - 1
    OBVIOUS
  <2>4. /\ Begun(text, From(ends, m), b) /\ p \in b..Len(text) /\ ch = text[p]
        /\ \A q \in b..(p - 1) : text[q] # NL
        /\ (html_tag <=> Open(text, b, p)) /\ line_sizes[m] = Cardinality(Seen(text, b, p))
    <3>1. pos - 2 = p - 1
      BY <2>0, <2>3
    <3> QED BY <2>0, <2>1, <2>2, <2>3, <3>1 DEF Within, Trailing
  <2>5. b \in Nat /\ p \in Nat /\ b <= p /\ p < Len(text) /\ pos = p + 1
    BY <2>0, <2>1, <2>3, <2>4 DEF Begun
  <2>6. ch # NL /\ NextChar /\ line_sizes' = [line_sizes EXCEPT ![m] = char_count(@)]
    BY <1>2, <2>m DEF CountChar
  <2>7. /\ pos' = p + 2 /\ ch' = text[p + 1] /\ (html_tag' <=> Open(text, b, p + 1))
        /\ Cardinality(Seen(text, b, p + 1)) = char_count(line_sizes[m])
    BY <2>0, <2>4, <2>5, <2>6, WithinNext DEF char_count
  <2>8. /\ Len(line_sizes') = m /\ line_sizes'[m] = Cardinality(Seen(text, b, p + 1))
        /\ \A j \in 1..(m - 1) : line_sizes'[j] = line_sizes[j]
    BY <2>0, <2>m, <2>6, <2>7
  <2>9. Found(text, line_sizes', starts, ends, m - 1)
    BY <2>m, <2>1, <2>8, FoundStays
  <2>10. \A q \in b..((p + 1) - 1) : text[q] # NL
    BY <2>4, <2>5, <2>6
  <2>11. pos' - 1 = p + 1 /\ pos' - 2 = (p + 1) - 1 /\ p + 1 \in b..Len(text)
    BY <2>0, <2>5, <2>7
  <2>12. Within(text, From(ends, m), b, ends[m], line_sizes[m])'
    BY <2>0, <2>4, <2>7, <2>8, <2>10, <2>11 DEF Within
  <2> QED BY <2>0, <2>1, <2>2, <2>8, <2>9, <2>12 DEF Counting
<1> QED BY <1>1, <1>2

(* The end of a line. *)
LEMMA CountEnds ==
  ASSUME Types, Counting, CountedLine
  PROVE  Counting'
<1>m. PICK m \in Nat : m = Len(line_sizes) /\ m > 0
  BY DEF Types, CountedLine
<1>0. /\ text' = text /\ Len(text) \in Nat /\ pos \in 1..(Len(text) + 1) /\ parsePc = "countLine"
      /\ parsePc' = "count" /\ line_sizes' = line_sizes /\ pos' = pos /\ ch = NL
  BY TextIsText DEF text, Passes, FirstPass, Types, CountedLine, fileVars, streamVars
<1>1. PICK starts, ends \in Marks(text, m) :
        /\ Found(text, line_sizes, starts, ends, m - 1) /\ From(ends, m) \in Nat \ {0}
        /\ Within(text, From(ends, m), starts[m], ends[m], line_sizes[m])
  BY <1>0, <1>m DEF Counting
<1>2. PICK e : /\ e = pos - 1 /\ e \in Nat /\ starts[m] \in Nat
               /\ \/ Line(text, From(ends, m), starts[m], e)
                  \/ Trailing(text, From(ends, m), starts[m], e)
               /\ line_sizes[m] = Cardinality(Seen(text, starts[m], e))
  <2>1. CASE Trailing(text, From(ends, m), starts[m], ends[m]) /\ pos = starts[m] /\ line_sizes[m] = 0
    <3>1. ends[m] = pos - 1 /\ ends[m] \in Nat /\ starts[m] \in Nat /\ ends[m] <= starts[m]
      BY <1>0, <2>1 DEF Trailing
    <3>2. Cardinality(Seen(text, starts[m], ends[m])) = 0
      BY <3>1, SeenNext
    <3> QED BY <2>1, <3>1, <3>2
  <2>2. CASE ~(Trailing(text, From(ends, m), starts[m], ends[m]) /\ pos = starts[m] /\ line_sizes[m] = 0)
    <3>1. /\ Begun(text, From(ends, m), starts[m]) /\ pos - 1 \in starts[m]..Len(text) /\ ch = text[pos - 1]
          /\ \A q \in starts[m]..(pos - 2) : text[q] # NL
          /\ line_sizes[m] = Cardinality(Seen(text, starts[m], pos - 1))
      BY <1>1, <2>2 DEF Within
    <3>2. (pos - 1) - 1 = pos - 2 /\ starts[m] \in Nat /\ pos - 1 \in Nat
      BY <1>0, <1>1, <3>1 DEF Begun
    <3>3. Line(text, From(ends, m), starts[m], pos - 1)
      BY <1>0, <3>1, <3>2 DEF Line
    <3> QED BY <3>1, <3>2, <3>3
  <2> QED BY <2>1, <2>2
<1> DEFINE ends2 == [ends EXCEPT ![m] = e]
<1>3. ends2 \in Marks(text, m) /\ ends2[m] = e /\ \A j \in 1..(m - 1) : ends2[j] = ends[j]
  BY <1>0, <1>m, <1>2 DEF Marks
<1> HIDE DEF ends2
<1>4. Found(text, line_sizes, starts, ends2, m - 1) /\ From(ends2, m) = From(ends, m)
  <2>1. m - 1 \in Nat /\ (m - 1) + 1 = m
    BY <1>m
  <2>2. \A j \in 1..(m - 1) : line_sizes[j] = line_sizes[j] /\ starts[j] = starts[j] /\ ends2[j] = ends[j]
    BY <1>3
  <2> QED BY <1>1, <2>1, <2>2, FoundStays
<1>5. Found(text, line_sizes, starts, ends2, m)
  <2>1. \A j \in 1..m : j \in 1..(m - 1) \/ j = m
    BY <1>m
  <2> QED BY <1>1, <1>2, <1>3, <1>4, <2>1 DEF Found
<1>6. From(ends2, m + 1) = pos
  BY <1>0, <1>m, <1>2, <1>3 DEF From
<1>7. Behind(text, pos, pos)
  BY <1>0 DEF Behind
<1> QED BY <1>0, <1>m, <1>1, <1>3, <1>5, <1>6, <1>7 DEF Counting

-----------------------------------------------------------------------------
(* The second pass. *)

(* The second pass begins with the lengths that the first one counted. *)
LEMMA ParseBegins ==
  ASSUME Types, Counting, CountedLines
  PROVE  Parsing'
<1>1. CASE line_sizes = <<>>
  BY <1>1 DEF CountedLines, Parsing, SecondPass
<1>2. CASE line_sizes # <<>>
  <2>m. PICK m \in Nat : m = Len(line_sizes) /\ m > 0
    BY <1>2, EmptySeq DEF Types
  <2>0. /\ text' = text /\ Len(text) \in Nat /\ line_sizes' = line_sizes /\ pos' = 1 /\ parsePc = "count"
        /\ parsePc' = "parse" /\ lineID' = 0
    BY <1>2, TextIsText DEF text, Passes, FirstPass, Types, CountedLines, fileVars
  <2>1. PICK starts, ends \in Marks(text, m) :
          Found(text, line_sizes, starts, ends, m) /\ Behind(text, From(ends, m + 1), pos)
    BY <2>0, <2>m DEF Counting
  <2>f. PICK f : f = From(ends, m + 1)
    OBVIOUS
  <2>r. Rest(text, From(ends, m + 1))
    <3>1. AtEnd /\ pos \in 1..(Len(text) + 1)
      BY <2>0, TextIsText DEF CountedLines, Passes, FirstPass
    <3>2. pos = Len(text) + 1 /\ f \in 1..pos /\ (\A q \in f..(pos - 1) : text[q] \in Skipped)
          /\ (pos = f \/ text[pos - 1] = NL)
      BY <2>0, <2>1, <2>f, <3>1 DEF Behind, AtEnd
    <3>3. pos - 1 = Len(text)
      <4>1. Len(text) \in Nat
        BY <2>0, TextIsText DEF CountedLines, Passes, FirstPass
      <4>2. PICK n \in Nat : n = Len(text)
        BY <4>1
      <4>3. pos = n + 1
        BY <3>2, <4>2
      <4> QED BY <4>2, <4>3
    <3>4. Rest(text, f)
      BY <2>0, <3>2, <3>3 DEF Rest
    <3> QED BY <2>f, <3>4
  <2>2. From(ends, 1) = 1
    BY DEF From
  <2>3. \/ Line(text, 1, starts[1], ends[1])
        \/ Trailing(text, 1, starts[1], ends[1])
    BY <2>m, <2>1, <2>2 DEF Found
  <2>4. 1 \in 1..starts[1] /\ (Trailing(text, 1, starts[1], ends[1]) => 1 <= Len(text))
    BY <2>0, <2>3 DEF Line, Begun, Trailing
  <2>5. Ahead(text, From(ends, 1), starts[1], ends[1])'
    BY <2>0, <2>2, <2>4 DEF Ahead
  <2> QED BY <2>0, <2>m, <2>1, <2>r, <2>5 DEF Parsing
<1> QED BY <1>1, <1>2

(* A line of the second pass starts where one of the first did. *)
LEMMA ParseStarts ==
  ASSUME Types, Parsing, parse_text
  PROVE  Parsing'
<1>m. PICK m, k \in Nat : m = Len(line_sizes) /\ k = lineID + 1 /\ lineID < m /\ k \in 1..m
  BY DEF Types, parse_text, MoreToParse
<1>0. /\ text' = text /\ Len(text) \in Nat /\ pos \in 1..Len(text) /\ parsePc \in Passes /\ ~AtEnd
      /\ parsePc = "parse" /\ line_sizes' = line_sizes /\ lineID' = lineID
      /\ UNCHANGED <<textfiles, fileID>>
  BY TextIsText DEF text, Passes, SecondPass, parse_text, MoreToParse, AtEnd, fileVars
<1>1. PICK starts, ends \in Marks(text, m) :
        /\ Found(text, line_sizes, starts, ends, m) /\ Rest(text, From(ends, m + 1))
        /\ Ahead(text, From(ends, k), starts[k], ends[k])
  BY <1>0, <1>m DEF Parsing, SecondPass
<1>2. PICK f, b, e : f = From(ends, k) /\ b = starts[k] /\ e = ends[k]
  OBVIOUS
<1>3. /\ f \in Nat \ {0} /\ (Line(text, f, b, e) \/ Trailing(text, f, b, e))
      /\ pos \in f..b /\ (Trailing(text, f, b, e) => pos <= Len(text))
  BY <1>1, <1>2, <1>m DEF Found, Ahead
<1>4. PICK q : /\ q = ignore_whitespace(pos) /\ q \in pos..(Len(text) + 1)
               /\ \A r \in pos..(q - 1) : text[r] \in Blanks
               /\ q <= Len(text) => text[q] \notin Blanks
  BY <1>0, Skips
<1>5. /\ \A r \in f..(b - 1) : text[r] \in Skipped
      /\ b \in f..(Len(text) + 1) /\ (b <= Len(text) => text[b] \notin Skipped)
  BY <1>0, <1>3 DEF Line, Begun, Trailing
<1>6. q <= b
  BY <1>0, <1>3, <1>4, <1>5 DEF Skipped
<1>7. CASE IgnoreEmptyLine /\ UNCHANGED <<parsePc, html_tag, curline>>
  <2>1. q <= Len(text) /\ text[q] = NL /\ pos' = q + 1
    BY <1>4, <1>7 DEF IgnoreEmptyLine, AfterEmptyLine
  <2>2. q < b
    BY <1>0, <1>4, <1>5, <1>6, <2>1 DEF Skipped
  <2>3. Trailing(text, f, b, e) => q + 1 <= Len(text)
    BY <1>0, <1>4, <2>1 DEF Trailing, NL, Blanks
  <2>4. Ahead(text, f, b, e)'
    <3>1. q + 1 \in f..b
      BY <1>0, <1>3, <1>4, <1>5, <2>2
    <3> QED BY <1>0, <2>1, <2>3, <3>1 DEF Ahead
  <2> QED BY <1>0, <1>m, <1>1, <1>2, <1>7, <2>4 DEF Parsing
<1>8. CASE StartLine /\ parsePc' = "parseLine" /\ curline' = <<>>
  <2>1. get(q) /\ html_tag' = FALSE /\ (q <= Len(text) => text[q] # NL) /\ Len(curline') = 0
    BY <1>4, <1>8 DEF StartLine
  <2>2. q = b
    BY <1>0, <1>3, <1>4, <1>5, <1>6, <2>1 DEF Skipped
  <2>3. Within(text, f, b, e, Len(curline))' /\ pos' - 1 <= e
    <3>1. CASE Line(text, f, b, e)
      <4>1. b \in 1..Len(text) /\ e \in b..Len(text) /\ Begun(text, f, b)
        BY <1>3, <3>1 DEF Line, Begun
      <4>2. ch' = text[b] /\ pos' = b + 1 /\ pos' - 1 = b /\ pos' - 2 = b - 1 /\ b \in Nat
        BY <1>0, <2>1, <2>2, <4>1 DEF get
      <4>3. ~Open(text, b, b) /\ Cardinality(Seen(text, b, b)) = 0
        BY <4>2, OpenNext, SeenNext
      <4>4. html_tag' = FALSE /\ Len(curline') = 0 /\ \A r \in b..(b - 1) : text[r] # NL
        BY <2>1, <4>2
      <4>5. Within(text, f, b, e, Len(curline))'
        BY <1>0, <4>1, <4>2, <4>3, <4>4 DEF Within
      <4> QED BY <4>1, <4>2, <4>5
    <3>2. CASE Trailing(text, f, b, e)
      <4>1. pos' = b /\ pos' - 1 <= e
        BY <1>0, <2>1, <2>2, <3>2 DEF get, Trailing
      <4>2. html_tag' = FALSE /\ Len(curline') = 0
        BY <2>1
      <4>3. Within(text, f, b, e, Len(curline))'
        BY <1>0, <3>2, <4>1, <4>2 DEF Within
      <4> QED BY <4>1, <4>3
    <3> QED BY <1>3, <3>1, <3>2
  <2>4. curline' = Spelt(text, Seen(text, b, pos' - 1))
    <3>1. pos' - 1 <= b
      <4>1. CASE Line(text, f, b, e)
        BY <1>0, <2>1, <2>2, <4>1 DEF get, Line, Begun
      <4>2. CASE Trailing(text, f, b, e)
        BY <1>0, <2>1, <2>2, <4>2 DEF get, Trailing
      <4> QED BY <1>3, <4>1, <4>2
    <3>2. Seen(text, b, pos' - 1) = {}
      <4>1. b \in Nat /\ pos' - 1 \in Int
        BY <1>0, <1>3, <1>5, <2>1, <2>2 DEF get
      <4> QED BY <3>1, <4>1 DEF Seen
    <3>3. Spelt(text, {}) = <<>>
      BY FS_EmptySet DEF Spelt
    <3> QED BY <1>8, <3>2, <3>3
  <2> QED BY <1>0, <1>m, <1>1, <1>2, <1>8, <2>3, <2>4 DEF Parsing
<1> QED BY <1>7, <1>8 DEF parse_text

(* In the line k, of m, that lies from b to e: at the character p of it, of which ch is a copy, *)
(* or behind the end of the file.                                                              *)
AtChar(m, k, starts, ends, f, b, e, p) ==
  /\ m = Len(line_sizes) /\ k = lineID + 1 /\ k \in 1..m
  /\ f = From(ends, k) /\ b = starts[k] /\ e = ends[k] /\ p = pos - 1
  /\ Found(text, line_sizes, starts, ends, m) /\ Rest(text, From(ends, m + 1))
  /\ line_sizes[k] = Cardinality(Seen(text, b, e)) /\ curline = Spelt(text, Seen(text, b, p))
  /\ \/ /\ Line(text, f, b, e) /\ p \in b..e /\ ch = text[p] /\ pos = p + 1
        /\ (html_tag <=> Open(text, b, p)) /\ Len(curline) = Cardinality(Seen(text, b, p))
     \/ Trailing(text, f, b, e) /\ pos = b /\ Len(curline) = 0 /\ ~html_tag /\ line_sizes[k] = 0

(* In a line of the second pass, the marks of the first give its start and its end. *)
LEMMA InLine ==
  ASSUME Types, Parsing, parsePc = "parseLine"
  PROVE  \E m, k \in Nat : \E starts, ends \in Marks(text, m), f, b, e, p \in Nat :
           AtChar(m, k, starts, ends, f, b, e, p)
<1>m. PICK m, k \in Nat : m = Len(line_sizes) /\ k = lineID + 1 /\ k \in 1..m
  BY DEF Types
<1>0. Len(text) \in Nat /\ pos \in 1..(Len(text) + 1)
  BY TextIsText DEF Passes, SecondPass
<1>1. PICK starts, ends \in Marks(text, m) :
        /\ Found(text, line_sizes, starts, ends, m) /\ Rest(text, From(ends, m + 1))
        /\ Within(text, From(ends, k), starts[k], ends[k], Len(curline))
        /\ Line(text, From(ends, k), starts[k], ends[k]) => pos - 1 <= ends[k]
        /\ curline = Spelt(text, Seen(text, starts[k], pos - 1))
  BY <1>m DEF Parsing, SecondPass
<1>2. PICK f, b, e : f = From(ends, k) /\ b = starts[k] /\ e = ends[k]
  OBVIOUS
<1>3. /\ f \in Nat \ {0} /\ (Line(text, f, b, e) \/ Trailing(text, f, b, e))
      /\ line_sizes[k] = Cardinality(Seen(text, b, e))
  BY <1>m, <1>1, <1>2 DEF Found
<1>4. b \in Nat /\ e \in Nat /\ pos - 1 \in Nat /\ pos = (pos - 1) + 1
  BY <1>0, <1>3 DEF Line, Begun, Trailing
<1>5. \/ /\ Line(text, f, b, e) /\ pos - 1 \in b..e /\ ch = text[pos - 1]
         /\ (html_tag <=> Open(text, b, pos - 1)) /\ Len(curline) = Cardinality(Seen(text, b, pos - 1))
      \/ /\ Trailing(text, f, b, e) /\ pos = b /\ Len(curline) = 0 /\ ~html_tag /\ line_sizes[k] = 0
  <2>1. CASE Line(text, f, b, e)
    <3>1. ~Trailing(text, f, b, e)
      BY <1>0, <1>3, <2>1 DEF Line, Begun, Trailing
    <3>2. /\ pos - 1 \in b..Len(text) /\ ch = text[pos - 1] /\ pos - 1 <= e
          /\ (html_tag <=> Open(text, b, pos - 1)) /\ Len(curline) = Cardinality(Seen(text, b, pos - 1))
      BY <1>1, <1>2, <2>1, <3>1 DEF Within
    <3>3. pos - 1 \in b..e
      BY <1>0, <1>4, <3>2
    <3> QED BY <2>1, <3>2, <3>3
  <2>2. CASE Trailing(text, f, b, e)
    <3>1. ~Begun(text, f, b)
      BY <1>0, <2>2 DEF Begun, Trailing
    <3>2. pos = b /\ Len(curline) = 0 /\ ~html_tag
      BY <1>1, <1>2, <3>1 DEF Within
    <3>3. e <= b
      BY <1>0, <2>2 DEF Trailing
    <3>4. line_sizes[k] = 0
      BY <1>3, <1>4, <3>3, SeenNext
    <3> QED BY <2>2, <3>2, <3>4
  <2> QED BY <1>3, <2>1, <2>2
<1>6. PICK p \in Nat : p = pos - 1
  BY <1>4
<1>7. f \in Nat /\ b \in Nat /\ e \in Nat /\ pos = p + 1
  BY <1>3, <1>4, <1>6
<1> USE <1>7
<1> WITNESS m \in Nat, k \in Nat
<1> WITNESS starts \in Marks(text, m), ends \in Marks(text, m), f \in Nat, b \in Nat, e \in Nat, p \in Nat
<1> QED BY <1>m, <1>1, <1>2, <1>3, <1>5, <1>6 DEF AtChar

(* A character of a line, copied or skipped. *)
LEMMA ParseNext ==
  ASSUME Types, Parsing, ParseChar
  PROVE  Parsing'
<1>1. CASE AtEnd /\ InTag /\ ch # GT
  BY <1>1 DEF ParseChar, Parsing, SecondPass
<1>2. CASE ~(AtEnd /\ InTag /\ ch # GT)
  <2>0. /\ text' = text /\ text \in Seq(1..255) /\ Len(text) \in Nat /\ parsePc = "parseLine"
        /\ parsePc' = "parseLine" /\ line_sizes' = line_sizes /\ lineID' = lineID
        /\ curline \in Seq(Int) /\ ch \in Int /\ html_tag \in BOOLEAN
    BY <1>2, TextIsText DEF text, Passes, SecondPass, ParseChar, Types, fileVars
  <2>1. /\ ch # NL /\ ~Surplus /\ NextChar
        /\ curline' = (IF InTag THEN curline ELSE Append(curline, ch))
    BY <1>2 DEF ParseChar
  <2>2. PICK m, k \in Nat : \E starts, ends \in Marks(text, m), f, b, e, p \in Nat :
          AtChar(m, k, starts, ends, f, b, e, p)
    BY <2>0, InLine
  <2>3. PICK starts, ends \in Marks(text, m), f, b, e, p \in Nat : AtChar(m, k, starts, ends, f, b, e, p)
    BY <2>2
  (* After the blanks at the end of a file either ch is no part of a tag, and then it is a *)
  (* surplus, or the loop does not end.                                                    *)
  <2>4. ~(Trailing(text, f, b, e) /\ pos = b /\ Len(curline) = 0 /\ ~html_tag /\ line_sizes[k] = 0)
    <3> SUFFICES ASSUME Trailing(text, f, b, e), pos = b, Len(curline) = 0, ~html_tag, line_sizes[k] = 0
                 PROVE  FALSE
      OBVIOUS
    <3>1. AtEnd
      BY <2>0 DEF AtEnd, Trailing
    <3>2. InTag
      BY <2>1, <2>3 DEF Surplus, AtChar
    <3>3. ch = LT
      BY <3>2 DEF InTag
    <3> QED BY <1>2, <3>1, <3>2, <3>3 DEF LT, GT
  <2>5. /\ Line(text, f, b, e) /\ p \in b..e /\ ch = text[p] /\ pos = p + 1
        /\ (html_tag <=> Open(text, b, p)) /\ Len(curline) = Cardinality(Seen(text, b, p))
    BY <2>3, <2>4 DEF AtChar
  <2>6. /\ Begun(text, f, b) /\ e \in b..Len(text) /\ text[e] = NL
        /\ \A q \in b..(e - 1) : text[q] # NL
    BY <2>5 DEF Line
  <2>7. p < e /\ p < Len(text) /\ b <= p /\ p + 1 \in b..e /\ p + 1 \in b..Len(text)
    BY <2>0, <2>1, <2>5, <2>6
  <2>8. /\ pos' = p + 2 /\ ch' = text[p + 1] /\ (html_tag' <=> Open(text, b, p + 1))
        /\ Cardinality(Seen(text, b, p + 1)) =
             (IF InTag THEN Cardinality(Seen(text, b, p)) ELSE Cardinality(Seen(text, b, p)) + 1)
    BY <2>0, <2>1, <2>5, <2>7, WithinNext
  <2>9. Len(curline') = Cardinality(Seen(text, b, p + 1))
    BY <2>0, <2>1, <2>5, <2>8
  <2>10. pos' - 1 = p + 1 /\ pos' - 2 = p /\ \A q \in b..p : text[q] # NL
    BY <2>6, <2>7, <2>8
  <2>11. Within(text, f, b, e, Len(curline))' /\ pos' - 1 <= e
    BY <2>0, <2>6, <2>7, <2>8, <2>9, <2>10 DEF Within
  <2>12. m = Len(line_sizes') /\ k = lineID' + 1
    BY <2>0, <2>3 DEF AtChar
  <2>13. curline' = Spelt(text, Seen(text, b, p + 1))
    <3>1. curline = Spelt(text, Seen(text, b, p)) /\ InTag = Inside(text, b, p)
      <4>1. b \in Nat /\ p \in Nat /\ b <= p
        BY <2>3, <2>7
      <4>2. InTag <=> Inside(text, b, p)
        BY <2>5 DEF InTag, Inside
      <4> QED BY <2>3, <4>2 DEF AtChar, InTag, Inside
    <3>2. text \in Seq(Codes)
      BY TextIsText DEF ParseChar, Passes, SecondPass, Codes
    <3>3. b \in Nat \ {0} /\ p \in b..Len(text)
      <4>1. f \in Nat \ {0}
        BY <1>1, <2>3 DEF AtChar, Found
      <4> QED BY <2>0, <2>6, <2>7, <4>1 DEF Begun
    <3>4. Spelt(text, Seen(text, b, p + 1)) =
            (IF InTag THEN curline ELSE Append(curline, ch))
      BY <2>5, <3>1, <3>2, <3>3, SpeltOn
    <3> QED BY <2>1, <3>4
  <2>14. /\ starts \in Marks(text', m) /\ ends \in Marks(text', m) /\ Found(text', line_sizes', starts, ends, m)
         /\ Rest(text', From(ends, m + 1))
         /\ f = From(ends, k) /\ b = starts[k] /\ e = ends[k]
    BY <2>0, <2>3 DEF AtChar
  <2>15. /\ Within(text, From(ends, k), starts[k], ends[k], Len(curline))'
         /\ (Line(text, From(ends, k), starts[k], ends[k]) => pos - 1 <= ends[k])'
         /\ curline' = Spelt(text', Seen(text', starts[k], pos' - 1))
    BY <2>0, <2>10, <2>11, <2>13, <2>14
  <2>16. parsePc' = "parseLine" /\ text' = text
    BY <2>0
  <2> QED BY <2>12, <2>14, <2>15, <2>16 DEF Parsing
<1> QED BY <1>1, <1>2

(* A line that is stored has the length that was counted. *)
LEMMA LineIsWhole ==
  ASSUME Types, Parsing, StoreLine
  PROVE  Parsing' /\ Len(curline) = line_sizes[lineID + 1]
<1>0. /\ text' = text /\ Len(text) \in Nat /\ parsePc = "parseLine" /\ pos' = pos
      /\ parsePc' = "words" /\ line_sizes' = line_sizes /\ lineID' = lineID /\ (ch = NL \/ Surplus)
  BY TextIsText DEF text, Passes, SecondPass, StoreLine, fileVars, streamVars
<1>1. PICK m, k \in Nat : \E starts, ends \in Marks(text, m), f, b, e, p \in Nat :
        AtChar(m, k, starts, ends, f, b, e, p)
  BY <1>0, InLine
<1>2. PICK starts, ends \in Marks(text, m), f, b, e, p \in Nat : AtChar(m, k, starts, ends, f, b, e, p)
  BY <1>1
<1>3. pos = e + 1 /\ Len(curline) = line_sizes[k]
  <2>1. CASE Trailing(text, f, b, e) /\ pos = b /\ Len(curline) = 0 /\ ~html_tag /\ line_sizes[k] = 0
    BY <1>0, <2>1 DEF Trailing
  <2>2. CASE /\ Line(text, f, b, e) /\ p \in b..e /\ ch = text[p] /\ pos = p + 1
             /\ (html_tag <=> Open(text, b, p)) /\ Len(curline) = Cardinality(Seen(text, b, p))
    <3>1. e \in b..Len(text) /\ \A q \in b..(e - 1) : text[q] # NL
      BY <2>2 DEF Line
    <3>2. ASSUME p # e PROVE FALSE
      <4>1. p \in b..(e - 1) /\ p + 1 <= e /\ b <= p
        BY <2>2, <3>1, <3>2
      <4>2. ch # NL
        BY <2>2, <3>1, <4>1
      <4>3. Cardinality(Seen(text, b, p + 1)) <= line_sizes[k] /\ p + 1 \in Nat
        BY <1>2, <4>1, SeenGrows DEF AtChar
      <4>4. Len(curline) <= Cardinality(Seen(text, b, p + 1))
            /\ (~Inside(text, b, p) => Cardinality(Seen(text, b, p + 1)) = Len(curline) + 1)
        <5>1. b \in Nat /\ p \in Nat /\ b <= p /\ Len(curline) = Cardinality(Seen(text, b, p))
          BY <1>2, <2>2, <4>1
        <5>2. /\ Cardinality(Seen(text, b, p)) \in Nat
              /\ Cardinality(Seen(text, b, p + 1)) =
                   (IF Inside(text, b, p) THEN Cardinality(Seen(text, b, p))
                                          ELSE Cardinality(Seen(text, b, p)) + 1)
          BY <5>1, SeenNext
        <5> QED BY <5>1, <5>2
      <4>5. ~InTag => ~Inside(text, b, p)
        BY <2>2 DEF InTag, Inside
      <4>6. Len(curline) > line_sizes[k] \/ (Len(curline) = line_sizes[k] /\ ~InTag)
        BY <1>0, <1>2, <4>2 DEF Surplus, AtChar
      <4>7. Len(curline) \in Nat /\ line_sizes[k] \in Nat
        BY <1>2, <2>2, SeenNext DEF AtChar
      <4>8. Cardinality(Seen(text, b, p + 1)) \in Nat
        BY <4>3, SeenNext
      <4> QED BY <4>3, <4>4, <4>5, <4>6, <4>7, <4>8
    <3>3. p = e
      BY <3>2
    <3> QED BY <1>2, <2>2, <3>3 DEF AtChar
  <2> QED BY <1>2, <2>1, <2>2 DEF AtChar
<1>4. m = Len(line_sizes') /\ k = lineID' + 1
  BY <1>0, <1>2 DEF AtChar
<1>5. pos' = ends[k] + 1 /\ curline' = Spelt(text, Seen(text, starts[k], ends[k]))
  <2>1. curline' = curline /\ e \in Nat /\ p \in Nat
    BY DEF StoreLine
  <2>2. p = e
    BY <1>2, <1>3, <2>1 DEF AtChar
  <2> QED BY <1>0, <1>2, <1>3, <2>1, <2>2 DEF AtChar
<1>6. Parsing'
  BY <1>0, <1>2, <1>4, <1>5 DEF Parsing, AtChar
<1> QED BY <1>2, <1>3, <1>6 DEF AtChar

(* The line is complete, and its words are inserted. *)
LEMMA LineInserted ==
  ASSUME Types, Parsing, InsertedLine
  PROVE  Parsing'
<1>m. PICK m, k \in Nat : m = Len(line_sizes) /\ k = lineID + 1 /\ k \in 1..m /\ k = lineID'
  BY DEF Types, InsertedLine
<1>0. /\ text' = text /\ Len(text) \in Nat /\ parsePc = "words" /\ pos' = pos
      /\ parsePc' = "parse" /\ line_sizes' = line_sizes
  BY TextIsText DEF text, Passes, SecondPass, InsertedLine, streamVars
<1>1. PICK starts, ends \in Marks(text, m) :
        Found(text, line_sizes, starts, ends, m) /\ Rest(text, From(ends, m + 1)) /\ pos = ends[k] + 1
  BY <1>0, <1>m DEF Parsing, SecondPass
<1>2. ASSUME k < m
      PROVE  Ahead(text, From(ends, k + 1), starts[k + 1], ends[k + 1])'
  <2>1. PICK f, b, e : f = From(ends, k + 1) /\ b = starts[k + 1] /\ e = ends[k + 1]
    OBVIOUS
  <2>2. f \in Nat \ {0} /\ (Line(text, f, b, e) \/ Trailing(text, f, b, e))
    BY <1>m, <1>1, <1>2, <2>1 DEF Found
  <2>3. pos = f
    <3>1. (k + 1) - 1 = k /\ k + 1 # 1
      BY <1>m
    <3> QED BY <1>1, <2>1, <3>1 DEF From
  <2>4. pos' \in f..b /\ (Trailing(text, f, b, e) => pos' <= Len(text))
    BY <1>0, <2>2, <2>3 DEF Line, Begun, Trailing
  <2>5. Ahead(text, f, b, e)'
    BY <1>0, <2>4 DEF Ahead
  <2> QED BY <2>1, <2>5
<1> QED BY <1>0, <1>m, <1>1, <1>2 DEF Parsing

-----------------------------------------------------------------------------
(* Every step. *)

(* The invariant holds before the first file. *)
LEMMA InitInv == IndexInit => IndexInv
<1> SUFFICES ASSUME IndexInit PROVE IndexInv
  OBVIOUS
<1>1. Types
  BY InitTypes
<1>2. line_sizes = <<>> /\ pos = 1 /\ parsePc \notin SecondPass /\ parsePc # "countLine"
  BY DEF IndexInit, SecondPass
<1>3. Counting
  <2> DEFINE none == [j \in 1..0 |-> 0]
  <2>1. none \in Marks(text, Len(line_sizes)) /\ Len(line_sizes) = 0
    BY <1>2 DEF Marks
  <2>2. Found(text, line_sizes, none, none, 0) /\ From(none, 1) = 1
    BY DEF Found, From
  <2>3. Behind(text, 1, pos)
    BY <1>2 DEF Behind
  <2> HIDE DEF none
  <2> QED BY <1>2, <2>1, <2>2, <2>3 DEF Counting
<1> QED BY <1>1, <1>2, <1>3 DEF IndexInv, Parsing, Stored

(* A step that does not move the stream and inserts words. *)
LEMMA WordsKeep ==
  ASSUME Counting, Parsing, Stored,
         UNCHANGED <<textfiles, parsePc, fileVars, streamVars, html_tag, curline, lines>>
  PROVE  Counting' /\ Parsing' /\ Stored'
<1>0. /\ text' = text /\ parsePc' = parsePc /\ pos' = pos /\ ch' = ch /\ html_tag' = html_tag
      /\ curline' = curline /\ lines' = lines /\ fileID' = fileID
      /\ line_sizes' = line_sizes /\ lineID' = lineID
  BY DEF text, fileVars, streamVars
<1>1. Counting'
  BY <1>0 DEF Counting, Within
<1>2. Parsing'
  BY <1>0 DEF Parsing, Within, Ahead
<1>3. Stored'
  BY <1>0 DEF Stored
<1> QED BY <1>1, <1>2, <1>3

(* The next file starts with no line counted and none stored. *)
LEMMA NextFile ==
  ASSUME Types, Parsed_text
  PROVE  Counting' /\ Parsing' /\ Stored'
<1>1. line_sizes' = <<>> /\ pos' = 1 /\ parsePc' \in {"loop", "count"}
  BY DEF Parsed_text
<1>2. Counting'
  <2> DEFINE none == [j \in 1..0 |-> 0]
  <2>1. none \in Marks(text', Len(line_sizes')) /\ Len(line_sizes') = 0
    BY <1>1 DEF Marks
  <2>2. Found(text', line_sizes', none, none, 0) /\ From(none, 1) = 1
    BY DEF Found, From
  <2>3. Behind(text', 1, pos')
    BY <1>1 DEF Behind
  <2> HIDE DEF none
  <2> QED BY <1>1, <2>1, <2>2, <2>3 DEF Counting
<1> QED BY <1>1, <1>2 DEF Parsing, Stored, SecondPass

(* The lines that are stored change with StoreLine only. *)
LEMMA StoredNext ==
  ASSUME IndexInv, IndexNext
  PROVE  Stored'
<1>1. CASE StoreLine
  <2>1. /\ parsePc = "parseLine" /\ fileID' = fileID /\ line_sizes' = line_sizes
        /\ lines' = [lines EXCEPT ![fileID + 1] = Append(@, curline)]
    BY <1>1 DEF StoreLine, fileVars
  <2>2. PICK g : g = lines[fileID + 1]
    OBVIOUS
  <2>3. /\ lines \in Seq(Seq(Seq(Int))) /\ fileID + 1 \in 1..Len(lines) /\ Len(g) = lineID
        /\ lineID \in Nat
    BY <2>1, <2>2 DEF IndexInv, Types, SecondPass
  <2>4. g \in Seq(Seq(Int))
    BY <2>2, <2>3, ElementOfSeq
  <2>5. lines'[fileID + 1] = Append(g, curline)
    BY <2>1, <2>2, <2>3
  <2>6. \A j \in 1..lineID : Len(g[j]) = line_sizes[j]
    BY <2>1, <2>2, <2>3 DEF IndexInv, Stored, SecondPass
  <2>7. Len(curline) = line_sizes[lineID + 1]
    BY <1>1, LineIsWhole DEF IndexInv
  <2>8. \A j \in 1..Len(Append(g, curline)) : Len(Append(g, curline)[j]) = line_sizes[j]
    BY <2>3, <2>4, <2>6, <2>7
  <2> QED BY <2>1, <2>5, <2>8 DEF Stored
<1>2. CASE CountedLines
  <2>1. CASE parsePc' = "parse"
    <3>1. lines' = Append(lines, <<>>) /\ fileID' = fileID /\ parsePc = "count"
      BY <1>2, <2>1 DEF CountedLines, fileVars
    <3>2. lines \in Seq(Seq(Seq(Int))) /\ Len(lines) = fileID /\ fileID \in Nat
      BY <3>1 DEF IndexInv, Types, FirstPass
    <3>3. lines'[fileID' + 1] = <<>>
      BY <3>1, <3>2
    <3> QED BY <3>3 DEF Stored
  <2>2. CASE parsePc' # "parse"
    BY <1>2, <2>2 DEF CountedLines, Stored, SecondPass
  <2> QED BY <2>1, <2>2
<1>3. CASE Parsed_text
  BY <1>3, NextFile DEF IndexInv
<1>4. CASE count_lines \/ CountChar \/ CountedLine
  BY <1>4 DEF count_lines, CountChar, CountedLine, Stored, SecondPass
<1>5. CASE parse_text \/ ParseChar \/ InsertLetter \/ InsertedWord \/ InsertedLine
  <2>1. lines' = lines /\ fileID' = fileID /\ line_sizes' = line_sizes /\ parsePc \in SecondPass
    BY <1>5 DEF parse_text, ParseChar, InsertLetter, InsertedWord, InsertedLine, mapVars, fileVars, SecondPass
  <2> QED BY <2>1 DEF IndexInv, Stored
<1> QED BY <1>1, <1>2, <1>3, <1>4, <1>5 DEF IndexNext

(* Every step keeps the invariant. *)
LEMMA InvNext == IndexInv /\ [IndexNext]_indexVars => IndexInv'
<1> SUFFICES ASSUME IndexInv, [IndexNext]_indexVars PROVE IndexInv'
  OBVIOUS
<1>0. Types /\ Counting /\ Parsing /\ Stored /\ Types'
  BY TypesNext DEF IndexInv
<1>s. IndexNext => Stored'
  BY StoredNext
<1> SUFFICES Counting' /\ Parsing' /\ Stored'
  BY <1>0 DEF IndexInv
<1>1. CASE count_lines
  <2>1. /\ parsePc = "count" /\ ~AtEnd /\ UNCHANGED <<textfiles, fileID>> /\ parsePc' \in FirstPass
    BY <1>1 DEF count_lines, FirstPass
  <2>2. Counting'
    <3>1. CASE IgnoreEmptyLine /\ UNCHANGED <<parsePc, html_tag, line_sizes>>
      BY <1>0, <2>1, <3>1, CountEmptyLine
    <3>2. CASE StartLine /\ parsePc' = "countLine" /\ line_sizes' = Append(line_sizes, 0)
      BY <1>0, <2>1, <3>2, CountStarts
    <3> QED BY <1>1, <3>1, <3>2 DEF count_lines
  <2> QED BY <1>1, <1>s, <2>1, <2>2 DEF IndexNext, Parsing, FirstPass, SecondPass
<1>2. CASE CountChar
  BY <1>0, <1>2, <1>s, CountNext DEF IndexNext, CountChar, Parsing, SecondPass
<1>3. CASE CountedLine
  BY <1>0, <1>3, <1>s, CountEnds DEF IndexNext, CountedLine, Parsing, SecondPass
<1>4. CASE CountedLines
  BY <1>0, <1>4, <1>s, ParseBegins DEF IndexNext, CountedLines, Counting
<1>5. CASE parse_text
  BY <1>0, <1>5, <1>s, ParseStarts DEF IndexNext, parse_text, Counting
<1>6. CASE ParseChar
  BY <1>0, <1>6, <1>s, ParseNext DEF IndexNext, ParseChar, Counting
<1>7. CASE StoreLine
  BY <1>0, <1>7, <1>s, LineIsWhole DEF IndexNext, StoreLine, Counting
<1>8. CASE InsertLetter
  BY <1>0, <1>8, WordsKeep DEF InsertLetter, mapVars
<1>9. CASE InsertedWord
  BY <1>0, <1>9, WordsKeep DEF InsertedWord
<1>10. CASE InsertedLine
  BY <1>0, <1>10, <1>s, LineInserted DEF IndexNext, InsertedLine, Counting
<1>11. CASE Parsed_text
  BY <1>0, <1>11, NextFile
<1>12. CASE UNCHANGED indexVars
  BY <1>0, <1>12, WordsKeep DEF indexVars, mapVars
<1> QED BY <1>1, <1>2, <1>3, <1>4, <1>5, <1>6, <1>7, <1>8, <1>9, <1>10, <1>11, <1>12 DEF IndexNext

(* IndexInv is an invariant. *)
LEMMA Always == IndexSpec => []IndexInv
BY InitInv, InvNext, PTL DEF IndexSpec

(* The invariant tells that the two passes agree. *)
LEMMA InvAgrees == IndexInv => PassesAgree
<1> SUFFICES ASSUME IndexInv, parsePc = "parse"
             PROVE  /\ \A j \in 1..lineID : Len(lines[fileID + 1][j]) = line_sizes[j]
                    /\ ~MoreToParse => lineID = Len(line_sizes)
  BY DEF PassesAgree
<1>1. Len(lines[fileID + 1]) = lineID /\ lineID \in 0..Len(line_sizes) /\ Len(line_sizes) \in Nat
  BY DEF IndexInv, Types, SecondPass
<1>2. \A j \in 1..lineID : Len(lines[fileID + 1][j]) = line_sizes[j]
  BY <1>1 DEF IndexInv, Stored, SecondPass
<1>3. ASSUME lineID < Len(line_sizes) PROVE ~AtEnd
  <2>0. Len(text) \in Nat
    BY TextIsText DEF IndexInv, Passes, SecondPass
  <2>1. PICK starts, ends :
          /\ Found(text, line_sizes, starts, ends, Len(line_sizes))
          /\ Ahead(text, From(ends, lineID + 1), starts[lineID + 1], ends[lineID + 1])
    BY <1>3 DEF IndexInv, Parsing, SecondPass
  <2>2. PICK f, b, e : f = From(ends, lineID + 1) /\ b = starts[lineID + 1] /\ e = ends[lineID + 1]
    OBVIOUS
  <2>3. f \in Nat \ {0} /\ (Line(text, f, b, e) \/ Trailing(text, f, b, e))
    BY <1>1, <1>3, <2>1, <2>2 DEF Found
  <2> QED BY <2>0, <2>1, <2>2, <2>3 DEF Ahead, Line, Begun, AtEnd
<1>4. ASSUME ~MoreToParse PROVE lineID = Len(line_sizes)
  <2>1. ~(lineID < Len(line_sizes))
    BY <1>3, <1>4 DEF MoreToParse
  <2>2. PICK n \in Nat : n = Len(line_sizes)
    BY <1>1
  <2>3. lineID \in 0..n /\ ~(lineID < n)
    BY <1>1, <2>1, <2>2
  <2> QED BY <2>2, <2>3
<1> QED BY <1>2, <1>4

(* The second pass finds every line that the first has counted, and of the length that it *)
(* counted (textfiles_parsing.cpp:115,125: "should not happen"), whatever blanks, empty   *)
(* lines and tags are in a file, closed or not.                                           *)
THEOREM Agree == IndexSpec => []PassesAgree
BY Always, InvAgrees, PTL

-----------------------------------------------------------------------------
(* The words of a line. *)

RunAt(line, j) == {h \in j..Len(line) : \A g \in j..h : line[g] \notin Blanks}
WordStarts(line) == {j \in 1..Len(line) : RunAt(line, j) # {} /\ (j > 1 => line[j - 1] \in Blanks)}

(* The words of a line, by where they start. *)
LEMMA TokensIs ==
  ASSUME NEW line
  PROVE  Tokens(line) =
           [m \in 1..Cardinality(WordStarts(line)) |->
              SubSeq(line, Nth(WordStarts(line), m),
                     Nth(WordStarts(line), m) + Cardinality(RunAt(line, Nth(WordStarts(line), m))) - 1)]
BY DEF Tokens, WordStarts, RunAt, Nth, RankIn

(* A run is an interval. *)
LEMMA RunIs ==
  ASSUME NEW line, Len(line) \in Nat, NEW j \in 1..Len(line)
  PROVE  /\ Cardinality(RunAt(line, j)) \in Nat
         /\ RunAt(line, j) = j..(j + Cardinality(RunAt(line, j)) - 1)
         /\ j + Cardinality(RunAt(line, j)) - 1 <= Len(line)
<1> DEFINE S == {h \in j..(Len(line) + 1) : h > Len(line) \/ line[h] \in Blanks}
<1>1. S \subseteq Nat /\ S # {}
  <2>1. Len(line) + 1 \in S
    OBVIOUS
  <2> QED BY <2>1
<1>2. PICK e \in S : \A h \in S : e <= h
  <2> HIDE DEF S
  <2> QED BY <1>1, LeastIsThere
<1>3. e \in Nat /\ e \in j..(Len(line) + 1) /\ (e <= Len(line) => line[e] \in Blanks)
  BY <1>2
<1>4. \A g \in j..(e - 1) : line[g] \notin Blanks
  <2> SUFFICES ASSUME NEW g \in j..(e - 1), line[g] \in Blanks PROVE FALSE
    OBVIOUS
  <2>1. g \in S
    BY <1>3
  <2> QED BY <1>2, <1>3, <2>1
<1>5. RunAt(line, j) = j..(e - 1)
  <2>1. ASSUME NEW h \in RunAt(line, j) PROVE h \in j..(e - 1)
    <3>1. h \in j..Len(line) /\ \A g \in j..h : line[g] \notin Blanks
      BY DEF RunAt
    <3>2. ~(e <= h)
      BY <1>3, <3>1
    <3> QED BY <1>3, <3>1, <3>2
  <2>2. ASSUME NEW h \in j..(e - 1) PROVE h \in RunAt(line, j)
    BY <1>3, <1>4 DEF RunAt
  <2> QED BY <2>1, <2>2
<1>6. Cardinality(j..(e - 1)) = e - j
  BY <1>3, FS_Interval
<1> QED BY <1>3, <1>5, <1>6

Picked(S, H) == {Nth(S, h) : h \in H}

(* What is spelt by some letters in a row. *)
LEMMA SpeltPart ==
  ASSUME NEW s, NEW S \in IntSets, IsFiniteSet(S), \A q \in S : s[q] \in Codes,
         NEW a \in 1..Cardinality(S), NEW c \in a..Cardinality(S)
  PROVE  Spelt(s, Picked(S, a..c)) = SubSeq(Spelt(s, S), a, c)
<1> DEFINE T == {Nth(S, h) : h \in a..c}
           n == Cardinality(S)
<1>1. /\ n \in Nat /\ a \in Nat /\ c \in Nat /\ a <= c /\ c <= n /\ 1 <= a
      /\ \A h \in a..c : h \in 1..n
  BY FS_CardinalityType
<1>2. /\ \A h \in 1..n : Nth(S, h) \in S
      /\ \A h, i \in 1..n : h < i <=> Nth(S, h) < Nth(S, i)
  BY Ranks
<1>3. \A h, i \in 1..n : h <= i <=> Nth(S, h) <= Nth(S, i)
  <2> SUFFICES ASSUME NEW h \in 1..n, NEW i \in 1..n PROVE h <= i <=> Nth(S, h) <= Nth(S, i)
    OBVIOUS
  <2>1. Nth(S, h) \in Int /\ Nth(S, i) \in Int
    BY <1>2, IntSet
  <2>2. i < h <=> Nth(S, i) < Nth(S, h)
    BY <1>2
  <2> HIDE DEF n
  <2> QED BY <1>1, <2>1, <2>2
<1>4. ASSUME NEW i \in a..(c + 1)
      PROVE  IsFiniteSet({Nth(S, h) : h \in a..(i - 1)}) /\ Cardinality({Nth(S, h) : h \in a..(i - 1)}) = i - a
  <2> DEFINE U == {Nth(S, h) : h \in a..(i - 1)}
             V == a..(i - 1)
             f == [h \in V |-> Nth(S, h)]
  <2>0. \A h \in V : h \in 1..n
    BY <1>1
  <2>1. f \in Bijection(V, U)
    <3>1. f \in [V -> U]
      OBVIOUS
    <3>2. ASSUME NEW h \in V, NEW g \in V, f[h] = f[g] PROVE h = g
      <4>1. Nth(S, h) \in Int /\ Nth(S, g) \in Int /\ Nth(S, h) = Nth(S, g)
        BY <1>2, <2>0, <3>2, IntSet
      <4>2. h <= g /\ g <= h
        BY <1>3, <2>0, <4>1
      <4> QED BY <4>2
    <3>3. \A u \in U : \E h \in V : f[h] = u
      OBVIOUS
    <3> HIDE DEF f, U, V
    <3> QED BY <3>1, <3>2, <3>3 DEF Bijection, Injection, Surjection, IsInjective
  <2>2. IsFiniteSet(V) /\ Cardinality(V) = i - a
    <3>1. a \in Int /\ i - 1 \in Int /\ i \in Int /\ i >= a
      BY <1>1
    <3>2. IsFiniteSet(a..(i - 1)) /\ Cardinality(a..(i - 1)) = IF a > i - 1 THEN 0 ELSE i - 1 - a + 1
      BY <3>1, FS_Interval
    <3> QED BY <3>1, <3>2
  <2>3. IsFiniteSet(U) /\ Cardinality(U) = Cardinality(V)
    <3> HIDE DEF f, U, V
    <3>1. ExistsBijection(V, U)
      BY <2>1 DEF ExistsBijection
    <3> QED BY <2>2, <3>1, FS_Bijection
  <2> QED BY <2>2, <2>3
<1>5. IsFiniteSet(T) /\ Cardinality(T) = c - a + 1 /\ T \in IntSets
  <2>1. c + 1 \in a..(c + 1) /\ (c + 1) - 1 = c
    BY <1>1
  <2>2. IsFiniteSet(T) /\ Cardinality(T) = (c + 1) - a
    BY <1>4, <2>1
  <2>3. T \in IntSets
    BY <1>1, <1>2, IntSet
  <2> QED BY <1>1, <2>2, <2>3
<1>6. ASSUME NEW i \in 1..(c - a + 1) PROVE Nth(T, i) = Nth(S, a + i - 1)
  <2>1. a + i - 1 \in a..c /\ a + i \in a..(c + 1) /\ (a + i) - 1 = a + i - 1 /\ (a + i) - a = i
    BY <1>1
  <2> DEFINE q == Nth(S, a + i - 1)
  <2>2. q \in T
    BY <2>1
  <2>3. {r \in T : r <= q} = {Nth(S, h) : h \in a..(a + i - 1)}
    <3>1. ASSUME NEW h \in a..c PROVE Nth(S, h) <= q <=> h <= a + i - 1
      BY <1>1, <1>3, <2>1
    <3>2. \A h \in a..(a + i - 1) : h \in a..c
      BY <1>1, <2>1
    <3>3. \A h \in a..c : h <= a + i - 1 <=> h \in a..(a + i - 1)
      BY <1>1
    <3> HIDE DEF q
    <3> QED BY <3>1, <3>2, <3>3
  <2>4. RankIn(T, q) = i
    BY <1>4, <2>1, <2>3 DEF RankIn
  <2>5. Nth(T, RankIn(T, q)) = q
    <3> HIDE DEF q, T
    <3> QED BY <1>5, <2>2, Ranks
  <2> QED BY <2>4, <2>5
<1>7. Spelt(s, T) = [j \in 1..(c - a + 1) |-> s[Nth(T, j)]] /\ Spelt(s, S) = [j \in 1..n |-> s[Nth(S, j)]]
  <2> HIDE DEF T
  <2> QED BY <1>5, SpeltIs
<1>8. Spelt(s, S) \in Seq(Codes) /\ Len(Spelt(s, S)) = n
  <2>1. \A j \in 1..n : s[Nth(S, j)] \in Codes
    BY <1>2
  <2> HIDE DEF n
  <2> QED BY <1>1, <1>7, <2>1
<1> HIDE DEF T, n
<1>9. SubSeq(Spelt(s, S), a, c) = [j \in 1..(c - a + 1) |-> Spelt(s, S)[a + j - 1]]
  BY <1>1, <1>8
<1>10. \A j \in 1..(c - a + 1) : Spelt(s, S)[a + j - 1] = s[Nth(T, j)]
  <2> SUFFICES ASSUME NEW j \in 1..(c - a + 1) PROVE Spelt(s, S)[a + j - 1] = s[Nth(T, j)]
    OBVIOUS
  <2>1. a + j - 1 \in 1..n
    BY <1>1
  <2> QED BY <1>6, <1>7, <2>1
<1> QED BY <1>7, <1>9, <1>10 DEF T, Picked


(* The letters of the word at p among the characters that its line shows, ... *)
LettersIn(s, here, p) ==
  IF \A q \in here : q < p => \E r \in q..(p - 1) : r \in here /\ s[r] \in Blanks
    THEN {q \in here : p <= q /\ \A r \in p..q : r \in here => s[r] \notin Blanks} ELSE {}

(* Nothing but blanks before those of T. *)
Leading(s, here, T) ==
  here \in IntSets /\ T \in SUBSET here /\ \A x \in here \ T : s[x] \in Blanks /\ \A q \in T : x < q

(* ... and in what the line spells. *)
LEMMA WordLetters ==
  ASSUME NEW s, NEW T \in IntSets, IsFiniteSet(T), \A q \in T : s[q] \in Codes,
         NEW here, Leading(s, here, T), NEW p \in T, NEW line, line = Spelt(s, T)
  PROVE  /\ LettersIn(s, here, p) # {} <=> RankIn(T, p) \in WordStarts(line)
         /\ LettersIn(s, here, p) # {} => LettersIn(s, here, p) = Picked(T, RunAt(line, RankIn(T, p)))
<1> DEFINE n == Cardinality(T)
           j == RankIn(T, p)
           startsHere == \A q \in here : q < p => \E r \in q..(p - 1) : r \in here /\ s[r] \in Blanks
<1>1. /\ n \in Nat /\ j \in 1..n /\ Nth(T, j) = p /\ j \in Int
      /\ \A h \in 1..n : Nth(T, h) \in T /\ Nth(T, h) \in Int
      /\ \A h, i \in 1..n : h < i <=> Nth(T, h) < Nth(T, i)
      /\ \A q \in T : RankIn(T, q) \in 1..n /\ Nth(T, RankIn(T, q)) = q
  <2>1. /\ n \in Nat
        /\ \A q \in T : RankIn(T, q) \in 1..n /\ Nth(T, RankIn(T, q)) = q
        /\ \A h \in 1..n : Nth(T, h) \in T
        /\ \A h, i \in 1..n : h < i <=> Nth(T, h) < Nth(T, i)
    BY Ranks
  <2>2. \A q \in T : q \in Int
    BY IntSet
  <2>3. j \in 1..n /\ Nth(T, j) = p
    BY <2>1
  <2> HIDE DEF n, j
  <2>4. j \in Int
    BY <2>1, <2>3
  <2>5. \A h \in 1..n : Nth(T, h) \in T /\ Nth(T, h) \in Int
    BY <2>1, <2>2
  <2> QED BY <2>1, <2>3, <2>4, <2>5, Zenon
<1>2. Len(line) = n /\ \A h \in 1..n : line[h] = s[Nth(T, h)]
  <2>1. line = [h \in 1..n |-> s[Nth(T, h)]]
    BY SpeltIs
  <2>2. \A h \in 1..n : s[Nth(T, h)] \in Codes
    BY <1>1
  <2> HIDE DEF n
  <2> QED BY <1>1, <2>1, <2>2
<1> DEFINE B == here \ T
<1>3. /\ \A q \in here : q \in Int /\ (q \in T \/ (q \in B /\ q \notin T))
      /\ \A q \in T : q \in here
      /\ \A x \in B : s[x] \in Blanks /\ \A q \in T : x < q
  BY IntSet DEF Leading
<1>p. p \in Int
  BY IntSet
<1> HIDE DEF n, j
<1>4. \A q, r \in T : q < r <=> RankIn(T, q) < RankIn(T, r)
  BY Ranks
<1>5. \A q, r \in T : q <= r <=> RankIn(T, q) <= RankIn(T, r)
  <2> SUFFICES ASSUME NEW q \in T, NEW r \in T PROVE q <= r <=> RankIn(T, q) <= RankIn(T, r)
    OBVIOUS
  <2>1. q \in Int /\ r \in Int /\ RankIn(T, q) \in Int /\ RankIn(T, r) \in Int /\ (r < q <=> RankIn(T, r) < RankIn(T, q))
    BY <1>1, <1>4
  <2> QED BY <2>1
<1>6. startsHere <=> (j > 1 => line[j - 1] \in Blanks)
  <2>1. ASSUME startsHere, j > 1 PROVE line[j - 1] \in Blanks
    <3>1. PICK q \in T : q = Nth(T, j - 1)
      BY <1>1, <2>1
    <3>2. q < p /\ j - 1 \in 1..n /\ q \in here /\ RankIn(T, q) = j - 1
      <4>1. j - 1 \in 1..n
        BY <1>1, <2>1
      <4>2. RankIn(T, Nth(T, j - 1)) = j - 1
        BY <4>1, Ranks DEF n
      <4> QED BY <1>1, <1>3, <3>1, <4>1, <4>2
    <3>3. PICK r \in q..(p - 1) : r \in here /\ s[r] \in Blanks
      BY <2>1, <3>2
    <3>4. q \in Int /\ r \in Int /\ q <= r /\ r < p
      BY <1>p, <3>3
    <3>5. r \in T
      BY <1>3, <3>1, <3>3, <3>4
    <3>6. RankIn(T, r) < j /\ j - 1 <= RankIn(T, r) /\ RankIn(T, r) \in Int
      BY <1>1, <1>4, <1>5, <3>1, <3>2, <3>4, <3>5 DEF j
    <3>7. RankIn(T, r) = j - 1
      BY <1>1, <3>6
    <3>8. r = Nth(T, j - 1)
      BY <1>1, <3>5, <3>7
    <3> QED BY <1>2, <3>2, <3>3, <3>8
  <2>2. ASSUME j > 1 => line[j - 1] \in Blanks, NEW q \in here, q < p
        PROVE  \E r \in q..(p - 1) : r \in here /\ s[r] \in Blanks
    <3>1. CASE q \in T
      <4>1. RankIn(T, q) < j /\ RankIn(T, q) \in 1..n
        BY <1>1, <1>4, <2>2, <3>1 DEF j
      <4>2. j > 1 /\ j - 1 \in 1..n /\ RankIn(T, q) <= j - 1
        BY <1>1, <4>1
      <4>3. PICK r \in T : r = Nth(T, j - 1)
        BY <1>1, <4>2
      <4>4. RankIn(T, r) = j - 1
        BY <4>2, <4>3, Ranks DEF n
      <4>5. q <= r /\ r < p
        BY <1>1, <1>4, <1>5, <3>1, <4>2, <4>3, <4>4 DEF j
      <4>6. s[r] \in Blanks
        BY <1>2, <2>2, <4>2, <4>3
      <4>7. r \in q..(p - 1) /\ r \in here
        BY <1>3, <1>p, <4>3, <4>5
      <4> QED BY <4>6, <4>7
    <3>2. CASE q \notin T
      <4>1. q \in B /\ s[q] \in Blanks /\ q \in Int
        BY <1>3, <2>2, <3>2
      <4>2. q \in q..(p - 1)
        BY <1>p, <2>2, <4>1
      <4> QED BY <4>1, <4>2
    <3> QED BY <3>1, <3>2
  <2> QED BY <2>1, <2>2
<1> DEFINE L == {q \in here : p <= q /\ \A r \in p..q : r \in here => s[r] \notin Blanks}
<1>7. L = {Nth(T, h) : h \in RunAt(line, j)}
  <2>1. ASSUME NEW q \in L PROVE q \in {Nth(T, h) : h \in RunAt(line, j)}
    <3>1. q \in here /\ p <= q /\ \A r \in p..q : r \in here => s[r] \notin Blanks
      OBVIOUS
    <3>2. q \in T /\ q \in Int
      BY <1>3, <1>p, <3>1
    <3>3. RankIn(T, q) \in j..n /\ Nth(T, RankIn(T, q)) = q
      BY <1>1, <1>5, <3>1, <3>2 DEF j
    <3>4. ASSUME NEW g \in j..RankIn(T, q) PROVE line[g] \notin Blanks
      <4>1. g \in 1..n
        BY <1>1, <3>3
      <4>2. PICK r \in T : r = Nth(T, g)
        BY <1>1, <4>1
      <4>3. RankIn(T, r) = g
        BY <4>1, <4>2, Ranks DEF n
      <4>4. p <= r /\ r <= q
        BY <1>1, <1>5, <3>2, <3>3, <4>1, <4>2, <4>3 DEF j
      <4>5. r \in p..q /\ r \in here
        BY <1>3, <1>p, <3>2, <4>2, <4>4, IntSet
      <4> QED BY <1>2, <3>1, <4>1, <4>2, <4>5
    <3>5. RankIn(T, q) \in RunAt(line, j)
      BY <1>2, <3>3, <3>4 DEF RunAt
    <3> QED BY <3>3, <3>5
  <2>2. ASSUME NEW h \in RunAt(line, j) PROVE Nth(T, h) \in L
    <3>1. h \in j..n /\ \A g \in j..h : line[g] \notin Blanks
      BY <1>2 DEF RunAt
    <3>2. h \in 1..n /\ h \in Int
      BY <1>1, <3>1
    <3>3. PICK q \in T : q = Nth(T, h)
      BY <1>1, <3>2
    <3>4. RankIn(T, q) = h
      BY <3>2, <3>3, Ranks DEF n
    <3>5. p <= q /\ q \in Int
      BY <1>1, <1>5, <3>1, <3>3, <3>4 DEF j
    <3>6. ASSUME NEW r \in p..q, r \in here PROVE s[r] \notin Blanks
      <4>1. r \in T
        BY <1>3, <1>p, <3>5, <3>6
      <4>2. RankIn(T, r) \in j..h
        BY <1>1, <1>5, <1>p, <3>3, <3>4, <3>5, <4>1 DEF j
      <4> QED BY <1>1, <1>2, <3>1, <4>1, <4>2
    <3> QED BY <1>3, <3>3, <3>5, <3>6
  <2> HIDE DEF L
  <2> QED BY <2>1, <2>2
<1>8. RunAt(line, j) # {} <=> L # {}
  BY <1>7
<1>9. j \in WordStarts(line) <=> (startsHere /\ L # {})
  BY <1>1, <1>2, <1>6, <1>8 DEF WordStarts
<1>10. LettersIn(s, here, p) = IF startsHere THEN L ELSE {}
  BY DEF LettersIn
<1> HIDE DEF L, startsHere
<1>11. L = Picked(T, RunAt(line, j))
  BY <1>7 DEF Picked
<1> QED BY <1>9, <1>10, <1>11 DEF j

-----------------------------------------------------------------------------
(* The lines of a text. *)

(* A line that ends at e and is not blank. *)
Ended(s, e) == s[e] = NL /\ \E q \in LineStart(s, e)..(e - 1) : s[q] \notin Blanks
Ends(s, p) == {e \in 1..(p - 1) : Ended(s, e)}
LineBytes(s, l) == {p \in Bytes(s) : LineOf(s, p) = l}

(* The start of the line with p is behind the last newline before p, and there is no other. *)
LEMMA StartIs ==
  ASSUME NEW s, NEW p \in Nat \ {0}
  PROVE  /\ LineStart(s, p) \in 1..p /\ \A r \in LineStart(s, p)..(p - 1) : s[r] # NL
         /\ LineStart(s, p) = 1 \/ s[LineStart(s, p) - 1] = NL
         /\ \A a \in 1..p : (\A r \in a..(p - 1) : s[r] # NL) /\ (a = 1 \/ s[a - 1] = NL) => LineStart(s, p) = a
<1> DEFINE S == {q \in 1..p : \A r \in q..(p - 1) : s[r] # NL}
           a == Least(S)
<1>0. p \in Nat /\ p >= 1
  OBVIOUS
<1>1. LineStart(s, p) = a
  BY DEF LineStart
<1>2. a \in S /\ \A k \in S : a <= k
  <2>1. S \subseteq Nat /\ p \in S
    BY <1>0
  <2> HIDE DEF S
  <2> QED BY <2>1, LeastIsThere
<1>3. a \in 1..p /\ \A r \in a..(p - 1) : s[r] # NL
  BY <1>2
<1>4. ASSUME a # 1 PROVE s[a - 1] = NL
  <2> SUFFICES ASSUME s[a - 1] # NL PROVE FALSE
    OBVIOUS
  <2> HIDE DEF a
  <2>1. a - 1 \in 1..p /\ \A r \in (a - 1)..(p - 1) : s[r] # NL
    BY <1>0, <1>3, <1>4
  <2>2. a - 1 \in S
    BY <2>1
  <2> QED BY <1>2, <1>3, <2>2
<1>5. ASSUME NEW c \in 1..p, \A r \in c..(p - 1) : s[r] # NL, c = 1 \/ s[c - 1] = NL PROVE a = c
  <2>1. c \in S
    BY <1>5
  <2>2. a <= c
    BY <1>2, <2>1
  <2> HIDE DEF a, S
  <2>3. ~(a < c)
    <3> SUFFICES ASSUME a < c PROVE FALSE
      OBVIOUS
    <3>1. c - 1 \in a..(p - 1) /\ c # 1
      BY <1>0, <1>3
    <3> QED BY <1>3, <1>5, <3>1
  <2> QED BY <1>3, <2>2, <2>3
<1> QED BY <1>1, <1>3, <1>4, <1>5

(* The number of the line with p: how many lines, empty ones aside, end before it. *)
LEMMA LineOfIs ==
  ASSUME NEW s, NEW p \in Nat \ {0}
  PROVE  LineOf(s, p) = Cardinality(Ends(s, p)) /\ IsFiniteSet(Ends(s, p)) /\ LineOf(s, p) \in Nat
<1>1. LineOf(s, p) = Cardinality(Ends(s, p))
  BY DEF LineOf, Ends, Ended
<1>2. IsFiniteSet(1..(p - 1)) /\ Ends(s, p) \in SUBSET (1..(p - 1))
  BY FS_Interval DEF Ends
<1> QED BY <1>1, <1>2, FS_Subset, FS_CardinalityType

(* The number of a line tells it from the others. *)
LEMMA SameLine ==
  ASSUME NEW s \in Seq(Codes), NEW p \in Bytes(s), NEW q \in Shown(s), p <= q
  PROVE  LineOf(s, p) = LineOf(s, q) <=> LineStart(s, p) = LineStart(s, q)
<1> DEFINE a == LineStart(s, p)
<1>0. /\ p \in 1..Len(s) /\ q \in 1..Len(s) /\ p \in Nat \ {0} /\ q \in Nat \ {0} /\ s[p] # NL /\ s[q] # NL
      /\ \E r \in a..p : s[r] \notin Blanks
  BY DEF Bytes, Shown
<1>1. /\ a \in 1..p /\ \A r \in a..(p - 1) : s[r] # NL
      /\ a = 1 \/ s[a - 1] = NL
  BY <1>0, StartIs
<1>l. /\ LineOf(s, p) = Cardinality(Ends(s, p)) /\ IsFiniteSet(Ends(s, p)) /\ LineOf(s, p) \in Nat
      /\ LineOf(s, q) = Cardinality(Ends(s, q)) /\ IsFiniteSet(Ends(s, q)) /\ LineOf(s, q) \in Nat
  BY <1>0, LineOfIs
<1> HIDE DEF a
<1>2. ASSUME a = LineStart(s, q) PROVE LineOf(s, p) = LineOf(s, q)
  <2>1. \A r \in a..(q - 1) : s[r] # NL
    BY <1>0, <1>2, StartIs
  <2>2. Ends(s, p) = Ends(s, q)
    <3>1. \A e \in p..(q - 1) : s[e] # NL
      BY <1>0, <1>1, <2>1
    <3> QED BY <1>0, <3>1 DEF Ends, Ended
  <2> QED BY <1>l, <2>2
<1>3. ASSUME a # LineStart(s, q) PROVE LineOf(s, p) # LineOf(s, q)
  <2>1. ~\A r \in a..(q - 1) : s[r] # NL
    <3> SUFFICES ASSUME \A r \in a..(q - 1) : s[r] # NL PROVE FALSE
      OBVIOUS
    <3>1. a \in 1..q
      BY <1>0, <1>1
    <3>2. LineStart(s, q) = a
      BY <1>0, <1>1, <3>1, StartIs
    <3> QED BY <1>3, <3>2
  <2> DEFINE S == {e \in p..(q - 1) : s[e] = NL}
  <2>2. S \subseteq Nat /\ S # {}
    BY <1>0, <1>1, <2>1
  <2>3. PICK e \in S : \A k \in S : e <= k
    <3> HIDE DEF S
    <3> QED BY <2>2, LeastIsThere
  <2>4. e \in p..(q - 1) /\ s[e] = NL /\ e # p /\ e \in Nat \ {0}
    BY <1>0, <2>3
  <2>5. \A r \in a..(e - 1) : s[r] # NL
    <3> SUFFICES ASSUME NEW r \in a..(e - 1), s[r] = NL PROVE FALSE
      OBVIOUS
    <3>1. r \in p..(q - 1)
      BY <1>0, <1>1, <2>4
    <3>2. r \in S
      BY <3>1
    <3> QED BY <2>3, <2>4, <3>2
  <2>6. LineStart(s, e) = a
    <3>1. a \in 1..e
      BY <1>0, <1>1, <2>4
    <3> QED BY <1>1, <2>4, <2>5, <3>1, StartIs
  <2>7. Ended(s, e)
    <3>1. PICK r \in a..p : s[r] \notin Blanks
      BY <1>0
    <3>2. r \in a..(e - 1)
      BY <1>0, <1>1, <2>4, <3>1
    <3> QED BY <2>4, <2>6, <3>1, <3>2 DEF Ended
  <2>8. e \in Ends(s, q) /\ e \notin Ends(s, p) /\ Ends(s, p) \in SUBSET Ends(s, q)
    BY <1>0, <2>4, <2>7 DEF Ends
  <2>9. Cardinality(Ends(s, p)) = Cardinality(Ends(s, q)) => Ends(s, p) = Ends(s, q)
    BY <1>l, <2>8, FS_Subset
  <2> QED BY <1>l, <2>8, <2>9
<1> QED BY <1>2, <1>3 DEF a

(* What is stored of a text: characters of it that are no newlines. *)
LEMMA BytesAre ==
  ASSUME NEW s \in Seq(Codes)
  PROVE  /\ IsFiniteSet(Shown(s)) /\ IsFiniteSet(Bytes(s)) /\ Bytes(s) \in SUBSET Shown(s)
         /\ Shown(s) \in SUBSET (1..Len(s)) /\ Shown(s) \in IntSets
         /\ \A p \in Shown(s) : p \in 1..Len(s) /\ p \in Nat \ {0} /\ p \in Int /\ s[p] \in Codes /\ s[p] # NL
<1>0. Len(s) \in Nat
  OBVIOUS
<1>1. IsFiniteSet(1..Len(s))
  BY <1>0, FS_Interval
<1>2. Shown(s) \in SUBSET (1..Len(s)) /\ Bytes(s) \in SUBSET Shown(s) /\ \A p \in Shown(s) : s[p] # NL
  BY DEF Shown, Bytes
<1>3. IsFiniteSet(Shown(s)) /\ IsFiniteSet(Bytes(s))
  BY <1>1, <1>2, FS_Subset
<1>4. \A p \in 1..Len(s) : p \in 1..Len(s) /\ p \in Nat \ {0} /\ p \in Int /\ s[p] \in Codes
  BY <1>0, ElementOfSeq
<1> QED BY <1>2, <1>3, <1>4, IntSet

(* The letters of a word, when its line spells what it has of bytes. *)
LEMMA LineLetters ==
  ASSUME NEW s \in Seq(Codes), NEW l \in Nat, NEW T, T = LineBytes(s, l), NEW p \in T
  PROVE  LET letters == Letters(s, Shown(s), p)
         IN  /\ letters # {} <=> RankIn(T, p) \in WordStarts(Spelt(s, T))
             /\ letters # {} => letters = Picked(T, RunAt(Spelt(s, T), RankIn(T, p)))
<1> DEFINE here == {q \in Shown(s) : LineStart(s, q) = LineStart(s, p)}
           B == {q \in here : q \notin T}
<1>1. /\ T \in SUBSET Bytes(s) /\ T \in SUBSET Shown(s) /\ T \in IntSets /\ IsFiniteSet(T)
      /\ \A q \in T : s[q] \in Codes
  <2>1. T \in SUBSET Bytes(s)
    BY DEF LineBytes
  <2> QED BY <2>1, BytesAre, FS_Subset, IntSet
<1>2. \A q \in Shown(s) : q \in 1..Len(s) /\ q \in Nat \ {0} /\ q \in Int /\ s[q] # NL
  BY BytesAre
<1>3. \A q \in T : q \in here
  <2> SUFFICES ASSUME NEW q \in T PROVE LineStart(s, q) = LineStart(s, p)
    BY <1>1
  <2>1. q \in Bytes(s) /\ p \in Bytes(s) /\ q \in Shown(s) /\ p \in Shown(s) /\ LineOf(s, p) = LineOf(s, q)
    BY <1>1 DEF LineBytes
  <2>2. CASE p <= q
    BY <2>1, <2>2, SameLine
  <2>3. CASE q <= p
    BY <2>1, <2>3, SameLine
  <2> QED BY <1>2, <2>1, <2>2, <2>3
<1>4. ASSUME NEW x \in B, NEW q \in T PROVE s[x] \in Blanks /\ x < q
  <2> DEFINE a == LineStart(s, p)
  <2>1. x \in Shown(s) /\ LineStart(s, x) = a /\ x \notin T /\ LineStart(s, q) = a /\ q \in Bytes(s)
    BY <1>1, <1>3
  <2>2. x \in Nat \ {0} /\ q \in Nat \ {0} /\ x \in Int /\ q \in Int
    BY <1>1, <1>2, <2>1
  <2>3. a \in 1..x /\ a \in 1..q
    BY <2>1, <2>2, StartIs
  <2> HIDE DEF a
  <2>4. x \notin Bytes(s)
    <3> SUFFICES ASSUME x \in Bytes(s) PROVE FALSE
      OBVIOUS
    <3>1. q \in Shown(s) /\ LineOf(s, q) = l
      BY <1>1 DEF LineBytes
    <3>2. LineOf(s, x) = LineOf(s, q)
      <4>1. CASE x <= q
        BY <2>1, <3>1, <4>1, SameLine
      <4>2. CASE q <= x
        BY <2>1, <3>1, <4>2, SameLine
      <4> QED BY <2>2, <4>1, <4>2
    <3> QED BY <2>1, <3>1, <3>2 DEF LineBytes
  <2>5. \A r \in a..x : s[r] \in Blanks
    BY <2>1, <2>4 DEF Bytes
  <2>6. PICK r \in a..q : s[r] \notin Blanks
    BY <2>1 DEF Bytes
  <2>7. ~(r <= x)
    BY <2>3, <2>5, <2>6
  <2>8. r \in Int
    BY <2>3
  <2> QED BY <2>2, <2>3, <2>5, <2>6, <2>7, <2>8
<1>6. Letters(s, Shown(s), p) = LettersIn(s, here, p)
  BY DEF Letters, LettersIn
<1>7. Leading(s, here, T)
  BY <1>2, <1>3, <1>4, IntSet DEF Leading
<1> HIDE DEF B, here
<1>8. /\ LettersIn(s, here, p) # {} <=> RankIn(T, p) \in WordStarts(Spelt(s, T))
      /\ LettersIn(s, here, p) # {} => LettersIn(s, here, p) = Picked(T, RunAt(Spelt(s, T), RankIn(T, p)))
  BY <1>1, <1>7, WordLetters
<1> QED BY <1>6, <1>8

(* The words of a line. *)
LEMMA TokensAre ==
  ASSUME NEW D, NEW line \in Seq(D)
  PROVE  /\ WordStarts(line) \in SUBSET (1..Len(line)) /\ IsFiniteSet(WordStarts(line))
         /\ Cardinality(WordStarts(line)) \in Nat
         /\ Tokens(line) \in Seq(Seq(D)) /\ Len(Tokens(line)) = Cardinality(WordStarts(line))
         /\ \A m \in 1..Len(Tokens(line)) :
              /\ Nth(WordStarts(line), m) \in WordStarts(line)
              /\ \E a \in 1..Len(line) : \E c \in a..Len(line) :
                   /\ a = Nth(WordStarts(line), m) /\ RunAt(line, a) = a..c
                   /\ Tokens(line)[m] = SubSeq(line, a, c)
         /\ \A m \in 1..Len(Tokens(line)) : Tokens(line)[m] # <<>> /\ Tokens(line)[m] \in Seq(D)
<1> DEFINE A == WordStarts(line)
           n == Cardinality(A)
           Word_(m) == SubSeq(line, Nth(A, m), Nth(A, m) + Cardinality(RunAt(line, Nth(A, m))) - 1)
<1>0. Len(line) \in Nat
  OBVIOUS
<1>1. A \in SUBSET (1..Len(line)) /\ A \in IntSets /\ IsFiniteSet(A) /\ n \in Nat
  <2>1. A \in SUBSET (1..Len(line))
    BY DEF WordStarts
  <2>2. IsFiniteSet(1..Len(line))
    BY <1>0, FS_Interval
  <2>3. \A x \in 1..Len(line) : x \in Int
    OBVIOUS
  <2> HIDE DEF A
  <2> QED BY <2>1, <2>2, <2>3, FS_Subset, FS_CardinalityType, IntSet
<1>2. Tokens(line) = [m \in 1..n |-> Word_(m)]
  BY TokensIs
<1>a. \A j \in A : RunAt(line, j) # {}
  BY DEF WordStarts
<1> HIDE DEF A, n
<1>3. ASSUME NEW m \in 1..n
      PROVE  /\ Nth(A, m) \in A
             /\ \E a \in 1..Len(line) : \E c \in a..Len(line) :
                  a = Nth(A, m) /\ RunAt(line, a) = a..c /\ Word_(m) = SubSeq(line, a, c)
  <2>1. PICK a : a = Nth(A, m)
    OBVIOUS
  <2>2. a \in A /\ a \in 1..Len(line)
    BY <1>1, <2>1, Ranks DEF n
  <2>3. PICK c : c = a + Cardinality(RunAt(line, a)) - 1
    OBVIOUS
  <2>4. Cardinality(RunAt(line, a)) \in Nat /\ RunAt(line, a) = a..c /\ c <= Len(line) /\ RunAt(line, a) # {}
    BY <1>0, <1>a, <2>2, <2>3, RunIs
  <2>5. c \in Int /\ c \in a..Len(line)
    <3>1. PICK h \in RunAt(line, a) : TRUE
      BY <2>4
    <3>2. c \in Int
      BY <2>2, <2>3, <2>4
    <3>3. h \in a..c
      BY <2>4, <3>1
    <3> QED BY <1>0, <2>2, <2>4, <3>2, <3>3
  <2>6. Word_(m) = SubSeq(line, a, c)
    BY <2>1, <2>3
  <2> QED BY <2>1, <2>2, <2>4, <2>5, <2>6
<1>4. \A m \in 1..n : Word_(m) \in Seq(D) /\ Word_(m) # <<>>
  <2> SUFFICES ASSUME NEW m \in 1..n PROVE Word_(m) \in Seq(D) /\ Word_(m) # <<>>
    OBVIOUS
  <2>1. PICK a \in 1..Len(line) : \E c \in a..Len(line) : Word_(m) = SubSeq(line, a, c)
    BY <1>3
  <2>2. PICK c \in a..Len(line) : Word_(m) = SubSeq(line, a, c)
    BY <2>1
  <2>3. SubSeq(line, a, c) \in Seq(D) /\ Len(SubSeq(line, a, c)) = c - a + 1 /\ c - a + 1 > 0
    BY <1>0, <2>1, <2>2
  <2> HIDE DEF Word_
  <2> QED BY <2>2, <2>3
<1> HIDE DEF Word_
<1>5. Tokens(line) \in Seq(Seq(D)) /\ Len(Tokens(line)) = n /\ \A m \in 1..n : Tokens(line)[m] = Word_(m)
  BY <1>1, <1>2, <1>4
<1> QED BY <1>1, <1>3, <1>4, <1>5 DEF A, n

WordsOf(s) == {p \in Shown(s) : Letters(s, Shown(s), p) # {}}

(* A word begins with a byte. *)
LEMMA WordIsByte ==
  ASSUME NEW s \in Seq(Codes), NEW p \in WordsOf(s)
  PROVE  p \in Bytes(s) /\ p \in Shown(s)
<1>0. p \in Shown(s) /\ Letters(s, Shown(s), p) # {}
  BY DEF WordsOf
<1>1. p \in Nat \ {0} /\ p \in Int
  BY <1>0, BytesAre
<1>2. PICK q \in Letters(s, Shown(s), p) : TRUE
  BY <1>0
<1>3. q \in Shown(s) /\ p <= q /\ s[p] \notin Blanks
  <2> DEFINE here == {x \in Shown(s) : LineStart(s, x) = LineStart(s, p)}
  <2>1. q \in here /\ p <= q /\ \A r \in p..q : r \in here => s[r] \notin Blanks
    BY DEF Letters
  <2>2. p \in here /\ q \in Shown(s)
    BY <1>0, <2>1
  <2>3. q \in Int
    BY <2>2, BytesAre
  <2>4. p \in p..q
    BY <1>1, <2>1, <2>3
  <2> QED BY <2>1, <2>2, <2>4
<1>4. LineStart(s, p) \in 1..p
  BY <1>1, StartIs
<1>5. p \in LineStart(s, p)..p
  BY <1>1, <1>4
<1> QED BY <1>0, <1>3, <1>5 DEF Bytes

(* The words of a line are those that occur in it. *)
LEMMA LineTokens ==
  ASSUME NEW s \in Seq(Codes), NEW l \in Nat, NEW line, line = Spelt(s, LineBytes(s, l))
  PROVE  \E g \in Bijection(1..Len(Tokens(line)), {p \in WordsOf(s) : LineOf(s, p) = l}) :
           \A m \in 1..Len(Tokens(line)) : Tokens(line)[m] = Spelt(s, Letters(s, Shown(s), g[m]))
<1> DEFINE P == {p \in WordsOf(s) : LineOf(s, p) = l}
           A == WordStarts(line)
           M == 1..Len(Tokens(line))
<1>t. PICK T : T = LineBytes(s, l)
  OBVIOUS
<1>1. T \in IntSets /\ IsFiniteSet(T) /\ (\A q \in T : s[q] \in Codes) /\ T \in SUBSET Shown(s)
  <2>1. T \in SUBSET Bytes(s)
    BY <1>t DEF LineBytes
  <2> QED BY <2>1, BytesAre, FS_Subset, IntSet
<1>2. /\ Cardinality(T) \in Nat
      /\ \A q \in T : RankIn(T, q) \in 1..Cardinality(T) /\ Nth(T, RankIn(T, q)) = q
      /\ \A j \in 1..Cardinality(T) : Nth(T, j) \in T /\ RankIn(T, Nth(T, j)) = j
  BY <1>1, Ranks
<1>3. line \in Seq(Codes) /\ Len(line) = Cardinality(T)
  <2>1. line = [h \in 1..Cardinality(T) |-> s[Nth(T, h)]]
    BY <1>t, <1>1, SpeltIs
  <2>2. \A h \in 1..Cardinality(T) : s[Nth(T, h)] \in Codes
    BY <1>1, <1>2
  <2> QED BY <1>2, <2>1, <2>2
<1>4. /\ A \in SUBSET (1..Len(line)) /\ IsFiniteSet(A) /\ Cardinality(A) \in Nat /\ A \in IntSets
      /\ Len(Tokens(line)) = Cardinality(A) /\ Len(Tokens(line)) \in Nat
  <2>1. A \in SUBSET (1..Len(line)) /\ IsFiniteSet(A) /\ Cardinality(A) \in Nat
        /\ Len(Tokens(line)) = Cardinality(A)
    BY <1>3, TokensAre
  <2>2. \A x \in 1..Len(line) : x \in Int
    BY <1>3
  <2> QED BY <2>1, <2>2, IntSet
<1>5. /\ \A j \in 1..Len(Tokens(line)) : Nth(A, j) \in A /\ RankIn(A, Nth(A, j)) = j
      /\ \A q \in A : RankIn(A, q) \in 1..Len(Tokens(line)) /\ Nth(A, RankIn(A, q)) = q
  BY <1>4, Ranks
<1>6. \A p \in T : /\ Letters(s, Shown(s), p) # {} <=> RankIn(T, p) \in A
                   /\ Letters(s, Shown(s), p) # {} => Letters(s, Shown(s), p) = Picked(T, RunAt(line, RankIn(T, p)))
  <2> SUFFICES ASSUME NEW p \in T
      PROVE  /\ Letters(s, Shown(s), p) # {} <=> RankIn(T, p) \in A
             /\ Letters(s, Shown(s), p) # {} => Letters(s, Shown(s), p) = Picked(T, RunAt(line, RankIn(T, p)))
    OBVIOUS
  <2>1. line = Spelt(s, T)
    BY <1>t
  <2> QED BY <1>t, <2>1, LineLetters
<1>7. P = {p \in T : RankIn(T, p) \in A}
  <2>1. ASSUME NEW p \in P PROVE p \in T
    BY <1>t, WordIsByte DEF LineBytes
  <2>2. ASSUME NEW p \in T, RankIn(T, p) \in A PROVE p \in P
    BY <1>t, <1>1, <1>6, <2>2 DEF WordsOf, LineBytes
  <2>3. ASSUME NEW p \in P PROVE RankIn(T, p) \in A
    BY <1>6, <2>1 DEF WordsOf
  <2> HIDE DEF P
  <2> QED BY <2>1, <2>2, <2>3
<1> HIDE DEF P, A
<1> DEFINE g == [m \in M |-> Nth(T, Nth(A, m))]
<1>8. \A m \in M : Nth(A, m) \in A /\ Nth(A, m) \in 1..Cardinality(T) /\ g[m] \in T /\ RankIn(T, g[m]) = Nth(A, m)
                   /\ g[m] \in P
  <2> SUFFICES ASSUME NEW m \in M
      PROVE Nth(A, m) \in A /\ Nth(A, m) \in 1..Cardinality(T) /\ g[m] \in T /\ RankIn(T, g[m]) = Nth(A, m)
            /\ g[m] \in P
    OBVIOUS
  <2>1. Nth(A, m) \in A /\ Nth(A, m) \in 1..Cardinality(T)
    BY <1>3, <1>4, <1>5
  <2>2. g[m] = Nth(T, Nth(A, m))
    OBVIOUS
  <2>3. g[m] \in T /\ RankIn(T, g[m]) = Nth(A, m)
    BY <1>2, <2>1, <2>2
  <2> QED BY <1>7, <2>1, <2>3
<1>9. g \in Bijection(M, P)
  <2>1. g \in [M -> P]
    BY <1>8
  <2>2. ASSUME NEW m \in M, NEW k \in M, g[m] = g[k] PROVE m = k
    <3>1. Nth(A, m) = Nth(A, k)
      BY <1>8, <2>2
    <3> QED BY <1>5, <3>1
  <2>3. ASSUME NEW p \in P PROVE \E m \in M : g[m] = p
    <3>1. p \in T /\ RankIn(T, p) \in A
      BY <1>7
    <3>2. PICK m \in M : m = RankIn(A, RankIn(T, p)) /\ Nth(A, m) = RankIn(T, p)
      BY <1>5, <3>1
    <3>3. g[m] = p
      BY <1>2, <3>1, <3>2
    <3> QED BY <3>3
  <2> HIDE DEF g
  <2> QED BY <2>1, <2>2, <2>3 DEF Bijection, Injection, Surjection, IsInjective
<1>10. ASSUME NEW m \in M PROVE Tokens(line)[m] = Spelt(s, Letters(s, Shown(s), g[m]))
  <2>1. PICK a \in 1..Len(line) : \E c \in a..Len(line) :
          a = Nth(A, m) /\ RunAt(line, a) = a..c /\ Tokens(line)[m] = SubSeq(line, a, c)
    BY <1>3, <1>10, TokensAre DEF A
  <2>2. PICK c \in a..Len(line) :
          a = Nth(A, m) /\ RunAt(line, a) = a..c /\ Tokens(line)[m] = SubSeq(line, a, c)
    BY <2>1
  <2>3. Letters(s, Shown(s), g[m]) = Picked(T, RunAt(line, a))
    <3>1. g[m] \in T /\ RankIn(T, g[m]) = a /\ a \in A
      BY <1>8, <2>2
    <3> QED BY <1>6, <3>1
  <2>4. Letters(s, Shown(s), g[m]) = Picked(T, a..c)
    BY <2>2, <2>3
  <2>5. a \in 1..Cardinality(T) /\ c \in a..Cardinality(T)
    BY <1>3
  <2>6. Spelt(s, Picked(T, a..c)) = SubSeq(Spelt(s, T), a, c)
    BY <1>1, <2>5, SpeltPart
  <2>7. Spelt(s, T) = line
    BY <1>t
  <2> QED BY <2>2, <2>4, <2>6, <2>7
<1> HIDE DEF g
<1> QED BY <1>9, <1>10 DEF P

-----------------------------------------------------------------------------
(* The lines of the layout are the lines of the text. *)

(* The lines are numbered in the order of the text, and the end of a line makes the next. *)
LEMMA LineOfGrows ==
  ASSUME NEW s, NEW p \in Nat \ {0}, NEW q \in Nat \ {0}, p <= q
  PROVE  /\ LineOf(s, p) \in Nat /\ LineOf(s, q) \in Nat /\ LineOf(s, p) <= LineOf(s, q)
         /\ \A e \in p..(q - 1) : Ended(s, e) => LineOf(s, p) < LineOf(s, q)
         /\ (\A e \in p..(q - 1) : ~Ended(s, e)) => LineOf(s, p) = LineOf(s, q)
         /\ Ended(s, p) => LineOf(s, p + 1) = LineOf(s, p) + 1
<1>1. /\ LineOf(s, p) = Cardinality(Ends(s, p)) /\ IsFiniteSet(Ends(s, p)) /\ LineOf(s, p) \in Nat
      /\ LineOf(s, q) = Cardinality(Ends(s, q)) /\ IsFiniteSet(Ends(s, q)) /\ LineOf(s, q) \in Nat
      /\ LineOf(s, p + 1) = Cardinality(Ends(s, p + 1))
  BY LineOfIs
<1>2. Ends(s, p) \in SUBSET Ends(s, q)
  BY DEF Ends
<1>3. LineOf(s, p) <= LineOf(s, q) /\ (LineOf(s, p) = LineOf(s, q) => Ends(s, p) = Ends(s, q))
  BY <1>1, <1>2, FS_Subset
<1>4. ASSUME NEW e \in p..(q - 1), Ended(s, e) PROVE LineOf(s, p) < LineOf(s, q)
  <2>1. e \in Ends(s, q) /\ e \notin Ends(s, p)
    BY <1>4 DEF Ends
  <2> QED BY <1>1, <1>3, <2>1
<1>5. ASSUME \A e \in p..(q - 1) : ~Ended(s, e) PROVE LineOf(s, p) = LineOf(s, q)
  <2>1. Ends(s, p) = Ends(s, q)
    <3>1. ASSUME NEW e \in Ends(s, q) PROVE e \in Ends(s, p)
      <4>1. e \in 1..(q - 1) /\ Ended(s, e)
        BY DEF Ends
      <4>2. ~(e \in p..(q - 1))
        BY <1>5, <4>1
      <4>3. e \in 1..(p - 1)
        BY <4>1, <4>2
      <4> QED BY <4>1, <4>3 DEF Ends
    <3> QED BY <1>2, <3>1
  <2> QED BY <1>1, <2>1
<1>6. ASSUME Ended(s, p) PROVE LineOf(s, p + 1) = LineOf(s, p) + 1
  <2>1. Ends(s, p + 1) = Ends(s, p) \cup {p} /\ p \notin Ends(s, p)
    <3>1. \A e : e \in 1..((p + 1) - 1) <=> (e \in 1..(p - 1) \/ e = p)
      OBVIOUS
    <3>2. p \notin 1..(p - 1)
      OBVIOUS
    <3> QED BY <1>6, <3>1, <3>2 DEF Ends
  <2> QED BY <1>1, <2>1, FS_AddElement
<1> QED BY <1>1, <1>3, <1>4, <1>5, <1>6

Fresh(s, f) == f \in Nat \ {0} /\ (f = 1 \/ s[f - 1] = NL)

(* From a fresh start on, no line starts before it. *)
LEMMA StartFrom ==
  ASSUME NEW s, NEW f, Fresh(s, f), NEW x \in Nat, f <= x
  PROVE  /\ x \in Nat \ {0} /\ LineStart(s, x) \in f..x /\ LineStart(s, x) \in 1..x
         /\ \A r \in LineStart(s, x)..(x - 1) : s[r] # NL
<1>0. f \in Nat \ {0} /\ (f = 1 \/ s[f - 1] = NL) /\ x \in Nat \ {0}
  BY DEF Fresh
<1>1. PICK a : a = LineStart(s, x)
  OBVIOUS
<1>2. a \in 1..x /\ \A r \in a..(x - 1) : s[r] # NL
  BY <1>0, <1>1, StartIs
<1>3. ~(a < f)
  <2> SUFFICES ASSUME a < f PROVE FALSE
    OBVIOUS
  <2>1. f - 1 \in a..(x - 1) /\ f # 1
    BY <1>0, <1>2
  <2> QED BY <1>0, <1>2, <2>1
<1> QED BY <1>0, <1>1, <1>2, <1>3

(* Blanks and empty lines. *)
LEMMA NothingIn ==
  ASSUME NEW s, NEW f, Fresh(s, f), NEW c \in Int, \A x \in f..c : s[x] \in Skipped, NEW x \in f..c
  PROVE  ~Ended(s, x) /\ x \notin Bytes(s)
<1>0. f \in Nat \ {0} /\ x \in Nat /\ f <= x /\ x <= c
  BY DEF Fresh
<1>1. PICK a : a = LineStart(s, x)
  OBVIOUS
<1>2. a \in f..x /\ \A r \in a..(x - 1) : s[r] # NL
  BY <1>0, <1>1, StartFrom
<1>3. \A r \in a..(x - 1) : s[r] \in Blanks
  <2> SUFFICES ASSUME NEW r \in a..(x - 1) PROVE s[r] \in Blanks
    OBVIOUS
  <2>1. r \in f..c /\ s[r] # NL
    BY <1>0, <1>2
  <2> QED BY <2>1 DEF Skipped
<1>4. ~Ended(s, x)
  BY <1>1, <1>3 DEF Ended
<1>5. ASSUME x \in Bytes(s) PROVE FALSE
  <2>1. s[x] # NL /\ \E q \in a..x : s[q] \notin Blanks
    BY <1>1, <1>5 DEF Bytes, Shown
  <2>2. s[x] \in Blanks
    BY <2>1 DEF Skipped
  <2>3. \A q \in a..x : q \in a..(x - 1) \/ q = x
    BY <1>0, <1>2
  <2> QED BY <1>3, <2>1, <2>2, <2>3
<1> QED BY <1>4, <1>5

(* What a line shows is what is seen in it. *)
LEMMA LineShows ==
  ASSUME NEW s \in Seq(Codes), NEW f, Fresh(s, f), NEW b, NEW e, Line(s, f, b, e)
  PROVE  /\ b \in Nat \ {0} /\ e \in Nat \ {0} /\ f <= b /\ b <= e /\ e <= Len(s)
         /\ Ended(s, e) /\ \A x \in f..(e - 1) : ~Ended(s, x)
         /\ \A p \in f..e : p \in Bytes(s) <=> p \in Seen(s, b, e)
<1>0. Len(s) \in Nat /\ f \in Nat \ {0}
  BY DEF Fresh
<1>1. /\ b \in f..Len(s) /\ (\A q \in f..(b - 1) : s[q] \in Skipped) /\ s[b] \notin Skipped
      /\ e \in b..Len(s) /\ s[e] = NL /\ \A q \in b..(e - 1) : s[q] # NL
  BY DEF Line, Begun
<1>2. b \in Nat \ {0} /\ e \in Nat \ {0} /\ f <= b /\ b <= e /\ e <= Len(s) /\ b - 1 \in Int
  BY <1>0, <1>1
<1>3. b < e /\ s[b] \notin Blanks
  BY <1>1, <1>2 DEF Skipped
<1>4. ASSUME NEW p \in b..e
      PROVE  /\ LineStart(s, p) \in f..b /\ \A r \in LineStart(s, p)..(b - 1) : s[r] \in Blanks
  <2>1. PICK a : a = LineStart(s, p)
    OBVIOUS
  <2>2. p \in Nat /\ f <= p
    BY <1>0, <1>2
  <2>3. a \in f..p /\ \A r \in a..(p - 1) : s[r] # NL
    BY <2>1, <2>2, StartFrom
  <2>4. a <= b
    <3> SUFFICES ASSUME b < a PROVE FALSE
      BY <1>2, <2>3
    <3>1. s[a - 1] = NL
      <4>1. a = 1 \/ s[a - 1] = NL
        <5>1. p \in Nat \ {0}
          BY <1>2, <2>2
        <5> QED BY <2>1, <5>1, StartIs
      <4> QED BY <1>2, <2>3, <4>1
    <3>2. a - 1 \in b..(e - 1)
      BY <1>2, <2>3
    <3> QED BY <1>1, <3>1, <3>2
  <2>5. ASSUME NEW r \in a..(b - 1) PROVE s[r] \in Blanks
    <3>1. r \in f..(b - 1) /\ r \in a..(p - 1)
      <4>1. b \in Int /\ e \in Int /\ p \in Int /\ a \in Int /\ f \in Int /\ b <= p /\ f <= a
        BY <1>0, <1>2, <2>2, <2>3
      <4> QED BY <4>1
    <3> QED BY <1>1, <2>3, <3>1 DEF Skipped
  <2>6. a \in f..b
    BY <1>2, <2>3, <2>4
  <2> QED BY <2>1, <2>5, <2>6
<1>5. Ended(s, e)
  <2>1. e \in b..e
    BY <1>2
  <2>2. LineStart(s, e) \in f..b
    BY <1>4, <2>1
  <2>3. b \in LineStart(s, e)..(e - 1)
    BY <1>2, <1>3, <2>2
  <2> QED BY <1>1, <1>3, <2>3 DEF Ended
<1>6. ASSUME NEW x \in f..(e - 1) PROVE ~Ended(s, x)
  <2>1. CASE x \in f..(b - 1)
    BY <1>1, <1>2, <2>1, NothingIn
  <2>2. CASE x \notin f..(b - 1)
    <3>1. x \in b..(e - 1)
      BY <1>2, <2>2
    <3> QED BY <1>1, <3>1 DEF Ended
  <2> QED BY <2>1, <2>2
<1>7. ASSUME NEW p \in f..e PROVE p \in Bytes(s) <=> p \in Seen(s, b, e)
  <2>1. CASE p \in f..(b - 1)
    <3>1. p \notin Bytes(s)
      BY <1>1, <1>2, <2>1, NothingIn
    <3>2. p \notin Seen(s, b, e)
      BY <1>2, <2>1 DEF Seen
    <3> QED BY <3>1, <3>2
  <2>2. CASE p = e
    BY <1>1, <1>2, <2>2 DEF Bytes, Shown, Seen
  <2>3. CASE p \in b..(e - 1)
    <3>1. PICK a : a = LineStart(s, p)
      OBVIOUS
    <3>2. a \in f..b /\ (\A r \in a..(b - 1) : s[r] \in Blanks) /\ s[p] # NL /\ p \in 1..Len(s) /\ DOMAIN s = 1..Len(s)
      <4>1. p \in b..e
        BY <1>2, <2>3
      <4> QED BY <1>0, <1>1, <1>2, <1>4, <2>3, <3>1, <4>1
    <3>3. (\E q \in a..p : s[q] = LT /\ \A r \in q..(p - 1) : s[r] # GT) <=> Inside(s, b, p)
      <4>1. ASSUME NEW q \in a..p, s[q] = LT, \A r \in q..(p - 1) : s[r] # GT PROVE Inside(s, b, p)
        <5>1. q \notin a..(b - 1)
          BY <3>2, <4>1 DEF LT, Blanks
        <5>2. q \in b..(p - 1) \/ q = p
          BY <1>2, <2>3, <3>2, <5>1
        <5> QED BY <4>1, <5>2 DEF Inside, Open
      <4>2. ASSUME Inside(s, b, p) PROVE \E q \in a..p : s[q] = LT /\ \A r \in q..(p - 1) : s[r] # GT
        <5>1. CASE s[p] = LT
          <6>1. p \in a..p /\ \A r \in p..(p - 1) : s[r] # GT
            BY <1>2, <2>3, <3>2
          <6> QED BY <5>1, <6>1
        <5>2. CASE Open(s, b, p)
          <6>1. PICK q \in b..(p - 1) : s[q] = LT /\ \A r \in q..(p - 1) : s[r] # GT
            BY <5>2 DEF Open
          <6>2. q \in a..p
            BY <1>2, <2>3, <3>2, <6>1
          <6> QED BY <6>1, <6>2
        <5> QED BY <4>2, <5>1, <5>2 DEF Inside
      <4> QED BY <4>1, <4>2
    <3>4. p \in Shown(s) <=> ~Inside(s, b, p)
      BY <3>1, <3>2, <3>3 DEF Shown
    <3>5. b \in a..p
      BY <1>2, <2>3, <3>2
    <3>6. p \in Bytes(s) <=> p \in Shown(s)
      BY <1>3, <3>1, <3>5 DEF Bytes
    <3>7. p \in Seen(s, b, e) <=> ~Inside(s, b, p)
      BY <2>3 DEF Seen
    <3> QED BY <3>4, <3>6, <3>7
  <2>4. p \in f..(b - 1) \/ p = e \/ p \in b..(e - 1)
    BY <1>2
  <2> QED BY <2>1, <2>2, <2>3, <2>4
<1> QED BY <1>2, <1>5, <1>6, <1>7

(* Line j of the layout is line j - 1 of the text; there are no bytes in others. *)
LEMMA LayoutIs ==
  ASSUME NEW s \in Seq(Codes), NEW sizes, NEW starts, NEW ends, NEW m \in Nat,
         Found(s, sizes, starts, ends, m), Rest(s, From(ends, m + 1))
  PROVE  /\ \A j \in 1..m : Seen(s, starts[j], ends[j]) = LineBytes(s, j - 1)
         /\ \A p \in Bytes(s) : LineOf(s, p) \in 0..(m - 1)
         /\ s # <<>> => LinesOf(s) = m
<1>0. Len(s) \in Nat
  OBVIOUS
<1>1. \A j \in 1..m :
        /\ From(ends, j) \in Nat \ {0}
        /\ Line(s, From(ends, j), starts[j], ends[j]) \/ Trailing(s, From(ends, j), starts[j], ends[j])
  BY DEF Found
<1>2. From(ends, 1) = 1 /\ \A j \in 1..m : From(ends, j + 1) = ends[j] + 1
  <2>1. ASSUME NEW j \in 1..m PROVE From(ends, j + 1) = ends[j] + 1
    <3>1. j + 1 # 1 /\ (j + 1) - 1 = j
      OBVIOUS
    <3> QED BY <3>1 DEF From
  <2> QED BY <2>1 DEF From
(* Only the last line has no end. *)
<1>3. ASSUME NEW j \in 1..m, j < m PROVE Line(s, From(ends, j), starts[j], ends[j])
  <2> SUFFICES ASSUME Trailing(s, From(ends, j), starts[j], ends[j]) PROVE FALSE
    BY <1>1
  <2>1. ends[j] = Len(s)
    BY DEF Trailing
  <2>2. From(ends, j + 1) = Len(s) + 1 /\ j + 1 \in 1..m
    BY <1>2, <1>3, <2>1
  <2>3. Line(s, From(ends, j + 1), starts[j + 1], ends[j + 1])
        \/ Trailing(s, From(ends, j + 1), starts[j + 1], ends[j + 1])
    BY <1>1, <2>2
  <2> QED BY <1>0, <2>2, <2>3 DEF Line, Begun, Trailing
<1> DEFINE At_(j) == Fresh(s, From(ends, j)) /\ LineOf(s, From(ends, j)) = j - 1
           Good == {n \in Nat : n + 1 \in 1..m => At_(n + 1)}
<1>4. At_(1)
  <2>1. Ends(s, 1) = {}
    BY DEF Ends
  <2>2. LineOf(s, 1) = 0
    BY <2>1, LineOfIs, FS_EmptySet
  <2> QED BY <1>2, <2>2 DEF Fresh
<1>5. ASSUME NEW j \in 1..m, Line(s, From(ends, j), starts[j], ends[j]), At_(j) PROVE At_(j + 1)
  <2>1. PICK f, b, e : f = From(ends, j) /\ b = starts[j] /\ e = ends[j]
    OBVIOUS
  <2>2. Fresh(s, f) /\ Line(s, f, b, e) /\ LineOf(s, f) = j - 1 /\ From(ends, j + 1) = e + 1
    BY <1>2, <1>5, <2>1
  <2>3. /\ e \in Nat \ {0} /\ f <= e /\ Ended(s, e) /\ \A x \in f..(e - 1) : ~Ended(s, x)
    <3>1. /\ b \in Nat \ {0} /\ e \in Nat \ {0} /\ f <= b /\ b <= e
          /\ Ended(s, e) /\ \A x \in f..(e - 1) : ~Ended(s, x)
      BY <2>2, LineShows
    <3>2. f \in Nat
      BY <2>2 DEF Fresh
    <3> QED BY <3>1, <3>2
  <2>4. f \in Nat \ {0}
    BY <2>2 DEF Fresh
  <2>5. LineOf(s, e) = j - 1
    BY <2>2, <2>3, <2>4, LineOfGrows
  <2>6. LineOf(s, e + 1) = j
    <3>1. LineOf(s, e + 1) = LineOf(s, e) + 1
      BY <2>3, LineOfGrows
    <3> QED BY <2>5, <3>1
  <2>7. Fresh(s, e + 1)
    BY <2>3 DEF Fresh, Ended
  <2>8. (j + 1) - 1 = j
    OBVIOUS
  <2> QED BY <2>2, <2>6, <2>7, <2>8
<1>6. \A n \in Nat : n \in Good
  <2>1. 0 \in Good
    BY <1>4
  <2>2. \A n \in Nat : n \in Good => n + 1 \in Good
    <3> SUFFICES ASSUME NEW n \in Nat, n \in Good, (n + 1) + 1 \in 1..m PROVE At_((n + 1) + 1)
      OBVIOUS
    <3>1. n + 1 \in 1..m /\ n + 1 < m
      OBVIOUS
    <3>2. At_(n + 1)
      BY <3>1
    <3>3. Line(s, From(ends, n + 1), starts[n + 1], ends[n + 1])
      BY <1>3, <3>1
    <3> HIDE DEF At_
    <3> QED BY <1>5, <3>1, <3>2, <3>3
  <2> HIDE DEF Good
  <2> QED BY <2>1, <2>2, Induction
<1>7. \A j \in 1..m : At_(j)
  <2> SUFFICES ASSUME NEW j \in 1..m PROVE At_(j)
    OBVIOUS
  <2>1. j - 1 \in Nat /\ (j - 1) + 1 = j
    OBVIOUS
  <2>2. j - 1 \in Good
    BY <1>6, <2>1
  <2> QED BY <2>1, <2>2
<1> HIDE DEF Good, At_
(* What is before a line, in bytes, is in an earlier one. *)
<1>8. ASSUME NEW p \in Bytes(s), NEW j \in 1..(m + 1), At_(j), p < From(ends, j) PROVE LineOf(s, p) < j - 1
  <2>1. p \in Nat \ {0} /\ s[p] # NL
    BY BytesAre
  <2>2. PICK f : f = From(ends, j)
    OBVIOUS
  <2>3. f \in Nat \ {0} /\ LineOf(s, f) = j - 1 /\ f # 1
    BY <1>8, <2>1, <2>2 DEF At_, Fresh
  <2>4. j # 1 /\ j - 1 \in 1..m /\ (j - 1) + 1 = j
    BY <1>2, <2>2, <2>3
  <2>5. Line(s, From(ends, j - 1), starts[j - 1], ends[j - 1]) \/ (j = m + 1 /\ Trailing(s, From(ends, m), starts[m], ends[m]))
    BY <1>1, <1>3, <2>4
  <2>6. CASE Line(s, From(ends, j - 1), starts[j - 1], ends[j - 1])
    <3>1. PICK g, b, e : g = From(ends, j - 1) /\ b = starts[j - 1] /\ e = ends[j - 1]
      OBVIOUS
    <3>2. Fresh(s, g) /\ Line(s, g, b, e) /\ f = e + 1
      <4>1. At_(j - 1)
        BY <1>7, <2>4
      <4>2. From(ends, (j - 1) + 1) = ends[j - 1] + 1
        BY <1>2, <2>4
      <4> QED BY <2>2, <2>4, <2>6, <3>1, <4>1, <4>2 DEF At_
    <3>3. Ended(s, e) /\ e \in Nat \ {0}
      BY <3>2, LineShows
    <3>4. e # p
      BY <2>1, <3>3 DEF Ended
    <3>5. e \in p..(f - 1) /\ p <= f
      BY <1>8, <2>1, <2>2, <3>2, <3>3, <3>4
    <3> QED BY <2>1, <2>3, <3>3, <3>5, LineOfGrows
  <2>7. CASE j = m + 1 /\ Trailing(s, From(ends, m), starts[m], ends[m])
    <3>1. PICK g : g = From(ends, m)
      OBVIOUS
    <3>2. s[Len(s)] # NL /\ ends[m] = Len(s) /\ Len(s) > 0
      BY <2>7 DEF Trailing, Blanks, NL
    <3>3. f = Len(s) + 1
      <4>1. m \in 1..m
        BY <2>4, <2>7
      <4>2. From(ends, m + 1) = ends[m] + 1
        BY <1>2, <4>1
      <4> QED BY <2>2, <2>7, <3>2, <4>2
    <3> QED BY <1>8, <2>2, <2>3, <3>2, <3>3 DEF At_, Fresh
  <2> QED BY <2>5, <2>6, <2>7
<1>9. ASSUME NEW j \in 1..m PROVE Seen(s, starts[j], ends[j]) = LineBytes(s, j - 1)
  <2>1. PICK f, b, e : f = From(ends, j) /\ b = starts[j] /\ e = ends[j]
    OBVIOUS
  <2>2. Fresh(s, f) /\ LineOf(s, f) = j - 1 /\ f \in Nat \ {0} /\ (Line(s, f, b, e) \/ Trailing(s, f, b, e))
    BY <1>1, <1>7, <2>1 DEF At_
  <2>3. \A p \in Bytes(s) : p \in Nat \ {0} /\ p <= Len(s)
    BY <1>0, BytesAre
  <2>4. \A p \in Bytes(s) : p < f => LineOf(s, p) # j - 1
    <3> SUFFICES ASSUME NEW p \in Bytes(s), p < f PROVE LineOf(s, p) # j - 1
      OBVIOUS
    <3>1. j \in 1..(m + 1) /\ At_(j)
      BY <1>7
    <3>2. LineOf(s, p) < j - 1
      BY <1>8, <2>1, <3>1
    <3>3. LineOf(s, p) \in Nat
      BY <2>3, LineOfIs
    <3> QED BY <3>2, <3>3
  <2>5. CASE Line(s, f, b, e)
    <3>1. /\ b \in Nat \ {0} /\ e \in Nat \ {0} /\ f <= b /\ b <= e /\ e <= Len(s)
          /\ Ended(s, e) /\ \A x \in f..(e - 1) : ~Ended(s, x)
          /\ \A p \in f..e : p \in Bytes(s) <=> p \in Seen(s, b, e)
      BY <2>2, <2>5, LineShows
    <3>2. ASSUME NEW p \in f..e PROVE LineOf(s, p) = j - 1
      <4>1. p \in Nat \ {0} /\ f <= p /\ \A x \in f..(p - 1) : ~Ended(s, x)
        BY <2>2, <3>1
      <4> QED BY <2>2, <4>1, LineOfGrows
    <3>3. ASSUME NEW p \in Bytes(s), e < p PROVE LineOf(s, p) # j - 1
      <4>1. p \in Nat \ {0} /\ f <= p /\ e \in f..(p - 1)
        BY <2>2, <2>3, <3>1, <3>3
      <4>2. LineOf(s, f) < LineOf(s, p)
        BY <2>2, <3>1, <4>1, LineOfGrows
      <4>3. LineOf(s, p) \in Nat
        BY <4>1, LineOfIs
      <4> QED BY <2>2, <4>2, <4>3
    <3>4. ASSUME NEW p \in Seen(s, b, e) PROVE p \in LineBytes(s, j - 1)
      <4>1. p \in f..e
        BY <2>2, <3>1 DEF Seen
      <4> QED BY <3>1, <3>2, <4>1 DEF LineBytes
    <3>5. ASSUME NEW p \in LineBytes(s, j - 1) PROVE p \in Seen(s, b, e)
      <4>1. p \in Bytes(s) /\ LineOf(s, p) = j - 1
        BY DEF LineBytes
      <4>2. p \in f..e
        BY <2>2, <2>3, <2>4, <3>1, <3>3, <4>1
      <4> QED BY <3>1, <4>1, <4>2
    <3> QED BY <2>1, <3>4, <3>5
  <2>6. CASE Trailing(s, f, b, e)
    <3>1. b = Len(s) + 1 /\ e = Len(s) /\ \A x \in f..Len(s) : s[x] \in Skipped
      BY <2>6 DEF Trailing
    <3>2. Seen(s, b, e) = {}
      BY <1>0, <3>1 DEF Seen
    <3>3. ASSUME NEW p \in LineBytes(s, j - 1) PROVE FALSE
      <4>1. p \in Bytes(s) /\ LineOf(s, p) = j - 1
        BY DEF LineBytes
      <4>2. p \in f..Len(s)
        BY <1>0, <2>2, <2>3, <2>4, <4>1
      <4> QED BY <1>0, <2>2, <3>1, <4>1, <4>2, NothingIn
    <3> QED BY <2>1, <3>2, <3>3
  <2> QED BY <2>2, <2>5, <2>6
<1>10. ASSUME NEW p \in Bytes(s) PROVE LineOf(s, p) \in 0..(m - 1)
  <2>1. p \in Nat \ {0} /\ p <= Len(s) /\ LineOf(s, p) \in Nat
    BY <1>0, BytesAre, LineOfIs
  <2> SUFFICES LineOf(s, p) < m
    BY <2>1
  <2>2. CASE m > 0 /\ Trailing(s, From(ends, m), starts[m], ends[m])
    <3>1. PICK f : f = From(ends, m)
      OBVIOUS
    <3>2. m \in 1..m /\ m \in 1..(m + 1) /\ At_(m) /\ Fresh(s, f)
      BY <1>7, <2>2, <3>1 DEF At_
    <3>3. \A x \in f..Len(s) : s[x] \in Skipped
      BY <2>2, <3>1 DEF Trailing
    <3>4. p \notin f..Len(s)
      BY <1>0, <3>2, <3>3, NothingIn
    <3>5. p < f
      BY <1>0, <2>1, <3>2, <3>4 DEF Fresh
    <3>6. LineOf(s, p) < m - 1
      BY <1>8, <3>1, <3>2, <3>5
    <3> QED BY <2>1, <3>6
  <2>3. CASE ~(m > 0 /\ Trailing(s, From(ends, m), starts[m], ends[m]))
    <3>1. PICK f : f = From(ends, m + 1)
      OBVIOUS
    <3>2. At_(m + 1)
      <4>1. CASE m = 0
        BY <1>4, <4>1
      <4>2. CASE m # 0
        <5>1. m \in 1..m /\ Line(s, From(ends, m), starts[m], ends[m])
          BY <1>1, <2>3, <4>2
        <5> QED BY <1>5, <1>7, <5>1
      <4> QED BY <4>1, <4>2
    <3>3. Fresh(s, f) /\ \A x \in f..Len(s) : s[x] \in Skipped
      BY <3>1, <3>2 DEF At_, Rest
    <3>4. p \notin f..Len(s)
      BY <1>0, <3>3, NothingIn
    <3>5. p < f /\ m + 1 \in 1..(m + 1)
      BY <1>0, <2>1, <3>3, <3>4 DEF Fresh
    <3>6. LineOf(s, p) < (m + 1) - 1
      BY <1>8, <3>1, <3>2, <3>5
    <3> QED BY <2>1, <3>6
  <2> QED BY <2>2, <2>3
<1>11. ASSUME s # <<>> PROVE LinesOf(s) = m
  <2>1. Len(s) > 0 /\ Len(s) + 1 \in Nat \ {0} /\ Len(s) \in Nat \ {0}
    BY <1>0, <1>11, EmptySeq
  <2>2. CASE m > 0 /\ Trailing(s, From(ends, m), starts[m], ends[m])
    <3>1. PICK f : f = From(ends, m)
      OBVIOUS
    <3>2. m \in 1..m /\ LineOf(s, f) = m - 1 /\ Fresh(s, f) /\ f \in Nat \ {0}
      BY <1>7, <2>2, <3>1 DEF At_, Fresh
    <3>3. f <= Len(s) /\ s[Len(s)] # NL /\ \A x \in f..Len(s) : s[x] \in Skipped
      BY <2>2, <3>1 DEF Trailing, Blanks, NL
    <3>4. \A x \in f..((Len(s) + 1) - 1) : ~Ended(s, x)
      BY <1>0, <3>2, <3>3, NothingIn
    <3>5. LineOf(s, Len(s) + 1) = m - 1
      BY <2>1, <3>2, <3>3, <3>4, LineOfGrows
    <3> QED BY <3>3, <3>5 DEF LinesOf
  <2>3. CASE ~(m > 0 /\ Trailing(s, From(ends, m), starts[m], ends[m]))
    <3>1. PICK f : f = From(ends, m + 1)
      OBVIOUS
    <3>2. At_(m + 1) /\ (m > 0 => s[ends[m]] = NL)
      <4>1. CASE m = 0
        BY <1>4, <4>1
      <4>2. CASE m # 0
        <5>1. m \in 1..m /\ Line(s, From(ends, m), starts[m], ends[m])
          BY <1>1, <2>3, <4>2
        <5>2. s[ends[m]] = NL
          BY <5>1 DEF Line
        <5> QED BY <1>5, <1>7, <5>1, <5>2
      <4> QED BY <4>1, <4>2
    <3>3. /\ Fresh(s, f) /\ (\A x \in f..Len(s) : s[x] \in Skipped) /\ f \in 1..(Len(s) + 1)
          /\ LineOf(s, f) = m /\ (f <= Len(s) => s[Len(s)] = NL)
      BY <3>1, <3>2 DEF At_, Rest
    <3>4. \A x \in f..((Len(s) + 1) - 1) : ~Ended(s, x)
      BY <1>0, <3>3, NothingIn
    <3>5. LineOf(s, Len(s) + 1) = m
      <4>1. f \in Nat \ {0} /\ f <= Len(s) + 1
        BY <1>0, <3>3
      <4> QED BY <2>1, <3>3, <3>4, <4>1, LineOfGrows
    <3>6. s[Len(s)] = NL
      <4>1. CASE f <= Len(s)
        BY <3>3, <4>1
      <4>2. CASE f = Len(s) + 1
        <5>1. m # 0
          BY <1>2, <2>1, <3>1, <4>2
        <5>2. m > 0 /\ m \in Nat \ {0} /\ f = ends[m] + 1
          BY <1>2, <3>1, <5>1
        <5>3. f - 1 = Len(s) /\ f # 1 /\ s[f - 1] = NL
          BY <1>0, <2>1, <3>3, <4>2 DEF Fresh
        <5> QED BY <5>3
      <4> QED BY <1>0, <3>3, <4>1, <4>2
    <3> QED BY <3>5, <3>6 DEF LinesOf
  <2> QED BY <2>2, <2>3
<1> QED BY <1>9, <1>10, <1>11
=============================================================================
