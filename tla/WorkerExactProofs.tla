------------------------- MODULE WorkerExactProofs --------------------------
(***************************************************************************)
(* The index of a worker is exact, whatever the files hold, and so is what *)
(* is counted in it.                                                       *)
(*                                                                         *)
(* The lines that are stored are those of the texts (Filed).  The nodes    *)
(* carry the words of these lines, but of the line that is being inserted  *)
(* only those that have been (Items, TrieInv).  When all files are parsed, *)
(* the words of the lines that are stored are the occurrences in the texts, *)
(* one to one.                                                             *)
(*                                                                         *)
(* The counts are sums over the files (Tally).  The scan of a posting list *)
(* for the file with the most, or least, occurrences knows, after each     *)
(* item, the best of the files before it and what it has counted of its    *)
(* own (ScanState).                                                        *)
(***************************************************************************)
EXTENDS WorkerTrieProofs

-----------------------------------------------------------------------------
(* The lines that are stored are those of the files, ... *)

Whole(s, stored) ==
  /\ Len(stored) = LinesOf(s) /\ \A p \in Bytes(s) : LineOf(s, p) < Len(stored)
  /\ \A l \in 1..Len(stored) : stored[l] = Spelt(s, LineBytes(s, l - 1))
Filed ==
  /\ parsePc = "loop" => Len(lines) = fileID /\ fileID = Len(textfiles)
  /\ \A f \in 1..fileID : f <= Len(textfiles) /\ f <= Len(lines) /\ Whole(textfiles[f].text, lines[f])
  /\ parsePc \in SecondPass =>
       /\ line_sizes # <<>>
       /\ \A l \in 1..Len(lines[fileID + 1]) : lines[fileID + 1][l] = Spelt(text, LineBytes(text, l - 1))
  /\ parsePc = "words" => lines[fileID + 1][lineID + 1] = curline

(* At the start no line is stored. *)
LEMMA InitFiled == IndexInit => Filed
<1> SUFFICES ASSUME IndexInit PROVE Filed
  OBVIOUS
<1>1. fileID = 0 /\ parsePc \in {"loop", "count"} /\ (parsePc = "loop" => textfiles = <<>>) /\ lines = <<>>
  BY DEF IndexInit
<1>2. Len(lines) = 0 /\ (parsePc = "loop" => Len(textfiles) = 0)
  BY <1>1, EmptySeq
<1>3. \A f \in 1..fileID : FALSE
  BY <1>1
<1> QED BY <1>1, <1>2, <1>3 DEF Filed, SecondPass

(* A step that stores no line and stays in the file. *)
LEMMA FiledStays ==
  ASSUME Filed, UNCHANGED <<textfiles, fileID, line_sizes, lines>>,
         parsePc' \in SecondPass => parsePc \in SecondPass, parsePc' = "loop" => parsePc = "loop",
         parsePc' = "words" => parsePc = "words" /\ lineID' = lineID /\ curline' = curline
  PROVE  Filed'
<1>1. text' = text
  BY DEF text
<1> QED BY <1>1 DEF Filed

(* What a line spells are codes. *)
LEMMA LineSpelt ==
  ASSUME NEW s \in Seq(Codes), NEW l
  PROVE  Spelt(s, LineBytes(s, l)) \in Seq(Codes)
<1>1. PICK T : T = LineBytes(s, l)
  OBVIOUS
<1>2. T \in SUBSET Bytes(s)
  BY <1>1 DEF LineBytes
<1>3. T \in IntSets /\ IsFiniteSet(T) /\ \A q \in T : s[q] \in Codes
  BY <1>2, BytesAre, FS_Subset, IntSet
<1>4. Spelt(s, T) = [j \in 1..Cardinality(T) |-> s[Nth(T, j)]]
  BY <1>3, SpeltIs
<1>5. Cardinality(T) \in Nat /\ \A j \in 1..Cardinality(T) : Nth(T, j) \in T
  BY <1>3, Ranks
<1>6. \A j \in 1..Cardinality(T) : s[Nth(T, j)] \in Codes
  BY <1>3, <1>5
<1>7. Spelt(s, T) \in Seq(Codes)
  BY <1>4, <1>5, <1>6
<1> QED BY <1>1, <1>7

(* The text of the file that is parsed holds codes. *)
LEMMA TextCodes ==
  ASSUME Types, parsePc \in Passes
  PROVE  text \in Seq(Codes)
BY TextIsText DEF Codes

(* The line that is stored is the next one of the text. *)
LEMMA FiledStore ==
  ASSUME IndexInv, Filed, StoreLine
  PROVE  Filed' /\ curline \in Seq(Codes)
<1>0. /\ text' = text /\ parsePc = "parseLine" /\ parsePc' = "words" /\ curline' = curline
      /\ UNCHANGED <<textfiles, fileID, line_sizes, lineID>>
      /\ lines' = [lines EXCEPT ![fileID + 1] = Append(@, curline)]
  BY DEF StoreLine, fileVars, text
<1>1. /\ lines \in Seq(Seq(Seq(Int))) /\ fileID \in Nat /\ Len(lines) = fileID + 1 /\ curline \in Seq(Int)
      /\ Len(lines[fileID + 1]) = lineID /\ lineID \in Nat /\ lineID < Len(line_sizes) /\ Len(line_sizes) \in Nat
      /\ text \in Seq(Codes)
  BY <1>0, TextCodes DEF IndexInv, Types, SecondPass, Passes
<1>2. PICK g : g = lines[fileID + 1]
  OBVIOUS
<1>3. g \in Seq(Seq(Int)) /\ Len(g) = lineID
  BY <1>1, <1>2, ElementOfSeq
<1>4. /\ Len(lines') = Len(lines) /\ lines'[fileID + 1] = Append(g, curline)
      /\ \A f \in 1..fileID : lines'[f] = lines[f]
  BY <1>0, <1>1, <1>2
<1>5. Append(g, curline)[lineID + 1] = curline /\ Len(Append(g, curline)) = lineID + 1
      /\ \A l \in 1..lineID : Append(g, curline)[l] = g[l]
  BY <1>1, <1>3
<1>6. curline = Spelt(text, LineBytes(text, lineID))
  <2>1. Parsing'
    BY LineIsWhole DEF IndexInv
  <2>2. PICK m, k \in Nat : m = Len(line_sizes) /\ k = lineID + 1 /\ k \in 1..m /\ k - 1 = lineID
    <3>1. PICK h, m \in Nat : h = lineID /\ m = Len(line_sizes)
      BY <1>1
    <3>2. h + 1 \in 1..m /\ (h + 1) - 1 = h
      BY <1>1, <3>1
    <3> QED BY <3>1, <3>2
  <2>3. PICK starts, ends \in Marks(text, m) :
          /\ Found(text, line_sizes, starts, ends, m) /\ Rest(text, From(ends, m + 1))
          /\ curline = Spelt(text, Seen(text, starts[k], ends[k]))
    BY <1>0, <2>1, <2>2 DEF Parsing, SecondPass
  <2>4. Seen(text, starts[k], ends[k]) = LineBytes(text, k - 1)
    <3>1. \A j \in 1..m : Seen(text, starts[j], ends[j]) = LineBytes(text, j - 1)
      <4>1. text \in Seq(Codes) /\ m \in Nat
        BY <1>1, <2>2
      <4>2. starts \in Marks(text, m) /\ ends \in Marks(text, m)
        BY <2>3
      <4>3. Found(text, line_sizes, starts, ends, m) /\ Rest(text, From(ends, m + 1))
        BY <2>3
      <4> QED BY <4>1, <4>2, <4>3, LayoutIs
    <3> QED BY <2>2, <3>1
  <2> QED BY <2>2, <2>3, <2>4
<1>7. \A l \in 1..(lineID + 1) : Append(g, curline)[l] = Spelt(text, LineBytes(text, l - 1))
  <2> SUFFICES ASSUME NEW l \in 1..(lineID + 1) PROVE Append(g, curline)[l] = Spelt(text, LineBytes(text, l - 1))
    OBVIOUS
  <2>1. CASE l = lineID + 1
    <3>1. l - 1 = lineID
      BY <1>1, <2>1
    <3> QED BY <1>5, <1>6, <2>1, <3>1
  <2>2. CASE l # lineID + 1
    <3>1. l \in 1..lineID
      BY <1>1, <2>2
    <3>2. g[l] = Spelt(text, LineBytes(text, l - 1))
      BY <1>0, <1>1, <1>2, <3>1 DEF Filed, SecondPass
    <3> QED BY <1>5, <3>1, <3>2
  <2> QED BY <2>1, <2>2
<1>8. Filed'
  <2>1. \A f \in 1..fileID : f <= Len(textfiles) /\ f <= Len(lines) /\ Whole(textfiles[f].text, lines[f])
    BY DEF Filed
  <2>2. \A f \in 1..fileID' : f <= Len(textfiles') /\ f <= Len(lines') /\ Whole(textfiles'[f].text, lines'[f])
    BY <1>0, <1>4, <2>1
  <2>3. line_sizes' # <<>>
    BY <1>0 DEF Filed, SecondPass
  <2>4. \A l \in 1..Len(lines'[fileID' + 1]) : lines'[fileID' + 1][l] = Spelt(text', LineBytes(text', l - 1))
    BY <1>0, <1>4, <1>5, <1>7
  <2>5. lines'[fileID' + 1][lineID' + 1] = curline'
    BY <1>0, <1>4, <1>5
  <2> QED BY <1>0, <2>2, <2>3, <2>4, <2>5 DEF Filed
<1>9. curline \in Seq(Codes)
  BY <1>1, <1>6, LineSpelt
<1> QED BY <1>8, <1>9

(* After the last line of a file all its lines are stored. *)
LEMMA FiledFile ==
  ASSUME IndexInv, Filed, Parsed_text
  PROVE  Filed'
<1>0. /\ parsePc = "parse" /\ parsePc' \in {"loop", "count"} /\ ~MoreToParse /\ fileID' = fileID + 1
      /\ UNCHANGED <<textfiles, lines>> /\ (parsePc' = "loop" => fileID' = Len(textfiles))
  BY DEF Parsed_text, mapVars
<1>1. /\ fileID \in Nat /\ fileID < Len(textfiles) /\ Len(textfiles) \in Nat /\ Len(lines) = fileID + 1
      /\ Len(lines[fileID + 1]) = lineID /\ text \in Seq(Codes) /\ Len(line_sizes) \in Nat
      /\ line_sizes \in Seq(Nat)
  BY <1>0, TextCodes DEF IndexInv, Types, SecondPass, Passes
<1>2. lineID = Len(line_sizes)
  BY <1>0, InvAgrees DEF PassesAgree
<1>3. PICK m \in Nat : m = Len(line_sizes)
  BY <1>1
<1>4. PICK starts, ends \in Marks(text, m) :
        Found(text, line_sizes, starts, ends, m) /\ Rest(text, From(ends, m + 1))
  BY <1>0, <1>3 DEF IndexInv, Parsing, SecondPass
<1>5. text # <<>>
  <2>1. 1 \in 1..m
    <3>1. line_sizes # <<>>
      BY <1>0 DEF Filed, SecondPass
    <3> QED BY <1>1, <1>3, <3>1, EmptySeq
  <2>2. /\ Line(text, From(ends, 1), starts[1], ends[1]) \/ Trailing(text, From(ends, 1), starts[1], ends[1])
        /\ From(ends, 1) = 1
    BY <1>4, <2>1 DEF Found, From
  <2>3. Len(text) > 0
    BY <1>1, <2>2 DEF Line, Begun, Trailing, From
  <2> QED BY <2>3
<1>6. Whole(text, lines[fileID + 1])
  <2>1. LinesOf(text) = m /\ \A p \in Bytes(text) : LineOf(text, p) \in 0..(m - 1)
    BY <1>1, <1>4, <1>5, LayoutIs
  <2>2. \A p \in Bytes(text) : LineOf(text, p) < m
    BY <2>1
  <2>3. \A l \in 1..Len(lines[fileID + 1]) : lines[fileID + 1][l] = Spelt(text, LineBytes(text, l - 1))
    BY <1>0 DEF Filed, SecondPass
  <2> QED BY <1>1, <1>2, <1>3, <2>1, <2>2, <2>3 DEF Whole
<1>7. \A f \in 1..(fileID + 1) : f <= Len(textfiles) /\ f <= Len(lines) /\ Whole(textfiles[f].text, lines[f])
  <2> SUFFICES ASSUME NEW f \in 1..(fileID + 1)
               PROVE  f <= Len(textfiles) /\ f <= Len(lines) /\ Whole(textfiles[f].text, lines[f])
    OBVIOUS
  <2>1. CASE f = fileID + 1
    BY <1>1, <1>6, <2>1 DEF text
  <2>2. CASE f # fileID + 1
    <3>1. f \in 1..fileID
      BY <1>1, <2>2
    <3> QED BY <3>1 DEF Filed
  <2> QED BY <2>1, <2>2
<1> QED BY <1>0, <1>1, <1>7 DEF Filed, SecondPass

(* Every step keeps Filed. *)
LEMMA FiledNext == IndexInv /\ Filed /\ [IndexNext]_indexVars => Filed'
<1> SUFFICES ASSUME IndexInv, Filed, [IndexNext]_indexVars PROVE Filed'
  OBVIOUS
<1> USE DEF SecondPass
<1>1. CASE count_lines \/ CountChar \/ CountedLine
  <2>1. /\ parsePc' \notin SecondPass /\ parsePc' # "loop" /\ fileID' = fileID /\ textfiles' = textfiles
        /\ lines' = lines
    BY <1>1 DEF count_lines, CountChar, CountedLine, fileVars, mapVars
  <2> QED BY <2>1 DEF Filed
<1>2. CASE CountedLines
  <2>1. /\ parsePc = "count" /\ UNCHANGED <<textfiles, fileID, line_sizes>>
        /\ \/ parsePc' = "exited" /\ lines' = lines
           \/ parsePc' = "parse" /\ lines' = Append(lines, <<>>) /\ line_sizes # <<>>
    BY <1>2 DEF CountedLines, fileVars
  <2>2. lines \in Seq(Seq(Seq(Int))) /\ Len(lines) = fileID /\ fileID \in Nat
    BY <2>1 DEF IndexInv, Types, FirstPass
  <2>3. CASE parsePc' = "exited" /\ lines' = lines
    BY <2>1, <2>3 DEF Filed
  <2>4. CASE parsePc' = "parse" /\ lines' = Append(lines, <<>>)
    <3>1. Len(lines') = fileID + 1 /\ lines'[fileID + 1] = <<>> /\ \A f \in 1..fileID : lines'[f] = lines[f]
      BY <2>2, <2>4, EmptySeq
    <3>2. \A f \in 1..fileID : f <= Len(textfiles) /\ f <= Len(lines') /\ Whole(textfiles[f].text, lines'[f])
      BY <2>2, <3>1 DEF Filed
    <3>3. Len(lines'[fileID' + 1]) = 0
      BY <2>1, <3>1, EmptySeq
    <3>4. \A l \in 1..Len(lines'[fileID' + 1]) : FALSE
      BY <3>3
    <3> QED BY <2>1, <2>4, <3>2, <3>4 DEF Filed
  <2> QED BY <2>1, <2>3, <2>4
<1>3. CASE parse_text \/ ParseChar \/ InsertedLine
  <2>1. /\ parsePc \in SecondPass /\ parsePc' # "loop" /\ parsePc' # "words"
        /\ UNCHANGED <<textfiles, fileID, line_sizes, lines>>
    BY <1>3 DEF parse_text, ParseChar, InsertedLine, fileVars, mapVars
  <2> QED BY <2>1, FiledStays
<1>4. CASE InsertLetter \/ InsertedWord
  <2>1. UNCHANGED <<textfiles, parsePc, fileID, line_sizes, lineID, curline, lines>>
    BY <1>4 DEF InsertLetter, InsertedWord, fileVars, mapVars
  <2> QED BY <2>1, FiledStays
<1>5. CASE StoreLine
  BY <1>5, FiledStore
<1>6. CASE Parsed_text
  BY <1>6, FiledFile
<1>7. CASE UNCHANGED indexVars
  <2>1. UNCHANGED <<textfiles, parsePc, fileID, line_sizes, lineID, curline, lines>>
    BY <1>7 DEF indexVars, fileVars, mapVars
  <2> QED BY <2>1, FiledStays
<1> QED BY <1>1, <1>2, <1>3, <1>4, <1>5, <1>6, <1>7 DEF IndexNext

-----------------------------------------------------------------------------
(* The words of the lines that are stored, but of the line that is inserted only those that *)
(* have been.                                                                               *)
Item == [word : Seq(Codes), fileID : Nat, lineID : Nat, at : Nat]
LineAt(o) == lines[o.fileID + 1][o.lineID + 1]
Done == Len(Tokens(curline)) - Len(wordsLeft)
Inserting(o) == parsePc = "words" /\ o.fileID = fileID /\ o.lineID = lineID
IsItem(o) ==
  /\ o.fileID < Len(lines) /\ o.lineID < Len(lines[o.fileID + 1])
  /\ o.at \in 1..Len(Tokens(LineAt(o))) /\ o.word = Tokens(LineAt(o))[o.at]
  /\ Inserting(o) => o.at <= Done
Items == {o \in Item : IsItem(o)}

(* The trie leads to these words, and their nodes tell where they are. *)
Of(S, word) == {o \in S : o.word = word}
Carries(ns, first, path, S) ==
  /\ Trie(ns, first, path)
  /\ \A y \in 1..Len(ns) : Exact(ns[y].posting_list, Of(S, path[y]))
  /\ \A o \in S : \E y \in 1..Len(ns) : path[y] = o.word

(* Within a line: the words that are left are the last of it, but of the first of them the *)
(* letters that lead to node previous are gone.                                            *)
InLineWords ==
  /\ curline \in Seq(Codes) /\ wordsLeft \in Seq(Seq(Codes)) /\ Len(wordsLeft) <= Len(Tokens(curline))
  /\ \A i \in 2..Len(wordsLeft) : wordsLeft[i] = Tokens(curline)[Done + i]
  /\ previous \in 0..Len(nodes) /\ curnode = Child(nodes, root, previous)
TrieInv ==
  /\ nodes \in Seq(TrieNode) /\ IsFiniteSet(Items) /\ wordCount = Cardinality(Items)
  /\ parsePc = "words" => InLineWords
  /\ \E path :
       /\ Carries(nodes, root, path, Items)
       /\ parsePc = "words" /\ wordsLeft # <<>> =>
            Word(path, previous) \o Head(wordsLeft) = Tokens(curline)[Done + 1]

(* A step that stores no line and completes no word leaves the items as they are. *)
LEMMA ItemsStay ==
  ASSUME UNCHANGED lines,
         \/ parsePc # "words" /\ parsePc' # "words"
         \/ UNCHANGED <<parsePc, fileID, lineID, curline>> /\ Len(wordsLeft') = Len(wordsLeft)
  PROVE  Items' = Items
<1>1. \A o \in Item : IsItem(o)' <=> IsItem(o)
  BY DEF IsItem, Inserting, Done, LineAt
<1> QED BY <1>1 DEF Items

(* Room for the lines of a file adds no item. *)
LEMMA ItemsOfFile ==
  ASSUME Types, CountedLines
  PROVE  Items' = Items
<1>1. parsePc = "count" /\ parsePc' # "words"
  BY DEF CountedLines
<1>2. CASE lines' = lines
  BY <1>1, <1>2, ItemsStay
<1>3. CASE lines' = Append(lines, <<>>)
  <2>1. lines \in Seq(Seq(Seq(Int)))
    BY DEF Types
  <2>2. Len(lines) \in Nat /\ Len(lines') = Len(lines) + 1 /\ lines'[Len(lines) + 1] = <<>>
        /\ \A i \in 1..Len(lines) : lines'[i] = lines[i]
    BY <1>3, <2>1
  <2>3. Len(lines'[Len(lines) + 1]) = 0
    BY <2>2, EmptySeq
  <2>4. ASSUME NEW o \in Item PROVE IsItem(o)' <=> IsItem(o)
    <3>1. o.fileID \in Nat /\ o.lineID \in Nat
      BY DEF Item
    <3>2. CASE o.fileID < Len(lines)
      <4>1. o.fileID + 1 \in 1..Len(lines) /\ o.fileID < Len(lines')
        BY <2>2, <3>1, <3>2
      <4>2. lines'[o.fileID + 1] = lines[o.fileID + 1]
        BY <2>2, <4>1
      <4> QED BY <1>1, <3>2, <4>1, <4>2 DEF IsItem, Inserting, LineAt
    <3>3. CASE o.fileID = Len(lines)
      <4>1. ~IsItem(o)
        BY <2>2, <3>3 DEF IsItem
      <4>2. ~(o.lineID < Len(lines'[o.fileID + 1]))
        BY <2>3, <3>1, <3>3
      <4>3. ~IsItem(o)'
        BY <4>2 DEF IsItem
      <4> QED BY <4>1, <4>3
    <3>4. CASE o.fileID > Len(lines)
      <4>1. ~(o.fileID < Len(lines)) /\ ~(o.fileID < Len(lines'))
        BY <2>2, <3>1, <3>4
      <4> QED BY <4>1 DEF IsItem
    <3>5. \/ o.fileID < Len(lines) \/ o.fileID = Len(lines) \/ o.fileID > Len(lines)
      <4>1. PICK n, g \in Nat : n = Len(lines) /\ g = o.fileID
        BY <2>2, <3>1
      <4> QED BY <4>1
    <3> QED BY <3>2, <3>3, <3>4, <3>5
  <2> QED BY <2>4 DEF Items
<1> QED BY <1>2, <1>3 DEF CountedLines

(* A line that is stored adds none until its words are inserted. *)
LEMMA ItemsOfLine ==
  ASSUME Types, StoreLine
  PROVE  Items' = Items /\ Done' = 0
<1>0. /\ parsePc = "parseLine" /\ parsePc' = "words" /\ UNCHANGED <<fileID, lineID, curline>>
      /\ lines' = [lines EXCEPT ![fileID + 1] = Append(@, curline)] /\ wordsLeft' = Tokens(curline)
  BY DEF StoreLine, fileVars
<1>1. /\ lines \in Seq(Seq(Seq(Int))) /\ fileID \in Nat /\ Len(lines) = fileID + 1 /\ curline \in Seq(Int)
      /\ Len(lines[fileID + 1]) = lineID /\ lineID \in Nat
  BY <1>0 DEF Types, SecondPass
<1>2. PICK g : g = lines[fileID + 1]
  OBVIOUS
<1>3. g \in Seq(Seq(Int)) /\ Len(g) = lineID
  BY <1>1, <1>2, ElementOfSeq
<1>4. /\ Len(lines') = Len(lines) /\ lines'[fileID + 1] = Append(g, curline)
      /\ \A f \in 1..fileID : lines'[f] = lines[f]
  BY <1>0, <1>1, <1>2
<1>5. Len(Append(g, curline)) = lineID + 1 /\ \A l \in 1..lineID : Append(g, curline)[l] = g[l]
  BY <1>1, <1>3
<1>6. Done' = 0
  <2>1. Len(Tokens(curline)) \in Nat
    BY <1>1, TokensAre
  <2> QED BY <1>0, <2>1 DEF Done
<1>7. ASSUME NEW o \in Item PROVE IsItem(o)' <=> IsItem(o)
  <2>1. o.fileID \in Nat /\ o.lineID \in Nat /\ o.at \in Nat
    BY DEF Item
  <2>2. CASE o.fileID # fileID
    <3>1. o.fileID < Len(lines) => o.fileID + 1 \in 1..fileID
      BY <1>1, <2>1, <2>2
    <3>2. o.fileID < Len(lines) => lines'[o.fileID + 1] = lines[o.fileID + 1]
      BY <1>4, <3>1
    <3> QED BY <1>0, <1>4, <2>2, <3>2 DEF IsItem, Inserting, LineAt
  <2>3. CASE o.fileID = fileID /\ o.lineID # lineID
    <3>1. lines'[o.fileID + 1] = Append(g, curline) /\ lines[o.fileID + 1] = g
      BY <1>2, <1>4, <2>3
    <3>2. o.lineID < Len(Append(g, curline)) <=> o.lineID < Len(g)
      BY <1>1, <1>3, <1>5, <2>1, <2>3
    <3>3. o.lineID < Len(g) => Append(g, curline)[o.lineID + 1] = g[o.lineID + 1]
      BY <1>1, <1>3, <1>5, <2>1, <2>3
    <3> QED BY <1>0, <1>4, <2>3, <3>1, <3>2, <3>3 DEF IsItem, Inserting, LineAt
  <2>4. CASE o.fileID = fileID /\ o.lineID = lineID
    <3>1. ~IsItem(o)
      BY <1>1, <2>4 DEF IsItem
    <3>2. Inserting(o)' /\ (o.at \in 1..Len(Tokens(LineAt(o)))' => ~(o.at <= Done'))
      BY <1>0, <1>6, <2>1, <2>4 DEF Inserting
    <3>3. ~IsItem(o)'
      BY <3>2 DEF IsItem
    <3> QED BY <3>1, <3>3
  <2> QED BY <2>2, <2>3, <2>4
<1> QED BY <1>6, <1>7 DEF Items

(* The last word of a line was the last item of it. *)
LEMMA ItemsOfWords ==
  ASSUME Types, Filed, InLineWords, InsertedLine
  PROVE  Items' = Items
<1>0. /\ parsePc = "words" /\ parsePc' = "parse" /\ lines' = lines /\ wordsLeft = <<>>
      /\ lines[fileID + 1][lineID + 1] = curline
  BY DEF InsertedLine, Filed, mapVars
<1>1. Done = Len(Tokens(curline))
  <2>1. Len(Tokens(curline)) \in Nat
    BY TokensAre DEF InLineWords
  <2>2. PICK n \in Nat : n = Len(Tokens(curline))
    BY <2>1
  <2>3. Len(wordsLeft) = 0 /\ n - 0 = n
    BY <1>0, EmptySeq
  <2> QED BY <2>2, <2>3 DEF Done
<1>2. ASSUME NEW o \in Item PROVE IsItem(o)' <=> IsItem(o)
  <2>1. Inserting(o) => LineAt(o) = curline
    BY <1>0 DEF Inserting, LineAt
  <2>2. Len(Tokens(curline)) \in Nat /\ o.at \in Nat
    BY TokensAre DEF InLineWords, Item
  <2>3. o.at \in 1..Len(Tokens(curline)) => o.at <= Done
    BY <1>1, <2>2
  <2>4. o.at \in 1..Len(Tokens(LineAt(o))) => (Inserting(o) => o.at <= Done)
    BY <2>1, <2>3
  <2>5. ~Inserting(o)' /\ LineAt(o)' = LineAt(o)
    BY <1>0 DEF Inserting, LineAt
  <2> QED BY <1>0, <2>4, <2>5 DEF IsItem
<1> QED BY <1>2 DEF Items

(* What a word that is inserted adds. *)
NewItem == [word |-> Tokens(curline)[Done + 1], fileID |-> fileID, lineID |-> lineID, at |-> Done + 1]

(* A word that is inserted adds one item, and it is the last in file and line. *)
LEMMA ItemsOfWord ==
  ASSUME Types, Filed, InLineWords, InsertedWord
  PROVE  /\ NewItem \in Item /\ NewItem \notin Items /\ Items' = Items \cup {NewItem}
         /\ Done \in Nat /\ Done' = Done + 1 /\ Done + 1 <= Len(Tokens(curline))
         /\ Tokens(curline)[Done + 1] \in Seq(Codes) /\ Tokens(curline)[Done + 1] # <<>>
         /\ \A o \in Items : Not_after(o, fileID, lineID)
<1>0. /\ parsePc = "words" /\ UNCHANGED <<parsePc, fileID, lineID, curline, lines>>
      /\ wordsLeft # <<>> /\ wordsLeft' = Tail(wordsLeft)
  BY DEF InsertedWord, fileVars
<1>1. /\ fileID \in Nat /\ lineID \in Nat /\ Len(lines) = fileID + 1 /\ Len(lines[fileID + 1]) = lineID + 1
      /\ lines[fileID + 1][lineID + 1] = curline
  BY <1>0 DEF Types, SecondPass, Filed
<1>2. /\ Tokens(curline) \in Seq(Seq(Codes)) /\ Len(Tokens(curline)) \in Nat
      /\ \A m \in 1..Len(Tokens(curline)) : Tokens(curline)[m] # <<>>
  BY TokensAre DEF InLineWords
<1>3. /\ wordsLeft \in Seq(Seq(Codes)) /\ Len(wordsLeft) \in Nat /\ Len(wordsLeft) >= 1
      /\ Len(wordsLeft') = Len(wordsLeft) - 1
  BY <1>0, EmptySeq DEF InLineWords
<1>4. Done \in Nat /\ Done' = Done + 1 /\ Done + 1 <= Len(Tokens(curline)) /\ Done + 1 \in Nat
      /\ Done + 1 \in 1..Len(Tokens(curline))
  BY <1>0, <1>2, <1>3 DEF Done, InLineWords
<1>5. Tokens(curline)[Done + 1] \in Seq(Codes) /\ Tokens(curline)[Done + 1] # <<>>
  BY <1>2, <1>4, ElementOfSeq
<1>6. NewItem \in Item
  BY <1>1, <1>4, <1>5 DEF Item, NewItem
<1>7. /\ NewItem.word = Tokens(curline)[Done + 1] /\ NewItem.fileID = fileID /\ NewItem.lineID = lineID
      /\ NewItem.at = Done + 1
  BY DEF NewItem
<1>8. NewItem \notin Items
  BY <1>0, <1>4, <1>7 DEF Items, IsItem, Inserting
<1>10. ASSUME NEW o \in Item PROVE IsItem(o)' <=> IsItem(o) \/ o = NewItem
  <2>1. Inserting(o)' <=> Inserting(o)
    BY <1>0 DEF Inserting
  <2>2. LineAt(o)' = LineAt(o)
    BY <1>0 DEF LineAt
  <2>3. CASE ~Inserting(o)
    <3>1. o # NewItem
      BY <1>0, <1>7, <2>3 DEF Inserting
    <3> QED BY <1>0, <2>1, <2>2, <2>3, <3>1 DEF IsItem
  <2>4. CASE Inserting(o)
    <3>1. o.fileID = fileID /\ o.lineID = lineID /\ LineAt(o) = curline /\ o.at \in Nat
      BY <1>1, <2>4 DEF Inserting, LineAt, Item
    <3>2. o.fileID < Len(lines) /\ o.lineID < Len(lines[o.fileID + 1])
      BY <1>1, <3>1
    <3>3. IsItem(o) <=> o.at \in 1..Done /\ o.word = Tokens(curline)[o.at]
      BY <1>2, <1>4, <2>4, <3>1, <3>2 DEF IsItem
    <3>4. IsItem(o)' <=> o.at \in 1..(Done + 1) /\ o.word = Tokens(curline)[o.at]
      <4>1. IsItem(o)' <=> /\ o.at \in 1..Len(Tokens(curline)) /\ o.word = Tokens(curline)[o.at]
                           /\ o.at <= Done + 1
        BY <1>0, <1>4, <2>1, <2>2, <2>4, <3>1, <3>2 DEF IsItem
      <4> QED BY <1>2, <1>4, <3>1, <4>1
    <3>5. o = NewItem <=> o.at = Done + 1 /\ o.word = Tokens(curline)[o.at]
      <4>1. o = NewItem => o.at = Done + 1 /\ o.word = Tokens(curline)[o.at]
        BY <1>7
      <4>2. ASSUME o.at = Done + 1, o.word = Tokens(curline)[o.at] PROVE o = NewItem
        <5>1. o.word = NewItem.word /\ o.fileID = NewItem.fileID /\ o.lineID = NewItem.lineID /\ o.at = NewItem.at
          BY <1>7, <3>1, <4>2
        <5> QED BY <1>6, <5>1 DEF Item
      <4> QED BY <4>1, <4>2
    <3>6. o.at \in 1..(Done + 1) <=> o.at \in 1..Done \/ o.at = Done + 1
      BY <1>4, <3>1
    <3> QED BY <3>3, <3>4, <3>5, <3>6
  <2> QED BY <2>3, <2>4
<1>11. Items' = Items \cup {NewItem}
  BY <1>6, <1>10 DEF Items
<1>12. \A o \in Items : Not_after(o, fileID, lineID)
  <2> SUFFICES ASSUME NEW o \in Items PROVE Not_after(o, fileID, lineID)
    OBVIOUS
  <2>1. /\ o.fileID \in Nat /\ o.lineID \in Nat /\ o.fileID < Len(lines) /\ o.lineID < Len(lines[o.fileID + 1])
    BY DEF Items, Item, IsItem
  <2> QED BY <1>1, <2>1 DEF Not_after
<1> QED BY <1>4, <1>5, <1>6, <1>8, <1>11, <1>12

-----------------------------------------------------------------------------
(* Only the letters of the nodes and what they point to make the trie. *)
SameLinks(ns, ns2) ==
  /\ Len(ns2) = Len(ns)
  /\ \A x \in 1..Len(ns) : ns2[x].letter = ns[x].letter /\ ns2[x].next = ns[x].next /\ ns2[x].down = ns[x].down

(* Another posting list does not change the trie. *)
LEMMA TrieSame ==
  ASSUME NEW ns, NEW ns2, NEW first, NEW path, Trie(ns, first, path), SameLinks(ns, ns2)
  PROVE  Trie(ns2, first, path)
<1> USE DEF SameLinks
<1>1. \A x : Below(ns2, path, x) = Below(ns, path, x)
  BY DEF Below
<1>2. ASSUME NEW x \in 0..Len(ns) PROVE Linked(ns2, Below(ns, path, x), Child(ns2, first, x))
  <2>1. PICK S \in SUBSET (1..Len(ns)) : S = Below(ns, path, x)
    BY DEF Below
  <2>2. Linked(ns, S, Child(ns, first, x))
    BY <2>1 DEF Trie
  <2>3. Child(ns2, first, x) = Child(ns, first, x)
    <3>1. x # NULL => x \in 1..Len(ns)
      BY DEF NULL
    <3> QED BY <3>1 DEF Child
  <2>4. \A l : Higher(ns2, S, l) = Higher(ns, S, l)
    BY DEF Higher
  <2>5. \A z : Lowest(ns2, S, z) <=> Lowest(ns, S, z)
    BY DEF Lowest
  <2>6. \A l, z : Lowest(ns2, Higher(ns, S, l), z) <=> Lowest(ns, Higher(ns, S, l), z)
    BY DEF Lowest, Higher
  <2>7. \A z \in S : Lowest(ns2, Higher(ns2, S, ns2[z].letter), ns2[z].next)
    BY <2>2, <2>4, <2>6 DEF Linked
  <2> QED BY <2>1, <2>2, <2>3, <2>5, <2>7 DEF Linked
<1> QED BY <1>1, <1>2 DEF Trie

-----------------------------------------------------------------------------
(* A letter that is inserted, and a word. *)

(* The first letter of what is left moves to what has been read. *)
LEMMA LettersMove ==
  ASSUME NEW D, NEW w \in Seq(D), NEW h \in Seq(D), h # <<>>
  PROVE  h[1] \in D /\ Append(w, h[1]) \o Tail(h) = w \o h
<1> DEFINE a == Append(w, h[1]) \o Tail(h)
           b == w \o h
<1>1. Len(h) \in Nat /\ Len(h) >= 1 /\ h[1] \in D /\ Tail(h) \in Seq(D) /\ Len(Tail(h)) = Len(h) - 1
      /\ \A i \in 1..(Len(h) - 1) : Tail(h)[i] = h[i + 1]
  BY EmptySeq
<1>2. Append(w, h[1]) \in Seq(D) /\ Len(Append(w, h[1])) = Len(w) + 1 /\ Len(w) \in Nat
      /\ Append(w, h[1])[Len(w) + 1] = h[1] /\ \A i \in 1..Len(w) : Append(w, h[1])[i] = w[i]
  BY <1>1
<1>3. a \in Seq(D) /\ b \in Seq(D) /\ Len(a) = Len(b) /\ Len(b) = Len(w) + Len(h) /\ Len(b) \in Nat
  BY <1>1, <1>2
<1>4. ASSUME NEW i \in 1..Len(b) PROVE a[i] = b[i]
  <2>1. CASE i <= Len(w)
    BY <1>1, <1>2, <1>3, <2>1
  <2>2. CASE i = Len(w) + 1
    <3>1. a[i] = Append(w, h[1])[i]
      BY <1>1, <1>2, <2>2
    <3>2. b[i] = h[i - Len(w)] /\ i - Len(w) = 1
      BY <1>1, <1>2, <2>2
    <3> QED BY <1>2, <2>2, <3>1, <3>2
  <2>3. CASE i > Len(w) + 1
    <3>1. a[i] = Tail(h)[i - (Len(w) + 1)] /\ i - (Len(w) + 1) \in 1..(Len(h) - 1)
      BY <1>1, <1>2, <1>3, <2>3
    <3>2. b[i] = h[i - Len(w)]
      BY <1>1, <1>2, <1>3, <2>3
    <3>3. (i - (Len(w) + 1)) + 1 = i - Len(w)
      BY <1>2
    <3> QED BY <1>1, <3>1, <3>2, <3>3
  <2> QED BY <1>2, <1>3, <2>1, <2>2, <2>3
<1> HIDE DEF a, b
<1>5. a = b
  BY <1>3, <1>4, SeqEqual
<1> QED BY <1>1, <1>5 DEF a, b

(* The first letter is taken from what is left. *)
LEMMA LetterTaken ==
  ASSUME InLineWords, wordsLeft # <<>>, Head(wordsLeft) # <<>>, wordsLeft' = [wordsLeft EXCEPT ![1] = Tail(@)]
  PROVE  /\ Head(wordsLeft) \in Seq(Codes) /\ Head(wordsLeft)[1] \in Codes
         /\ wordsLeft' \in Seq(Seq(Codes)) /\ Len(wordsLeft') = Len(wordsLeft) /\ wordsLeft' # <<>>
         /\ Head(wordsLeft') = Tail(Head(wordsLeft))
         /\ \A i \in 2..Len(wordsLeft) : wordsLeft'[i] = wordsLeft[i]
<1>1. wordsLeft \in Seq(Seq(Codes)) /\ Len(wordsLeft) \in Nat /\ Len(wordsLeft) >= 1
  BY EmptySeq DEF InLineWords
<1>2. PICK h : h = Head(wordsLeft)
  OBVIOUS
<1>3. h = wordsLeft[1] /\ h \in Seq(Codes)
  BY <1>1, <1>2, ElementOfSeq
<1>4. h[1] \in Codes /\ Tail(h) \in Seq(Codes)
  BY <1>2, <1>3, LettersMove
<1>5. /\ wordsLeft' \in Seq(Seq(Codes)) /\ Len(wordsLeft') = Len(wordsLeft) /\ wordsLeft'[1] = Tail(h)
      /\ \A i \in 2..Len(wordsLeft) : wordsLeft'[i] = wordsLeft[i]
  <2>1. wordsLeft' = [wordsLeft EXCEPT ![1] = Tail(h)]
    BY <1>1, <1>3
  <2> QED BY <1>1, <1>4, <2>1
<1>6. wordsLeft' # <<>> /\ Head(wordsLeft') = wordsLeft'[1]
  BY <1>1, <1>5, EmptySeq
<1> QED BY <1>2, <1>3, <1>4, <1>5, <1>6

(* What a step within a word must show: the node it comes to. *)
LEMMA LetterShown ==
  ASSUME TrieInv, parsePc = "words", wordsLeft # <<>>, Head(wordsLeft) # <<>>,
         wordsLeft' = [wordsLeft EXCEPT ![1] = Tail(@)],
         UNCHANGED <<parsePc, fileID, lineID, curline, lines, wordCount>>,
         NEW path, Word(path, previous) \o Head(wordsLeft) = Tokens(curline)[Done + 1],
         Word(path, previous) \in Seq(Codes),
         NEW path2, Carries(nodes', root', path2, Items), nodes' \in Seq(TrieNode),
         previous' \in 1..Len(nodes'), curnode' = nodes'[previous'].down,
         path2[previous'] = Append(Word(path, previous), Head(wordsLeft)[1])
  PROVE  TrieInv'
<1>1. InLineWords
  BY DEF TrieInv
<1>2. /\ Head(wordsLeft) \in Seq(Codes) /\ Head(wordsLeft)[1] \in Codes
      /\ wordsLeft' \in Seq(Seq(Codes)) /\ Len(wordsLeft') = Len(wordsLeft) /\ wordsLeft' # <<>>
      /\ Head(wordsLeft') = Tail(Head(wordsLeft))
      /\ \A i \in 2..Len(wordsLeft) : wordsLeft'[i] = wordsLeft[i]
  BY <1>1, LetterTaken
<1>3. Items' = Items /\ Done' = Done
  BY <1>2, ItemsStay DEF Done
<1>4. previous' # NULL /\ Len(nodes') \in Nat
  BY DEF NULL
<1>5. InLineWords'
  <2>1. curline' \in Seq(Codes) /\ Len(wordsLeft') <= Len(Tokens(curline'))
    BY <1>1, <1>2 DEF InLineWords
  <2>2. \A i \in 2..Len(wordsLeft') : wordsLeft'[i] = Tokens(curline')[Done' + i]
    BY <1>1, <1>2, <1>3 DEF InLineWords
  <2>3. previous' \in 0..Len(nodes') /\ curnode' = Child(nodes', root', previous')
    BY <1>4 DEF Child
  <2> QED BY <1>2, <2>1, <2>2, <2>3 DEF InLineWords
<1>6. Word(path2, previous') \o Head(wordsLeft') = Tokens(curline')[Done' + 1]
  <2>1. Word(path2, previous') = Append(Word(path, previous), Head(wordsLeft)[1])
    BY <1>4 DEF Word
  <2>2. Append(Word(path, previous), Head(wordsLeft)[1]) \o Tail(Head(wordsLeft))
          = Word(path, previous) \o Head(wordsLeft)
    BY <1>2, LettersMove
  <2> QED BY <1>2, <1>3, <2>1, <2>2
<1>7. /\ IsFiniteSet(Items') /\ wordCount' = Cardinality(Items')
  BY <1>3 DEF TrieInv
<1>8. Carries(nodes', root', path2, Items')
  BY <1>3
<1> QED BY <1>5, <1>6, <1>7, <1>8 DEF TrieInv

(* A node that joins carries nothing. *)
LEMMA NothingMore ==
  ASSUME NEW ns, NEW ns2, NEW first, NEW first2, NEW path, NEW path2, NEW S,
         Carries(ns, first, path, S), Trie(ns2, first2, path2), Len(ns) \in Nat, Len(ns2) = Len(ns) + 1,
         \A z \in 1..Len(ns) : path2[z] = path[z] /\ ns2[z].posting_list = ns[z].posting_list,
         ns2[Len(ns) + 1].posting_list = <<>>
  PROVE  Carries(ns2, first2, path2, S)
<1>1. \A z \in 1..Len(ns) : z \in 1..Len(ns2) /\ z # Len(ns) + 1
  OBVIOUS
<1>2. Len(ns) + 1 \in 1..Len(ns2)
  OBVIOUS
<1>3. \A o \in S : \E y \in 1..Len(ns) : path2[y] = o.word
  BY DEF Carries
<1>4. Of(S, path2[Len(ns) + 1]) = {}
  <2> SUFFICES ASSUME NEW o \in S, o.word = path2[Len(ns) + 1] PROVE FALSE
    BY DEF Of
  <2>1. PICK y \in 1..Len(ns) : path2[y] = o.word
    BY <1>3
  <2> QED BY <1>1, <1>2, <2>1 DEF Trie
<1>5. Exact(ns2[Len(ns) + 1].posting_list, Of(S, path2[Len(ns) + 1]))
  <2>1. \A i \in 1..Len(ns2[Len(ns) + 1].posting_list) : FALSE
    BY EmptySeq
  <2> QED BY <1>4, <2>1 DEF Exact
<1>6. \A y \in 1..Len(ns2) : Exact(ns2[y].posting_list, Of(S, path2[y]))
  <2> SUFFICES ASSUME NEW y \in 1..Len(ns2) PROVE Exact(ns2[y].posting_list, Of(S, path2[y]))
    OBVIOUS
  <2>1. CASE y \in 1..Len(ns)
    <3>1. Exact(ns[y].posting_list, Of(S, path[y]))
      BY <2>1 DEF Carries
    <3> QED BY <2>1, <3>1
  <2>2. CASE y = Len(ns) + 1
    BY <1>5, <2>2
  <2> QED BY <2>1, <2>2
<1> QED BY <1>1, <1>3, <1>6 DEF Carries

(* A letter that has a node. *)
LEMMA LetterThere ==
  ASSUME TrieInv, InsertLetter, IsAt(nodes, Row(nodes, curnode), Head(wordsLeft)[1])
  PROVE  TrieInv'
<1> DEFINE row == Row(nodes, curnode)
           letter == Head(wordsLeft)[1]
           j == Place(nodes, row, letter)
<1>0. /\ parsePc = "words" /\ wordsLeft # <<>> /\ Head(wordsLeft) # <<>>
      /\ wordsLeft' = [wordsLeft EXCEPT ![1] = Tail(@)]
      /\ UNCHANGED <<parsePc, fileID, lineID, curline, lines, wordCount>>
      /\ previous' = row[j] /\ curnode' = nodes[row[j]].down /\ root' = root /\ nodes' = nodes
  BY DEF InsertLetter, fileVars, mapVars
<1>1. PICK path : /\ Carries(nodes, root, path, Items)
                  /\ Word(path, previous) \o Head(wordsLeft) = Tokens(curline)[Done + 1]
  BY <1>0 DEF TrieInv
<1>2. InLineWords /\ nodes \in Seq(TrieNode) /\ Trie(nodes, root, path)
  BY <1>0, <1>1 DEF TrieInv, Carries
<1>3. previous \in 0..Len(nodes) /\ curnode = Child(nodes, root, previous) /\ Head(wordsLeft)[1] \in Codes
  BY <1>0, <1>2, LetterTaken DEF InLineWords
<1>4. Word(path, previous) \in Seq(Codes)
  BY <1>2, <1>3, WordsDiffer
<1>5. row[j] \in Below(nodes, path, previous) /\ nodes[row[j]].letter = letter
  <2>1. row = Row(nodes, Child(nodes, root, previous))
    BY <1>3
  <2> HIDE DEF row
  <2> QED BY <1>2, <1>3, <2>1, PlacedBelow
<1> HIDE DEF row, j
<1>6. previous' \in 1..Len(nodes') /\ path[previous'] = Append(Word(path, previous), Head(wordsLeft)[1])
  BY <1>0, <1>5 DEF Below
<1>7. Carries(nodes', root', path, Items) /\ nodes' \in Seq(TrieNode) /\ curnode' = nodes'[previous'].down
  BY <1>0, <1>1, <1>2
<1> QED BY <1>0, <1>1, <1>4, <1>6, <1>7, LetterShown

(* A letter that has none. *)
LEMMA LetterNew ==
  ASSUME TrieInv, InsertLetter, ~IsAt(nodes, Row(nodes, curnode), Head(wordsLeft)[1])
  PROVE  TrieInv'
<1>r. PICK row : row = Row(nodes, curnode)
  OBVIOUS
<1>l. PICK letter, j : letter = Head(wordsLeft)[1] /\ j = Place(nodes, row, letter)
  OBVIOUS
<1> DEFINE y == Len(nodes) + 1
           new == [letter |-> letter, down |-> NULL, next |-> IF j <= Len(row) THEN row[j] ELSE NULL,
                   posting_list |-> <<>>]
           ns == Append(nodes, new)
<1>0. /\ parsePc = "words" /\ wordsLeft # <<>> /\ Head(wordsLeft) # <<>>
      /\ wordsLeft' = [wordsLeft EXCEPT ![1] = Tail(@)]
      /\ UNCHANGED <<parsePc, fileID, lineID, curline, lines, wordCount>>
      /\ nodes' = Link(ns, row, j, y)
      /\ root' = (IF previous = NULL /\ j = 1 THEN y ELSE root) /\ previous' = y /\ curnode' = NULL
  BY <1>r, <1>l DEF InsertLetter, fileVars, mapVars
<1>1. PICK path : /\ Carries(nodes, root, path, Items)
                  /\ Word(path, previous) \o Head(wordsLeft) = Tokens(curline)[Done + 1]
  BY <1>0 DEF TrieInv
<1>2. InLineWords /\ nodes \in Seq(TrieNode) /\ Trie(nodes, root, path) /\ Len(nodes) \in Nat
  BY <1>0, <1>1 DEF TrieInv, Carries
<1>3. previous \in 0..Len(nodes) /\ curnode = Child(nodes, root, previous) /\ letter \in Codes /\ letter \in Int
  <2>1. Head(wordsLeft)[1] \in Codes
    BY <1>0, <1>2, LetterTaken
  <2>2. \A l \in Codes : l \in Int
    BY DEF Codes
  <2> QED BY <1>2, <1>l, <2>1, <2>2 DEF InLineWords
<1>4. Word(path, previous) \in Seq(Codes)
  BY <1>2, <1>3, WordsDiffer
<1>5. PICK S \in SUBSET (1..Len(nodes)) : S = Below(nodes, path, previous)
  BY DEF Below
<1>6. Lists(nodes, S, row)
  BY <1>2, <1>3, <1>5, <1>r, TrieRows
<1>7. ~IsAt(nodes, row, letter)
  BY <1>r, <1>l
<1>8. /\ Len(row) \in Nat /\ j \in Nat /\ 1 <= j /\ j <= Len(row) + 1
      /\ j # 1 => row[j - 1] \in S
      /\ \A i \in 1..Len(row) : row[i] \in 1..Len(nodes)
  <2>1. Len(row) \in Nat /\ j \in 1..(Len(row) + 1) /\ (j # 1 => row[j - 1] \in S)
    <3>1. PICK ns1 \in Seq(TrieNode) : ns1 = nodes
      BY <1>2
    <3>2. S \in SUBSET (1..Len(ns1)) /\ Lists(ns1, S, row) /\ ~IsAt(ns1, row, letter) /\ j = Place(ns1, row, letter)
      BY <1>5, <1>6, <1>7, <1>l, <3>1
    <3>3. Len(row) \in Nat /\ j \in 1..(Len(row) + 1)
      BY <1>3, <3>2, Placed
    <3>4. j # 1 => row[j - 1] \in S
      BY <1>3, <3>2, Placed
    <3> QED BY <3>3, <3>4
  <2>2. \A i \in 1..Len(row) : row[i] \in 1..Len(nodes)
    BY <1>6, ElementOfSeq DEF Lists
  <2> QED BY <2>1, <2>2
<1>9. new \in TrieNode
  <2>1. new.next \in Nat
    <3>1. j <= Len(row) => row[j] \in Nat
      BY <1>2, <1>8
    <3> QED BY <3>1 DEF NULL
  <2>2. <<>> \in Seq(Posting) /\ NULL \in Nat
    BY DEF NULL
  <2> QED BY <1>3, <2>1, <2>2 DEF TrieNode
<1>10. /\ ns \in Seq(TrieNode) /\ Len(ns) = y /\ y \in Nat /\ ns[y] = new
       /\ \A z \in 1..Len(nodes) : ns[z] = nodes[z] /\ z \in 1..y /\ z # y
  BY <1>2, <1>9
<1>n. /\ new.letter = letter /\ new.down = NULL /\ new.next = (IF j <= Len(row) THEN row[j] ELSE NULL)
      /\ new.posting_list = <<>>
  OBVIOUS
<1> HIDE DEF ns, new
<1>v. \A v \in TrieNode : /\ [v EXCEPT !.next = y] \in TrieNode /\ [v EXCEPT !.down = y] \in TrieNode
                          /\ [v EXCEPT !.next = y].letter = v.letter /\ [v EXCEPT !.next = y].next = y
                          /\ [v EXCEPT !.next = y].down = v.down
                          /\ [v EXCEPT !.next = y].posting_list = v.posting_list
                          /\ [v EXCEPT !.down = y].letter = v.letter /\ [v EXCEPT !.down = y].down = y
                          /\ [v EXCEPT !.down = y].next = v.next
                          /\ [v EXCEPT !.down = y].posting_list = v.posting_list
  BY <1>10 DEF TrieNode
<1>e. \A z \in 1..y : ns[z] \in TrieNode
  BY <1>10, ElementOfSeq
<1>11. /\ nodes' \in Seq(TrieNode) /\ Len(nodes') = y
       /\ \A z \in 1..y :
            /\ nodes'[z].letter = ns[z].letter /\ nodes'[z].posting_list = ns[z].posting_list
            /\ nodes'[z].next = (IF j > 1 /\ z = row[j - 1] THEN y ELSE ns[z].next)
            /\ nodes'[z].down = (IF j = 1 /\ z = previous THEN y ELSE ns[z].down)
  <2> DEFINE Goal == /\ nodes' \in Seq(TrieNode) /\ Len(nodes') = y
                     /\ \A z \in 1..y :
                          /\ nodes'[z].letter = ns[z].letter /\ nodes'[z].posting_list = ns[z].posting_list
                          /\ nodes'[z].next = (IF j > 1 /\ z = row[j - 1] THEN y ELSE ns[z].next)
                          /\ nodes'[z].down = (IF j = 1 /\ z = previous THEN y ELSE ns[z].down)
  <2>1. CASE j > 1
    <3>1. PICK x : x = row[j - 1]
      OBVIOUS
    <3>2. x \in 1..y /\ x \in 1..Len(ns)
      BY <1>8, <1>10, <2>1, <3>1
    <3>v. PICK v : v = [ns[x] EXCEPT !.next = y]
      OBVIOUS
    <3>w. /\ v \in TrieNode /\ v.letter = ns[x].letter /\ v.next = y /\ v.down = ns[x].down
          /\ v.posting_list = ns[x].posting_list
      BY <1>e, <1>v, <3>2, <3>v
    <3>3. nodes' = [ns EXCEPT ![x] = v]
      BY <1>0, <2>1, <3>1, <3>2, <3>v DEF Link
    <3>4. nodes' \in Seq(TrieNode) /\ Len(nodes') = y /\ nodes'[x] = v
          /\ \A z \in 1..y : z # x => nodes'[z] = ns[z]
      BY <1>10, <3>2, <3>3, <3>w
    <3>5. ASSUME NEW z \in 1..y
          PROVE  /\ nodes'[z].letter = ns[z].letter /\ nodes'[z].posting_list = ns[z].posting_list
                 /\ nodes'[z].next = (IF j > 1 /\ z = row[j - 1] THEN y ELSE ns[z].next)
                 /\ nodes'[z].down = (IF j = 1 /\ z = previous THEN y ELSE ns[z].down)
      <4>1. CASE z = x
        BY <1>8, <2>1, <3>1, <3>2, <3>4, <3>w, <4>1
      <4>2. CASE z # x
        BY <1>8, <2>1, <3>1, <3>4, <4>2
      <4> QED BY <4>1, <4>2
    <3> QED BY <3>4, <3>5
  <2>2. CASE j = 1 /\ previous = NULL
    <3>1. nodes' = ns
      BY <1>0, <2>2 DEF Link
    <3>2. \A z \in 1..y : z # previous
      BY <1>10, <2>2 DEF NULL
    <3> QED BY <1>10, <2>2, <3>1, <3>2
  <2>3. CASE j = 1 /\ previous # NULL
    <3>2. previous \in 1..y /\ previous \in 1..Len(ns)
      BY <1>2, <1>3, <1>10, <2>3 DEF NULL
    <3>v. PICK v : v = [ns[previous] EXCEPT !.down = y]
      OBVIOUS
    <3>w. /\ v \in TrieNode /\ v.letter = ns[previous].letter /\ v.down = y /\ v.next = ns[previous].next
          /\ v.posting_list = ns[previous].posting_list
      BY <1>e, <1>v, <3>2, <3>v
    <3>3. nodes' = [ns EXCEPT ![previous] = v]
      BY <1>0, <2>3, <3>2, <3>v DEF Link
    <3>4. nodes' \in Seq(TrieNode) /\ Len(nodes') = y /\ nodes'[previous] = v
          /\ \A z \in 1..y : z # previous => nodes'[z] = ns[z]
      BY <1>10, <3>2, <3>3, <3>w
    <3>5. ASSUME NEW z \in 1..y
          PROVE  /\ nodes'[z].letter = ns[z].letter /\ nodes'[z].posting_list = ns[z].posting_list
                 /\ nodes'[z].next = (IF j > 1 /\ z = row[j - 1] THEN y ELSE ns[z].next)
                 /\ nodes'[z].down = (IF j = 1 /\ z = previous THEN y ELSE ns[z].down)
      <4>1. CASE z = previous
        BY <2>3, <3>2, <3>4, <3>w, <4>1
      <4>2. CASE z # previous
        BY <2>3, <3>4, <4>2
      <4> QED BY <4>1, <4>2
    <3> QED BY <3>4, <3>5
  <2> QED BY <1>8, <2>1, <2>2, <2>3
<1>12. Joins(nodes, root, previous, row, j, letter, y, nodes', root')
  <2>1. /\ nodes'[y].letter = letter
        /\ nodes'[y].next = (IF j <= Len(row) THEN row[j] ELSE NULL)
        /\ nodes'[y].down = NULL
    <3>1. y \in 1..y /\ y # previous /\ (j > 1 => y # row[j - 1])
      BY <1>2, <1>3, <1>8, <1>10
    <3>2. /\ nodes'[y].letter = ns[y].letter /\ nodes'[y].next = ns[y].next /\ nodes'[y].down = ns[y].down
      BY <1>11, <3>1
    <3> QED BY <1>10, <1>n, <3>2
  <2>2. \A z \in 1..Len(nodes) :
          /\ nodes'[z].letter = nodes[z].letter
          /\ nodes'[z].next = (IF j > 1 /\ z = row[j - 1] THEN y ELSE nodes[z].next)
          /\ nodes'[z].down = (IF j = 1 /\ z = previous THEN y ELSE nodes[z].down)
    BY <1>10, <1>11
  <2> QED BY <1>0, <1>11, <2>1, <2>2 DEF Joins
<1>13. PICK path2 : /\ Trie(nodes', root', path2) /\ path2[y] = Append(Word(path, previous), letter)
                    /\ \A z \in 1..Len(nodes) : path2[z] = path[z]
  <2>1. Lists(nodes, Below(nodes, path, previous), row) /\ j = Place(nodes, row, letter)
    BY <1>5, <1>6, <1>l
  <2>2. PICK ns2, first2 : ns2 = nodes' /\ first2 = root'
    OBVIOUS
  <2>3. ns2 \in Seq(TrieNode) /\ Joins(nodes, root, previous, row, j, letter, y, ns2, first2)
    BY <1>11, <1>12, <2>2
  <2> HIDE DEF y
  <2>4. Grown(nodes, path, Append(Word(path, previous), letter), y, ns2, first2)
    BY <1>2, <1>3, <1>7, <2>1, <2>3, NodeJoins
  <2> QED BY <2>2, <2>4 DEF Grown
<1>14. Carries(nodes', root', path2, Items)
  <2>1. \A z \in 1..Len(nodes) : path2[z] = path[z] /\ nodes'[z].posting_list = nodes[z].posting_list
    BY <1>10, <1>11, <1>13
  <2>2. nodes'[Len(nodes) + 1].posting_list = <<>>
    <3>1. y \in 1..y
      BY <1>2
    <3> QED BY <1>10, <1>11, <1>n, <3>1
  <2> QED BY <1>1, <1>2, <1>11, <1>13, <2>1, <2>2, NothingMore
<1>15. previous' \in 1..Len(nodes') /\ curnode' = nodes'[previous'].down
       /\ path2[previous'] = Append(Word(path, previous), Head(wordsLeft)[1])
  <2>1. y \in 1..y
    BY <1>2
  <2>2. nodes'[y].down = NULL
    BY <1>12 DEF Joins
  <2> QED BY <1>0, <1>11, <1>13, <1>l, <2>1, <2>2
<1> QED BY <1>0, <1>1, <1>4, <1>11, <1>14, <1>15, LetterShown

-----------------------------------------------------------------------------
(* A word at its place in the trie; every step. *)

(* The node of a word that has been inserted carries its place. *)
Posted(ns, ns2, y, f, l) == ns2 = [ns EXCEPT ![y].posting_list = add_appearance(@, f, l)]
Comes(S, o, word, f, l) ==
  o \notin S /\ o.word = word /\ o.fileID = f /\ o.lineID = l /\ \A x \in S : Not_after(x, f, l)

(* With its place at the node of its word, one item more is carried. *)
LEMMA Carried ==
  ASSUME NEW ns \in Seq(TrieNode), NEW first, NEW path, NEW S, IsFiniteSet(S), Carries(ns, first, path, S),
         NEW f \in Nat, NEW l \in Nat, NEW y \in 1..Len(ns), NEW o, Comes(S, o, path[y], f, l),
         NEW ns2, Posted(ns, ns2, y, f, l)
  PROVE  ns2 \in Seq(TrieNode) /\ Len(ns2) = Len(ns) /\ Carries(ns2, first, path, S \cup {o})
<1> USE DEF Comes
<1>0. /\ Trie(ns, first, path) /\ Len(ns) \in Nat
      /\ \A z \in 1..Len(ns) : Exact(ns[z].posting_list, Of(S, path[z]))
      /\ \A x \in S : \E z \in 1..Len(ns) : path[z] = x.word
  BY DEF Carries
<1>1. ns[y] \in TrieNode
  BY ElementOfSeq
<1>2. PICK posts : posts = ns[y].posting_list
  OBVIOUS
<1>3. posts \in Seq(Posting)
  BY <1>1, <1>2 DEF TrieNode
<1>4. PICK T : T = Of(S, path[y])
  OBVIOUS
<1>5. T \in SUBSET S /\ IsFiniteSet(T) /\ o \notin T /\ \A x \in T : Not_after(x, f, l)
  <2>1. T \in SUBSET S
    BY <1>4 DEF Of
  <2> QED BY <2>1, FS_Subset
<1>6. Exact(posts, T)
  BY <1>0, <1>2, <1>4
<1>7. PICK posts2 : posts2 = add_appearance(posts, f, l)
  OBVIOUS
<1>8. Exact(posts2, T \cup {o}) /\ posts2 \in Seq(Posting)
  <2>1. o.fileID \in Nat /\ o.lineID \in Nat /\ \A x \in T : Not_after(x, o.fileID, o.lineID)
    BY <1>5
  <2>2. /\ Exact(add_appearance(posts, o.fileID, o.lineID), T \cup {o})
        /\ add_appearance(posts, o.fileID, o.lineID) \in Seq(Posting)
    BY <1>3, <1>5, <1>6, <2>1, ExactAdds
  <2> QED BY <1>7, <2>2
<1>9. PICK v : v = [ns[y] EXCEPT !.posting_list = posts2]
  OBVIOUS
<1>10. /\ v \in TrieNode /\ v.posting_list = posts2
       /\ v.letter = ns[y].letter /\ v.next = ns[y].next /\ v.down = ns[y].down
  <2>1. \A u \in TrieNode : /\ [u EXCEPT !.posting_list = posts2] \in TrieNode
                            /\ [u EXCEPT !.posting_list = posts2].posting_list = posts2
                            /\ [u EXCEPT !.posting_list = posts2].letter = u.letter
                            /\ [u EXCEPT !.posting_list = posts2].next = u.next
                            /\ [u EXCEPT !.posting_list = posts2].down = u.down
    BY <1>8 DEF TrieNode
  <2> QED BY <1>1, <1>9, <2>1
<1>11. ns2 = [ns EXCEPT ![y] = v]
  BY <1>2, <1>7, <1>9 DEF Posted
<1>12. /\ ns2 \in Seq(TrieNode) /\ Len(ns2) = Len(ns) /\ ns2[y] = v
       /\ \A z \in 1..Len(ns) : z # y => ns2[z] = ns[z]
  BY <1>10, <1>11
<1>13. Trie(ns2, first, path)
  <2>1. \A x \in 1..Len(ns) : ns2[x].letter = ns[x].letter /\ ns2[x].next = ns[x].next /\ ns2[x].down = ns[x].down
    BY <1>10, <1>12
  <2>2. SameLinks(ns, ns2)
    BY <1>12, <2>1 DEF SameLinks
  <2> QED BY <1>0, <2>2, TrieSame
<1>14. ASSUME NEW z \in 1..Len(ns) PROVE Exact(ns2[z].posting_list, Of(S \cup {o}, path[z]))
  <2>1. CASE z = y
    <3>1. Of(S \cup {o}, path[z]) = T \cup {o}
      BY <1>4, <2>1 DEF Of
    <3> QED BY <1>8, <1>10, <1>12, <2>1, <3>1
  <2>2. CASE z # y
    <3>1. path[z] # o.word
      BY <1>0, <2>2 DEF Trie
    <3>2. Of(S \cup {o}, path[z]) = Of(S, path[z])
      BY <3>1 DEF Of
    <3> QED BY <1>0, <1>12, <2>2, <3>2
  <2> QED BY <2>1, <2>2
<1>15. \A x \in S \cup {o} : \E z \in 1..Len(ns2) : path[z] = x.word
  BY <1>0, <1>12
<1> QED BY <1>12, <1>13, <1>14, <1>15 DEF Carries

(* A word that has been inserted. *)
LEMMA WordInserted ==
  ASSUME Types, Filed, TrieInv, InsertedWord
  PROVE  TrieInv'
<1>0. /\ parsePc = "words" /\ UNCHANGED <<parsePc, fileID, lineID, curline, lines, root>>
      /\ wordsLeft # <<>> /\ Head(wordsLeft) = <<>> /\ wordsLeft' = Tail(wordsLeft)
      /\ nodes' = [nodes EXCEPT ![previous].posting_list = add_appearance(@, fileID, lineID)]
      /\ wordCount' = wordCount + 1 /\ curnode' = root /\ previous' = NULL
  BY DEF InsertedWord, fileVars
<1>1. PICK path : /\ Carries(nodes, root, path, Items)
                  /\ Word(path, previous) \o Head(wordsLeft) = Tokens(curline)[Done + 1]
  BY <1>0 DEF TrieInv
<1>2. /\ InLineWords /\ nodes \in Seq(TrieNode) /\ Trie(nodes, root, path) /\ IsFiniteSet(Items)
      /\ wordCount = Cardinality(Items)
  BY <1>0, <1>1 DEF TrieInv, Carries
<1>3. /\ NewItem \in Item /\ NewItem \notin Items /\ Items' = Items \cup {NewItem}
      /\ Done \in Nat /\ Done' = Done + 1 /\ Done + 1 <= Len(Tokens(curline))
      /\ Tokens(curline)[Done + 1] \in Seq(Codes) /\ Tokens(curline)[Done + 1] # <<>>
      /\ \A o \in Items : Not_after(o, fileID, lineID)
  BY <1>2, ItemsOfWord
<1>4. previous \in 0..Len(nodes) /\ curline \in Seq(Codes) /\ wordsLeft \in Seq(Seq(Codes))
      /\ Len(wordsLeft) <= Len(Tokens(curline)) /\ \A i \in 2..Len(wordsLeft) : wordsLeft[i] = Tokens(curline)[Done + i]
  BY <1>2 DEF InLineWords
<1>5. Word(path, previous) \in Seq(Codes)
  BY <1>2, <1>4, WordsDiffer
<1>6. Word(path, previous) = Tokens(curline)[Done + 1]
  <2>1. \A w \in Seq(Codes) : w \o <<>> = w
    OBVIOUS
  <2> QED BY <1>0, <1>1, <1>5, <2>1
<1>7. previous # NULL /\ previous \in 1..Len(nodes) /\ path[previous] = Tokens(curline)[Done + 1]
  <2>1. previous # NULL
    BY <1>3, <1>6 DEF Word
  <2>2. Len(nodes) \in Nat
    BY <1>2
  <2> QED BY <1>4, <1>6, <2>1, <2>2 DEF Word, NULL
<1>8. fileID \in Nat /\ lineID \in Nat
  BY DEF Types
<1>9. nodes' \in Seq(TrieNode) /\ Len(nodes') = Len(nodes) /\ Carries(nodes', root, path, Items \cup {NewItem})
  <2>1. PICK ns2, S, o : ns2 = nodes' /\ S = Items /\ o = NewItem
    OBVIOUS
  <2>2. Comes(S, o, path[previous], fileID, lineID)
    BY <1>3, <1>7, <2>1 DEF NewItem, Comes
  <2>3. Posted(nodes, ns2, previous, fileID, lineID)
    BY <1>0, <2>1 DEF Posted
  <2>4. IsFiniteSet(S) /\ Carries(nodes, root, path, S)
    BY <1>1, <1>2, <2>1
  <2>5. ns2 \in Seq(TrieNode) /\ Len(ns2) = Len(nodes) /\ Carries(ns2, root, path, S \cup {o})
    BY <1>2, <1>7, <1>8, <2>2, <2>3, <2>4, Carried
  <2> QED BY <2>1, <2>5
<1>10. IsFiniteSet(Items') /\ wordCount' = Cardinality(Items')
  <2>1. IsFiniteSet(Items \cup {NewItem}) /\ Cardinality(Items \cup {NewItem}) = Cardinality(Items) + 1
    BY <1>2, <1>3, FS_AddElement
  <2> QED BY <1>0, <1>2, <1>3, <2>1
<1>11. /\ Len(wordsLeft) \in Nat /\ Len(wordsLeft) >= 1 /\ wordsLeft' \in Seq(Seq(Codes))
       /\ Len(wordsLeft') = Len(wordsLeft) - 1
       /\ \A i \in 1..(Len(wordsLeft) - 1) : wordsLeft'[i] = wordsLeft[i + 1]
  BY <1>0, <1>4, EmptySeq
<1>12. Len(Tokens(curline)) \in Nat /\ Tokens(curline) \in Seq(Seq(Codes))
  BY <1>4, TokensAre
<1>13. \A i \in 1..Len(wordsLeft') : wordsLeft'[i] = Tokens(curline)[Done' + i]
  <2> SUFFICES ASSUME NEW i \in 1..Len(wordsLeft') PROVE wordsLeft'[i] = Tokens(curline)[Done' + i]
    OBVIOUS
  <2>1. i + 1 \in 2..Len(wordsLeft) /\ i \in 1..(Len(wordsLeft) - 1)
    BY <1>11
  <2>2. Done + (i + 1) = Done' + i
    BY <1>3, <1>11
  <2> QED BY <1>4, <1>11, <2>1, <2>2
<1>14. InLineWords'
  <2>1. curline' \in Seq(Codes) /\ wordsLeft' \in Seq(Seq(Codes)) /\ Len(wordsLeft') <= Len(Tokens(curline'))
    BY <1>0, <1>4, <1>11, <1>12
  <2>2. \A i \in 2..Len(wordsLeft') : wordsLeft'[i] = Tokens(curline')[Done' + i]
    BY <1>0, <1>11, <1>13
  <2>3. previous' \in 0..Len(nodes') /\ curnode' = Child(nodes', root', previous')
    <3>1. Len(nodes') \in Nat
      BY <1>9
    <3> QED BY <1>0, <3>1 DEF Child, NULL
  <2> QED BY <2>1, <2>2, <2>3 DEF InLineWords
<1>15. wordsLeft' # <<>> => Word(path, previous') \o Head(wordsLeft') = Tokens(curline')[Done' + 1]
  <2> SUFFICES ASSUME wordsLeft' # <<>> PROVE Word(path, previous') \o Head(wordsLeft') = Tokens(curline')[Done' + 1]
    OBVIOUS
  <2>1. 1 \in 1..Len(wordsLeft') /\ Head(wordsLeft') = wordsLeft'[1]
    BY <1>11, EmptySeq
  <2>2. Head(wordsLeft') = Tokens(curline)[Done' + 1] /\ Head(wordsLeft') \in Seq(Codes)
    BY <1>11, <1>13, <2>1, ElementOfSeq
  <2>3. Word(path, previous') = <<>>
    BY <1>0 DEF Word
  <2> QED BY <1>0, <2>2, <2>3
<1>16. Carries(nodes', root', path, Items')
  BY <1>0, <1>3, <1>9
<1> QED BY <1>9, <1>10, <1>14, <1>15, <1>16 DEF TrieInv

(* A line that has been stored. *)
LEMMA LineStored ==
  ASSUME IndexInv, Filed, TrieInv, StoreLine
  PROVE  TrieInv'
<1>0. /\ parsePc' = "words" /\ UNCHANGED <<curline, root, nodes, wordCount>>
      /\ wordsLeft' = Tokens(curline) /\ curnode' = root /\ previous' = NULL
  BY DEF StoreLine
<1>1. Items' = Items /\ Done' = 0
  BY ItemsOfLine DEF IndexInv
<1>2. curline \in Seq(Codes)
  BY FiledStore
<1>3. Tokens(curline) \in Seq(Seq(Codes)) /\ Len(Tokens(curline)) \in Nat
  BY <1>2, TokensAre
<1>4. PICK path : Carries(nodes, root, path, Items)
  BY DEF TrieInv
<1>5. nodes \in Seq(TrieNode) /\ Len(nodes) \in Nat /\ IsFiniteSet(Items) /\ wordCount = Cardinality(Items)
  BY DEF TrieInv
<1>6. InLineWords'
  <2>1. \A i \in 2..Len(wordsLeft') : wordsLeft'[i] = Tokens(curline')[Done' + i]
    BY <1>0, <1>1, <1>3
  <2>2. previous' \in 0..Len(nodes') /\ curnode' = Child(nodes', root', previous')
    BY <1>0, <1>5 DEF Child, NULL
  <2>3. /\ curline' \in Seq(Codes) /\ wordsLeft' \in Seq(Seq(Codes)) /\ Len(wordsLeft') <= Len(Tokens(curline'))
    BY <1>0, <1>2, <1>3
  <2> QED BY <2>1, <2>2, <2>3 DEF InLineWords
<1>7. wordsLeft' # <<>> => Word(path, previous') \o Head(wordsLeft') = Tokens(curline')[Done' + 1]
  <2> SUFFICES ASSUME wordsLeft' # <<>> PROVE Word(path, previous') \o Head(wordsLeft') = Tokens(curline')[Done' + 1]
    OBVIOUS
  <2>1. 1 \in 1..Len(wordsLeft') /\ Head(wordsLeft') = wordsLeft'[1]
    BY <1>0, <1>3, EmptySeq
  <2>2. Head(wordsLeft') = Tokens(curline)[1] /\ Head(wordsLeft') \in Seq(Codes)
    BY <1>0, <1>3, <2>1, ElementOfSeq
  <2>3. Word(path, previous') = <<>>
    BY <1>0 DEF Word
  <2> QED BY <1>0, <1>1, <2>2, <2>3
<1>8. Carries(nodes', root', path, Items') /\ nodes' \in Seq(TrieNode) /\ IsFiniteSet(Items')
      /\ wordCount' = Cardinality(Items')
  BY <1>0, <1>1, <1>4, <1>5
<1> QED BY <1>6, <1>7, <1>8 DEF TrieInv

(* At the start the trie is empty, and so are the items. *)
LEMMA InitTrie == IndexInit => TrieInv
<1> SUFFICES ASSUME IndexInit PROVE TrieInv
  OBVIOUS
<1>1. lines = <<>> /\ nodes = <<>> /\ root = NULL /\ wordCount = 0 /\ parsePc # "words"
  BY DEF IndexInit
<1>2. Len(lines) = 0 /\ Len(nodes) = 0 /\ nodes \in Seq(TrieNode)
  BY <1>1, EmptySeq
<1>3. Items = {}
  <2> SUFFICES ASSUME NEW o \in Items PROVE FALSE
    OBVIOUS
  <2>1. o.fileID \in Nat /\ o.fileID < Len(lines)
    BY DEF Items, Item, IsItem
  <2> QED BY <1>2, <2>1
<1>4. IsFiniteSet(Items) /\ wordCount = Cardinality(Items)
  BY <1>1, <1>3, FS_EmptySet
<1>5. \E path : Carries(nodes, root, path, Items)
  <2> DEFINE path == [x \in 1..Len(nodes) |-> <<>>]
  <2>1. \A x \in 1..Len(nodes) : FALSE
    BY <1>2
  <2>2. \A x \in 0..Len(nodes) : x = NULL
    BY <1>2 DEF NULL
  <2>3. path \in [1..Len(nodes) -> Seq(Codes)]
    BY <2>1
  <2> HIDE DEF path
  <2>4. \A x : Below(nodes, path, x) = {}
    BY <2>1 DEF Below
  <2>5. \A x \in 0..Len(nodes) : Linked(nodes, Below(nodes, path, x), Child(nodes, root, x))
    BY <1>1, <2>2, <2>4 DEF Linked, Lowest, Child
  <2>6. Trie(nodes, root, path)
    BY <2>1, <2>3, <2>5 DEF Trie
  <2> QED BY <1>3, <2>1, <2>6 DEF Carries
<1> QED BY <1>1, <1>2, <1>4, <1>5 DEF TrieInv

(* A step that leaves the trie alone and is not in a line's words. *)
LEMMA TrieStays ==
  ASSUME TrieInv, UNCHANGED <<nodes, root, wordCount>>, parsePc' # "words", Items' = Items
  PROVE  TrieInv'
BY DEF TrieInv

(* Every step keeps TrieInv. *)
LEMMA TrieNext == IndexInv /\ Filed /\ TrieInv /\ [IndexNext]_indexVars => TrieInv'
<1> SUFFICES ASSUME IndexInv, Filed, TrieInv, [IndexNext]_indexVars PROVE TrieInv'
  OBVIOUS
<1>t. Types
  BY DEF IndexInv
<1>1. CASE count_lines \/ CountChar \/ CountedLine \/ parse_text \/ ParseChar \/ Parsed_text
  <2>1. UNCHANGED <<nodes, root, wordCount, lines>> /\ parsePc # "words" /\ parsePc' # "words"
    BY <1>1 DEF count_lines, CountChar, CountedLine, parse_text, ParseChar, Parsed_text, mapVars, trieVars
  <2> QED BY <2>1, ItemsStay, TrieStays
<1>2. CASE CountedLines
  <2>1. UNCHANGED <<nodes, root, wordCount>> /\ parsePc' # "words"
    BY <1>2 DEF CountedLines, trieVars
  <2> QED BY <1>2, <1>t, <2>1, ItemsOfFile, TrieStays
<1>3. CASE StoreLine
  BY <1>3, LineStored
<1>4. CASE InsertLetter
  BY <1>4, LetterThere, LetterNew
<1>5. CASE InsertedWord
  BY <1>5, <1>t, WordInserted
<1>6. CASE InsertedLine
  <2>1. UNCHANGED <<nodes, root, wordCount>> /\ parsePc' # "words" /\ parsePc = "words"
    BY <1>6 DEF InsertedLine, mapVars, trieVars
  <2>2. InLineWords
    BY <2>1 DEF TrieInv
  <2> QED BY <1>6, <1>t, <2>1, <2>2, ItemsOfWords, TrieStays
<1>7. CASE UNCHANGED indexVars
  <2>1. /\ UNCHANGED <<nodes, root, wordCount, lines, parsePc, fileID, lineID, curline, wordsLeft, previous, curnode>>
    BY <1>7 DEF indexVars, fileVars, mapVars, trieVars
  <2>2. Items' = Items /\ Done' = Done
    BY <2>1, ItemsStay DEF Done
  <2>3. InLineWords => InLineWords'
    BY <2>1, <2>2 DEF InLineWords
  <2> QED BY <2>1, <2>2, <2>3 DEF TrieInv
<1> QED BY <1>1, <1>2, <1>3, <1>4, <1>5, <1>6, <1>7 DEF IndexNext

(* The three invariants, together. *)
LEMMA AlwaysTrie == IndexSpec => [](IndexInv /\ Filed /\ TrieInv)
<1>1. IndexInit => IndexInv /\ Filed /\ TrieInv
  BY InitInv, InitFiled, InitTrie
<1>2. IndexInv /\ Filed /\ TrieInv /\ [IndexNext]_indexVars => (IndexInv /\ Filed /\ TrieInv)'
  BY InvNext, FiledNext, TrieNext
<1> QED BY <1>1, <1>2, PTL DEF IndexSpec

-----------------------------------------------------------------------------
(* From the words of the lines to the words of the texts. *)

(* One to one, ... *)
OneToOne(F, S, T) ==
  /\ \A x \in S : F[x] \in T /\ \A z \in S : F[x] = F[z] => x = z
  /\ \A y \in T : \E x \in S : F[x] = y

(* ... so that the parts that correspond are as large. *)
LEMMA PartsMatch ==
  ASSUME NEW S, IsFiniteSet(S), NEW T, NEW F, OneToOne(F, S, T), NEW A \in SUBSET S, NEW B \in SUBSET T,
         \A x \in S : x \in A <=> F[x] \in B
  PROVE  IsFiniteSet(A) /\ IsFiniteSet(B) /\ Cardinality(B) = Cardinality(A)
<1> DEFINE f == [x \in A |-> F[x]]
<1>1. f \in Bijection(A, B)
  <2>1. f \in [A -> B]
    OBVIOUS
  <2>2. \A x, z \in A : f[x] = f[z] => x = z
    BY DEF OneToOne
  <2>3. \A y \in B : \E x \in A : f[x] = y
    BY DEF OneToOne
  <2> HIDE DEF f
  <2> QED BY <2>1, <2>2, <2>3 DEF Bijection, Injection, Surjection, IsInjective
<1> HIDE DEF f
<1>2. ExistsBijection(A, B)
  BY <1>1 DEF ExistsBijection
<1>3. IsFiniteSet(A)
  BY FS_Subset
<1> QED BY <1>2, <1>3, FS_Bijection

(* The occurrence of a word at p. *)
OccurrenceAt(f, p) ==
  LET s == textfiles[f + 1].text
  IN  [word |-> Spelt(s, Letters(s, Shown(s), p)), fileID |-> f, lineID |-> LineOf(s, p), at |-> p]

(* Where words occur in the files. *)
LEMMA OccurrencesAre ==
  \A o : o \in Occurrences <=> \E f \in Files : \E p \in WordsOf(textfiles[f + 1].text) : o = OccurrenceAt(f, p)
<1> DEFINE In(f) == {OccurrenceAt(f, p) : p \in WordsOf(textfiles[f + 1].text)}
<1>1. Occurrences = UNION {In(f) : f \in Files}
  BY DEF Occurrences, OccurrenceAt, WordsOf
<1> QED BY <1>1

(* The words of a line that is stored are those of the file. *)
Matches(g, f, l) ==
  LET s == textfiles[f + 1].text
      tokens == Tokens(lines[f + 1][l + 1])
  IN  /\ OneToOne(g, 1..Len(tokens), {p \in WordsOf(s) : LineOf(s, p) = l})
      /\ \A m \in 1..Len(tokens) : tokens[m] = Spelt(s, Letters(s, Shown(s), g[m]))

(* When all files are parsed, each has its lines. *)
LEMMA FilesAre ==
  ASSUME Types, Filed, parsePc = "loop", NEW f \in Files
  PROVE  /\ f \in Nat /\ f < Len(lines) /\ textfiles[f + 1].text \in Seq(Codes)
         /\ Whole(textfiles[f + 1].text, lines[f + 1]) /\ Len(lines) = Len(textfiles) /\ Len(lines) \in Nat
<1> DEFINE R == [path : Int, text : Seq(1..255)]
<1>0. Len(textfiles) \in Nat /\ textfiles \in Seq(R) /\ Len(lines) = fileID /\ fileID = Len(textfiles)
  BY DEF Types, Filed
<1>1. f \in Nat /\ f < Len(textfiles) /\ f + 1 \in 1..Len(textfiles)
  BY <1>0 DEF Files
<1>2. textfiles[f + 1] \in R
  <2> HIDE DEF R
  <2> QED BY <1>0, <1>1, ElementOfSeq
<1>3. textfiles[f + 1].text \in Seq(Codes)
  BY <1>2 DEF Codes
<1>4. Whole(textfiles[f + 1].text, lines[f + 1])
  BY <1>0, <1>1 DEF Filed
<1> QED BY <1>0, <1>1, <1>3, <1>4

(* The words of a stored line match those of the text, one to one. *)
LEMMA LinesMatch ==
  ASSUME Types, Filed, parsePc = "loop", NEW f \in Files, NEW l \in Nat, l < Len(lines[f + 1])
  PROVE  /\ lines[f + 1][l + 1] \in Seq(Codes) /\ \E g : Matches(g, f, l)
<1>1. PICK s \in Seq(Codes) : s = textfiles[f + 1].text
  BY FilesAre
<1>2. PICK stored, line : stored = lines[f + 1] /\ line = stored[l + 1]
  OBVIOUS
<1>3. Whole(s, stored)
  BY <1>1, <1>2, FilesAre
<1>4. Len(stored) \in Nat
  <2>1. lines \in Seq(Seq(Seq(Int))) /\ f \in Nat /\ f < Len(lines)
    BY FilesAre DEF Types
  <2>2. lines[f + 1] \in Seq(Seq(Int))
    BY <2>1, ElementOfSeq
  <2> QED BY <1>2, <2>2
<1>5. line = Spelt(s, LineBytes(s, l))
  <2>1. l + 1 \in 1..Len(stored) /\ (l + 1) - 1 = l
    BY <1>2, <1>4
  <2> QED BY <1>2, <1>3, <2>1 DEF Whole
<1>6. line \in Seq(Codes)
  BY <1>5, LineSpelt
<1>7. PICK g \in Bijection(1..Len(Tokens(line)), {p \in WordsOf(s) : LineOf(s, p) = l}) :
        \A m \in 1..Len(Tokens(line)) : Tokens(line)[m] = Spelt(s, Letters(s, Shown(s), g[m]))
  BY <1>5, LineTokens
<1>8. OneToOne(g, 1..Len(Tokens(line)), {p \in WordsOf(s) : LineOf(s, p) = l})
  BY <1>7 DEF Bijection, Injection, Surjection, IsInjective, OneToOne
<1>9. Matches(g, f, l)
  BY <1>1, <1>2, <1>7, <1>8 DEF Matches
<1> QED BY <1>2, <1>6, <1>9

(* The words of the lines that are stored are the occurrences in the files. *)
Alike(F, S) == \A o \in S : F[o].word = o.word /\ F[o].fileID = o.fileID /\ F[o].lineID = o.lineID

(* All items and all occurrences correspond, one to one, ... *)
LEMMA ItemsOccur ==
  ASSUME Types, Filed, parsePc = "loop"
  PROVE  \E F : OneToOne(F, Items, Occurrences) /\ Alike(F, Items)
<1> DEFINE G(f, l) == CHOOSE g : Matches(g, f, l)
           F == [o \in Items |-> OccurrenceAt(o.fileID, G(o.fileID, o.lineID)[o.at])]
<1>1. ASSUME NEW o \in Items
      PROVE  /\ o.fileID \in Files /\ o.lineID \in Nat /\ o.lineID < Len(lines[o.fileID + 1])
             /\ o.at \in 1..Len(Tokens(lines[o.fileID + 1][o.lineID + 1]))
             /\ o.word = Tokens(lines[o.fileID + 1][o.lineID + 1])[o.at] /\ o \in Item
  <2>1. /\ o.fileID \in Nat /\ o.lineID \in Nat /\ o.fileID < Len(lines) /\ o.lineID < Len(lines[o.fileID + 1])
        /\ o \in Item
    BY DEF Items, Item, IsItem
  <2>2. Len(lines) = Len(textfiles) /\ Len(textfiles) \in Nat
    BY DEF Filed, Types
  <2>3. o.fileID \in Files
    BY <2>1, <2>2 DEF Files
  <2> QED BY <2>1, <2>3 DEF Items, IsItem, LineAt
<1>2. ASSUME NEW f \in Files, NEW l \in Nat, l < Len(lines[f + 1])
      PROVE  Matches(G(f, l), f, l)
  BY <1>2, LinesMatch
<1> HIDE DEF G
<1>3. ASSUME NEW o \in Items
      PROVE  /\ F[o] \in Occurrences /\ F[o].word = o.word /\ F[o].fileID = o.fileID /\ F[o].lineID = o.lineID
             /\ F[o].at = G(o.fileID, o.lineID)[o.at]
  <2>1. PICK f, l, m : f = o.fileID /\ l = o.lineID /\ m = o.at
    OBVIOUS
  <2>2. PICK s, tokens, g : s = textfiles[f + 1].text /\ tokens = Tokens(lines[f + 1][l + 1]) /\ g = G(f, l)
    OBVIOUS
  <2>3. f \in Files /\ l \in Nat /\ l < Len(lines[f + 1]) /\ m \in 1..Len(tokens) /\ o.word = tokens[m]
    BY <1>1, <2>1, <2>2
  <2>4. /\ OneToOne(g, 1..Len(tokens), {p \in WordsOf(s) : LineOf(s, p) = l})
        /\ \A i \in 1..Len(tokens) : tokens[i] = Spelt(s, Letters(s, Shown(s), g[i]))
    BY <1>2, <2>2, <2>3 DEF Matches
  <2>5. g[m] \in WordsOf(s) /\ LineOf(s, g[m]) = l /\ tokens[m] = Spelt(s, Letters(s, Shown(s), g[m]))
    BY <2>3, <2>4 DEF OneToOne
  <2>6. F[o] = OccurrenceAt(f, g[m])
    BY <2>1, <2>2
  <2>7. F[o] \in Occurrences
    BY <2>2, <2>3, <2>5, <2>6, OccurrencesAre
  <2>8. F[o].word = tokens[m] /\ F[o].fileID = f /\ F[o].lineID = l /\ F[o].at = g[m]
    BY <2>2, <2>5, <2>6 DEF OccurrenceAt
  <2> QED BY <2>1, <2>2, <2>3, <2>7, <2>8
<1>4. ASSUME NEW o \in Items, NEW x \in Items, F[o] = F[x] PROVE o = x
  <2>1. o.fileID = x.fileID /\ o.lineID = x.lineID /\ o.word = x.word
    BY <1>3, <1>4
  <2>2. PICK f, l : f = o.fileID /\ l = o.lineID
    OBVIOUS
  <2>3. PICK s, tokens, g : s = textfiles[f + 1].text /\ tokens = Tokens(lines[f + 1][l + 1]) /\ g = G(f, l)
    OBVIOUS
  <2>4. g[o.at] = g[x.at]
    <3>1. F[o].at = g[o.at]
      BY <1>3, <2>2, <2>3
    <3>2. F[x].at = g[x.at]
      BY <1>3, <2>1, <2>2, <2>3
    <3> QED BY <1>4, <3>1, <3>2
  <2>5. OneToOne(g, 1..Len(tokens), {p \in WordsOf(s) : LineOf(s, p) = l})
    <3>1. f \in Files /\ l \in Nat /\ l < Len(lines[f + 1])
      BY <1>1, <2>2
    <3>2. Matches(g, f, l)
      BY <1>2, <2>3, <3>1
    <3> QED BY <2>3, <3>2 DEF Matches
  <2>6. o.at \in 1..Len(tokens) /\ x.at \in 1..Len(tokens)
    BY <1>1, <2>1, <2>2, <2>3
  <2>7. o.at = x.at
    BY <2>4, <2>5, <2>6 DEF OneToOne
  <2>8. o \in Item /\ x \in Item
    BY <1>1
  <2> QED BY <2>1, <2>7, <2>8 DEF Item
<1>5. ASSUME NEW x \in Occurrences PROVE \E o \in Items : F[o] = x
  <2>0. PICK f \in Files : \E p \in WordsOf(textfiles[f + 1].text) : x = OccurrenceAt(f, p)
    BY OccurrencesAre
  <2>1. PICK p \in WordsOf(textfiles[f + 1].text) : x = OccurrenceAt(f, p)
    BY <2>0
  <2>2. PICK s \in Seq(Codes) : s = textfiles[f + 1].text
    BY FilesAre
  <2>3. PICK l : l = LineOf(s, p)
    OBVIOUS
  <2>4. p \in Bytes(s) /\ p \in Shown(s)
    BY <2>1, <2>2, WordIsByte
  <2>5. l \in Nat /\ l < Len(lines[f + 1])
    <3>1. p \in Nat \ {0}
      BY <2>2, <2>4, BytesAre
    <3>2. LineOf(s, p) \in Nat
      BY <3>1, LineOfIs
    <3>3. Whole(s, lines[f + 1])
      BY <2>2, FilesAre
    <3> QED BY <2>3, <2>4, <3>2, <3>3 DEF Whole
  <2>6. PICK tokens, g : tokens = Tokens(lines[f + 1][l + 1]) /\ g = G(f, l)
    OBVIOUS
  <2>7. OneToOne(g, 1..Len(tokens), {q \in WordsOf(s) : LineOf(s, q) = l})
    BY <1>2, <2>2, <2>5, <2>6 DEF Matches
  <2>8. PICK m \in 1..Len(tokens) : g[m] = p
    BY <2>1, <2>2, <2>3, <2>7 DEF OneToOne
  <2>9. tokens \in Seq(Seq(Codes)) /\ Len(tokens) \in Nat
    <3>1. lines[f + 1][l + 1] \in Seq(Codes)
      BY <2>5, LinesMatch
    <3> QED BY <2>6, <3>1, TokensAre
  <2>10. PICK o : o = [word |-> tokens[m], fileID |-> f, lineID |-> l, at |-> m]
    OBVIOUS
  <2>11. o.word = tokens[m] /\ o.fileID = f /\ o.lineID = l /\ o.at = m
    BY <2>10
  <2>12. f \in Nat /\ f < Len(lines)
    BY FilesAre
  <2>13. o \in Item
    <3>1. tokens[m] \in Seq(Codes) /\ m \in Nat
      BY <2>9, ElementOfSeq
    <3> QED BY <2>5, <2>10, <2>12, <3>1 DEF Item
  <2>14. IsItem(o)
    BY <2>5, <2>6, <2>11, <2>12 DEF IsItem, Inserting, LineAt
  <2>15. o \in Items
    BY <2>13, <2>14 DEF Items
  <2>16. F[o] = x
    BY <2>1, <2>6, <2>8, <2>11, <2>15
  <2> QED BY <2>15, <2>16
<1> HIDE DEF F
<1>6. OneToOne(F, Items, Occurrences)
  BY <1>3, <1>4, <1>5 DEF OneToOne
<1>7. Alike(F, Items)
  BY <1>3 DEF Alike
<1> QED BY <1>6, <1>7

(* ... and a posting list that is exact for the ones is exact for the others. *)
LEMMA ExactMoves ==
  ASSUME NEW S, IsFiniteSet(S), NEW T, NEW F, OneToOne(F, S, T), Alike(F, S), NEW word, NEW posts,
         Exact(posts, Of(S, word))
  PROVE  Exact(posts, Of(T, word))
<1>1. ASSUME NEW f, NEW l PROVE Cardinality(At(Of(T, word), f, l)) = Cardinality(At(Of(S, word), f, l))
  <2>1. PICK A, B : A = At(Of(S, word), f, l) /\ B = At(Of(T, word), f, l)
    OBVIOUS
  <2>2. A \in SUBSET S /\ B \in SUBSET T
    BY <2>1 DEF At, Of
  <2>3. \A x \in S : x \in A <=> F[x] \in B
    BY <2>1 DEF At, Of, Alike, OneToOne
  <2>4. Cardinality(B) = Cardinality(A)
    BY <2>2, <2>3, PartsMatch
  <2> QED BY <2>1, <2>4
<1>2. \A o \in Of(T, word) : \E x \in Of(S, word) : x.fileID = o.fileID /\ x.lineID = o.lineID
  BY DEF Of, Alike, OneToOne
<1>3. \A x \in Of(S, word) : \E o \in Of(T, word) : x.fileID = o.fileID /\ x.lineID = o.lineID
  BY DEF Of, Alike, OneToOne
<1>4. \A o \in Of(T, word) : \E j \in 1..Len(posts) : posts[j].fileID = o.fileID /\ posts[j].lineID = o.lineID
  <2> SUFFICES ASSUME NEW o \in Of(T, word)
               PROVE  \E j \in 1..Len(posts) : posts[j].fileID = o.fileID /\ posts[j].lineID = o.lineID
    OBVIOUS
  <2>1. PICK x \in Of(S, word) : x.fileID = o.fileID /\ x.lineID = o.lineID
    BY <1>2
  <2>2. PICK j \in 1..Len(posts) : posts[j].fileID = x.fileID /\ posts[j].lineID = x.lineID
    BY DEF Exact
  <2> QED BY <2>1, <2>2
<1>5. ASSUME NEW j \in 1..Len(posts)
      PROVE  /\ posts[j].times = Cardinality(At(Of(T, word), posts[j].fileID, posts[j].lineID))
             /\ \E o \in Of(T, word) : posts[j].fileID = o.fileID /\ posts[j].lineID = o.lineID
  <2>1. posts[j].times = Cardinality(At(Of(S, word), posts[j].fileID, posts[j].lineID))
    BY DEF Exact
  <2>2. PICK x \in Of(S, word) : posts[j].fileID = x.fileID /\ posts[j].lineID = x.lineID
    BY DEF Exact
  <2>3. \E o \in Of(T, word) : x.fileID = o.fileID /\ x.lineID = o.lineID
    BY <1>3
  <2>4. posts[j].times = Cardinality(At(Of(T, word), posts[j].fileID, posts[j].lineID))
    BY <1>1, <2>1
  <2> QED BY <2>2, <2>3, <2>4
<1>6. \A i, j \in 1..Len(posts) : i < j => Before(posts[i], posts[j].fileID, posts[j].lineID)
  BY DEF Exact
<1> QED BY <1>4, <1>5, <1>6 DEF Exact

(* In the index that is served, ... *)
LEMMA SearchedItems ==
  ASSUME TrieInv, NEW word \in Seq(Codes)
  PROVE  search(word) \in Seq(Posting) /\ Exact(search(word), Of(Items, word))
<1>1. PICK path : Carries(nodes, root, path, Items)
  BY DEF TrieInv
<1>2. nodes \in Seq(TrieNode) /\ Trie(nodes, root, path)
  BY <1>1 DEF TrieInv, Carries
<1>3. ASSUME NEW y \in 1..Len(nodes), path[y] = word
      PROVE  search(word) \in Seq(Posting) /\ Exact(search(word), Of(Items, word))
  <2>1. search(word) = nodes[y].posting_list
    BY <1>2, <1>3, Searched
  <2>2. Exact(nodes[y].posting_list, Of(Items, path[y]))
    BY <1>1 DEF Carries
  <2>3. nodes[y].posting_list \in Seq(Posting)
    BY <1>2, NodeTypes
  <2> QED BY <1>3, <2>1, <2>2, <2>3
<1>4. ASSUME \A y \in 1..Len(nodes) : path[y] # word
      PROVE  search(word) \in Seq(Posting) /\ Exact(search(word), Of(Items, word))
  <2>1. search(word) = <<>>
    BY <1>2, <1>4, Searched
  <2>2. \A o \in Of(Items, word) : FALSE
    <3> SUFFICES ASSUME NEW o \in Items, o.word = word PROVE FALSE
      BY DEF Of
    <3>1. \E y \in 1..Len(nodes) : path[y] = o.word
      BY <1>1 DEF Carries
    <3> QED BY <1>4, <3>1
  <2>3. \A j \in 1..Len(search(word)) : FALSE
    BY <2>1, EmptySeq
  <2>4. search(word) \in Seq(Posting)
    BY <2>1
  <2> QED BY <2>2, <2>3, <2>4 DEF Exact
<1> QED BY <1>3, <1>4

(* ... search is exact for the occurrences. *)
LEMMA SearchedOccurrences ==
  ASSUME Types, Filed, TrieInv, parsePc = "loop", NEW word \in Seq(Codes)
  PROVE  search(word) \in Seq(Posting) /\ Exact(search(word), Of(Occurrences, word))
<1>1. PICK F : OneToOne(F, Items, Occurrences) /\ Alike(F, Items)
  BY ItemsOccur
<1>2. IsFiniteSet(Items)
  BY DEF TrieInv
<1> QED BY <1>1, <1>2, SearchedItems, ExactMoves

(* Each word that occurs is one of codes, and not empty. *)
LEMMA OccurringWords ==
  ASSUME Types, Filed, TrieInv, parsePc = "loop"
  PROVE  /\ IsFiniteSet(Occurrences) /\ wordCount = Cardinality(Occurrences)
         /\ \A o \in Occurrences : o.word \in Seq(Codes) /\ o.word # <<>> /\ o.fileID \in Files /\ o.lineID \in Nat
<1>1. PICK F : OneToOne(F, Items, Occurrences) /\ Alike(F, Items)
  BY ItemsOccur
<1>2. IsFiniteSet(Items) /\ wordCount = Cardinality(Items)
  BY DEF TrieInv
<1>3. IsFiniteSet(Occurrences) /\ Cardinality(Occurrences) = Cardinality(Items)
  <2>1. \A x \in Items : x \in Items <=> F[x] \in Occurrences
    BY <1>1 DEF OneToOne
  <2> QED BY <1>1, <1>2, <2>1, PartsMatch
<1>4. ASSUME NEW o \in Occurrences
      PROVE  o.word \in Seq(Codes) /\ o.word # <<>> /\ o.fileID \in Files /\ o.lineID \in Nat
  <2>1. PICK x \in Items : F[x] = o
    BY <1>1 DEF OneToOne
  <2>2. /\ x.word \in Seq(Codes) /\ x.fileID \in Nat /\ x.lineID \in Nat /\ x.fileID < Len(lines)
        /\ x.lineID < Len(lines[x.fileID + 1])
        /\ x.at \in 1..Len(Tokens(lines[x.fileID + 1][x.lineID + 1]))
        /\ x.word = Tokens(lines[x.fileID + 1][x.lineID + 1])[x.at]
    BY DEF Items, Item, IsItem, LineAt
  <2>3. x.fileID \in Files
    <3>1. Len(lines) = Len(textfiles) /\ Len(textfiles) \in Nat
      BY DEF Filed, Types
    <3> QED BY <2>2, <3>1 DEF Files
  <2>4. lines[x.fileID + 1][x.lineID + 1] \in Seq(Codes)
    BY <2>2, <2>3, LinesMatch
  <2>5. x.word # <<>>
    BY <2>2, <2>4, TokensAre
  <2> QED BY <1>1, <2>1, <2>2, <2>3, <2>5 DEF Alike
<1> QED BY <1>2, <1>3, <1>4

(* The invariants tell that the index is exact. *)
LEMMA LoopExact ==
  ASSUME Types, Filed, TrieInv
  PROVE  IndexIsExact
<1> SUFFICES ASSUME parsePc = "loop", NEW word \in Probes(Occurrences)
             PROVE  LET posts == search(word)
                        of == {o \in Occurrences : o.word = word}
                    IN  /\ \A j \in 1..(Len(posts) - 1) : Before(posts[j], posts[j + 1].fileID, posts[j + 1].lineID)
                        /\ {[fileID |-> posts[j].fileID, lineID |-> posts[j].lineID] : j \in DOMAIN posts}
                             = {[fileID |-> o.fileID, lineID |-> o.lineID] : o \in of}
                        /\ \A j \in DOMAIN posts :
                             posts[j].times =
                               Cardinality({o \in of : o.fileID = posts[j].fileID /\ o.lineID = posts[j].lineID})
  BY DEF IndexIsExact
<1>1. PICK o \in Occurrences : word \in {o.word, Tail(o.word), SubSeq(o.word, 1, Len(o.word) - 1), Append(o.word, o.word[1])}
  BY DEF Probes
<1>2. word \in Seq(Codes)
  <2>1. o.word \in Seq(Codes) /\ o.word # <<>>
    BY OccurringWords
  <2>2. PICK w \in Seq(Codes) : w = o.word
    BY <2>1
  <2>3. Len(w) \in Nat /\ Len(w) >= 1 /\ w[1] \in Codes
    BY <2>1, <2>2, EmptySeq, ElementOfSeq
  <2>4. Tail(w) \in Seq(Codes) /\ SubSeq(w, 1, Len(w) - 1) \in Seq(Codes) /\ Append(w, w[1]) \in Seq(Codes)
    <3>1. Tail(w) \in Seq(Codes)
      BY <2>1, <2>2
    <3>2. Append(w, w[1]) \in Seq(Codes)
      BY <2>3
    <3>3. SubSeq(w, 1, Len(w) - 1) \in Seq(Codes)
      BY <2>3
    <3> QED BY <3>1, <3>2, <3>3
  <2> QED BY <1>1, <2>2, <2>4
<1>3. PICK posts, S : posts = search(word) /\ S = Of(Occurrences, word)
  OBVIOUS
<1>4. posts \in Seq(Posting) /\ Exact(posts, S)
  BY <1>2, <1>3, SearchedOccurrences
<1>5. Len(posts) \in Nat /\ DOMAIN posts = 1..Len(posts) /\ S = {x \in Occurrences : x.word = word}
  BY <1>3, <1>4 DEF Of
<1>6. \A j \in 1..(Len(posts) - 1) : Before(posts[j], posts[j + 1].fileID, posts[j + 1].lineID)
  <2> SUFFICES ASSUME NEW j \in 1..(Len(posts) - 1) PROVE Before(posts[j], posts[j + 1].fileID, posts[j + 1].lineID)
    OBVIOUS
  <2>1. j \in 1..Len(posts) /\ j + 1 \in 1..Len(posts) /\ j < j + 1
    BY <1>5
  <2> QED BY <1>4, <2>1 DEF Exact
<1>7. {[fileID |-> posts[j].fileID, lineID |-> posts[j].lineID] : j \in 1..Len(posts)}
        = {[fileID |-> x.fileID, lineID |-> x.lineID] : x \in S}
  <2> DEFINE Where(x) == [fileID |-> x.fileID, lineID |-> x.lineID]
  <2>1. \A j \in 1..Len(posts) : \E x \in S : Where(posts[j]) = Where(x)
    BY <1>4 DEF Exact
  <2>2. \A x \in S : \E j \in 1..Len(posts) : Where(posts[j]) = Where(x)
    BY <1>4 DEF Exact
  <2>3. {Where(posts[j]) : j \in 1..Len(posts)} = {Where(x) : x \in S}
    <3> HIDE DEF Where
    <3> QED BY <2>1, <2>2
  <2> QED BY <2>3
<1>8. \A j \in 1..Len(posts) :
        posts[j].times = Cardinality({x \in S : x.fileID = posts[j].fileID /\ x.lineID = posts[j].lineID})
  BY <1>4 DEF Exact, At
<1> QED BY <1>3, <1>5, <1>6, <1>7, <1>8

(* Once all files are parsed, search returns, for a word that occurs in them and for its   *)
(* neighbours, an item for each line with the word, with how often it is there, in the     *)
(* order of files and lines, and no other (inverted_index.cpp:28-61,180-249), whatever the *)
(* files hold.                                                                             *)
THEOREM IndexExact == IndexSpec => []IndexIsExact
<1>1. IndexInv /\ Filed /\ TrieInv => IndexIsExact
  BY LoopExact DEF IndexInv
<1> QED BY <1>1, AlwaysTrie, PTL

(* The same for every word that can be asked for, whether it occurs or not: a posting list *)
(* that is exact for its occurrences, NULL's empty one if there are none                   *)
(* (inverted_index.cpp:234-249).                                                           *)
EveryWordIsExact ==
  parsePc = "loop" => \A word \in Seq(Codes) : Exact(search(word), Of(Occurrences, word))

(* search answers exactly for every word, whether it occurs or not                         *)
(* (inverted_index.cpp:234-249).                                                           *)
THEOREM EveryWord == IndexSpec => []EveryWordIsExact
<1>1. IndexInv /\ Filed /\ TrieInv => EveryWordIsExact
  BY SearchedOccurrences DEF EveryWordIsExact, IndexInv
<1> QED BY <1>1, AlwaysTrie, PTL


-----------------------------------------------------------------------------
(* The sums of what the files count. *)
IsSum(sum, v, n) == sum = [f \in 0..n |-> IF f = 0 THEN 0 ELSE sum[f - 1] + v[f]]

(* There is such a sum, and it is defined by its steps. *)
LEMMA SumExists ==
  ASSUME NEW n \in Nat, NEW v
  PROVE  \E sum : IsSum(sum, v, n)
<1> DEFINE Good == {k \in Nat : \E sum : IsSum(sum, v, k)}
<1>1. 0 \in Good
  <2> DEFINE s == [f \in 0..0 |-> 0]
  <2>1. s = [f \in 0..0 |-> IF f = 0 THEN 0 ELSE s[f - 1] + v[f]]
    OBVIOUS
  <2> HIDE DEF s
  <2>2. IsSum(s, v, 0)
    BY <2>1 DEF IsSum
  <2> QED BY <2>2
<1>2. \A k \in Nat : k \in Good => k + 1 \in Good
  <2> SUFFICES ASSUME NEW k \in Nat, k \in Good PROVE \E sum : IsSum(sum, v, k + 1)
    OBVIOUS
  <2>1. PICK s : IsSum(s, v, k)
    OBVIOUS
  <2> DEFINE t == [f \in 0..(k + 1) |-> IF f <= k THEN s[f] ELSE s[k] + v[k + 1]]
  <2>2. \A f \in 0..k : s[f] = (IF f = 0 THEN 0 ELSE s[f - 1] + v[f])
    BY <2>1 DEF IsSum
  <2>3. t = [f \in 0..(k + 1) |-> IF f = 0 THEN 0 ELSE t[f - 1] + v[f]]
    <3>1. \A f \in 0..(k + 1) : t[f] = (IF f = 0 THEN 0 ELSE t[f - 1] + v[f])
      <4> SUFFICES ASSUME NEW f \in 0..(k + 1) PROVE t[f] = (IF f = 0 THEN 0 ELSE t[f - 1] + v[f])
        OBVIOUS
      <4>1. CASE f = 0
        BY <2>2, <4>1
      <4>2. CASE f # 0 /\ f <= k
        <5>1. f \in 0..k /\ f - 1 \in 0..(k + 1) /\ f - 1 <= k
          BY <4>2
        <5> QED BY <2>2, <4>2, <5>1
      <4>3. CASE f = k + 1
        <5>1. f - 1 = k /\ k \in 0..(k + 1) /\ ~(f <= k) /\ f # 0
          BY <4>3
        <5> QED BY <4>3, <5>1
      <4> QED BY <4>1, <4>2, <4>3
    <3> QED BY <3>1
  <2> HIDE DEF t
  <2>4. IsSum(t, v, k + 1)
    BY <2>3 DEF IsSum
  <2> QED BY <2>4
<1> HIDE DEF Good
<1>3. n \in Good
  BY <1>1, <1>2, Induction
<1> QED BY <1>3 DEF Good

(* A sum by its steps. *)
LEMMA SumIs ==
  ASSUME NEW n \in Nat, NEW v, NEW sum, IsSum(sum, v, n)
  PROVE  /\ sum[0] = 0 /\ \A f \in 1..n : sum[f] = sum[f - 1] + v[f]
         /\ \A other : IsSum(other, v, n) => other[n] = sum[n]
<1>1. /\ sum[0] = 0 /\ \A f \in 1..n : sum[f] = sum[f - 1] + v[f]
  BY DEF IsSum
<1>2. ASSUME NEW other, IsSum(other, v, n) PROVE other[n] = sum[n]
  <2>1. other[0] = 0 /\ \A f \in 1..n : other[f] = other[f - 1] + v[f]
    BY <1>2 DEF IsSum
  <2> DEFINE Good == {k \in Nat : k <= n => other[k] = sum[k]}
  <2>2. 0 \in Good
    BY <1>1, <2>1
  <2>3. \A k \in Nat : k \in Good => k + 1 \in Good
    <3> SUFFICES ASSUME NEW k \in Nat, k \in Good, k + 1 <= n PROVE other[k + 1] = sum[k + 1]
      OBVIOUS
    <3>1. k + 1 \in 1..n /\ (k + 1) - 1 = k /\ k <= n
      OBVIOUS
    <3>2. other[k] = sum[k]
      BY <3>1
    <3>3. other[k + 1] = other[k] + v[k + 1] /\ sum[k + 1] = sum[k] + v[k + 1]
      BY <1>1, <2>1, <3>1
    <3> QED BY <3>2, <3>3
  <2> HIDE DEF Good
  <2>4. n \in Good
    BY <2>2, <2>3, Induction
  <2> QED BY <2>4 DEF Good
<1> QED BY <1>1, <1>2

ByteCounts == [f \in 1..Len(textfiles) |-> Cardinality(Bytes(textfiles[f].text))]
LineCounts == [f \in 1..Len(textfiles) |-> LinesOf(textfiles[f].text)]

(* The totals of CountsMatch are such sums. *)
LEMMA SumsAre ==
  ASSUME NEW n, n = Len(textfiles), n \in Nat, NEW sum
  PROVE  /\ sum = [f \in 0..n |-> IF f = 0 THEN 0 ELSE sum[f - 1] + Cardinality(Bytes(textfiles[f].text))]
              <=> IsSum(sum, ByteCounts, n)
         /\ sum = [f \in 0..n |-> IF f = 0 THEN 0 ELSE sum[f - 1] + LinesOf(textfiles[f].text)]
              <=> IsSum(sum, LineCounts, n)
<1>1. \A f \in 0..n : f # 0 => f \in 1..n
  OBVIOUS
<1>2. \A f \in 1..n : ByteCounts[f] = Cardinality(Bytes(textfiles[f].text)) /\ LineCounts[f] = LinesOf(textfiles[f].text)
  BY DEF ByteCounts, LineCounts
<1>3. [f \in 0..n |-> IF f = 0 THEN 0 ELSE sum[f - 1] + Cardinality(Bytes(textfiles[f].text))]
        = [f \in 0..n |-> IF f = 0 THEN 0 ELSE sum[f - 1] + ByteCounts[f]]
  BY <1>1, <1>2
<1>4. [f \in 0..n |-> IF f = 0 THEN 0 ELSE sum[f - 1] + LinesOf(textfiles[f].text)]
        = [f \in 0..n |-> IF f = 0 THEN 0 ELSE sum[f - 1] + LineCounts[f]]
  BY <1>1, <1>2
<1> QED BY <1>3, <1>4 DEF IsSum

(* What has been counted: the files before fileID, and of this file the lines before lineID *)
(* and what is in curline.                                                                  *)
BytesBefore(s, l) == {p \in Bytes(s) : LineOf(s, p) < l}
Tallied(bytes, lns) ==
  /\ IsSum(bytes, ByteCounts, Len(textfiles)) /\ IsSum(lns, LineCounts, Len(textfiles))
  /\ parsePc \in FirstPass \cup {"loop"} => byteCount = bytes[fileID] /\ lineCount = lns[fileID]
  /\ parsePc \in SecondPass =>
       /\ byteCount = bytes[fileID] + Cardinality(BytesBefore(text, lineID))
                        + (IF parsePc = "parse" THEN 0 ELSE Len(curline))
       /\ lineCount = lns[fileID] + lineID + (IF parsePc = "words" THEN 1 ELSE 0)
Tally == \E bytes, lns : Tallied(bytes, lns)

(* The sum of natural numbers is one. *)
LEMMA SumNat ==
  ASSUME NEW n \in Nat, NEW v, \A f \in 1..n : v[f] \in Nat, NEW sum, IsSum(sum, v, n)
  PROVE  \A f \in 0..n : sum[f] \in Nat
<1> DEFINE Good == {k \in Nat : k <= n => sum[k] \in Nat}
<1>1. /\ sum[0] = 0 /\ \A f \in 1..n : sum[f] = sum[f - 1] + v[f]
  BY SumIs
<1>2. 0 \in Good
  BY <1>1
<1>3. \A k \in Nat : k \in Good => k + 1 \in Good
  <2> SUFFICES ASSUME NEW k \in Nat, k \in Good, k + 1 <= n PROVE sum[k + 1] \in Nat
    OBVIOUS
  <2>1. k + 1 \in 1..n /\ (k + 1) - 1 = k /\ k <= n
    OBVIOUS
  <2>2. sum[k] \in Nat /\ v[k + 1] \in Nat /\ sum[k + 1] = sum[k] + v[k + 1]
    BY <1>1, <2>1
  <2> QED BY <2>2
<1>4. \A k \in Nat : k \in Good
  <2> HIDE DEF Good
  <2> QED BY <1>2, <1>3, Induction
<1> QED BY <1>4

(* What the files count are natural numbers. *)
LEMMA CountsAre ==
  ASSUME Types
  PROVE  /\ Len(textfiles) \in Nat
         /\ \A f \in 1..Len(textfiles) : ByteCounts[f] \in Nat /\ LineCounts[f] \in Nat
<1> DEFINE R == [path : Int, text : Seq(1..255)]
<1>1. textfiles \in Seq(R) /\ Len(textfiles) \in Nat
  BY DEF Types
<1>2. ASSUME NEW f \in 1..Len(textfiles) PROVE ByteCounts[f] \in Nat /\ LineCounts[f] \in Nat
  <2>1. textfiles[f] \in R
    <3> HIDE DEF R
    <3> QED BY <1>1, ElementOfSeq
  <2>2. PICK s \in Seq(Codes) : s = textfiles[f].text
    BY <2>1 DEF Codes
  <2>3. Cardinality(Bytes(s)) \in Nat
    BY BytesAre, FS_CardinalityType
  <2>4. LinesOf(s) \in Nat
    <3>1. Len(s) + 1 \in Nat \ {0}
      OBVIOUS
    <3>2. LineOf(s, Len(s) + 1) \in Nat
      BY <3>1, LineOfIs
    <3> QED BY <3>2 DEF LinesOf
  <2> QED BY <2>2, <2>3, <2>4 DEF ByteCounts, LineCounts
<1> QED BY <1>1, <1>2

(* The bytes of a text, line by line. *)
LEMMA BytesByLine ==
  ASSUME NEW s \in Seq(Codes), NEW l \in Nat
  PROVE  /\ Cardinality(BytesBefore(s, l)) \in Nat /\ Cardinality(BytesBefore(s, 0)) = 0
         /\ Cardinality(BytesBefore(s, l + 1)) = Cardinality(BytesBefore(s, l)) + Len(Spelt(s, LineBytes(s, l)))
<1>0. IsFiniteSet(Bytes(s)) /\ \A p \in Bytes(s) : LineOf(s, p) \in Nat
  <2>1. \A p \in Bytes(s) : p \in Nat \ {0}
    BY BytesAre
  <2> QED BY <2>1, BytesAre, LineOfIs
<1>1. PICK A, B, C : A = BytesBefore(s, l) /\ B = LineBytes(s, l) /\ C = BytesBefore(s, l + 1)
  OBVIOUS
<1>2. A \in SUBSET Bytes(s) /\ B \in SUBSET Bytes(s) /\ C \in SUBSET Bytes(s)
  BY <1>1 DEF BytesBefore, LineBytes
<1>3. C = A \cup B /\ A \cap B = {}
  <2>1. \A p \in Bytes(s) : LineOf(s, p) < l + 1 <=> (LineOf(s, p) < l \/ LineOf(s, p) = l)
    BY <1>0
  <2>2. \A p \in Bytes(s) : ~(LineOf(s, p) < l /\ LineOf(s, p) = l)
    BY <1>0
  <2> QED BY <1>1, <2>1, <2>2 DEF BytesBefore, LineBytes
<1>4. IsFiniteSet(A) /\ IsFiniteSet(B) /\ Cardinality(A) \in Nat /\ Cardinality(B) \in Nat
  BY <1>0, <1>2, FS_Subset, FS_CardinalityType
<1>5. Cardinality(C) = Cardinality(A) + Cardinality(B)
  <2>1. Cardinality(A \cup B) = Cardinality(A) + Cardinality(B) - Cardinality(A \cap B)
    BY <1>4, FS_Union
  <2>2. Cardinality(A \cap B) = 0
    BY <1>3, FS_EmptySet
  <2> QED BY <1>3, <1>4, <2>1, <2>2
<1>6. Len(Spelt(s, B)) = Cardinality(B)
  <2>1. B \in IntSets
    BY <1>2, BytesAre, IntSet
  <2>2. Spelt(s, B) = [j \in 1..Cardinality(B) |-> s[Nth(B, j)]]
    BY <1>4, <2>1, SpeltIs
  <2>3. Spelt(s, B) \in Seq(Codes)
    BY <1>1, LineSpelt
  <2>4. DOMAIN Spelt(s, B) = 1..Cardinality(B) /\ DOMAIN Spelt(s, B) = 1..Len(Spelt(s, B))
        /\ Len(Spelt(s, B)) \in Nat
    <3>1. DOMAIN Spelt(s, B) = 1..Cardinality(B)
      BY <2>2
    <3>2. DOMAIN Spelt(s, B) = 1..Len(Spelt(s, B)) /\ Len(Spelt(s, B)) \in Nat
      BY <2>3
    <3> QED BY <3>1, <3>2
  <2> QED BY <1>4, <2>4
<1>7. BytesBefore(s, 0) = {}
  BY <1>0 DEF BytesBefore
<1>8. Cardinality(BytesBefore(s, 0)) = 0
  BY <1>7, FS_EmptySet
<1> QED BY <1>1, <1>4, <1>5, <1>6, <1>8

-----------------------------------------------------------------------------
(* The sums, step by step. *)

(* At the start nothing has been counted. *)
LEMMA InitTally == IndexInit => Tally
<1> SUFFICES ASSUME IndexInit PROVE Tally
  OBVIOUS
<1>1. /\ fileID = 0 /\ byteCount = 0 /\ lineCount = 0 /\ parsePc \in {"loop", "count"}
  BY DEF IndexInit
<1>2. Len(textfiles) \in Nat
  BY InitTypes, CountsAre
<1>3. PICK n \in Nat : n = Len(textfiles)
  BY <1>2
<1>4. PICK bytes, lns : IsSum(bytes, ByteCounts, n) /\ IsSum(lns, LineCounts, n)
  <2>1. \E bytes : IsSum(bytes, ByteCounts, n)
    BY SumExists
  <2>2. \E lns : IsSum(lns, LineCounts, n)
    BY SumExists
  <2> QED BY <2>1, <2>2
<1>5. bytes[0] = 0 /\ lns[0] = 0
  BY <1>4, SumIs
<1>6. Tallied(bytes, lns)
  BY <1>1, <1>3, <1>4, <1>5 DEF Tallied, SecondPass
<1> QED BY <1>6 DEF Tally

(* The sums depend on the files alone. *)
LEMMA SumsStay ==
  ASSUME textfiles' = textfiles
  PROVE  ByteCounts' = ByteCounts /\ LineCounts' = LineCounts
BY DEF ByteCounts, LineCounts

(* Every step keeps Tally. *)
LEMMA TallyNext == IndexInv /\ Filed /\ Filed' /\ Tally /\ [IndexNext]_indexVars => Tally'
<1> SUFFICES ASSUME IndexInv, Filed, Filed', Tally, [IndexNext]_indexVars PROVE Tally'
  OBVIOUS
<1>t. Types
  BY DEF IndexInv
<1>1. PICK bytes, lns : Tallied(bytes, lns)
  BY DEF Tally
<1>2. PICK n \in Nat : n = Len(textfiles)
  BY <1>t, CountsAre
<1>3. textfiles' = textfiles
  BY DEF IndexNext, count_lines, CountChar, CountedLine, CountedLines, parse_text, ParseChar, StoreLine,
         InsertLetter, InsertedWord, InsertedLine, Parsed_text, indexVars
<1>4. ByteCounts' = ByteCounts /\ LineCounts' = LineCounts
  BY <1>3, SumsStay
<1>5. IsSum(bytes, ByteCounts, n) /\ IsSum(lns, LineCounts, n)
  BY <1>1, <1>2 DEF Tallied
<1>6. IsSum(bytes, ByteCounts', Len(textfiles')) /\ IsSum(lns, LineCounts', Len(textfiles'))
  BY <1>2, <1>3, <1>4, <1>5
<1>7. /\ \A f \in 0..n : bytes[f] \in Nat /\ lns[f] \in Nat
      /\ \A f \in 1..n : bytes[f] = bytes[f - 1] + ByteCounts[f] /\ lns[f] = lns[f - 1] + LineCounts[f]
  <2>1. \A f \in 1..n : ByteCounts[f] \in Nat /\ LineCounts[f] \in Nat
    BY <1>2, <1>t, CountsAre
  <2>2. \A f \in 0..n : bytes[f] \in Nat
    BY <1>5, <2>1, SumNat
  <2>3. \A f \in 0..n : lns[f] \in Nat
    BY <1>5, <2>1, SumNat
  <2>4. \A f \in 1..n : bytes[f] = bytes[f - 1] + ByteCounts[f]
    BY <1>5, SumIs
  <2>5. \A f \in 1..n : lns[f] = lns[f - 1] + LineCounts[f]
    BY <1>5, SumIs
  <2> QED BY <2>2, <2>3, <2>4, <2>5
<1>8. parsePc \in SecondPass => /\ bytes[fileID] \in Nat /\ lns[fileID] \in Nat /\ text \in Seq(Codes) /\ lineID \in Nat
                                /\ Cardinality(BytesBefore(text, lineID)) \in Nat /\ fileID \in Nat /\ fileID < n
                                /\ curline \in Seq(Int) /\ Len(curline) \in Nat
  <2> SUFFICES ASSUME parsePc \in SecondPass
               PROVE  /\ bytes[fileID] \in Nat /\ lns[fileID] \in Nat /\ text \in Seq(Codes) /\ lineID \in Nat
                      /\ Cardinality(BytesBefore(text, lineID)) \in Nat /\ fileID \in Nat /\ fileID < n
                      /\ curline \in Seq(Int) /\ Len(curline) \in Nat
    OBVIOUS
  <2>1. /\ fileID \in Nat /\ fileID < n /\ curline \in Seq(Int) /\ Len(curline) \in Nat /\ lineID \in Nat
    BY <1>2, <1>t DEF Types, Passes
  <2>2. text \in Seq(Codes)
    BY <1>t, TextCodes DEF Passes
  <2>3. Cardinality(BytesBefore(text, lineID)) \in Nat
    BY <2>1, <2>2, BytesByLine
  <2>4. fileID \in 0..n
    BY <2>1
  <2> QED BY <1>7, <2>1, <2>2, <2>3, <2>4
<1>9. fileID' = fileID => text' = text
  BY <1>3 DEF text
<1> DEFINE First == parsePc \in FirstPass \cup {"loop"} => byteCount = bytes[fileID] /\ lineCount = lns[fileID]
           Second == parsePc \in SecondPass =>
                       /\ byteCount = bytes[fileID] + Cardinality(BytesBefore(text, lineID))
                                        + (IF parsePc = "parse" THEN 0 ELSE Len(curline))
                       /\ lineCount = lns[fileID] + lineID + (IF parsePc = "words" THEN 1 ELSE 0)
<1>10. First /\ Second
  BY <1>1 DEF Tallied
<1> SUFFICES /\ parsePc' \in FirstPass \cup {"loop"} => byteCount' = bytes[fileID'] /\ lineCount' = lns[fileID']
             /\ parsePc' \in SecondPass =>
                  /\ byteCount' = bytes[fileID'] + Cardinality(BytesBefore(text', lineID'))
                                    + (IF parsePc' = "parse" THEN 0 ELSE Len(curline'))
                  /\ lineCount' = lns[fileID'] + lineID' + (IF parsePc' = "words" THEN 1 ELSE 0)
  BY <1>6 DEF Tally, Tallied
<1> USE DEF FirstPass, SecondPass
<1>11. CASE count_lines \/ CountChar \/ CountedLine
  <2>1. /\ parsePc \in FirstPass /\ parsePc' \in FirstPass \cup {"endless"}
        /\ UNCHANGED <<fileID, byteCount, lineCount>>
    BY <1>11 DEF count_lines, CountChar, CountedLine, fileVars, mapVars
  <2> QED BY <1>10, <2>1
<1>12. CASE CountedLines
  <2>1. parsePc = "count" /\ parsePc' \in {"exited", "parse"} /\ UNCHANGED <<fileID, lineID, byteCount, lineCount>>
    BY <1>12 DEF CountedLines, fileVars
  <2>2. lineID = 0 /\ bytes[fileID] \in Nat /\ lns[fileID] \in Nat /\ text' \in Seq(Codes)
    <3>1. lineID = 0 /\ fileID \in 0..n
      BY <1>2, <1>t, <2>1 DEF Types, Passes
    <3>2. text' \in Seq(Codes)
      BY <1>t, <1>9, <2>1, TextCodes DEF Passes
    <3> QED BY <1>7, <3>1, <3>2
  <2>3. Cardinality(BytesBefore(text', 0)) = 0
    <3>1. 0 \in Nat
      OBVIOUS
    <3> QED BY <2>2, <3>1, BytesByLine
  <2> QED BY <1>10, <2>1, <2>2, <2>3
<1>13. CASE parse_text
  <2>1. /\ parsePc = "parse" /\ UNCHANGED <<fileID, lineID, byteCount, lineCount>>
        /\ parsePc' = "parse" \/ (parsePc' = "parseLine" /\ curline' = <<>>)
    BY <1>13 DEF parse_text, fileVars, mapVars
  <2>2. curline' = <<>> => Len(curline') = 0
    BY EmptySeq
  <2> QED BY <1>8, <1>9, <1>10, <2>1, <2>2
<1>14. CASE ParseChar
  <2>1. /\ parsePc = "parseLine" /\ UNCHANGED <<fileID, lineID, lineCount>>
        /\ \/ parsePc' = "endless"
           \/ parsePc' = "parseLine" /\ curline' = curline /\ byteCount' = byteCount
           \/ parsePc' = "parseLine" /\ curline' = Append(curline, ch) /\ byteCount' = byteCount + 1
    BY <1>14 DEF ParseChar, fileVars
  <2>2. ch \in Int /\ curline \in Seq(Int)
    BY <1>t DEF Types
  <2>3. Len(Append(curline, ch)) = Len(curline) + 1
    BY <2>2
  <2>4. /\ byteCount = bytes[fileID] + Cardinality(BytesBefore(text, lineID)) + Len(curline)
        /\ lineCount = lns[fileID] + lineID + 0
    BY <1>10, <2>1
  <2>5. \A a, b, c \in Nat : a + b + (c + 1) = (a + b + c) + 1
    OBVIOUS
  <2>6. bytes[fileID] \in Nat /\ Cardinality(BytesBefore(text, lineID)) \in Nat /\ Len(curline) \in Nat
    BY <1>8, <2>1
  <2>7. parsePc' = "parseLine" =>
          byteCount' = bytes[fileID'] + Cardinality(BytesBefore(text', lineID')) + Len(curline')
    <3>1. text' = text /\ bytes[fileID'] = bytes[fileID] /\ lineID' = lineID
      BY <1>9, <2>1
    <3>2. PICK b, c, d \in Nat : b = bytes[fileID] /\ c = Cardinality(BytesBefore(text, lineID)) /\ d = Len(curline)
      BY <2>6
    <3>3. byteCount = b + c + d
      BY <2>4, <3>2
    <3>4. CASE curline' = curline /\ byteCount' = byteCount
      BY <3>1, <3>2, <3>3, <3>4
    <3>5. CASE curline' = Append(curline, ch) /\ byteCount' = byteCount + 1
      <4>1. Len(curline') = d + 1
        BY <2>3, <3>2, <3>5
      <4>2. byteCount' = b + c + (d + 1)
        BY <3>3, <3>5
      <4> QED BY <3>1, <3>2, <4>1, <4>2
    <3> QED BY <2>1, <3>4, <3>5
  <2> QED BY <2>1, <2>4, <2>7
<1>15. CASE StoreLine
  <2>1. /\ parsePc = "parseLine" /\ parsePc' = "words" /\ UNCHANGED <<fileID, lineID, curline, byteCount>>
        /\ lineCount' = lineCount + 1
    BY <1>15 DEF StoreLine, fileVars
  <2> QED BY <1>8, <1>9, <1>10, <2>1
<1>16. CASE InsertLetter \/ InsertedWord
  <2>1. UNCHANGED <<parsePc, fileID, lineID, curline, byteCount, lineCount>>
    BY <1>16 DEF InsertLetter, InsertedWord, fileVars, mapVars
  <2> QED BY <1>9, <1>10, <2>1
<1>17. CASE InsertedLine
  <2>1. /\ parsePc = "words" /\ parsePc' = "parse" /\ lineID' = lineID + 1
        /\ UNCHANGED <<fileID, curline, byteCount, lineCount>>
    BY <1>17 DEF InsertedLine, mapVars
  <2>2. curline = Spelt(text, LineBytes(text, lineID))
    <3>1. /\ lines[fileID + 1][lineID + 1] = curline /\ Len(lines[fileID + 1]) = lineID + 1
          /\ \A l \in 1..Len(lines[fileID + 1]) : lines[fileID + 1][l] = Spelt(text, LineBytes(text, l - 1))
      BY <1>t, <2>1 DEF Filed, Types
    <3>2. lineID + 1 \in 1..Len(lines[fileID + 1]) /\ (lineID + 1) - 1 = lineID
      BY <1>8, <2>1, <3>1
    <3> QED BY <3>1, <3>2
  <2>3. Cardinality(BytesBefore(text, lineID + 1)) = Cardinality(BytesBefore(text, lineID)) + Len(curline)
    BY <1>8, <2>1, <2>2, BytesByLine
  <2>4. byteCount' = bytes[fileID'] + Cardinality(BytesBefore(text', lineID'))
    BY <1>8, <1>9, <1>10, <2>1, <2>3
  <2>5. lineCount' = lns[fileID'] + lineID'
    <3>1. lineCount = lns[fileID] + lineID + 1
      BY <1>10, <2>1
    <3>2. \A a, b \in Nat : a + b + 1 = a + (b + 1)
      OBVIOUS
    <3>3. lns[fileID] \in Nat /\ lineID \in Nat
      BY <1>8, <2>1
    <3> QED BY <2>1, <3>1, <3>2, <3>3
  <2>6. bytes[fileID'] \in Nat /\ lns[fileID'] \in Nat /\ Cardinality(BytesBefore(text', lineID')) \in Nat /\ lineID' \in Nat
    BY <1>8, <1>9, <2>1, <2>3
  <2> QED BY <2>1, <2>4, <2>5, <2>6
<1>18. CASE Parsed_text
  <2>1. /\ parsePc = "parse" /\ parsePc' \in {"loop", "count"} /\ fileID' = fileID + 1
        /\ UNCHANGED <<byteCount, lineCount, lines>>
    BY <1>18 DEF Parsed_text, mapVars
  <2>2. PICK k \in Nat : k = fileID + 1 /\ k \in 1..n /\ k - 1 = fileID
    BY <1>8, <2>1
  <2>3. Whole(textfiles[k].text, lines[k])
    <3>1. k \in 1..fileID'
      BY <1>8, <2>1, <2>2
    <3>2. Whole(textfiles'[k].text, lines'[k])
      BY <3>1 DEF Filed
    <3> QED BY <1>3, <2>1, <3>2
  <2>4. Len(lines[k]) = lineID /\ textfiles[k].text = text
    BY <1>t, <2>1, <2>2 DEF Types, text
  <2>5. LineCounts[k] = lineID /\ ByteCounts[k] = Cardinality(Bytes(text))
    BY <1>2, <2>2, <2>3, <2>4 DEF Whole, LineCounts, ByteCounts
  <2>6. BytesBefore(text, lineID) = Bytes(text)
    BY <2>3, <2>4 DEF Whole, BytesBefore
  <2>7. byteCount = bytes[k] /\ lineCount = lns[k]
    <3>1. bytes[k] = bytes[fileID] + ByteCounts[k] /\ lns[k] = lns[fileID] + LineCounts[k]
      BY <1>7, <2>2
    <3> QED BY <1>8, <1>10, <2>1, <2>5, <2>6, <3>1
  <2> QED BY <2>1, <2>2, <2>7
<1>19. CASE UNCHANGED indexVars
  <2>1. UNCHANGED <<parsePc, fileID, lineID, curline, byteCount, lineCount>>
    BY <1>19 DEF indexVars, fileVars, mapVars
  <2> QED BY <1>9, <1>10, <2>1
<1> QED BY <1>11, <1>12, <1>13, <1>14, <1>15, <1>16, <1>17, <1>18, <1>19 DEF IndexNext

-----------------------------------------------------------------------------
(* The scan of /maxcount (way 1) and /mincount (way 0). *)
Better(way, s) == IF way = 1 THEN s.totaltimes > s.besttimes ELSE s.totaltimes < s.besttimes
SettleBy(way, s) == Settle(s, Better(way, s))
ScanStart(none) == [cur_fid |-> -1, totaltimes |-> 0, best_fid |-> -1, besttimes |-> none]
ScanStep(way, s, p, j) ==
  IF s.cur_fid = p.fileID THEN [s EXCEPT !.totaltimes = @ + p.times]
  ELSE [(IF j = 1 THEN s ELSE SettleBy(way, s)) EXCEPT !.cur_fid = p.fileID, !.totaltimes = p.times]
IsScan(way, scan, posts, none) ==
  scan = [j \in 0..Len(posts) |-> IF j = 0 THEN ScanStart(none) ELSE ScanStep(way, scan[j - 1], posts[j], j)]

(* There is such a scan. *)
LEMMA ScanExists ==
  ASSUME NEW way, NEW posts, NEW none, Len(posts) \in Nat
  PROVE  \E scan : IsScan(way, scan, posts, none)
<1> DEFINE Eq(scan, k) == scan = [j \in 0..k |-> IF j = 0 THEN ScanStart(none) ELSE ScanStep(way, scan[j - 1], posts[j], j)]
           Good == {k \in Nat : \E scan : Eq(scan, k)}
<1>1. 0 \in Good
  <2> DEFINE s == [j \in 0..0 |-> ScanStart(none)]
  <2>1. s = [j \in 0..0 |-> IF j = 0 THEN ScanStart(none) ELSE ScanStep(way, s[j - 1], posts[j], j)]
    OBVIOUS
  <2> HIDE DEF s
  <2>2. Eq(s, 0)
    BY <2>1
  <2> QED BY <2>2
<1>2. \A k \in Nat : k \in Good => k + 1 \in Good
  <2> SUFFICES ASSUME NEW k \in Nat, k \in Good PROVE \E scan : Eq(scan, k + 1)
    OBVIOUS
  <2>1. PICK s : Eq(s, k)
    OBVIOUS
  <2> DEFINE t == [j \in 0..(k + 1) |-> IF j <= k THEN s[j] ELSE ScanStep(way, s[k], posts[k + 1], k + 1)]
  <2>2. \A j \in 0..k : s[j] = (IF j = 0 THEN ScanStart(none) ELSE ScanStep(way, s[j - 1], posts[j], j))
    BY <2>1
  <2>3. t = [j \in 0..(k + 1) |-> IF j = 0 THEN ScanStart(none) ELSE ScanStep(way, t[j - 1], posts[j], j)]
    <3>1. \A j \in 0..(k + 1) : t[j] = (IF j = 0 THEN ScanStart(none) ELSE ScanStep(way, t[j - 1], posts[j], j))
      <4> SUFFICES ASSUME NEW j \in 0..(k + 1)
                   PROVE  t[j] = (IF j = 0 THEN ScanStart(none) ELSE ScanStep(way, t[j - 1], posts[j], j))
        OBVIOUS
      <4>1. CASE j = 0
        BY <2>2, <4>1
      <4>2. CASE j # 0 /\ j <= k
        <5>1. j \in 0..k /\ j - 1 \in 0..(k + 1) /\ j - 1 <= k
          BY <4>2
        <5> QED BY <2>2, <4>2, <5>1
      <4>3. CASE j = k + 1
        <5>1. j - 1 = k /\ k \in 0..(k + 1) /\ ~(j <= k) /\ j # 0 /\ k <= k
          BY <4>3
        <5> QED BY <4>3, <5>1
      <4> QED BY <4>1, <4>2, <4>3
    <3> QED BY <3>1
  <2> HIDE DEF t
  <2>4. Eq(t, k + 1)
    BY <2>3
  <2> QED BY <2>4
<1> HIDE DEF Good
<1>3. Len(posts) \in Good
  BY <1>1, <1>2, Induction
<1> QED BY <1>3 DEF Good, IsScan

(* A scan by its steps. *)
LEMMA ScanIs ==
  ASSUME NEW way, NEW posts, NEW none, NEW scan, Len(posts) \in Nat, IsScan(way, scan, posts, none)
  PROVE  /\ scan[0] = ScanStart(none)
         /\ \A j \in 1..Len(posts) : scan[j] = ScanStep(way, scan[j - 1], posts[j], j)
BY DEF IsScan

(* /maxcount is the scan of way 1, ... *)
LEMMA MaxIsScan ==
  ASSUME NEW posts, Len(posts) \in Nat
  PROVE  \E scan : /\ IsScan(1, scan, posts, -1)
                   /\ LET end == SettleBy(1, scan[Len(posts)])
                      IN  maxcount_file(posts) = [fid |-> end.best_fid, times |-> end.besttimes]
<1> DEFINE c == CHOOSE scan : IsScan(1, scan, posts, -1)
<1>1. IsScan(1, c, posts, -1)
  BY ScanExists
<1>2. maxcount_file(posts) = [fid |-> SettleBy(1, c[Len(posts)]).best_fid, times |-> SettleBy(1, c[Len(posts)]).besttimes]
  BY DEF maxcount_file, ExtremeFile, IsScan, SettleBy, Better, ScanStart, ScanStep
<1> HIDE DEF c
<1> QED BY <1>1, <1>2

(* ... and /mincount that of way 0. *)
LEMMA MinIsScan ==
  ASSUME NEW posts, Len(posts) \in Nat
  PROVE  \E scan : /\ IsScan(0, scan, posts, INT_MAX)
                   /\ LET end == SettleBy(0, scan[Len(posts)])
                      IN  mincount_file(posts) = [fid |-> end.best_fid, times |-> end.besttimes]
<1> DEFINE c == CHOOSE scan : IsScan(0, scan, posts, INT_MAX)
<1>1. IsScan(0, c, posts, INT_MAX)
  BY ScanExists
<1>2. mincount_file(posts) = [fid |-> SettleBy(0, c[Len(posts)]).best_fid, times |-> SettleBy(0, c[Len(posts)]).besttimes]
  BY DEF mincount_file, ExtremeFile, IsScan, SettleBy, Better, ScanStart, ScanStep
<1> HIDE DEF c
<1> QED BY <1>1, <1>2

(* The list posts tells where the occurrences S of a word are. *)
Tells(posts, S) ==
  /\ posts \in Seq(Posting) /\ Exact(posts, S) /\ IsFiniteSet(S)
  /\ \A o \in S : o.fileID \in Nat /\ o.lineID \in Nat
(* What a scan has counted of a file when it has come to the item p, ... *)
Upto(S, p) == {o \in S : o.fileID = p.fileID /\ o.lineID <= p.lineID}
(* ... all that there is in it, and the files with any, ... *)
InFile(S, f) == {o \in S : o.fileID = f}
Times(S, f) == Cardinality(InFile(S, f))
FilesWith(S) == {o.fileID : o \in S}
(* ... and those before f. *)
Past(S, f) == {g \in FilesWith(S) : g < f}

(* An item of the list tells a file, a line and how often the word is there. *)
LEMMA PostingsAre ==
  ASSUME NEW posts, NEW S, Tells(posts, S), NEW j \in 1..Len(posts)
  PROVE  /\ posts[j].fileID \in Nat /\ posts[j].lineID \in Nat /\ posts[j].times \in Nat
         /\ Len(posts) \in Nat /\ posts[j].fileID \in FilesWith(S)
         /\ posts[j].times = Cardinality(At(S, posts[j].fileID, posts[j].lineID))
<1>1. posts[j] \in Posting /\ Len(posts) \in Nat
  BY ElementOfSeq DEF Tells
<1>2. PICK o \in S : posts[j].fileID = o.fileID
  BY DEF Tells, Exact
<1>3. posts[j].times = Cardinality(At(S, posts[j].fileID, posts[j].lineID))
  BY DEF Tells, Exact
<1> QED BY <1>1, <1>2, <1>3 DEF Posting, FilesWith

(* Every part of the occurrences is finite. *)
LEMMA PartFinite ==
  ASSUME NEW posts, NEW S, Tells(posts, S), NEW T \in SUBSET S
  PROVE  IsFiniteSet(T) /\ Cardinality(T) \in Nat
BY FS_Subset, FS_CardinalityType DEF Tells

(* The first item of a file, ... *)
LEMMA FirstOfFile ==
  ASSUME NEW posts, NEW S, Tells(posts, S), NEW j \in 1..Len(posts),
         j = 1 \/ posts[j - 1].fileID # posts[j].fileID
  PROVE  Cardinality(Upto(S, posts[j])) = posts[j].times
<1>1. ASSUME NEW i \in 1..Len(posts), posts[i].fileID = posts[j].fileID, posts[i].lineID <= posts[j].lineID
      PROVE  i = j
  <2>1. posts[i].lineID \in Nat /\ posts[j].lineID \in Nat /\ posts[i].fileID \in Nat /\ posts[j].fileID \in Nat
    BY PostingsAre
  <2>2. CASE j < i
    <3>1. Before(posts[j], posts[i].fileID, posts[i].lineID)
      BY <2>2 DEF Tells, Exact
    <3> QED BY <1>1, <2>1, <3>1 DEF Before
  <2>3. CASE i < j
    <3>0. j - 1 \in 1..Len(posts) /\ j - 1 < j /\ (i < j - 1 \/ i = j - 1)
      BY <2>3
    <3>1. Before(posts[j - 1], posts[j].fileID, posts[j].lineID)
      BY <3>0 DEF Tells, Exact
    <3>2. i < j - 1 => Before(posts[i], posts[j - 1].fileID, posts[j - 1].lineID)
      BY <3>0 DEF Tells, Exact
    <3>3. posts[j - 1].fileID \in Nat
      BY <3>0, PostingsAre
    <3>4. posts[j - 1].fileID = posts[j].fileID
      BY <1>1, <2>1, <3>0, <3>1, <3>2, <3>3 DEF Before
    <3> QED BY <2>3, <3>4
  <2> QED BY <2>2, <2>3
<1>2. Upto(S, posts[j]) = At(S, posts[j].fileID, posts[j].lineID)
  <2>1. ASSUME NEW o \in S, o.fileID = posts[j].fileID, o.lineID <= posts[j].lineID PROVE o.lineID = posts[j].lineID
    <3>1. PICK i \in 1..Len(posts) : posts[i].fileID = o.fileID /\ posts[i].lineID = o.lineID
      BY DEF Tells, Exact
    <3> QED BY <1>1, <2>1, <3>1
  <2>2. posts[j].lineID \in Nat
    BY PostingsAre
  <2> QED BY <2>1, <2>2 DEF Upto, At
<1> QED BY <1>2, PostingsAre

(* ... one behind another of the same file, ... *)
LEMMA NextInFile ==
  ASSUME NEW posts, NEW S, Tells(posts, S), NEW j \in 1..Len(posts), j + 1 \in 1..Len(posts),
         posts[j + 1].fileID = posts[j].fileID
  PROVE  Cardinality(Upto(S, posts[j + 1])) = Cardinality(Upto(S, posts[j])) + posts[j + 1].times
<1>1. /\ posts[j].lineID \in Nat /\ posts[j].fileID \in Nat
      /\ posts[j + 1].lineID \in Nat /\ posts[j + 1].fileID \in Nat /\ posts[j].lineID < posts[j + 1].lineID
  <2>1. posts[j].lineID \in Nat /\ posts[j].fileID \in Nat
    BY PostingsAre
  <2>2. posts[j + 1].lineID \in Nat /\ posts[j + 1].fileID \in Nat
    BY PostingsAre
  <2>3. Before(posts[j], posts[j + 1].fileID, posts[j + 1].lineID)
    <3>1. j < j + 1
      OBVIOUS
    <3> QED BY <3>1 DEF Tells, Exact
  <2> QED BY <2>1, <2>2, <2>3 DEF Before
<1>2. ASSUME NEW o \in S, o.fileID = posts[j].fileID, o.lineID < posts[j + 1].lineID PROVE o.lineID <= posts[j].lineID
  <2>1. PICK i \in 1..Len(posts) : posts[i].fileID = o.fileID /\ posts[i].lineID = o.lineID
    BY DEF Tells, Exact
  <2>2. CASE i <= j
    <3>1. i < j => Before(posts[i], posts[j].fileID, posts[j].lineID)
      BY DEF Tells, Exact
    <3>2. o.lineID \in Nat
      BY DEF Tells
    <3> QED BY <1>1, <1>2, <2>1, <2>2, <3>1, <3>2 DEF Before
  <2>3. CASE j + 1 <= i
    <3>1. j + 1 < i => Before(posts[j + 1], posts[i].fileID, posts[i].lineID)
      BY DEF Tells, Exact
    <3>2. o.lineID \in Nat
      BY DEF Tells
    <3> QED BY <1>1, <1>2, <2>1, <2>3, <3>1, <3>2 DEF Before
  <2>4. Len(posts) \in Nat
    BY PostingsAre
  <2> QED BY <2>2, <2>3, <2>4
<1>3. PICK A, B, C : A = Upto(S, posts[j]) /\ B = At(S, posts[j + 1].fileID, posts[j + 1].lineID) /\ C = Upto(S, posts[j + 1])
  OBVIOUS
<1>4. A \in SUBSET S /\ B \in SUBSET S
  BY <1>3 DEF Upto, At
<1>5. C = A \cup B
  <2>1. \A o \in S : o.lineID \in Nat
    BY DEF Tells
  <2> QED BY <1>1, <1>2, <1>3, <2>1 DEF Upto, At
<1>6. A \cap B = {}
  BY <1>1, <1>3 DEF Upto, At
<1>7. IsFiniteSet(A) /\ IsFiniteSet(B) /\ Cardinality(A) \in Nat /\ Cardinality(B) \in Nat
  BY <1>4, PartFinite
<1>8. Cardinality(A \cup B) = Cardinality(A) + Cardinality(B) - Cardinality(A \cap B)
  BY <1>7, FS_Union
<1>9. Cardinality(A \cap B) = 0
  BY <1>6, FS_EmptySet
<1>10. Cardinality(B) = posts[j + 1].times
  BY <1>3, PostingsAre
<1>11. Cardinality(C) = Cardinality(A) + Cardinality(B)
  BY <1>5, <1>7, <1>8, <1>9
<1> QED BY <1>3, <1>10, <1>11

(* ... and the last. *)
LEMMA LastOfFile ==
  ASSUME NEW posts, NEW S, Tells(posts, S), NEW j \in 1..Len(posts),
         j = Len(posts) \/ posts[j + 1].fileID # posts[j].fileID
  PROVE  /\ Upto(S, posts[j]) = InFile(S, posts[j].fileID)
         /\ \A f \in FilesWith(S) : f > posts[j].fileID => j # Len(posts) /\ f >= posts[j + 1].fileID
         /\ j # Len(posts) => posts[j].fileID < posts[j + 1].fileID
<1>0. Len(posts) \in Nat /\ posts[j].lineID \in Nat /\ posts[j].fileID \in Nat
  BY PostingsAre
<1>1. ASSUME j # Len(posts)
      PROVE  /\ j + 1 \in 1..Len(posts) /\ posts[j].fileID < posts[j + 1].fileID
             /\ posts[j + 1].fileID \in Nat /\ posts[j + 1].lineID \in Nat
  <2>1. j + 1 \in 1..Len(posts) /\ j < j + 1
    <3>1. PICK n \in Nat : n = Len(posts) /\ j \in 1..n
      BY <1>0
    <3> QED BY <1>1, <3>1
  <2>2. Before(posts[j], posts[j + 1].fileID, posts[j + 1].lineID)
    BY <2>1 DEF Tells, Exact
  <2>3. posts[j + 1].fileID \in Nat /\ posts[j + 1].lineID \in Nat
    BY <2>1, PostingsAre
  <2> QED BY <1>0, <1>1, <2>1, <2>2, <2>3 DEF Before
<1>2. ASSUME NEW i \in 1..Len(posts), j < i PROVE j # Len(posts) /\ posts[j + 1].fileID <= posts[i].fileID
  <2>1. j # Len(posts) /\ (j + 1 < i \/ j + 1 = i)
    BY <1>0, <1>2
  <2>2. posts[i].fileID \in Nat
    BY PostingsAre
  <2>3. j + 1 < i => Before(posts[j + 1], posts[i].fileID, posts[i].lineID)
    BY <1>1, <2>1 DEF Tells, Exact
  <2> QED BY <1>1, <2>1, <2>2, <2>3 DEF Before
<1>3. ASSUME NEW i \in 1..Len(posts), i <= j
      PROVE  posts[i].fileID < posts[j].fileID \/ (posts[i].fileID = posts[j].fileID /\ posts[i].lineID <= posts[j].lineID)
  <2>1. i < j => Before(posts[i], posts[j].fileID, posts[j].lineID)
    BY DEF Tells, Exact
  <2>2. posts[i].fileID \in Nat /\ posts[i].lineID \in Nat
    BY PostingsAre
  <2> QED BY <1>0, <1>3, <2>1, <2>2 DEF Before
<1>4. Upto(S, posts[j]) = InFile(S, posts[j].fileID)
  <2>1. ASSUME NEW o \in S, o.fileID = posts[j].fileID PROVE o.lineID <= posts[j].lineID
    <3>1. PICK i \in 1..Len(posts) : posts[i].fileID = o.fileID /\ posts[i].lineID = o.lineID
      BY DEF Tells, Exact
    <3>2. i <= j \/ j < i
      OBVIOUS
    <3>3. ~(j < i)
      <4> SUFFICES ASSUME j < i PROVE FALSE
        OBVIOUS
      <4>1. j # Len(posts) /\ posts[j + 1].fileID <= posts[i].fileID
        BY <1>2
      <4>2. posts[j].fileID < posts[j + 1].fileID /\ posts[j + 1].fileID \in Nat
        BY <1>1, <4>1
      <4> QED BY <1>0, <2>1, <3>1, <4>1, <4>2
    <3> QED BY <1>0, <1>3, <2>1, <3>1, <3>2, <3>3
  <2> QED BY <2>1 DEF Upto, InFile
<1>5. ASSUME NEW f \in FilesWith(S), f > posts[j].fileID PROVE j # Len(posts) /\ f >= posts[j + 1].fileID
  <2>1. PICK o \in S : o.fileID = f
    BY DEF FilesWith
  <2>2. PICK i \in 1..Len(posts) : posts[i].fileID = o.fileID
    BY DEF Tells, Exact
  <2>3. posts[i].fileID \in Nat
    BY PostingsAre
  <2>4. j < i
    <3>1. i <= j => posts[i].fileID < posts[j].fileID \/ posts[i].fileID = posts[j].fileID
      BY <1>3
    <3> QED BY <1>0, <1>5, <2>1, <2>2, <2>3, <3>1
  <2>5. j # Len(posts) /\ posts[j + 1].fileID <= posts[i].fileID
    BY <1>2, <2>4
  <2>6. posts[j + 1].fileID \in Nat
    BY <1>1, <2>5
  <2> QED BY <2>1, <2>2, <2>3, <2>5, <2>6
<1>6. j # Len(posts) => posts[j].fileID < posts[j + 1].fileID
  BY <1>1
<1> QED BY <1>4, <1>5, <1>6

-----------------------------------------------------------------------------
(* The best file so far. *)

PathOf(f) == textfiles[f + 1].path
(* b is the first of the best files of G. *)
NoWorse(way, S, b, g) ==
  /\ IF way = 1 THEN Times(S, g) <= Times(S, b) ELSE Times(S, g) >= Times(S, b)
  /\ Times(S, g) = Times(S, b) => PathOf(b) <= PathOf(g)
BestOf(way, S, G, b) == b \in G /\ \A g \in G : NoWorse(way, S, b, g)
Leads(way, S, G, s) == BestOf(way, S, G, s.best_fid) /\ s.besttimes = Times(S, s.best_fid)

(* There are so few that each beats none. *)
ScanCounts(way, none, S) ==
  /\ way \in {0, 1} /\ none \in Int /\ S # {}
  /\ \A f \in FilesWith(S) : /\ f \in Files /\ PathOf(f) \in Int /\ Times(S, f) \in Nat
                             /\ IF way = 1 THEN Times(S, f) > none ELSE Times(S, f) < none

ScanState == [cur_fid : Int, totaltimes : Int, best_fid : Int, besttimes : Int]
(* The best of the files before f. *)
ScanBest(way, none, S, G, s) ==
  /\ G = {} => s.best_fid = -1 /\ s.besttimes = none
  /\ G # {} => BestOf(way, S, G, s.best_fid) /\ s.besttimes = Times(S, s.best_fid)

(* A file that has been counted is the best, or the best before it is. *)
LEMMA Settled ==
  ASSUME NEW way, NEW none, NEW S, ScanCounts(way, none, S), NEW f \in FilesWith(S),
         NEW s \in ScanState, s.cur_fid = f, s.totaltimes = Times(S, f), ScanBest(way, none, S, Past(S, f), s)
  PROVE  /\ SettleBy(way, s) \in ScanState
         /\ Leads(way, S, Past(S, f) \cup {f}, SettleBy(way, s))
<1>1. PICK G : G = Past(S, f)
  OBVIOUS
<1>2. G \in SUBSET FilesWith(S)
  BY <1>1 DEF Past
<1>3. /\ way \in {0, 1} /\ none \in Int
      /\ \A g \in FilesWith(S) : PathOf(g) \in Int /\ Times(S, g) \in Nat
      /\ \A g \in FilesWith(S) : IF way = 1 THEN Times(S, g) > none ELSE Times(S, g) < none
  BY DEF ScanCounts
<1> DEFINE updated == [s EXCEPT !.besttimes = s.totaltimes, !.best_fid = s.cur_fid]
<1>4. updated \in ScanState /\ updated.best_fid = f /\ updated.besttimes = Times(S, f)
  <2>1. f \in Int /\ Times(S, f) \in Int
    <3>1. f \in Int
      BY DEF ScanState
    <3> QED BY <1>3, <3>1
  <2> QED BY <2>1 DEF ScanState
<1>5. SettleBy(way, s) = IF \/ (IF way = 1 THEN s.totaltimes > s.besttimes ELSE s.totaltimes < s.besttimes)
                            \/ s.totaltimes = s.besttimes /\ PathOf(s.cur_fid) < PathOf(s.best_fid)
                           THEN updated ELSE s
  BY DEF SettleBy, Settle, Better, PathOf
<1> HIDE DEF updated
<1>6. CASE G = {}
  <2>1. s.besttimes = none
    BY <1>1, <1>6 DEF ScanBest
  <2>2. IF way = 1 THEN s.totaltimes > s.besttimes ELSE s.totaltimes < s.besttimes
    BY <1>3, <2>1
  <2>3. SettleBy(way, s) = updated
    BY <1>5, <2>2
  <2>4. BestOf(way, S, {f}, f)
    BY <1>3 DEF BestOf, NoWorse
  <2>5. Past(S, f) \cup {f} = {f}
    BY <1>1, <1>6
  <2> QED BY <1>4, <2>3, <2>4, <2>5 DEF Leads
<1>7. CASE G # {}
  <2>1. PICK b : b = s.best_fid
    OBVIOUS
  <2>2. BestOf(way, S, G, b) /\ s.besttimes = Times(S, b)
    BY <1>1, <1>7, <2>1 DEF ScanBest
  <2>3. b \in FilesWith(S) /\ b \in G
    BY <1>2, <2>2 DEF BestOf
  <2>4. PathOf(f) \in Int /\ PathOf(b) \in Int /\ Times(S, f) \in Nat /\ Times(S, b) \in Nat
    BY <1>3, <2>3
  <2> DEFINE Replaced == \/ (IF way = 1 THEN Times(S, f) > Times(S, b) ELSE Times(S, f) < Times(S, b))
                         \/ Times(S, f) = Times(S, b) /\ PathOf(f) < PathOf(b)
  <2>5. SettleBy(way, s) = IF Replaced THEN updated ELSE s
    BY <1>5, <2>1, <2>2
  <2>6. CASE Replaced
    <3>1. ASSUME NEW g \in G PROVE NoWorse(way, S, f, g)
      <4>1. NoWorse(way, S, b, g) /\ PathOf(g) \in Int /\ Times(S, g) \in Nat
        BY <1>2, <1>3, <2>2 DEF BestOf
      <4>2. PICK tf, tb, tg \in Nat : tf = Times(S, f) /\ tb = Times(S, b) /\ tg = Times(S, g)
        BY <2>4, <4>1
      <4>3. PICK pf, pb, pg \in Int : pf = PathOf(f) /\ pb = PathOf(b) /\ pg = PathOf(g)
        BY <2>4, <4>1
      <4> QED BY <1>3, <2>6, <4>1, <4>2, <4>3 DEF NoWorse
    <3>2. NoWorse(way, S, f, f)
      BY <2>4 DEF NoWorse
    <3>3. BestOf(way, S, G \cup {f}, f)
      BY <3>1, <3>2 DEF BestOf
    <3>4. SettleBy(way, s) = updated
      BY <2>5, <2>6
    <3> QED BY <1>1, <1>4, <3>3, <3>4 DEF Leads
  <2>7. CASE ~Replaced
    <3>1. NoWorse(way, S, b, f)
      BY <1>3, <2>4, <2>7 DEF NoWorse
    <3>2. BestOf(way, S, G \cup {f}, b)
      BY <2>2, <3>1 DEF BestOf
    <3>3. SettleBy(way, s) = s
      BY <2>5, <2>7
    <3> QED BY <1>1, <2>1, <2>2, <3>2, <3>3 DEF Leads
  <2> QED BY <2>6, <2>7
<1> QED BY <1>6, <1>7

(* The scan, item by item. *)
ScannedTo(way, none, S, s, p) ==
  /\ s \in ScanState /\ s.cur_fid = p.fileID /\ s.totaltimes = Cardinality(Upto(S, p))
  /\ ScanBest(way, none, S, Past(S, p.fileID), s)

(* No file with the word comes before the first item. *)
LEMMA NothingBefore ==
  ASSUME NEW posts, NEW S, Tells(posts, S), 1 \in 1..Len(posts)
  PROVE  Past(S, posts[1].fileID) = {}
<1> SUFFICES ASSUME NEW o \in S, o.fileID < posts[1].fileID PROVE FALSE
  BY DEF Past, FilesWith
<1>1. PICK i \in 1..Len(posts) : posts[i].fileID = o.fileID
  BY DEF Tells, Exact
<1>2. 1 < i => Before(posts[1], posts[i].fileID, posts[i].lineID)
  BY DEF Tells, Exact
<1>3. i = 1 \/ 1 < i
  OBVIOUS
<1>4. posts[1].fileID \in Nat /\ posts[i].fileID \in Nat
  BY PostingsAre
<1> QED BY <1>1, <1>2, <1>3, <1>4 DEF Before

(* Between an item and the next one of another file there is no file with the word. *)
LEMMA PastNext ==
  ASSUME NEW posts, NEW S, Tells(posts, S), NEW j \in 1..Len(posts), j + 1 \in 1..Len(posts),
         posts[j + 1].fileID # posts[j].fileID
  PROVE  Past(S, posts[j + 1].fileID) = Past(S, posts[j].fileID) \cup {posts[j].fileID}
<1>1. PICK a, b : a = posts[j].fileID /\ b = posts[j + 1].fileID
  OBVIOUS
<1>2. a \in Nat /\ a \in FilesWith(S)
  BY <1>1, PostingsAre
<1>3. b \in Nat
  BY <1>1, PostingsAre
<1>4. Len(posts) \in Nat /\ j # Len(posts)
  BY PostingsAre
<1>5. a < b /\ \A f \in FilesWith(S) : f > a => f >= b
  BY <1>1, <1>4, LastOfFile
<1>6. \A f \in FilesWith(S) : f \in Nat
  BY DEF FilesWith, Tells
<1>7. \A f \in FilesWith(S) : f < b <=> (f < a \/ f = a)
  BY <1>2, <1>3, <1>5, <1>6
<1> QED BY <1>1, <1>2, <1>7 DEF Past

(* From an item to the next. *)
LEMMA ScanGoesOn ==
  ASSUME NEW way, NEW none, NEW posts, NEW S, Tells(posts, S), ScanCounts(way, none, S),
         NEW j \in 1..Len(posts), j + 1 \in 1..Len(posts), NEW s, ScannedTo(way, none, S, s, posts[j])
  PROVE  ScannedTo(way, none, S, ScanStep(way, s, posts[j + 1], j + 1), posts[j + 1])
<1>1. PICK p, q : p = posts[j] /\ q = posts[j + 1]
  OBVIOUS
<1>2. p.fileID \in Nat /\ p.fileID \in FilesWith(S)
  BY <1>1, PostingsAre
<1>3. q.fileID \in Nat /\ q.times \in Nat
  BY <1>1, PostingsAre
<1>4. s \in ScanState /\ s.cur_fid = p.fileID /\ s.totaltimes = Cardinality(Upto(S, p))
      /\ ScanBest(way, none, S, Past(S, p.fileID), s)
  BY <1>1 DEF ScannedTo
<1>5. CASE q.fileID = p.fileID
  <2>1. PICK t : t = [s EXCEPT !.totaltimes = @ + q.times]
    OBVIOUS
  <2>2. /\ t \in ScanState /\ t.cur_fid = s.cur_fid /\ t.totaltimes = s.totaltimes + q.times
        /\ t.best_fid = s.best_fid /\ t.besttimes = s.besttimes
    BY <1>3, <1>4, <2>1 DEF ScanState
  <2>3. ScanStep(way, s, q, j + 1) = t
    BY <1>4, <1>5, <2>1 DEF ScanStep
  <2>4. Cardinality(Upto(S, q)) = Cardinality(Upto(S, p)) + q.times
    BY <1>1, <1>5, NextInFile
  <2>5. ScanBest(way, none, S, Past(S, q.fileID), t)
    BY <1>4, <1>5, <2>2 DEF ScanBest
  <2>6. ScannedTo(way, none, S, t, q)
    BY <1>4, <1>5, <2>2, <2>4, <2>5 DEF ScannedTo
  <2> QED BY <1>1, <2>3, <2>6
<1>6. CASE q.fileID # p.fileID
  <2>1. s.totaltimes = Times(S, p.fileID)
    BY <1>1, <1>4, <1>6, LastOfFile DEF Times
  <2>2. PICK e : e = SettleBy(way, s)
    OBVIOUS
  <2>3. /\ e \in ScanState /\ BestOf(way, S, Past(S, p.fileID) \cup {p.fileID}, e.best_fid)
        /\ e.besttimes = Times(S, e.best_fid)
    <3>1. PICK f : f = p.fileID /\ f \in FilesWith(S)
      BY <1>2
    <3>2. s.cur_fid = f /\ s.totaltimes = Times(S, f) /\ ScanBest(way, none, S, Past(S, f), s) /\ s \in ScanState
      BY <1>4, <2>1, <3>1
    <3>3. SettleBy(way, s) \in ScanState
      BY <3>1, <3>2, Settled
    <3>4. Leads(way, S, Past(S, f) \cup {f}, SettleBy(way, s))
      BY <3>1, <3>2, Settled
    <3> QED BY <2>2, <3>1, <3>3, <3>4 DEF Leads
  <2>4. PICK t : t = [e EXCEPT !.cur_fid = q.fileID, !.totaltimes = q.times]
    OBVIOUS
  <2>5. /\ t \in ScanState /\ t.cur_fid = q.fileID /\ t.totaltimes = q.times
        /\ t.best_fid = e.best_fid /\ t.besttimes = e.besttimes
    <3>1. PICK c, k : c = q.fileID /\ k = q.times /\ c \in Int /\ k \in Int
      BY <1>3
    <3>2. \A u \in ScanState : LET v == [u EXCEPT !.cur_fid = c, !.totaltimes = k]
                               IN  /\ v \in ScanState /\ v.cur_fid = c /\ v.totaltimes = k
                                   /\ v.best_fid = u.best_fid /\ v.besttimes = u.besttimes
      BY <3>1 DEF ScanState
    <3> QED BY <2>3, <2>4, <3>1, <3>2
  <2>6. ScanStep(way, s, q, j + 1) = t
    <3>1. j + 1 # 1 /\ s.cur_fid # q.fileID
      BY <1>4, <1>6
    <3> QED BY <2>2, <2>4, <3>1 DEF ScanStep
  <2>7. Cardinality(Upto(S, q)) = q.times
    <3>1. (j + 1) - 1 = j
      OBVIOUS
    <3>2. posts[(j + 1) - 1].fileID # posts[j + 1].fileID
      BY <1>1, <1>6, <3>1
    <3> QED BY <1>1, <3>2, FirstOfFile
  <2>8. Past(S, q.fileID) = Past(S, p.fileID) \cup {p.fileID}
    BY <1>1, <1>6, PastNext
  <2>9. ScanBest(way, none, S, Past(S, q.fileID), t)
    BY <2>3, <2>5, <2>8 DEF ScanBest
  <2>10. ScannedTo(way, none, S, t, q)
    BY <2>5, <2>7, <2>9 DEF ScannedTo
  <2> QED BY <1>1, <2>6, <2>10
<1> QED BY <1>5, <1>6

(* At the end of the list, the best of all files with the word. *)
LEMMA ScanFinds ==
  ASSUME NEW way, NEW none, NEW posts, NEW S, Tells(posts, S), ScanCounts(way, none, S),
         NEW scan, IsScan(way, scan, posts, none)
  PROVE  LET end == SettleBy(way, scan[Len(posts)])
         IN  BestOf(way, S, FilesWith(S), end.best_fid) /\ end.besttimes = Times(S, end.best_fid)
<1>1. PICK n \in Nat : n = Len(posts) /\ n # 0
  <2>1. PICK o \in S : TRUE
    BY DEF ScanCounts
  <2>2. \E j \in 1..Len(posts) : TRUE
    BY <2>1 DEF Tells, Exact
  <2>3. Len(posts) \in Nat /\ Len(posts) # 0
    BY <2>2, PostingsAre
  <2> QED BY <2>3
<1>2. scan[0] = ScanStart(none) /\ \A j \in 1..n : scan[j] = ScanStep(way, scan[j - 1], posts[j], j)
  BY <1>1, ScanIs
<1>3. ScannedTo(way, none, S, scan[1], posts[1])
  <2>1. PICK p : p = posts[1] /\ p.fileID \in Nat /\ p.times \in Nat
    BY <1>1, PostingsAre
  <2>2. PICK s : s = ScanStart(none)
    OBVIOUS
  <2>3. s \in ScanState /\ s.cur_fid = -1 /\ s.best_fid = -1 /\ s.besttimes = none
    BY <2>2 DEF ScanStart, ScanState, ScanCounts
  <2>4. PICK t : t = [s EXCEPT !.cur_fid = p.fileID, !.totaltimes = p.times]
    OBVIOUS
  <2>5. t \in ScanState /\ t.cur_fid = p.fileID /\ t.totaltimes = p.times /\ t.best_fid = -1 /\ t.besttimes = none
    <3>1. PICK c, k : c = p.fileID /\ k = p.times /\ c \in Int /\ k \in Int
      BY <2>1
    <3>2. \A u \in ScanState : LET v == [u EXCEPT !.cur_fid = c, !.totaltimes = k]
                               IN  /\ v \in ScanState /\ v.cur_fid = c /\ v.totaltimes = k
                                   /\ v.best_fid = u.best_fid /\ v.besttimes = u.besttimes
      BY <3>1 DEF ScanState
    <3> QED BY <2>3, <2>4, <3>1, <3>2
  <2>6. scan[1] = t
    <3>1. scan[1] = ScanStep(way, scan[0], p, 1)
      BY <1>1, <1>2, <2>1
    <3>2. s.cur_fid # p.fileID
      BY <2>1, <2>3
    <3> QED BY <1>2, <2>2, <2>4, <3>1, <3>2 DEF ScanStep
  <2>7. Cardinality(Upto(S, p)) = p.times
    BY <1>1, <2>1, FirstOfFile
  <2>8. Past(S, p.fileID) = {}
    BY <1>1, <2>1, NothingBefore
  <2>9. ScanBest(way, none, S, Past(S, p.fileID), t)
    BY <2>5, <2>8 DEF ScanBest
  <2>10. ScannedTo(way, none, S, t, p)
    BY <2>5, <2>7, <2>9 DEF ScannedTo
  <2> QED BY <2>1, <2>6, <2>10
<1> DEFINE Good == {k \in Nat : k + 1 <= n => ScannedTo(way, none, S, scan[k + 1], posts[k + 1])}
<1>4. 0 \in Good
  BY <1>3
<1>5. \A k \in Nat : k \in Good => k + 1 \in Good
  <2> SUFFICES ASSUME NEW k \in Nat, k \in Good, (k + 1) + 1 <= n
               PROVE  ScannedTo(way, none, S, scan[(k + 1) + 1], posts[(k + 1) + 1])
    OBVIOUS
  <2>1. PICK j : j = k + 1 /\ j \in 1..n /\ j + 1 \in 1..n /\ (j + 1) - 1 = j
    OBVIOUS
  <2>2. ScannedTo(way, none, S, scan[j], posts[j])
    BY <2>1
  <2>3. scan[j + 1] = ScanStep(way, scan[j], posts[j + 1], j + 1)
    BY <1>2, <2>1
  <2>4. ScannedTo(way, none, S, ScanStep(way, scan[j], posts[j + 1], j + 1), posts[j + 1])
    BY <1>1, <2>1, <2>2, ScanGoesOn
  <2> QED BY <2>1, <2>3, <2>4
<1>6. ScannedTo(way, none, S, scan[n], posts[n])
  <2>1. \A k \in Nat : k \in Good
    <3> HIDE DEF Good
    <3> QED BY <1>4, <1>5, Induction
  <2>2. n - 1 \in Nat /\ (n - 1) + 1 = n
    BY <1>1
  <2>3. n - 1 \in Good
    BY <2>1, <2>2
  <2> QED BY <2>2, <2>3
<1> HIDE DEF Good
<1>7. PICK s, p : s = scan[n] /\ p = posts[n]
  OBVIOUS
<1>8. /\ s \in ScanState /\ s.cur_fid = p.fileID /\ s.totaltimes = Cardinality(Upto(S, p))
      /\ ScanBest(way, none, S, Past(S, p.fileID), s)
  BY <1>6, <1>7 DEF ScannedTo
<1>9. n \in 1..Len(posts)
  BY <1>1
<1>10. p.fileID \in FilesWith(S) /\ p.fileID \in Nat
  BY <1>7, <1>9, PostingsAre
<1>11. s.totaltimes = Times(S, p.fileID) /\ \A f \in FilesWith(S) : ~(f > p.fileID)
  BY <1>1, <1>7, <1>8, <1>9, LastOfFile DEF Times
<1>12. Leads(way, S, Past(S, p.fileID) \cup {p.fileID}, SettleBy(way, s))
  BY <1>8, <1>10, <1>11, Settled
<1>13. Past(S, p.fileID) \cup {p.fileID} = FilesWith(S)
  <2>1. \A f \in FilesWith(S) : f \in Nat
    BY DEF FilesWith, Tells
  <2> QED BY <1>10, <1>11, <2>1 DEF Past
<1> QED BY <1>1, <1>7, <1>12, <1>13 DEF Leads

-----------------------------------------------------------------------------
(* The file that the scan finds. *)

(* The files have different paths, and texts that an int can count. *)
LEMMA PathsAre ==
  ASSUME Types, textfiles \in Inputs
  PROVE  /\ \A f \in Files : /\ PathOf(f) \in Int /\ f \in Nat /\ textfiles[f + 1].text \in Seq(Codes)
                             /\ Len(textfiles[f + 1].text) < INT_MAX /\ Len(textfiles[f + 1].text) \in Nat
         /\ \A f, g \in Files : PathOf(f) = PathOf(g) => f = g
<1> DEFINE R == [path : Int, text : Seq(1..255)]
<1>0. textfiles \in Seq(R) /\ Len(textfiles) \in Nat /\ DOMAIN textfiles = 1..Len(textfiles)
  BY DEF Types
<1>1. \A f \in Files : f \in Nat /\ f + 1 \in 1..Len(textfiles)
  BY <1>0 DEF Files
<1>2. \A i \in 1..Len(textfiles) : textfiles[i] \in R
  <2> HIDE DEF R
  <2> QED BY <1>0, ElementOfSeq
<1>3. \A f \in Files : PathOf(f) \in Int
  BY <1>1, <1>2 DEF PathOf
<1>4. \A f \in Files : textfiles[f + 1].text \in Seq(Codes)
  BY <1>1, <1>2 DEF Codes
<1>5. \A f \in Files : Len(textfiles[f + 1].text) < INT_MAX
  BY <1>0, <1>1, CountableTexts
<1>6. \A f \in Files : Len(textfiles[f + 1].text) \in Nat
  BY <1>4
<1>7. \A i, j \in 1..Len(textfiles) : textfiles[i].path = textfiles[j].path => i = j
  BY <1>0, DistinctPaths
<1>8. \A f, g \in Files : PathOf(f) = PathOf(g) => f = g
  <2> SUFFICES ASSUME NEW f \in Files, NEW g \in Files, PathOf(f) = PathOf(g) PROVE f = g
    OBVIOUS
  <2>1. f + 1 = g + 1
    BY <1>1, <1>7 DEF PathOf
  <2> QED BY <1>1, <2>1
<1> QED BY <1>1, <1>3, <1>4, <1>5, <1>6, <1>8

(* A word occurs in a file no more often than the file has characters. *)
LEMMA FewTimes ==
  ASSUME Types, textfiles \in Inputs, NEW S \in SUBSET Occurrences, NEW f \in Files
  PROVE  Times(S, f) \in Nat /\ Times(S, f) < INT_MAX
<1>1. PICK s \in Seq(Codes) : s = textfiles[f + 1].text /\ Len(s) < INT_MAX /\ Len(s) \in Nat
  BY PathsAre
<1> DEFINE at == [o \in InFile(S, f) |-> o.at]
<1>2. ASSUME NEW o \in InFile(S, f) PROVE o.at \in 1..Len(s) /\ o = OccurrenceAt(f, o.at)
  <2>1. o \in Occurrences /\ o.fileID = f
    BY DEF InFile
  <2>2. PICK g \in Files : \E p \in WordsOf(textfiles[g + 1].text) : o = OccurrenceAt(g, p)
    BY <2>1, OccurrencesAre
  <2>3. PICK p \in WordsOf(textfiles[g + 1].text) : o = OccurrenceAt(g, p)
    BY <2>2
  <2>4. g = f /\ o.at = p
    BY <2>1, <2>3 DEF OccurrenceAt
  <2>5. p \in Shown(s)
    BY <1>1, <2>3, <2>4, WordIsByte
  <2>6. p \in 1..Len(s)
    BY <1>1, <2>5 DEF Shown
  <2> QED BY <2>3, <2>4, <2>6
<1>3. at \in [InFile(S, f) -> 1..Len(s)]
  BY <1>2
<1>4. \A o, x \in InFile(S, f) : at[o] = at[x] => o = x
  <2> SUFFICES ASSUME NEW o \in InFile(S, f), NEW x \in InFile(S, f), at[o] = at[x] PROVE o = x
    OBVIOUS
  <2>1. o.at = x.at
    OBVIOUS
  <2> QED BY <1>2, <2>1
<1> HIDE DEF at
<1>5. at \in Injection(InFile(S, f), 1..Len(s))
  BY <1>3, <1>4 DEF Injection, IsInjective
<1>6. IsFiniteSet(1..Len(s)) /\ Cardinality(1..Len(s)) = Len(s)
  <2>1. PICK a, n \in Int : a = 1 /\ n = Len(s) /\ n >= 0
    BY <1>1
  <2>2. IsFiniteSet(a..n) /\ Cardinality(a..n) = IF a > n THEN 0 ELSE n - a + 1
    BY FS_Interval
  <2> QED BY <2>1, <2>2
<1>7. IsFiniteSet(InFile(S, f)) /\ Cardinality(InFile(S, f)) <= Cardinality(1..Len(s))
  BY <1>5, <1>6, FS_Injection
<1>8. Cardinality(InFile(S, f)) \in Nat
  BY <1>7, FS_CardinalityType
<1> QED BY <1>1, <1>6, <1>7, <1>8 DEF Times, INT_MAX

(* The file that the scan finds is the one with the most, or the least, and the first of several. *)
FirstByPath(G) == CHOOSE f \in G : \A g \in G : PathOf(f) <= PathOf(g)
Extreme(way, S) ==
  {f \in FilesWith(S) : \A g \in FilesWith(S) :
     IF way = 1 THEN Times(S, g) <= Times(S, f) ELSE Times(S, g) >= Times(S, f)}

(* The best of all files is, of those with as many, the first by its path. *)
LEMMA BestIsFirst ==
  ASSUME NEW way, NEW none, NEW S, ScanCounts(way, none, S), \A f, g \in Files : PathOf(f) = PathOf(g) => f = g,
         NEW b, BestOf(way, S, FilesWith(S), b)
  PROVE  b = FirstByPath(Extreme(way, S))
<1>1. /\ \A g \in FilesWith(S) : PathOf(g) \in Int /\ Times(S, g) \in Nat /\ g \in Files
      /\ way \in {0, 1}
  BY DEF ScanCounts
<1>2. PICK E : E = Extreme(way, S)
  OBVIOUS
<1>3. E \in SUBSET FilesWith(S)
  BY <1>2 DEF Extreme
<1>4. b \in FilesWith(S) /\ \A g \in FilesWith(S) : NoWorse(way, S, b, g)
  BY DEF BestOf
<1>5. b \in E
  BY <1>2, <1>4 DEF Extreme, NoWorse
<1>6. \A g \in E : PathOf(b) <= PathOf(g)
  <2> SUFFICES ASSUME NEW g \in E PROVE PathOf(b) <= PathOf(g)
    OBVIOUS
  <2>1. Times(S, g) = Times(S, b)
    <3>1. Times(S, g) \in Nat /\ Times(S, b) \in Nat
      BY <1>1, <1>3, <1>4
    <3>2. IF way = 1 THEN Times(S, b) <= Times(S, g) ELSE Times(S, b) >= Times(S, g)
      BY <1>2, <1>4 DEF Extreme
    <3>3. IF way = 1 THEN Times(S, g) <= Times(S, b) ELSE Times(S, g) >= Times(S, b)
      BY <1>3, <1>4 DEF NoWorse
    <3> QED BY <3>1, <3>2, <3>3
  <2> QED BY <1>3, <1>4, <2>1 DEF NoWorse
<1>7. ASSUME NEW f \in E, \A g \in E : PathOf(f) <= PathOf(g) PROVE f = b
  <2>1. PathOf(f) <= PathOf(b) /\ PathOf(b) <= PathOf(f)
    BY <1>5, <1>6, <1>7
  <2>2. PathOf(f) \in Int /\ PathOf(b) \in Int /\ f \in Files /\ b \in Files
    BY <1>1, <1>3, <1>4
  <2>3. PathOf(f) = PathOf(b)
    BY <2>1, <2>2
  <2> QED BY <2>2, <2>3
<1>8. b = (CHOOSE f \in E : \A g \in E : PathOf(f) <= PathOf(g))
  BY <1>5, <1>6, <1>7
<1> QED BY <1>2, <1>8 DEF FirstByPath

(* The list of a word that occurs tells where, and the counts fit. *)
LEMMA WordTells ==
  ASSUME Types, Filed, TrieInv, parsePc = "loop", textfiles \in Inputs,
         NEW word, word \in {o.word : o \in Occurrences}
  PROVE  /\ Tells(search(word), Of(Occurrences, word))
         /\ ScanCounts(1, -1, Of(Occurrences, word)) /\ ScanCounts(0, INT_MAX, Of(Occurrences, word))
<1>0. PICK S : S = Of(Occurrences, word)
  OBVIOUS
<1>1. PICK o \in Occurrences : o.word = word
  OBVIOUS
<1>2. S \in SUBSET Occurrences /\ S # {}
  BY <1>0, <1>1 DEF Of
<1>3. IsFiniteSet(Occurrences) /\ word \in Seq(Codes)
      /\ \A x \in Occurrences : x.fileID \in Files /\ x.lineID \in Nat
  BY <1>1, OccurringWords
<1>4. IsFiniteSet(S)
  BY <1>2, <1>3, FS_Subset
<1>5. search(word) \in Seq(Posting) /\ Exact(search(word), S)
  BY <1>0, <1>3, SearchedOccurrences
<1>6. \A f \in Files : f \in Nat /\ PathOf(f) \in Int
  BY PathsAre
<1>7. Tells(search(word), S)
  BY <1>2, <1>3, <1>4, <1>5, <1>6 DEF Tells
<1>8. \A f \in FilesWith(S) : f \in Files
  BY <1>2, <1>3 DEF FilesWith
<1>9. \A f \in Files : Times(S, f) \in Nat /\ Times(S, f) < INT_MAX
  BY <1>2, FewTimes
<1>10. ScanCounts(1, -1, S)
  BY <1>2, <1>6, <1>8, <1>9 DEF ScanCounts
<1>11. ScanCounts(0, INT_MAX, S)
  BY <1>2, <1>6, <1>8, <1>9 DEF ScanCounts, INT_MAX
<1> QED BY <1>0, <1>7, <1>10, <1>11

(* What /maxcount and /mincount return for it. *)
LEMMA ExtremesFound ==
  ASSUME Types, Filed, TrieInv, parsePc = "loop", textfiles \in Inputs,
         NEW word, word \in {o.word : o \in Occurrences}
  PROVE  LET S == Of(Occurrences, word)
             most == FirstByPath(Extreme(1, S))
             least == FirstByPath(Extreme(0, S))
         IN  /\ maxcount_file(search(word)) = [fid |-> most, times |-> Times(S, most)]
             /\ mincount_file(search(word)) = [fid |-> least, times |-> Times(S, least)]
<1>1. PICK S, posts : S = Of(Occurrences, word) /\ posts = search(word)
  OBVIOUS
<1>2. Tells(posts, S) /\ ScanCounts(1, -1, S) /\ ScanCounts(0, INT_MAX, S)
  BY <1>1, WordTells
<1>3. Len(posts) \in Nat
  BY <1>2 DEF Tells
<1>4. \A f, g \in Files : PathOf(f) = PathOf(g) => f = g
  BY PathsAre
<1>5. maxcount_file(posts) = [fid |-> FirstByPath(Extreme(1, S)), times |-> Times(S, FirstByPath(Extreme(1, S)))]
  <2>1. PICK scan : /\ IsScan(1, scan, posts, -1)
                    /\ LET end == SettleBy(1, scan[Len(posts)])
                       IN  maxcount_file(posts) = [fid |-> end.best_fid, times |-> end.besttimes]
    BY <1>3, MaxIsScan
  <2>2. PICK end : end = SettleBy(1, scan[Len(posts)])
    OBVIOUS
  <2>3. BestOf(1, S, FilesWith(S), end.best_fid) /\ end.besttimes = Times(S, end.best_fid)
    BY <1>2, <2>1, <2>2, ScanFinds
  <2>4. end.best_fid = FirstByPath(Extreme(1, S))
    BY <1>2, <1>4, <2>3, BestIsFirst
  <2> QED BY <2>1, <2>2, <2>3, <2>4
<1>6. mincount_file(posts) = [fid |-> FirstByPath(Extreme(0, S)), times |-> Times(S, FirstByPath(Extreme(0, S)))]
  <2>1. PICK scan : /\ IsScan(0, scan, posts, INT_MAX)
                    /\ LET end == SettleBy(0, scan[Len(posts)])
                       IN  mincount_file(posts) = [fid |-> end.best_fid, times |-> end.besttimes]
    BY <1>3, MinIsScan
  <2>2. PICK end : end = SettleBy(0, scan[Len(posts)])
    OBVIOUS
  <2>3. BestOf(0, S, FilesWith(S), end.best_fid) /\ end.besttimes = Times(S, end.best_fid)
    BY <1>2, <2>1, <2>2, ScanFinds
  <2>4. end.best_fid = FirstByPath(Extreme(0, S))
    BY <1>2, <1>4, <2>3, BestIsFirst
  <2> QED BY <2>1, <2>2, <2>3, <2>4
<1> QED BY <1>1, <1>5, <1>6

-----------------------------------------------------------------------------
(* What is counted. *)

(* CountsMatch, part by part. *)
TotalBytes == (CHOOSE sum : sum = [f \in 0..Len(textfiles) |->
                 IF f = 0 THEN 0 ELSE sum[f - 1] + Cardinality(Bytes(textfiles[f].text))])[Len(textfiles)]
TotalLines == (CHOOSE sum : sum = [f \in 0..Len(textfiles) |->
                 IF f = 0 THEN 0 ELSE sum[f - 1] + LinesOf(textfiles[f].text)])[Len(textfiles)]
TimesIn(found, word, f) == Cardinality({o \in found : o.word = word /\ o.fileID = f})
SomeFiles(found, word) == {o.fileID : o \in {x \in found : x.word = word}}
Most(found, word) ==
  FirstByPath({f \in SomeFiles(found, word) :
                 \A g \in SomeFiles(found, word) : TimesIn(found, word, g) <= TimesIn(found, word, f)})
Fewest(found, word) ==
  FirstByPath({f \in SomeFiles(found, word) :
                 \A g \in SomeFiles(found, word) : TimesIn(found, word, g) >= TimesIn(found, word, f)})
ExtremesMatch(found, word) ==
  /\ maxcount_file(search(word)) = [fid |-> Most(found, word), times |-> TimesIn(found, word, Most(found, word))]
  /\ mincount_file(search(word)) = [fid |-> Fewest(found, word), times |-> TimesIn(found, word, Fewest(found, word))]

(* From the parts to CountsMatch. *)
LEMMA CountsParts ==
  ASSUME parsePc = "loop" =>
           /\ wordCount = Cardinality(Occurrences) /\ byteCount = TotalBytes /\ lineCount = TotalLines
           /\ \A word \in {o.word : o \in Occurrences} : ExtremesMatch(Occurrences, word)
  PROVE  CountsMatch
BY DEF CountsMatch, TotalBytes, TotalLines, ExtremesMatch, Most, Fewest, FirstByPath, SomeFiles, TimesIn, PathOf

(* The totals of /wc. *)
LEMMA TotalsAre ==
  ASSUME Types, Filed, Tally, parsePc = "loop"
  PROVE  byteCount = TotalBytes /\ lineCount = TotalLines
<1>1. PICK bytes, lns : Tallied(bytes, lns)
  BY DEF Tally
<1>2. PICK n \in Nat : n = Len(textfiles)
  BY CountsAre
<1>3. fileID = n
  BY <1>2 DEF Types, Filed
<1>4. IsSum(bytes, ByteCounts, n) /\ IsSum(lns, LineCounts, n) /\ byteCount = bytes[n] /\ lineCount = lns[n]
  BY <1>1, <1>2, <1>3 DEF Tallied
<1> DEFINE B(sum) == sum = [f \in 0..n |-> IF f = 0 THEN 0 ELSE sum[f - 1] + Cardinality(Bytes(textfiles[f].text))]
           L(sum) == sum = [f \in 0..n |-> IF f = 0 THEN 0 ELSE sum[f - 1] + LinesOf(textfiles[f].text)]
<1>5. \A sum : B(sum) <=> IsSum(sum, ByteCounts, n)
  BY <1>2, SumsAre
<1>6. \A sum : L(sum) <=> IsSum(sum, LineCounts, n)
  BY <1>2, SumsAre
<1>7. TotalBytes = (CHOOSE sum : B(sum))[n] /\ TotalLines = (CHOOSE sum : L(sum))[n]
  BY <1>2 DEF TotalBytes, TotalLines
<1> HIDE DEF B, L
<1>8. B(CHOOSE sum : B(sum)) /\ L(CHOOSE sum : L(sum))
  BY <1>4, <1>5, <1>6
<1>9. PICK sb, sl : sb = (CHOOSE sum : B(sum)) /\ sl = (CHOOSE sum : L(sum))
  OBVIOUS
<1>10. IsSum(sb, ByteCounts, n) /\ IsSum(sl, LineCounts, n)
  BY <1>5, <1>6, <1>8, <1>9
<1>11. sb[n] = bytes[n]
  BY <1>4, <1>10, SumIs
<1>12. sl[n] = lns[n]
  BY <1>4, <1>10, SumIs
<1> QED BY <1>4, <1>7, <1>9, <1>11, <1>12

(* The extremes of a word, as CountsMatch states them. *)
LEMMA ExtremesAre ==
  ASSUME Types, Filed, TrieInv, parsePc = "loop", textfiles \in Inputs,
         NEW word, word \in {o.word : o \in Occurrences}
  PROVE  ExtremesMatch(Occurrences, word)
<1>1. PICK found, S : found = Occurrences /\ S = Of(found, word)
  OBVIOUS
<1>2. ASSUME NEW f PROVE TimesIn(found, word, f) = Times(S, f)
  <2>1. {o \in found : o.word = word /\ o.fileID = f} = InFile(S, f)
    BY <1>1 DEF InFile, Of
  <2> QED BY <2>1 DEF TimesIn, Times
<1>3. SomeFiles(found, word) = FilesWith(S)
  BY <1>1 DEF SomeFiles, FilesWith, Of
<1>4. {f \in SomeFiles(found, word) :
         \A g \in SomeFiles(found, word) : TimesIn(found, word, g) <= TimesIn(found, word, f)} = Extreme(1, S)
  BY <1>2, <1>3 DEF Extreme
<1>5. {f \in SomeFiles(found, word) :
         \A g \in SomeFiles(found, word) : TimesIn(found, word, g) >= TimesIn(found, word, f)} = Extreme(0, S)
  BY <1>2, <1>3 DEF Extreme
<1>6. Most(found, word) = FirstByPath(Extreme(1, S)) /\ Fewest(found, word) = FirstByPath(Extreme(0, S))
  BY <1>4, <1>5 DEF Most, Fewest
<1>7. PICK most, least : most = FirstByPath(Extreme(1, S)) /\ least = FirstByPath(Extreme(0, S))
  OBVIOUS
<1>8. /\ maxcount_file(search(word)) = [fid |-> most, times |-> Times(S, most)]
      /\ mincount_file(search(word)) = [fid |-> least, times |-> Times(S, least)]
  BY <1>1, <1>7, ExtremesFound
<1> QED BY <1>1, <1>2, <1>6, <1>7, <1>8 DEF ExtremesMatch

(* The invariants tell that the counts match. *)
LEMMA LoopCounts ==
  ASSUME Types, Filed, TrieInv, Tally, textfiles \in Inputs
  PROVE  CountsMatch
<1>1. ASSUME parsePc = "loop" PROVE wordCount = Cardinality(Occurrences)
  BY <1>1, OccurringWords
<1>2. ASSUME parsePc = "loop" PROVE byteCount = TotalBytes /\ lineCount = TotalLines
  BY <1>2, TotalsAre
<1>3. ASSUME parsePc = "loop", NEW word \in {o.word : o \in Occurrences} PROVE ExtremesMatch(Occurrences, word)
  BY <1>3, ExtremesAre
<1> QED BY <1>1, <1>2, <1>3, CountsParts

CountedInv == IndexInv /\ Filed /\ TrieInv /\ Tally /\ textfiles \in Inputs

(* All invariants, together. *)
LEMMA AlwaysCounted == IndexSpec => []CountedInv
<1>1. IndexInit => CountedInv
  <2>1. IndexInit => IndexInv /\ Filed
    BY InitInv, InitFiled
  <2>2. IndexInit => TrieInv /\ Tally
    BY InitTrie, InitTally
  <2> QED BY <2>1, <2>2 DEF CountedInv, IndexInit
<1>2. CountedInv /\ [IndexNext]_indexVars => CountedInv'
  <2> SUFFICES ASSUME CountedInv, [IndexNext]_indexVars PROVE CountedInv'
    OBVIOUS
  <2>1. IndexInv' /\ Filed'
    BY InvNext, FiledNext DEF CountedInv
  <2>2. TrieInv'
    BY TrieNext DEF CountedInv
  <2>3. Tally'
    BY <2>1, TallyNext DEF CountedInv
  <2>4. textfiles' = textfiles
    BY DEF IndexNext, count_lines, CountChar, CountedLine, CountedLines, parse_text, ParseChar, StoreLine,
           InsertLetter, InsertedWord, InsertedLine, Parsed_text, indexVars
  <2>5. (textfiles \in Inputs)'
    BY <2>4 DEF CountedInv
  <2> QED BY <2>1, <2>2, <2>3, <2>5 DEF CountedInv
<1> QED BY <1>1, <1>2, PTL DEF IndexSpec

(* /wc counts all bytes, words and lines once, and /maxcount and /mincount name the file    *)
(* with the most, or least, occurrences of a word, and of several the first by its path     *)
(* (inverted_index.cpp:79-153; textfiles_parsing.cpp:133-166), for any files with different *)
(* paths that are not longer than an int can count.                                         *)
THEOREM CountsRight == IndexSpec => []CountsMatch
<1>1. CountedInv => CountsMatch
  <2>1. CountedInv => Types /\ Filed /\ TrieInv /\ Tally /\ textfiles \in Inputs
    BY DEF CountedInv, IndexInv
  <2> QED BY <2>1, LoopCounts
<1> QED BY <1>1, AlwaysCounted, PTL
=============================================================================
