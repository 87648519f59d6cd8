---------------------------- MODULE WorkerIndex ----------------------------
(***************************************************************************)
(* What a worker does with the files of its directories                    *)
(* (textfiles_parsing.cpp, inverted_index.cpp, map.cpp): each is read      *)
(* twice, once to count its lines and the characters of each that are      *)
(* outside of "<...>", once to store the lines and add their words to the  *)
(* trie, whose words carry posting lists.  Then /search, /maxcount,        *)
(* /mincount and /wc are answered from it.                                 *)
(*                                                                         *)
(* A file is a record of its path, a number that stands for its place in   *)
(* the order of strcmp, and its text, a sequence of character codes.  The  *)
(* nodes of the trie are numbered in the order in which they are made; 0   *)
(* is NULL.                                                                *)
(*                                                                         *)
(* StayAtEmptyLine, CountBrackets, LinkFromPrevious and FirstOfEqual are   *)
(* slips in the definition that follows each; no action uses them.         *)
(***************************************************************************)
EXTENDS Integers, Sequences, FiniteSets

CONSTANT Inputs  \* what the directories may hold: sequences of files

ASSUME IndexAssumption == Inputs \subseteq Seq([path : Int, text : Seq(1..255)])

VARIABLES
  textfiles,
  parsePc,    \* "count", "countLine", "parse", "parseLine", "words", and then
              \* "loop" (serves), "exited" or "endless"
  fileID,     \* static: the number of the file
  pos, ch,    \* where its stream is, and the last character that was read
  html_tag, line_sizes, lineID, curline,
  lines, byteCount, wordCount, lineCount,  \* the map
  root, nodes,                             \* the trie
  wordsLeft,                               \* of curline, those not yet inserted
  curnode, previous                        \* where the insertion is in the trie

streamVars == <<pos, ch>>
fileVars == <<fileID, line_sizes, lineID>>
mapVars == <<lines, byteCount, wordCount, lineCount>>
trieVars == <<root, nodes, wordsLeft, curnode, previous>>
indexVars == <<textfiles, parsePc, fileVars, streamVars, html_tag, curline, mapVars, trieVars>>

NL == 10
Blanks == {9, 32}
LT == 60
GT == 62
Unset == -1               \* a char that was never assigned, ...
Garbage == {NL, LT, 97}   \* ... and what it may turn out to be
NULL == 0

Least(S) == CHOOSE x \in S : \A y \in S : x <= y
text == textfiles[fileID + 1].text

IndexInit ==
  /\ textfiles \in Inputs /\ parsePc = (IF textfiles = <<>> THEN "loop" ELSE "count")
  /\ fileID = 0 /\ pos = 1 /\ ch = Unset
  /\ html_tag = FALSE /\ line_sizes = <<>> /\ lineID = 0 /\ curline = <<>>
  /\ lines = <<>> /\ byteCount = 0 /\ wordCount = 0 /\ lineCount = 0
  /\ root = NULL /\ nodes = <<>> /\ wordsLeft = <<>> /\ curnode = NULL /\ previous = NULL

-----------------------------------------------------------------------------
(* The stream. *)

ignore_whitespace(p) == Least({q \in p..(Len(text) + 1) : q > Len(text) \/ text[q] \notin Blanks})
AtEnd == pos > Len(text)
(* A get() that fails leaves ch as it is. *)
get(p) ==
  IF p <= Len(text) THEN ch' = text[p] /\ pos' = p + 1
                    ELSE pos' = p /\ ch' \in (IF ch = Unset THEN Garbage ELSE {ch})

(* At the start of a line. *)
StayAtEmptyLine(q) == q
AfterEmptyLine(q) == q + 1
IgnoreEmptyLine ==
  LET q == ignore_whitespace(pos)
  IN  q <= Len(text) /\ text[q] = NL /\ pos' = AfterEmptyLine(q) /\ UNCHANGED ch
StartLine ==
  LET q == ignore_whitespace(pos)
  IN  (q <= Len(text) => text[q] # NL) /\ get(q) /\ html_tag' = FALSE

InTag == html_tag \/ ch = LT
(* The rest of an iteration: with a read that fails it is the same for ever. *)
NextChar == html_tag' = (InTag /\ ch # GT) /\ get(pos)

-----------------------------------------------------------------------------
(* The first pass, ... *)

count_lines ==
  /\ parsePc = "count" /\ ~AtEnd
  /\ \/ IgnoreEmptyLine /\ UNCHANGED <<parsePc, html_tag, line_sizes>>
     \/ StartLine /\ parsePc' = "countLine" /\ line_sizes' = Append(line_sizes, 0)
  /\ UNCHANGED <<textfiles, fileID, lineID, curline, mapVars, trieVars>>

CountBrackets(count) == IF html_tag THEN count ELSE count + 1
char_count(count) == IF InTag THEN count ELSE count + 1

CountChar ==
  /\ parsePc = "countLine" /\ ch # NL
  /\ IF AtEnd
       THEN parsePc' = "endless" /\ UNCHANGED <<streamVars, html_tag, line_sizes>>
       ELSE /\ line_sizes' = [line_sizes EXCEPT ![Len(line_sizes)] = char_count(@)]
            /\ NextChar /\ UNCHANGED parsePc
  /\ UNCHANGED <<textfiles, fileID, lineID, curline, mapVars, trieVars>>

CountedLine ==
  /\ parsePc = "countLine" /\ ch = NL /\ parsePc' = "count"
  /\ UNCHANGED <<textfiles, fileVars, streamVars, html_tag, curline, mapVars, trieVars>>

(* ... which must have found a line, ... *)
CountedLines ==
  /\ parsePc = "count" /\ AtEnd
  /\ pos' = 1 /\ ch' = Unset
  /\ IF line_sizes = <<>> THEN parsePc' = "exited" /\ UNCHANGED lines
                          ELSE parsePc' = "parse" /\ lines' = Append(lines, <<>>)
  /\ UNCHANGED <<textfiles, fileVars, html_tag, curline, byteCount, wordCount, lineCount, trieVars>>

(* ... and the second, which stores the lines ... *)
MoreToParse == lineID < Len(line_sizes) /\ ~AtEnd

parse_text ==
  /\ parsePc = "parse" /\ MoreToParse
  /\ \/ IgnoreEmptyLine /\ UNCHANGED <<parsePc, html_tag, curline>>
     \/ StartLine /\ parsePc' = "parseLine" /\ curline' = <<>>
  /\ UNCHANGED <<textfiles, fileVars, mapVars, trieVars>>

(* More than was counted: the line is broken off. *)
Surplus ==
  LET size == line_sizes[lineID + 1]
  IN  ch # NL /\ (Len(curline) > size \/ (Len(curline) = size /\ ~InTag))

ParseChar ==
  /\ parsePc = "parseLine" /\ ch # NL /\ ~Surplus
  /\ IF AtEnd /\ InTag /\ ch # GT
       THEN parsePc' = "endless" /\ UNCHANGED <<streamVars, html_tag, curline, byteCount>>
       ELSE /\ IF InTag THEN UNCHANGED <<curline, byteCount>>
                       ELSE curline' = Append(curline, ch) /\ byteCount' = byteCount + 1
            /\ NextChar /\ UNCHANGED parsePc
  /\ UNCHANGED <<textfiles, fileVars, lines, wordCount, lineCount, trieVars>>

(* strtok(curline, " \t") *)
Tokens(line) ==
  LET Runs(j) == {h \in j..Len(line) : \A g \in j..h : line[g] \notin Blanks}
      starts == {j \in 1..Len(line) : Runs(j) # {} /\ (j > 1 => line[j - 1] \in Blanks)}
      Start(m) == CHOOSE j \in starts : Cardinality({h \in starts : h <= j}) = m
  IN  [m \in 1..Cardinality(starts) |-> SubSeq(line, Start(m), Start(m) + Cardinality(Runs(Start(m))) - 1)]

StoreLine ==
  /\ parsePc = "parseLine" /\ (ch = NL \/ Surplus)
  /\ lines' = [lines EXCEPT ![fileID + 1] = Append(@, curline)] /\ lineCount' = lineCount + 1
  /\ wordsLeft' = Tokens(curline) /\ curnode' = root /\ previous' = NULL
  /\ parsePc' = "words"
  /\ UNCHANGED <<textfiles, fileVars, streamVars, html_tag, curline, byteCount, wordCount, root, nodes>>

-----------------------------------------------------------------------------
(* The posting list of a word, ordered by file and line. *)

Before(p, f, l) == p.fileID < f \/ (p.fileID = f /\ p.lineID < l)

add_appearance(posts, f, l) ==
  LET j == Least({h \in 1..(Len(posts) + 1) : h > Len(posts) \/ ~Before(posts[h], f, l)})
  IN  IF j <= Len(posts) /\ posts[j].fileID = f /\ posts[j].lineID = l
        THEN [posts EXCEPT ![j].times = @ + 1]
        ELSE SubSeq(posts, 1, j - 1) \o <<[fileID |-> f, lineID |-> l, times |-> 1]>>
               \o SubSeq(posts, j, Len(posts))

(* A horizontal list, the children of one node, ... *)
Row(ns, first) ==
  LET row[x \in 0..Len(ns)] == IF x = NULL THEN <<>> ELSE <<x>> \o row[ns[x].next]
  IN  row[first]

(* ... and the place of a letter in it, behind those that are smaller. *)
Place(ns, row, letter) ==
  Least({j \in 1..(Len(row) + 1) : j > Len(row) \/ ns[row[j]].letter >= letter})
IsAt(ns, row, letter) ==
  LET j == Place(ns, row, letter) IN j <= Len(row) /\ ns[row[j]].letter = letter

(* The new node y is the j-th of the row: the one before it, the node above or the *)
(* root points to it.                                                              *)
LinkFromPrevious(ns, row, j, y) ==
  IF previous = NULL THEN ns
  ELSE IF j = 1 THEN [ns EXCEPT ![previous].down = y] ELSE [ns EXCEPT ![previous].next = y]
Link(ns, row, j, y) ==
  IF j > 1 THEN [ns EXCEPT ![row[j - 1]].next = y]
  ELSE IF previous = NULL THEN ns
  ELSE [ns EXCEPT ![previous].down = y]

InsertLetter ==
  /\ parsePc = "words" /\ wordsLeft # <<>> /\ Head(wordsLeft) # <<>>
  /\ LET letter == Head(wordsLeft)[1]
         row == Row(nodes, curnode)
         j == Place(nodes, row, letter)
         y == Len(nodes) + 1
         new == [letter |-> letter, down |-> NULL, next |-> IF j <= Len(row) THEN row[j] ELSE NULL,
                 posting_list |-> <<>>]
     IN  IF IsAt(nodes, row, letter)
           THEN previous' = row[j] /\ curnode' = nodes[row[j]].down /\ UNCHANGED <<root, nodes>>
           ELSE /\ nodes' = Link(Append(nodes, new), row, j, y)
                /\ root' = (IF previous = NULL /\ j = 1 THEN y ELSE root)
                /\ previous' = y /\ curnode' = NULL
  /\ wordsLeft' = [wordsLeft EXCEPT ![1] = Tail(@)]
  /\ UNCHANGED <<textfiles, parsePc, fileVars, streamVars, html_tag, curline, mapVars>>

(* All letters of a word are there: it notes where that was found. *)
InsertedWord ==
  /\ parsePc = "words" /\ wordsLeft # <<>> /\ Head(wordsLeft) = <<>>
  /\ nodes' = [nodes EXCEPT ![previous].posting_list = add_appearance(@, fileID, lineID)]
  /\ wordCount' = wordCount + 1
  /\ wordsLeft' = Tail(wordsLeft) /\ curnode' = root /\ previous' = NULL
  /\ UNCHANGED <<textfiles, parsePc, fileVars, streamVars, html_tag, curline, lines, byteCount, lineCount, root>>

InsertedLine ==
  /\ parsePc = "words" /\ wordsLeft = <<>>
  /\ parsePc' = "parse" /\ lineID' = lineID + 1
  /\ UNCHANGED <<textfiles, fileID, line_sizes, streamVars, html_tag, curline, mapVars, trieVars>>

Parsed_text ==
  /\ parsePc = "parse" /\ ~MoreToParse
  /\ fileID' = fileID + 1 /\ pos' = 1 /\ ch' = Unset /\ line_sizes' = <<>> /\ lineID' = 0
  /\ parsePc' = IF fileID' = Len(textfiles) THEN "loop" ELSE "count"
  /\ UNCHANGED <<textfiles, html_tag, curline, mapVars, trieVars>>

-----------------------------------------------------------------------------
(* <<>> if the word is not there. *)
search(word) ==
  LET at[j \in 0..Len(word)] ==  \* the node of the j-th letter; 0 if there is none
        LET row == IF j > 1 /\ at[j - 1] = NULL THEN <<>>
                   ELSE Row(nodes, IF j = 1 THEN root ELSE nodes[at[j - 1]].down)
        IN  IF j > 0 /\ IsAt(nodes, row, word[j]) THEN row[Place(nodes, row, word[j])] ELSE NULL
  IN  IF word = <<>> \/ at[Len(word)] = NULL THEN <<>> ELSE nodes[at[Len(word)]].posting_list

(* /maxcount and /mincount: the file in which the word is found most, or least,  *)
(* often, the first in the order of paths of several.  s: the file cur_fid and   *)
(* its total so far, the best file and its times before it.                      *)
FirstOfEqual(s, better) ==
  IF better \/ s.totaltimes = s.besttimes
    THEN [s EXCEPT !.besttimes = s.totaltimes, !.best_fid = s.cur_fid] ELSE s
Settle(s, better) ==
  IF \/ better
     \/ s.totaltimes = s.besttimes /\ textfiles[s.cur_fid + 1].path < textfiles[s.best_fid + 1].path
    THEN [s EXCEPT !.besttimes = s.totaltimes, !.best_fid = s.cur_fid] ELSE s

ExtremeFile(posts, none, most) ==
  LET settled(s) == Settle(s, IF most THEN s.totaltimes > s.besttimes ELSE s.totaltimes < s.besttimes)
      scan[j \in 0..Len(posts)] ==
        IF j = 0 THEN [cur_fid |-> -1, totaltimes |-> 0, best_fid |-> -1, besttimes |-> none]
        ELSE LET s == scan[j - 1]
                 p == posts[j]
             IN  IF s.cur_fid = p.fileID THEN [s EXCEPT !.totaltimes = @ + p.times]
                 ELSE [(IF j = 1 THEN s ELSE settled(s))
                         EXCEPT !.cur_fid = p.fileID, !.totaltimes = p.times]
      end == settled(scan[Len(posts)])
  IN  [fid |-> end.best_fid, times |-> end.besttimes]

INT_MAX == 2147483647
maxcount_file(posts) == ExtremeFile(posts, -1, TRUE)
mincount_file(posts) == ExtremeFile(posts, INT_MAX, FALSE)

(* For what is counted only: the paths of two files differ, as those of the files of *)
(* different directories do, and an int can count the words of a file.               *)
ASSUME DistinctPaths == \A files \in Inputs : \A i, j \in DOMAIN files : files[i].path = files[j].path => i = j
ASSUME CountableTexts == \A files \in Inputs : \A i \in DOMAIN files : Len(files[i].text) < INT_MAX

-----------------------------------------------------------------------------
IndexNext ==
  \/ count_lines \/ CountChar \/ CountedLine \/ CountedLines \/ parse_text \/ ParseChar \/ StoreLine
  \/ InsertLetter \/ InsertedWord \/ InsertedLine \/ Parsed_text
IndexFairness == WF_indexVars(IndexNext)
IndexSpec == IndexInit /\ [][IndexNext]_indexVars /\ IndexFairness

-----------------------------------------------------------------------------
(* The words of a file, read off its text: a line is what ends in NL and is not    *)
(* blank; a character counts that has no "<" before it in its line without a ">"    *)
(* in between; a word is what stands between blanks when the others are gone.      *)

LineStart(s, p) == Least({q \in 1..p : \A r \in q..(p - 1) : s[r] # NL})
LineOf(s, p) ==
  Cardinality({e \in 1..(p - 1) : s[e] = NL /\ \E q \in LineStart(s, e)..(e - 1) : s[q] \notin Blanks})
Shown(s) ==
  {p \in DOMAIN s :
     s[p] # NL /\ ~\E q \in LineStart(s, p)..p : s[q] = LT /\ \A r \in q..(p - 1) : s[r] # GT}
(* The letters of the word that starts at p, if one does. *)
Letters(s, shown, p) ==
  LET here == {q \in shown : LineStart(s, q) = LineStart(s, p)}
      startsHere == \A q \in here : q < p => \E r \in q..(p - 1) : r \in here /\ s[r] \in Blanks
  IN  IF startsHere THEN {q \in here : p <= q /\ \A r \in p..q : r \in here => s[r] \notin Blanks} ELSE {}
Spelt(s, at) == [j \in 1..Cardinality(at) |-> s[CHOOSE q \in at : Cardinality({r \in at : r <= q}) = j]]

(* The characters and lines that /wc counts; what follows the last NL is a line, too. *)
Bytes(s) == {p \in Shown(s) : \E q \in LineStart(s, p)..p : s[q] \notin Blanks}
LinesOf(s) == LineOf(s, Len(s) + 1) + (IF s[Len(s)] = NL THEN 0 ELSE 1)

Files == 0..(Len(textfiles) - 1)
Occurrences ==
  UNION {LET s == textfiles[f + 1].text
             shown == Shown(s)
         IN  {[word |-> Spelt(s, Letters(s, shown, p)), fileID |-> f, lineID |-> LineOf(s, p), at |-> p] :
                p \in {q \in shown : Letters(s, shown, q) # {}}} : f \in Files}

(* Words that occur, and others. *)
Probes(found) == UNION {{o.word, Tail(o.word), SubSeq(o.word, 1, Len(o.word) - 1), Append(o.word, o.word[1])} :
                          o \in found}

(* The second pass finds every line that the first has counted, as long as counted *)
(* (textfiles_parsing.cpp:115,125: "should not happen").                           *)
PassesAgree ==
  parsePc = "parse" =>
    /\ \A j \in 1..lineID : Len(lines[fileID + 1][j]) = line_sizes[j]
    /\ ~MoreToParse => lineID = Len(line_sizes)

(* The trie finds a word exactly where it occurs, and so often, in the order of    *)
(* files and lines, and nothing for a word that does not occur                     *)
(* (inverted_index.cpp:28-61,180-249).                                             *)
IndexIsExact ==
  parsePc = "loop" =>
    LET found == Occurrences
    IN  \A word \in Probes(found) :
          LET posts == search(word)
              of == {o \in found : o.word = word}
          IN  /\ \A j \in 1..(Len(posts) - 1) : Before(posts[j], posts[j + 1].fileID, posts[j + 1].lineID)
              /\ {[fileID |-> posts[j].fileID, lineID |-> posts[j].lineID] : j \in DOMAIN posts}
                   = {[fileID |-> o.fileID, lineID |-> o.lineID] : o \in of}
              /\ \A j \in DOMAIN posts :
                   posts[j].times = Cardinality({o \in of : o.fileID = posts[j].fileID /\ o.lineID = posts[j].lineID})

(* /maxcount and /mincount name the file with the most, or least, occurrences      *)
(* among those with any, and of several the first by its path; /wc counts them all *)
(* (inverted_index.cpp:79-153).                                                    *)
CountsMatch ==
  parsePc = "loop" =>
    LET found == Occurrences
        Total(count(_)) == LET sum[f \in 0..Len(textfiles)] ==
                                 IF f = 0 THEN 0 ELSE sum[f - 1] + count(textfiles[f].text)
                           IN  sum[Len(textfiles)]
    IN  /\ wordCount = Cardinality(found)
        /\ byteCount = Total(LAMBDA s : Cardinality(Bytes(s)))
        /\ lineCount = Total(LinesOf)
        /\ \A word \in {o.word : o \in found} :
             LET times(f) == Cardinality({o \in found : o.word = word /\ o.fileID = f})
                 some == {o.fileID : o \in {x \in found : x.word = word}}
                 Foremost(fs) == CHOOSE f \in fs : \A g \in fs : textfiles[f + 1].path <= textfiles[g + 1].path
                 most == Foremost({f \in some : \A g \in some : times(g) <= times(f)})
                 least == Foremost({f \in some : \A g \in some : times(g) >= times(f)})
                 posts == search(word)
             IN  /\ maxcount_file(posts) = [fid |-> most, times |-> times(most)]
                 /\ mincount_file(posts) = [fid |-> least, times |-> times(least)]

(* Parsing comes to an end, with an index or (a file without a line) without one,  *)
(* unless the last line of a file does not end (textfiles_parsing.cpp:122,193).    *)
ParseEnds ==
  parsePc \in {"count", "parse"} ~>
    (parsePc \in {"loop", "exited"} \/ (parsePc = "endless" /\ text[Len(text)] # NL))
=============================================================================
