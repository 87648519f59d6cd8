-------------------------- MODULE WorkerTrieProofs --------------------------
(***************************************************************************)
(* The trie and the posting lists, whatever is inserted.                   *)
(*                                                                         *)
(* path[y] is the word that leads to the node y: those of one row share all *)
(* but its last letter, and are linked in the order of the letters.  Under *)
(* this invariant (Trie) the search for the place of a letter finds it, or *)
(* where it has to be, an insertion keeps the trie, and Trie::search       *)
(* returns the posting list of the node that the word leads to.            *)
(*                                                                         *)
(* A posting list is Exact for a set of occurrences if it has an item for  *)
(* each line with any, in order, and no other, with their number; another  *)
(* occurrence on the last line, or after it, keeps it so.                  *)
(***************************************************************************)
EXTENDS WorkerIndexProofs

Posting == [fileID : Nat, lineID : Nat, times : Nat]
TrieNode == [letter : Codes, down : Nat, next : Nat, posting_list : Seq(Posting)]

(* x is the node of S with the least letter, NULL if there is none. *)
Lowest(ns, S, x) == IF S = {} THEN x = NULL ELSE x \in S /\ \A y \in S : ns[x].letter <= ns[y].letter
Higher(ns, S, letter) == {y \in S : letter < ns[y].letter}
(* The nodes of S are linked in the order of their letters. *)
Linked(ns, S, first) ==
  /\ Lowest(ns, S, first)
  /\ \A x \in S : Lowest(ns, Higher(ns, S, ns[x].letter), ns[x].next)
Distinct(ns, S) == \A x, y \in S : ns[x].letter = ns[y].letter => x = y

(* Every next is NULL or a node with a greater letter. *)
Rising(ns) ==
  \A x \in 1..Len(ns) :
    ns[x].next # NULL => ns[x].next \in 1..Len(ns) /\ ns[x].letter < ns[ns[x].next].letter

(* The row has every node of S once, in the order of their letters. *)
Lists(ns, S, row) ==
  /\ row \in Seq(S) /\ \A x \in S : \E j \in 1..Len(row) : row[j] = x
  /\ \A i, j \in 1..Len(row) : i < j => ns[row[i]].letter < ns[row[j]].letter

-----------------------------------------------------------------------------
(* The fields of a node. *)
LEMMA NodeTypes ==
  ASSUME NEW ns \in Seq(TrieNode)
  PROVE  /\ Len(ns) \in Nat
         /\ \A x \in 1..Len(ns) :
              /\ ns[x] \in TrieNode /\ ns[x].letter \in Int /\ 0 <= ns[x].letter /\ ns[x].letter <= 255
              /\ ns[x].next \in Nat /\ ns[x].down \in Nat /\ ns[x].posting_list \in Seq(Posting)
<1>1. Len(ns) \in Nat
  OBVIOUS
<1>2. ASSUME NEW x \in 1..Len(ns)
      PROVE  /\ ns[x] \in TrieNode /\ ns[x].letter \in Int /\ 0 <= ns[x].letter /\ ns[x].letter <= 255
             /\ ns[x].next \in Nat /\ ns[x].down \in Nat /\ ns[x].posting_list \in Seq(Posting)
  <2>1. ns[x] \in TrieNode
    BY ElementOfSeq
  <2>2. ns[x].letter \in Codes /\ ns[x].next \in Nat /\ ns[x].down \in Nat /\ ns[x].posting_list \in Seq(Posting)
    BY <2>1 DEF TrieNode
  <2>3. \A l \in Codes : l \in Int /\ 0 <= l /\ l <= 255
    BY DEF Codes
  <2> QED BY <2>1, <2>2, <2>3
<1> QED BY <1>1, <1>2

(* The list of a row is what its recursive definition says. *)
LEMMA RowEquation ==
  ASSUME NEW ns \in Seq(TrieNode), Rising(ns)
  PROVE  \E row : /\ row = [x \in 0..Len(ns) |-> IF x = NULL THEN <<>> ELSE <<x>> \o row[ns[x].next]]
                  /\ \A first : Row(ns, first) = row[first]
<1> DEFINE D(k) == {x \in 0..Len(ns) : x # NULL => 255 - k < ns[x].letter}
           Eq(row, S) == row = [x \in S |-> IF x = NULL THEN <<>> ELSE <<x>> \o row[ns[x].next]]
           Good == {k \in Nat : \E row : Eq(row, D(k))}
<1>t. Len(ns) \in Nat /\ \A x \in 1..Len(ns) : ns[x].letter \in Int /\ ns[x].letter <= 255 /\ 0 <= ns[x].letter
  BY NodeTypes
<1>1. \E row : Eq(row, D(0))
  <2>1. D(0) = {NULL}
    BY <1>t DEF NULL
  <2> DEFINE r == [x \in {NULL} |-> <<>>]
  <2>2. r = [x \in {NULL} |-> IF x = NULL THEN <<>> ELSE <<x>> \o r[ns[x].next]]
    OBVIOUS
  <2> QED BY <2>1, <2>2
<1>2. ASSUME NEW k \in Nat, \E row : Eq(row, D(k)) PROVE \E row : Eq(row, D(k + 1))
  <2>1. PICK g : Eq(g, D(k))
    BY <1>2
  <2> DEFINE r == [x \in D(k + 1) |-> IF x = NULL THEN <<>> ELSE <<x>> \o g[ns[x].next]]
  <2>2. \A x \in D(k) : x \in D(k + 1) /\ r[x] = g[x]
    <3>1. D(k) \subseteq D(k + 1)
      BY <1>t DEF NULL
    <3> SUFFICES ASSUME NEW x \in D(k) PROVE r[x] = g[x]
      BY <3>1
    <3>2. g[x] = IF x = NULL THEN <<>> ELSE <<x>> \o g[ns[x].next]
      BY <2>1
    <3> QED BY <3>1, <3>2
  <2>3. \A x \in D(k + 1) : x # NULL => ns[x].next \in D(k)
    BY <1>t DEF Rising, NULL
  <2>4. Eq(r, D(k + 1))
    <3> HIDE DEF D
    <3> QED BY <2>2, <2>3
  <2> QED BY <2>4
<1>3. \A k \in Nat : k \in Good
  <2>1. 0 \in Good
    BY <1>1
  <2>2. \A k \in Nat : k \in Good => k + 1 \in Good
    <3> SUFFICES ASSUME NEW k \in Nat, k \in Good PROVE k + 1 \in Good
      OBVIOUS
    <3>1. \E row : Eq(row, D(k + 1))
      BY <1>2
    <3>2. k + 1 \in Nat
      OBVIOUS
    <3> HIDE DEF Eq, D
    <3> QED BY <3>1, <3>2
  <2> HIDE DEF Good
  <2> QED BY <2>1, <2>2, Induction
<1>4. D(256) = 0..Len(ns)
  BY <1>t DEF NULL
<1>5. \E row : Eq(row, 0..Len(ns))
  <2>1. 256 \in Good
    BY <1>3
  <2> QED BY <2>1, <1>4
<1> DEFINE c == CHOOSE row : Eq(row, 0..Len(ns))
<1>6. Eq(c, 0..Len(ns))
  BY <1>5
<1>7. \A first : Row(ns, first) = c[first]
  BY DEF Row
<1> QED BY <1>6, <1>7

(* A row that lists a set in order lists one more in front of it. *)
LEMMA ListsMore ==
  ASSUME NEW ns, NEW S, NEW x, NEW row, Lists(ns, S, row),
         \A y \in S : ns[y].letter \in Int /\ ns[x].letter < ns[y].letter, ns[x].letter \in Int
  PROVE  Lists(ns, S \cup {x}, <<x>> \o row)
<1> DEFINE r == <<x>> \o row
<1>1. row \in Seq(S) /\ Len(row) \in Nat /\ \A j \in 1..Len(row) : row[j] \in S
  BY ElementOfSeq DEF Lists
<1>2. row \in Seq(S \cup {x}) /\ <<x>> \in Seq(S \cup {x})
  BY <1>1
<1>3. r \in Seq(S \cup {x}) /\ Len(r) = Len(row) + 1 /\ r[1] = x
      /\ \A j \in 2..Len(r) : r[j] = row[j - 1]
  BY <1>1, <1>2
<1> HIDE DEF r
<1>4. \A z \in S \cup {x} : \E j \in 1..Len(r) : r[j] = z
  <2> SUFFICES ASSUME NEW z \in S PROVE \E j \in 1..Len(r) : r[j] = z
    BY <1>1, <1>3
  <2>1. PICK j \in 1..Len(row) : row[j] = z
    BY DEF Lists
  <2>2. j + 1 \in 1..Len(r) /\ j + 1 \in 2..Len(r) /\ (j + 1) - 1 = j
    BY <1>1, <1>3
  <2> QED BY <1>3, <2>1, <2>2
<1>5. ASSUME NEW i \in 1..Len(r), NEW j \in 1..Len(r), i < j
      PROVE  ns[r[i]].letter < ns[r[j]].letter
  <2>1. r[j] = row[j - 1] /\ j - 1 \in 1..Len(row)
    BY <1>1, <1>3, <1>5
  <2>2. CASE i = 1
    BY <1>1, <1>3, <2>1, <2>2
  <2>3. CASE i # 1
    <3>1. r[i] = row[i - 1] /\ i - 1 \in 1..Len(row) /\ i - 1 < j - 1
      BY <1>1, <1>3, <1>5, <2>3
    <3> QED BY <2>1, <3>1 DEF Lists
  <2> QED BY <2>2, <2>3
<1>6. Lists(ns, S \cup {x}, r)
  BY <1>3, <1>4, <1>5 DEF Lists
<1> QED BY <1>6 DEF r

(* What Row returns for the first node of linked nodes. *)
LEMMA RowLists ==
  ASSUME NEW ns \in Seq(TrieNode), Rising(ns), NEW S \in SUBSET (1..Len(ns)), NEW first,
         Linked(ns, S, first), Distinct(ns, S)
  PROVE  Lists(ns, S, Row(ns, first))
<1>0. PICK row : /\ row = [x \in 0..Len(ns) |-> IF x = NULL THEN <<>> ELSE <<x>> \o row[ns[x].next]]
                 /\ \A f : Row(ns, f) = row[f]
  BY RowEquation
<1>t. Len(ns) \in Nat /\ \A x \in 1..Len(ns) : ns[x].letter \in Int /\ ns[x].letter <= 255 /\ 0 <= ns[x].letter
  BY NodeTypes
<1>r. row[NULL] = <<>> /\ \A x \in 1..Len(ns) : row[x] = <<x>> \o row[ns[x].next]
  <2>1. NULL \in 0..Len(ns) /\ \A x \in 1..Len(ns) : x \in 0..Len(ns) /\ x # NULL
    BY <1>t DEF NULL
  <2> QED BY <1>0, <2>1
<1>s. \A x \in S : ns[x].letter \in Int /\ ns[x].letter <= 255 /\ 0 <= ns[x].letter
  BY <1>t
<1>n. Lists(ns, {}, <<>>)
  BY EmptySeq DEF Lists
<1> DEFINE H(x) == Higher(ns, S, ns[x].letter)
           Good == {k \in Nat : \A x \in S : 255 - k < ns[x].letter => Lists(ns, H(x) \cup {x}, row[x])}
<1>1. ASSUME NEW x \in S, Lists(ns, H(x), row[ns[x].next])
      PROVE  Lists(ns, H(x) \cup {x}, row[x])
  <2>1. \A y \in H(x) : ns[y].letter \in Int /\ ns[x].letter < ns[y].letter
    BY <1>t DEF Higher
  <2> HIDE DEF H
  <2>2. Lists(ns, H(x) \cup {x}, <<x>> \o row[ns[x].next])
    BY <1>1, <1>t, <2>1, ListsMore
  <2> QED BY <1>r, <2>2
<1>2. 0 \in Good
  BY <1>s
<1>3. ASSUME NEW k \in Nat, k \in Good PROVE k + 1 \in Good
  <2>0. k + 1 \in Nat
    BY <1>3
  <2> SUFFICES ASSUME NEW x \in S, 255 - (k + 1) < ns[x].letter
               PROVE  Lists(ns, H(x) \cup {x}, row[x])
    <3> HIDE DEF H
    <3> QED BY <2>0
  <2>1. CASE H(x) = {}
    <3>1. ns[x].next = NULL
      BY <2>1 DEF Linked, Lowest
    <3> QED BY <1>1, <1>n, <1>r, <2>1, <3>1
  <2>2. CASE H(x) # {}
    <3>1. PICK nx : nx = ns[x].next
      OBVIOUS
    <3>2. nx \in H(x) /\ \A y \in H(x) : ns[nx].letter <= ns[y].letter
      BY <2>2, <3>1 DEF Linked, Lowest
    <3>3. nx \in S /\ ns[x].letter < ns[nx].letter
      BY <3>2 DEF Higher
    <3>4. H(nx) \cup {nx} = H(x)
      BY <1>s, <3>2, <3>3 DEF Higher, Distinct
    <3>5. 255 - k < ns[nx].letter
      BY <1>s, <3>3
    <3>6. Lists(ns, H(nx) \cup {nx}, row[nx])
      BY <1>3, <3>3, <3>5
    <3> QED BY <1>1, <3>1, <3>4, <3>6
  <2> QED BY <2>1, <2>2
<1>4. \A k \in Nat : k \in Good
  <2> HIDE DEF Good
  <2> QED BY <1>2, <1>3, Induction
<1>5. ASSUME NEW x \in S PROVE Lists(ns, H(x) \cup {x}, row[x])
  <2>1. 255 - 256 < ns[x].letter
    BY <1>s
  <2>2. 256 \in Good
    <3> HIDE DEF Good
    <3> QED BY <1>4
  <2> HIDE DEF H
  <2> QED BY <2>1, <2>2
<1>6. CASE S = {}
  BY <1>0, <1>n, <1>r, <1>6 DEF Linked, Lowest
<1>7. CASE S # {}
  <2>1. first \in S /\ \A y \in S : ns[first].letter <= ns[y].letter
    BY <1>7 DEF Linked, Lowest
  <2>2. H(first) \cup {first} = S
    <3>1. \A y \in S : y # first => ns[first].letter < ns[y].letter
      BY <1>s, <2>1 DEF Distinct
    <3> QED BY <2>1, <3>1 DEF Higher
  <2>3. Lists(ns, H(first) \cup {first}, row[first])
    BY <1>5, <2>1
  <2> QED BY <1>0, <2>2, <2>3
<1> QED BY <1>6, <1>7

-----------------------------------------------------------------------------
(* The place of a letter among linked nodes. *)
LEMMA Placed ==
  ASSUME NEW ns \in Seq(TrieNode), NEW S \in SUBSET (1..Len(ns)), NEW row, Lists(ns, S, row),
         NEW letter \in Int, NEW j, j = Place(ns, row, letter)
  PROVE  /\ Len(row) \in Nat /\ j \in 1..(Len(row) + 1)
         /\ IsAt(ns, row, letter) => row[j] \in S /\ ns[row[j]].letter = letter
         /\ ~IsAt(ns, row, letter) => \A x \in S : ns[x].letter # letter
         /\ ~IsAt(ns, row, letter) =>
              Lowest(ns, Higher(ns, S, letter), IF j <= Len(row) THEN row[j] ELSE NULL)
         /\ IF j = 1 THEN \A x \in S : letter <= ns[x].letter
                     ELSE /\ row[j - 1] \in S /\ ns[row[j - 1]].letter < letter
                          /\ \A x \in S : ns[x].letter < letter => ns[x].letter <= ns[row[j - 1]].letter
<1> DEFINE P == {i \in 1..(Len(row) + 1) : i > Len(row) \/ ns[row[i]].letter >= letter}
<1>1. row \in Seq(S) /\ Len(row) \in Nat /\ \A i \in 1..Len(row) : row[i] \in S
  BY ElementOfSeq DEF Lists
<1>s. \A x \in S : ns[x].letter \in Int
  BY NodeTypes
<1>2. j \in P /\ \A i \in P : j <= i
  <2>1. P \subseteq Nat /\ Len(row) + 1 \in P
    BY <1>1
  <2>2. j = Least(P)
    BY DEF Place
  <2>3. Least(P) \in P /\ \A i \in P : Least(P) <= i
    <3> HIDE DEF P
    <3> QED BY <2>1, LeastIsThere
  <2> QED BY <2>2, <2>3
<1>3. j \in 1..(Len(row) + 1) /\ (j <= Len(row) => ns[row[j]].letter >= letter)
  BY <1>1, <1>2
<1>4. \A i \in 1..(j - 1) : i \in 1..Len(row) /\ ns[row[i]].letter < letter
  <2> SUFFICES ASSUME NEW i \in 1..(j - 1) PROVE i \in 1..Len(row) /\ ns[row[i]].letter < letter
    OBVIOUS
  <2>1. i \in 1..Len(row) /\ i < j
    BY <1>1, <1>3
  <2>2. i \notin P
    BY <1>1, <1>2, <1>3, <2>1
  <2>3. row[i] \in S
    BY <1>1, <2>1
  <2>4. i \in 1..(Len(row) + 1) /\ ~(i > Len(row))
    BY <1>1, <2>1
  <2>5. ~(ns[row[i]].letter >= letter)
    BY <2>2, <2>4
  <2>6. ns[row[i]].letter \in Int
    BY <1>s, <2>3
  <2> QED BY <2>1, <2>5, <2>6
<1>5. \A i, h \in 1..Len(row) : i <= h => ns[row[i]].letter <= ns[row[h]].letter
  <2> SUFFICES ASSUME NEW i \in 1..Len(row), NEW h \in 1..Len(row), i <= h
               PROVE  ns[row[i]].letter <= ns[row[h]].letter
    OBVIOUS
  <2>1. ns[row[i]].letter \in Int /\ ns[row[h]].letter \in Int
    BY <1>1, <1>s
  <2>2. i = h \/ i < h
    BY <1>1
  <2> QED BY <2>1, <2>2 DEF Lists
(* Those of S are before j, at j or behind. *)
<1>6. \A x \in S : \/ letter <= ns[x].letter /\ j <= Len(row) /\ ns[row[j]].letter <= ns[x].letter
                   \/ ns[x].letter < letter /\ j > 1 /\ ns[x].letter <= ns[row[j - 1]].letter
  <2> SUFFICES ASSUME NEW x \in S
               PROVE \/ letter <= ns[x].letter /\ j <= Len(row) /\ ns[row[j]].letter <= ns[x].letter
                     \/ ns[x].letter < letter /\ j > 1 /\ ns[x].letter <= ns[row[j - 1]].letter
    OBVIOUS
  <2>1. PICK i \in 1..Len(row) : row[i] = x
    BY DEF Lists
  <2>2. CASE i < j
    <3>1. i \in 1..(j - 1) /\ j - 1 \in 1..Len(row) /\ i <= j - 1 /\ j > 1
      BY <1>1, <1>3, <2>2
    <3> QED BY <1>4, <1>5, <2>1, <3>1
  <2>3. CASE ~(i < j)
    <3>1. j \in 1..Len(row) /\ j <= i
      BY <1>1, <1>3, <2>3
    <3>2. ns[row[j]].letter \in Int /\ ns[x].letter \in Int
      BY <1>1, <1>s, <3>1
    <3>3. ns[row[j]].letter >= letter /\ ns[row[j]].letter <= ns[x].letter
      BY <1>3, <1>5, <2>1, <3>1
    <3>4. letter <= ns[x].letter
      BY <3>2, <3>3
    <3> QED BY <3>1, <3>3, <3>4
  <2> QED BY <2>2, <2>3
<1>7. IsAt(ns, row, letter) <=> j <= Len(row) /\ ns[row[j]].letter = letter
  BY DEF IsAt
<1>8. IsAt(ns, row, letter) => row[j] \in S /\ ns[row[j]].letter = letter
  BY <1>1, <1>3, <1>7
<1>9. ASSUME ~IsAt(ns, row, letter), NEW x \in S PROVE ns[x].letter # letter
  <2>1. ASSUME ns[x].letter = letter PROVE FALSE
    <3>1. j \in 1..Len(row) /\ ns[row[j]].letter <= letter /\ ns[row[j]].letter >= letter
      BY <1>1, <1>3, <1>6, <2>1
    <3>2. ns[row[j]].letter \in Int
      BY <1>1, <1>s, <3>1
    <3> QED BY <1>7, <1>9, <3>1, <3>2
  <2> QED BY <2>1
<1>10. ASSUME ~IsAt(ns, row, letter)
       PROVE  Lowest(ns, Higher(ns, S, letter), IF j <= Len(row) THEN row[j] ELSE NULL)
  <2>1. CASE j <= Len(row)
    <3>0. j \in 1..Len(row)
      BY <1>1, <1>3, <2>1
    <3>1. row[j] \in S /\ ns[row[j]].letter \in Int
      BY <1>1, <1>s, <3>0
    <3>2. letter < ns[row[j]].letter
      BY <1>3, <1>7, <1>10, <2>1, <3>1
    <3>3. \A y \in Higher(ns, S, letter) : ns[row[j]].letter <= ns[y].letter
      BY <1>6, <1>s DEF Higher
    <3>4. row[j] \in Higher(ns, S, letter)
      BY <3>1, <3>2 DEF Higher
    <3> QED BY <2>1, <3>3, <3>4 DEF Lowest
  <2>2. CASE ~(j <= Len(row))
    <3>0. \A x \in S : ns[x].letter < letter /\ ns[x].letter \in Int
      BY <1>6, <1>s, <2>2
    <3>1. Higher(ns, S, letter) = {}
      <4> SUFFICES ASSUME NEW y \in Higher(ns, S, letter) PROVE FALSE
        OBVIOUS
      <4>1. y \in S /\ letter < ns[y].letter
        BY DEF Higher
      <4> QED BY <3>0, <4>1
    <3> QED BY <2>2, <3>1 DEF Lowest
  <2> QED BY <2>1, <2>2
<1>11. CASE j = 1
  <2>1. \A x \in S : letter <= ns[x].letter
    BY <1>6, <1>11
  <2> QED BY <1>1, <1>3, <1>8, <1>9, <1>10, <1>11, <2>1
<1>12. CASE j # 1
  <2>1. j - 1 \in 1..(j - 1) /\ j - 1 \in 1..Len(row)
    BY <1>1, <1>3, <1>12
  <2>2. row[j - 1] \in S /\ ns[row[j - 1]].letter < letter
    BY <1>1, <1>4, <2>1
  <2>3. \A x \in S : ns[x].letter < letter => ns[x].letter <= ns[row[j - 1]].letter
    BY <1>6, <1>s
  <2> QED BY <1>1, <1>3, <1>8, <1>9, <1>10, <1>12, <2>2, <2>3
<1> QED BY <1>11, <1>12

-----------------------------------------------------------------------------
(* The trie.  path[y] is the word that leads to node y; NULL stands for the place above the *)
(* first row, where no letter has been read.                                                *)
Word(path, x) == IF x = NULL THEN <<>> ELSE path[x]
Child(ns, first, x) == IF x = NULL THEN first ELSE ns[x].down
Below(ns, path, x) == {y \in 1..Len(ns) : path[y] = Append(Word(path, x), ns[y].letter)}
Trie(ns, first, path) ==
  /\ path \in [1..Len(ns) -> Seq(Codes)]
  /\ \A x, y \in 1..Len(ns) : path[x] = path[y] => x = y
  /\ \A y \in 1..Len(ns) : \E x \in 0..Len(ns) : y \in Below(ns, path, x)
  /\ \A x \in 0..Len(ns) : Linked(ns, Below(ns, path, x), Child(ns, first, x))

(* Sequences that are equal with one more element are equal without it. *)
LEMMA Appended ==
  ASSUME NEW D, NEW v \in Seq(D), NEW w \in Seq(D), NEW k \in D, NEW l \in D, Append(v, k) = Append(w, l)
  PROVE  v = w /\ k = l
<1>1. Len(v) = Len(w)
  <2>1. Len(Append(v, k)) = Len(v) + 1 /\ Len(Append(w, l)) = Len(w) + 1
    OBVIOUS
  <2> QED BY <2>1
<1>2. k = l
  <2>1. Append(v, k)[Len(v) + 1] = k /\ Append(w, l)[Len(w) + 1] = l
    OBVIOUS
  <2> QED BY <1>1, <2>1
<1>3. \A i \in 1..Len(v) : v[i] = w[i]
  <2> SUFFICES ASSUME NEW i \in 1..Len(v) PROVE v[i] = w[i]
    OBVIOUS
  <2>1. Append(v, k)[i] = v[i] /\ Append(w, l)[i] = w[i]
    BY <1>1
  <2> QED BY <2>1
<1> QED BY <1>1, <1>2, <1>3, SeqEqual

(* The same for words. *)
LEMMA LettersAppended ==
  \A v, w \in Seq(Codes), k, l \in Codes : Append(v, k) = Append(w, l) => v = w /\ k = l
BY Appended

(* Different nodes have different words, and the children of a node different letters. *)
LEMMA WordsDiffer ==
  ASSUME NEW ns \in Seq(TrieNode), NEW first, NEW path, Trie(ns, first, path)
  PROVE  /\ \A x \in 0..Len(ns) : Word(path, x) \in Seq(Codes)
         /\ \A x, z \in 0..Len(ns) : Word(path, x) = Word(path, z) => x = z
         /\ \A x \in 0..Len(ns), y \in 1..Len(ns), l \in Codes :
              path[y] = Append(Word(path, x), l) => y \in Below(ns, path, x) /\ ns[y].letter = l
         /\ \A x \in 0..Len(ns) : Distinct(ns, Below(ns, path, x))
<1>1. \A x \in 1..Len(ns) : path[x] \in Seq(Codes)
  BY DEF Trie
<1>t. \A y \in 1..Len(ns) : ns[y].letter \in Codes
  BY NodeTypes DEF TrieNode
<1>2. \A x \in 0..Len(ns) : Word(path, x) \in Seq(Codes)
  <2> SUFFICES ASSUME NEW x \in 0..Len(ns) PROVE Word(path, x) \in Seq(Codes)
    OBVIOUS
  <2>1. CASE x = NULL
    BY <2>1, EmptySeq DEF Word
  <2>2. CASE x # NULL
    <3>1. x \in 1..Len(ns)
      BY <2>2, NodeTypes DEF NULL
    <3> QED BY <1>1, <2>2, <3>1 DEF Word
  <2> QED BY <2>1, <2>2
<1>3. \A y \in 1..Len(ns) : path[y] # <<>>
  <2> SUFFICES ASSUME NEW y \in 1..Len(ns) PROVE path[y] # <<>>
    OBVIOUS
  <2>1. PICK x \in 0..Len(ns) : path[y] = Append(Word(path, x), ns[y].letter)
    BY DEF Trie, Below
  <2>2. PICK w \in Seq(Codes), l \in Codes : path[y] = Append(w, l)
    BY <1>2, <1>t, <2>1
  <2>3. Len(path[y]) = Len(w) + 1
    BY <2>2
  <2>4. Len(w) \in Nat
    OBVIOUS
  <2> QED BY <2>3, <2>4, EmptySeq
<1>4. ASSUME NEW x \in 0..Len(ns), NEW z \in 0..Len(ns), Word(path, x) = Word(path, z) PROVE x = z
  <2>1. \A u \in 0..Len(ns) : u # NULL => u \in 1..Len(ns)
    BY NodeTypes DEF NULL
  <2>2. CASE x = NULL
    BY <1>3, <1>4, <2>1, <2>2 DEF Word
  <2>3. CASE z = NULL
    BY <1>3, <1>4, <2>1, <2>3 DEF Word
  <2>4. CASE x # NULL /\ z # NULL
    <3>1. x \in 1..Len(ns) /\ z \in 1..Len(ns) /\ path[x] = path[z]
      BY <1>4, <2>1, <2>4 DEF Word
    <3> QED BY <3>1 DEF Trie
  <2> QED BY <2>2, <2>3, <2>4
<1>5. ASSUME NEW x \in 0..Len(ns), NEW y \in 1..Len(ns), NEW l \in Codes,
             path[y] = Append(Word(path, x), l)
      PROVE  y \in Below(ns, path, x) /\ ns[y].letter = l
  <2>1. PICK u \in 0..Len(ns) : path[y] = Append(Word(path, u), ns[y].letter)
    BY DEF Trie, Below
  <2>2. PICK v, w \in Seq(Codes), k \in Codes : v = Word(path, u) /\ w = Word(path, x) /\ k = ns[y].letter
    BY <1>2, <1>t
  <2>3. v = w /\ k = l
    <3>1. Append(v, k) = Append(w, l)
      BY <1>5, <2>1, <2>2
    <3> QED BY <3>1, Appended
  <2>4. Word(path, u) = Word(path, x) /\ ns[y].letter = l
    BY <2>2, <2>3
  <2> QED BY <1>5, <2>4 DEF Below
<1>6. ASSUME NEW x \in 0..Len(ns), NEW y \in Below(ns, path, x), NEW z \in Below(ns, path, x),
             ns[y].letter = ns[z].letter
      PROVE  y = z
  <2>1. y \in 1..Len(ns) /\ z \in 1..Len(ns) /\ path[y] = path[z]
    BY <1>6 DEF Below
  <2> QED BY <2>1 DEF Trie
<1> QED BY <1>2, <1>4, <1>5, <1>6 DEF Distinct

(* Along the links next and down the letters rise. *)
LEMMA TrieRises ==
  ASSUME NEW ns \in Seq(TrieNode), NEW first, NEW path, Trie(ns, first, path)
  PROVE  Rising(ns)
<1> SUFFICES ASSUME NEW y \in 1..Len(ns), ns[y].next # NULL
             PROVE  ns[y].next \in 1..Len(ns) /\ ns[y].letter < ns[ns[y].next].letter
  BY DEF Rising
<1>1. PICK x \in 0..Len(ns) : y \in Below(ns, path, x)
  BY DEF Trie
<1>2. Lowest(ns, Higher(ns, Below(ns, path, x), ns[y].letter), ns[y].next)
  BY <1>1 DEF Trie, Linked
<1>3. ns[y].next \in Higher(ns, Below(ns, path, x), ns[y].letter)
  BY <1>2 DEF Lowest
<1> QED BY <1>3 DEF Higher, Below

(* The row below a node lists all its children by their letters. *)
LEMMA TrieRows ==
  ASSUME NEW ns \in Seq(TrieNode), NEW first, NEW path, Trie(ns, first, path), NEW x \in 0..Len(ns)
  PROVE  Lists(ns, Below(ns, path, x), Row(ns, Child(ns, first, x)))
<1>1. Below(ns, path, x) \in SUBSET (1..Len(ns))
  BY DEF Below
<1>2. Linked(ns, Below(ns, path, x), Child(ns, first, x))
  BY DEF Trie
<1> QED BY <1>1, <1>2, TrieRises, WordsDiffer, RowLists

(* Only the letters of nodes count for which is the lowest. *)
LEMMA LettersCount ==
  ASSUME NEW ns, NEW ns2, NEW S, \A z \in S : ns2[z].letter = ns[z].letter
  PROVE  \A x : Lowest(ns2, S, x) <=> Lowest(ns, S, x)
BY DEF Lowest

(* What changes when node y, with a letter that was not there, becomes the j-th of the row *)
(* below x.                                                                                *)
Joins(ns, first, x, row, j, letter, y, ns2, first2) ==
  /\ y = Len(ns) + 1 /\ Len(ns2) = y
  /\ ns2[y].letter = letter /\ ns2[y].down = NULL
  /\ ns2[y].next = (IF j <= Len(row) THEN row[j] ELSE NULL)
  /\ \A z \in 1..Len(ns) :
       /\ ns2[z].letter = ns[z].letter
       /\ ns2[z].next = (IF j > 1 /\ z = row[j - 1] THEN y ELSE ns[z].next)
       /\ ns2[z].down = (IF j = 1 /\ z = x THEN y ELSE ns[z].down)
  /\ first2 = (IF x = NULL /\ j = 1 THEN y ELSE first)

(* The trie has grown by a node with this word. *)
Grown(ns, path, word, y, ns2, first2) ==
  \E path2 : Trie(ns2, first2, path2) /\ path2[y] = word /\ \A z \in 1..Len(ns) : path2[z] = path[z]

(* The row that the node joins is linked in order again. *)
LEMMA RowJoined ==
  ASSUME NEW ns \in Seq(TrieNode), NEW ns2 \in Seq(TrieNode), NEW first, NEW first2,
         NEW S \in SUBSET (1..Len(ns)), NEW row, NEW j, NEW letter \in Int, NEW x, NEW y, NEW head, NEW head2,
         Lists(ns, S, row), j = Place(ns, row, letter), ~IsAt(ns, row, letter),
         Linked(ns, S, head), Distinct(ns, S), Joins(ns, first, x, row, j, letter, y, ns2, first2),
         head2 = (IF j = 1 THEN y ELSE head)
  PROVE  Linked(ns2, S \cup {y}, head2)
<1> DEFINE T == S \cup {y}
<1>s. \A z \in S : /\ z \in 1..Len(ns) /\ z # y /\ ns2[z].letter = ns[z].letter /\ ns[z].letter \in Int
                   /\ ns2[z].next = (IF j > 1 /\ z = row[j - 1] THEN y ELSE ns[z].next)
  BY NodeTypes DEF Joins
<1>y. ns2[y].letter = letter /\ ns2[y].next = (IF j <= Len(row) THEN row[j] ELSE NULL)
  BY DEF Joins
<1>p. /\ Len(row) \in Nat /\ j \in 1..(Len(row) + 1)
      /\ \A z \in S : ns[z].letter # letter
      /\ Lowest(ns, Higher(ns, S, letter), IF j <= Len(row) THEN row[j] ELSE NULL)
      /\ IF j = 1 THEN \A z \in S : letter <= ns[z].letter
                  ELSE /\ row[j - 1] \in S /\ ns[row[j - 1]].letter < letter
                       /\ \A z \in S : ns[z].letter < letter => ns[z].letter <= ns[row[j - 1]].letter
  BY Placed
<1>l. /\ \A l : Higher(ns2, S, l) = Higher(ns, S, l)
      /\ \A l, z : Lowest(ns2, Higher(ns, S, l), z) <=> Lowest(ns, Higher(ns, S, l), z)
  <2>1. \A l : Higher(ns2, S, l) = Higher(ns, S, l)
    <3>1. \A z \in S : ns2[z].letter = ns[z].letter
      BY <1>s
    <3> QED BY <3>1 DEF Higher
  <2>2. ASSUME NEW l PROVE \A z : Lowest(ns2, Higher(ns, S, l), z) <=> Lowest(ns, Higher(ns, S, l), z)
    <3>1. \A z \in Higher(ns, S, l) : ns2[z].letter = ns[z].letter
      BY <1>s DEF Higher
    <3> QED BY <3>1, LettersCount
  <2> QED BY <2>1, <2>2
<1>h. \A l : Higher(ns2, T, l) = (IF l < letter THEN Higher(ns, S, l) \cup {y} ELSE Higher(ns, S, l))
  <2>1. \A l : Higher(ns2, T, l) = (IF l < letter THEN Higher(ns2, S, l) \cup {y} ELSE Higher(ns2, S, l))
    BY <1>s, <1>y DEF Higher
  <2> QED BY <1>l, <2>1
<1>1. Lowest(ns2, T, head2)
  <2>1. CASE j = 1
    BY <1>p, <1>s, <1>y, <2>1 DEF Lowest
  <2>2. CASE j # 1
    <3>1. S # {} /\ row[j - 1] \in S /\ ns[row[j - 1]].letter < letter /\ ns[row[j - 1]].letter \in Int
      BY <1>p, <1>s, <2>2
    <3>2. head \in S /\ \A z \in S : ns[head].letter <= ns[z].letter
      BY <3>1 DEF Linked, Lowest
    <3>3. ns[head].letter <= letter /\ ns2[head].letter = ns[head].letter
      <4>1. ns[head].letter \in Int /\ ns2[head].letter = ns[head].letter
        BY <1>s, <3>2
      <4>2. ns[head].letter <= ns[row[j - 1]].letter
        BY <3>1, <3>2
      <4> QED BY <3>1, <4>1, <4>2
    <3> QED BY <1>s, <1>y, <2>2, <3>2, <3>3 DEF Lowest
  <2> QED BY <2>1, <2>2
<1>2. Lowest(ns2, Higher(ns2, T, ns2[y].letter), ns2[y].next)
  <2>1. Higher(ns2, T, ns2[y].letter) = Higher(ns, S, letter)
    <3>1. Higher(ns2, T, letter) = Higher(ns, S, letter)
      <4>1. ~(letter < letter)
        OBVIOUS
      <4> HIDE DEF T
      <4> QED BY <1>h, <4>1, Zenon
    <3> QED BY <1>y, <3>1
  <2> QED BY <1>l, <1>p, <1>y, <2>1
<1>3. ASSUME NEW z \in S PROVE Lowest(ns2, Higher(ns2, T, ns2[z].letter), ns2[z].next)
  <2>1. PICK l \in Int : l = ns[z].letter /\ l = ns2[z].letter /\ l # letter
    BY <1>p, <1>s
  <2>2. Lowest(ns, Higher(ns, S, l), ns[z].next)
    BY <2>1 DEF Linked
  <2>3. CASE letter < l
    <3>1. Higher(ns2, T, l) = Higher(ns, S, l)
      <4>1. ~(l < letter)
        BY <2>3
      <4> HIDE DEF T
      <4> QED BY <1>h, <4>1, Zenon
    <3>2. ns2[z].next = ns[z].next
      BY <1>p, <1>s, <2>1, <2>3
    <3> QED BY <1>l, <2>1, <2>2, <3>1, <3>2
  <2>4. CASE l < letter
    <3>0. j # 1 /\ j > 1
      <4>1. ASSUME j = 1 PROVE FALSE
        <5>1. letter <= ns[z].letter
          BY <1>p, <4>1
        <5> QED BY <2>1, <2>4, <5>1
      <4> QED BY <1>p, <4>1
    <3>1. Higher(ns2, T, l) = Higher(ns, S, l) \cup {y}
      BY <1>h, <2>4
    <3>2. PICK u \in S, k \in Int : u = row[j - 1] /\ k = ns[u].letter /\ k < letter /\ l <= k
      BY <1>p, <1>s, <2>1, <2>4, <3>0
    <3>3. CASE z = u
      <4>1. ns2[z].next = y
        BY <1>s, <3>0, <3>2, <3>3
      <4>2. \A v \in Higher(ns, S, l) : letter <= ns2[v].letter
        <5> SUFFICES ASSUME NEW v \in S, l < ns[v].letter PROVE letter <= ns2[v].letter
          BY DEF Higher
        <5>1. ns[v].letter < letter => ns[v].letter <= l
          BY <1>p, <2>1, <3>0, <3>2, <3>3
        <5> QED BY <1>s, <2>1, <5>1
      <4>3. Lowest(ns2, Higher(ns, S, l) \cup {y}, y)
        BY <1>y, <4>2 DEF Lowest
      <4> QED BY <2>1, <3>1, <4>1, <4>3
    <3>4. CASE z # u
      <4>1. l < k /\ u \in Higher(ns, S, l)
        <5>1. l # k
          BY <2>1, <3>2, <3>4 DEF Distinct
        <5>2. l < k
          BY <3>2, <5>1
        <5> QED BY <3>2, <5>2 DEF Higher
      <4>2. PICK nx : nx = ns[z].next
        OBVIOUS
      <4>3. nx \in Higher(ns, S, l) /\ \A v \in Higher(ns, S, l) : ns[nx].letter <= ns[v].letter
        BY <2>2, <4>1, <4>2 DEF Lowest
      <4>4. ns[nx].letter <= letter /\ ns2[nx].letter = ns[nx].letter
        BY <1>s, <3>2, <4>1, <4>3 DEF Higher
      <4>5. ns2[z].next = nx
        BY <1>s, <3>2, <3>4, <4>2
      <4>6. \A v \in Higher(ns, S, l) : ns2[v].letter = ns[v].letter
        BY <1>s DEF Higher
      <4> QED BY <1>y, <2>1, <3>1, <4>3, <4>4, <4>5, <4>6 DEF Lowest
    <3> QED BY <3>3, <3>4
  <2> QED BY <2>1, <2>3, <2>4
<1> QED BY <1>1, <1>2, <1>3 DEF Linked

(* The trie with the new node. *)
LEMMA NodeJoins ==
  ASSUME NEW ns \in Seq(TrieNode), NEW ns2 \in Seq(TrieNode), NEW first, NEW first2, NEW path,
         Trie(ns, first, path), NEW x \in 0..Len(ns), NEW row, NEW j, NEW letter \in Codes, NEW y,
         Lists(ns, Below(ns, path, x), row), j = Place(ns, row, letter), ~IsAt(ns, row, letter),
         Joins(ns, first, x, row, j, letter, y, ns2, first2)
  PROVE  Grown(ns, path, Append(Word(path, x), letter), y, ns2, first2)
<1> DEFINE path2 == [z \in 1..y |-> IF z = y THEN Append(Word(path, x), letter) ELSE path[z]]
           S == Below(ns, path, x)
<1>0. Len(ns) \in Nat /\ y = Len(ns) + 1 /\ Len(ns2) = y /\ y \in Nat /\ letter \in Int
      /\ \A z \in 1..y : z \in 1..Len(ns) \/ z = y
  BY NodeTypes DEF Joins, Codes
<1>j. /\ ns2[y].letter = letter /\ ns2[y].down = NULL /\ first2 = (IF x = NULL /\ j = 1 THEN y ELSE first)
      /\ \A z \in 1..Len(ns) :
           /\ ns2[z].letter = ns[z].letter
           /\ ns2[z].next = (IF j > 1 /\ z = row[j - 1] THEN y ELSE ns[z].next)
           /\ ns2[z].down = (IF j = 1 /\ z = x THEN y ELSE ns[z].down)
  BY DEF Joins
<1>w. /\ \A z \in 0..Len(ns) : Word(path, z) \in Seq(Codes)
      /\ \A u, z \in 0..Len(ns) : Word(path, u) = Word(path, z) => u = z
      /\ \A u \in 0..Len(ns), z \in 1..Len(ns), l \in Codes :
           path[z] = Append(Word(path, u), l) => z \in Below(ns, path, u) /\ ns[z].letter = l
      /\ \A z \in 0..Len(ns) : Distinct(ns, Below(ns, path, z))
  BY WordsDiffer
<1>t. \A z \in 1..Len(ns) : ns[z].letter \in Codes
  BY NodeTypes DEF TrieNode
<1>p. /\ \A z \in S : ns[z].letter # letter
      /\ IF j = 1 THEN TRUE ELSE row[j - 1] \in S
  <2>1. S \in SUBSET (1..Len(ns))
    BY DEF Below
  <2>2. Lists(ns, S, row)
    OBVIOUS
  <2> HIDE DEF S
  <2> QED BY <1>0, <2>1, <2>2, Placed
(* The new word leads to none of the nodes. *)
<1>n. \A z \in 1..Len(ns) : path[z] # Append(Word(path, x), letter)
  BY <1>p, <1>w
<1>1. /\ path2[y] = Append(Word(path, x), letter)
      /\ \A z \in 1..Len(ns) : path2[z] = path[z]
      /\ path2 \in [1..Len(ns2) -> Seq(Codes)]
  <2>1. \A z \in 1..Len(ns) : path[z] \in Seq(Codes)
    BY DEF Trie
  <2>2. Append(Word(path, x), letter) \in Seq(Codes)
    BY <1>w
  <2>3. \A z \in 1..Len(ns) : z # y
    BY <1>0
  <2>4. y \in 1..y /\ \A z \in 1..Len(ns) : z \in 1..y
    BY <1>0
  <2> QED BY <1>0, <2>1, <2>2, <2>3, <2>4
<1>2. ASSUME NEW u \in 1..Len(ns2), NEW z \in 1..Len(ns2), path2[u] = path2[z] PROVE u = z
  <2> HIDE DEF path2
  <2>1. \A v, q \in 1..Len(ns) : path[v] = path[q] => v = q
    BY DEF Trie
  <2> QED BY <1>0, <1>1, <1>2, <1>n, <2>1
<1>3. \A z \in 0..Len(ns) : Word(path2, z) = Word(path, z)
  <2>1. \A z \in 0..Len(ns) : z = NULL \/ z \in 1..Len(ns)
    BY <1>0 DEF NULL
  <2> HIDE DEF path2
  <2> QED BY <1>1, <2>1 DEF Word
<1>4. ASSUME NEW z \in 0..Len(ns)
      PROVE  Below(ns2, path2, z) = (IF z = x THEN S \cup {y} ELSE Below(ns, path, z))
  <2> HIDE DEF path2
  <2>1. \A v \in 1..Len(ns) : v \in Below(ns2, path2, z) <=> v \in Below(ns, path, z)
    BY <1>0, <1>1, <1>3, <1>j DEF Below
  <2>2. y \in Below(ns2, path2, z) <=> z = x
    <3>1. y \in Below(ns2, path2, z) <=> Append(Word(path, x), letter) = Append(Word(path, z), letter)
      BY <1>0, <1>1, <1>3, <1>j DEF Below
    <3>2. Append(Word(path, x), letter) = Append(Word(path, z), letter) => Word(path, x) = Word(path, z)
      <4>1. Word(path, x) \in Seq(Codes) /\ Word(path, z) \in Seq(Codes)
        BY <1>w
      <4> QED BY <4>1, LettersAppended
    <3> QED BY <1>w, <3>1, <3>2
  <2>3. Below(ns2, path2, z) \subseteq 1..y /\ Below(ns, path, z) \subseteq 1..Len(ns)
    BY <1>0 DEF Below
  <2>4. \A v : v \in Below(ns2, path2, z) <=> v \in (IF z = x THEN S \cup {y} ELSE Below(ns, path, z))
    <3> SUFFICES ASSUME NEW v
                 PROVE  v \in Below(ns2, path2, z) <=> v \in (IF z = x THEN S \cup {y} ELSE Below(ns, path, z))
      OBVIOUS
    <3>1. CASE v \in 1..Len(ns)
      <4>1. v # y
        BY <1>0, <3>1
      <4> QED BY <2>1, <3>1, <4>1
    <3>2. CASE v = y
      <4>1. y \notin 1..Len(ns)
        BY <1>0
      <4> QED BY <2>2, <2>3, <3>2, <4>1
    <3>3. CASE v \notin 1..Len(ns) /\ v # y
      <4>1. v \notin S
        BY <3>3 DEF Below
      <4> QED BY <1>0, <2>3, <3>3, <4>1
    <3> QED BY <3>1, <3>2, <3>3
  <2> HIDE DEF S
  <2> QED BY <2>4
<1>5. Below(ns2, path2, y) = {}
  <2> HIDE DEF path2
  <2> SUFFICES ASSUME NEW z \in 1..y, path2[z] = Append(path2[y], ns2[z].letter) PROVE FALSE
    <3>1. Word(path2, y) = path2[y]
      BY <1>0 DEF Word, NULL
    <3>2. \A v \in Below(ns2, path2, y) : v \in 1..y /\ path2[v] = Append(path2[y], ns2[v].letter)
      BY <1>0, <3>1 DEF Below
    <3> QED BY <3>2
  <2>1. PICK w \in Seq(Codes) : w = path2[y]
    <3>1. Append(Word(path, x), letter) \in Seq(Codes)
      BY <1>w
    <3> QED BY <1>1, <3>1
  <2>2. Len(Append(w, ns2[z].letter)) = Len(w) + 1 /\ Len(w) \in Nat
    OBVIOUS
  <2>3. z # y
    BY <2>1, <2>2
  <2>4. z \in 1..Len(ns) /\ path[z] = Append(w, ns[z].letter)
    BY <1>0, <1>1, <1>j, <2>1, <2>3
  <2>5. PICK u \in 0..Len(ns) : path[z] = Append(Word(path, u), ns[z].letter)
    BY <2>4 DEF Trie, Below
  <2>6. Word(path, u) = w
    <3>1. Word(path, u) \in Seq(Codes) /\ ns[z].letter \in Codes
      BY <1>w, <1>t, <2>4
    <3>2. Append(Word(path, u), ns[z].letter) = Append(w, ns[z].letter)
      BY <2>4, <2>5
    <3>3. PICK v \in Seq(Codes), l \in Codes : v = Word(path, u) /\ l = ns[z].letter
      BY <3>1
    <3>4. Append(v, l) = Append(w, l)
      BY <3>2, <3>3
    <3>a. w \in Seq(Codes)
      BY <2>1
    <3>b. v \in Seq(Codes)
      BY <3>3
    <3>c. l \in Codes
      BY <3>3
    <3>5. v = w
      BY <3>a, <3>b, <3>c, <3>4, LettersAppended
    <3> QED BY <3>3, <3>5
  <2>7. CASE u = NULL
    <3>1. w = <<>> /\ w = Append(Word(path, x), letter)
      BY <1>1, <2>1, <2>6, <2>7 DEF Word
    <3>2. PICK v \in Seq(Codes) : v = Word(path, x)
      BY <1>w
    <3>3. Len(w) = Len(v) + 1 /\ Len(v) \in Nat
      BY <3>1, <3>2
    <3> QED BY <3>1, <3>3
  <2>8. CASE u # NULL
    <3>1. u \in 1..Len(ns)
      BY <1>0, <2>8 DEF NULL
    <3>2. path[u] = Append(Word(path, x), letter)
      BY <1>1, <2>1, <2>6, <2>8 DEF Word
    <3> QED BY <1>n, <3>1, <3>2
  <2> QED BY <2>7, <2>8
<1>6. ASSUME NEW z \in 1..Len(ns2) PROVE \E u \in 0..Len(ns2) : z \in Below(ns2, path2, u)
  <2> HIDE DEF path2
  <2>1. \A u \in 0..Len(ns) : u \in 0..Len(ns2)
    BY <1>0
  <2>2. CASE z = y
    BY <1>4, <2>1, <2>2
  <2>3. CASE z # y
    <3>1. PICK u \in 0..Len(ns) : z \in Below(ns, path, u)
      BY <1>0, <2>3 DEF Trie
    <3> QED BY <1>4, <2>1, <3>1
  <2> QED BY <2>2, <2>3
<1>7. ASSUME NEW z \in 0..Len(ns2) PROVE Linked(ns2, Below(ns2, path2, z), Child(ns2, first2, z))
  <2> HIDE DEF path2
  <2>1. CASE z = y
    <3>1. Child(ns2, first2, z) = NULL
      BY <1>0, <1>j, <2>1 DEF Child, NULL
    <3> QED BY <1>5, <2>1, <3>1 DEF Linked, Lowest
  <2>2. CASE z # y /\ z # x
    <3>0. z \in 0..Len(ns)
      BY <1>0, <2>2
    <3> DEFINE B == Below(ns, path, z)
    <3>1. Below(ns2, path2, z) = B
      BY <1>4, <2>2, <3>0
    <3>2. Child(ns2, first2, z) = Child(ns, first, z)
      <4>1. z = NULL \/ z \in 1..Len(ns)
        BY <1>0, <3>0 DEF NULL
      <4> QED BY <1>j, <2>2, <4>1 DEF Child
    <3>3. B \subseteq 1..Len(ns) /\ B \cap S = {}
      <4>1. B \subseteq 1..Len(ns)
        BY DEF Below
      <4>2. ASSUME NEW v \in B, v \in S PROVE FALSE
        <5>1. v \in 1..Len(ns) /\ Append(Word(path, z), ns[v].letter) = Append(Word(path, x), ns[v].letter)
          BY <4>2 DEF Below
        <5>2. Word(path, z) \in Seq(Codes) /\ Word(path, x) \in Seq(Codes) /\ ns[v].letter \in Codes
          BY <1>w, <1>t, <3>0, <5>1
        <5>3. Word(path, z) = Word(path, x)
          <6>1. PICK q, w \in Seq(Codes), l \in Codes :
                  q = Word(path, z) /\ w = Word(path, x) /\ l = ns[v].letter
            BY <5>2
          <6>2. Append(q, l) = Append(w, l)
            BY <5>1, <6>1
          <6>3. q = w
            BY <6>1, <6>2, LettersAppended
          <6> QED BY <6>1, <6>3
        <5> QED BY <1>w, <2>2, <3>0, <5>3
      <4> QED BY <4>1, <4>2
    <3>4. \A v \in B : ns2[v].letter = ns[v].letter /\ ns2[v].next = ns[v].next
      <4>1. \A v \in B : v # row[j - 1] \/ ~(j > 1)
        <5>1. j > 1 => j # 1
          <6>1. \A i : i > 1 => i # 1
            OBVIOUS
          <6> QED BY <6>1
        <5> QED BY <1>p, <3>3, <5>1
      <4> QED BY <1>j, <3>3, <4>1
    <3>5. Linked(ns, B, Child(ns, first, z))
      BY <3>0 DEF Trie
    <3> HIDE DEF B
    <3>6. Lowest(ns2, B, Child(ns, first, z))
      BY <3>4, <3>5, LettersCount DEF Linked
    <3>7. ASSUME NEW v \in B PROVE Lowest(ns2, Higher(ns2, B, ns2[v].letter), ns2[v].next)
      <4>1. Higher(ns2, B, ns2[v].letter) = Higher(ns, B, ns[v].letter)
        BY <3>4 DEF Higher
      <4>2. \A q \in Higher(ns, B, ns[v].letter) : ns2[q].letter = ns[q].letter
        BY <3>4 DEF Higher
      <4>3. Lowest(ns, Higher(ns, B, ns[v].letter), ns[v].next)
        BY <3>5 DEF Linked
      <4> QED BY <3>4, <4>1, <4>2, <4>3, LettersCount
    <3> QED BY <3>1, <3>2, <3>6, <3>7 DEF Linked
  <2>3. CASE z = x
    <3>0. S \in SUBSET (1..Len(ns)) /\ z # y
      BY <1>0, <2>3 DEF Below
    <3>1. Below(ns2, path2, z) = S \cup {y}
      BY <1>4, <2>3
    <3>2. PICK head : head = Child(ns, first, x)
      OBVIOUS
    <3>3. Child(ns2, first2, z) = (IF j = 1 THEN y ELSE head)
      <4>1. z = NULL \/ z \in 1..Len(ns)
        BY <1>0, <2>3 DEF NULL
      <4> QED BY <1>j, <2>3, <3>2, <4>1 DEF Child
    <3>4. Linked(ns, S, head) /\ Distinct(ns, S)
      BY <1>w, <3>2 DEF Trie
    <3> HIDE DEF S
    <3>5. Lists(ns, S, row)
      BY DEF S
    <3>6. PICK head2 : head2 = (IF j = 1 THEN y ELSE head)
      OBVIOUS
    <3>7. Linked(ns2, S \cup {y}, head2)
      BY <1>0, <3>0, <3>4, <3>5, <3>6, RowJoined
    <3> QED BY <3>1, <3>3, <3>6, <3>7
  <2> QED BY <2>1, <2>2, <2>3
<1>8. Trie(ns2, first2, path2)
  <2> HIDE DEF path2
  <2> QED BY <1>1, <1>2, <1>6, <1>7 DEF Trie
<1> HIDE DEF path2
<1> QED BY <1>1, <1>8 DEF Grown

(* The search in a row finds the child with the letter, if there is one. *)
LEMMA PlacedBelow ==
  ASSUME NEW ns \in Seq(TrieNode), NEW first, NEW path, Trie(ns, first, path), NEW x \in 0..Len(ns),
         NEW letter \in Codes, NEW row, row = Row(ns, Child(ns, first, x))
  PROVE  /\ IsAt(ns, row, letter) => /\ row[Place(ns, row, letter)] \in Below(ns, path, x)
                                     /\ ns[row[Place(ns, row, letter)]].letter = letter
         /\ ~IsAt(ns, row, letter) => \A z \in Below(ns, path, x) : ns[z].letter # letter
<1>1. PICK S \in SUBSET (1..Len(ns)) : S = Below(ns, path, x)
  BY DEF Below
<1>2. Lists(ns, S, row)
  BY <1>1, TrieRows
<1>3. PICK k \in Int : k = letter
  BY DEF Codes
<1>4. PICK j : j = Place(ns, row, k)
  OBVIOUS
<1>5. IsAt(ns, row, k) => row[j] \in S /\ ns[row[j]].letter = k
  <2>1. IsAt(ns, row, k) => row[j] \in S
    BY <1>2, <1>4, Placed
  <2>2. IsAt(ns, row, k) => ns[row[j]].letter = k
    BY <1>4 DEF IsAt
  <2> QED BY <2>1, <2>2
<1>6. ~IsAt(ns, row, k) => \A z \in S : ns[z].letter # k
  BY <1>2, <1>4, Placed
<1> QED BY <1>1, <1>3, <1>4, <1>5, <1>6

-----------------------------------------------------------------------------
(* What search returns. *)
LEMMA Searched ==
  ASSUME nodes \in Seq(TrieNode), NEW path, Trie(nodes, root, path), NEW word \in Seq(Codes)
  PROVE  /\ \A y \in 1..Len(nodes) : path[y] = word => search(word) = nodes[y].posting_list
         /\ (\A y \in 1..Len(nodes) : path[y] # word) => search(word) = <<>>
<1> DEFINE N == Len(nodes)
           At(i) == IF \E z \in 1..N : path[z] = SubSeq(word, 1, i)
                    THEN CHOOSE z \in 1..N : path[z] = SubSeq(word, 1, i) ELSE NULL
           Step(i, v) ==
             LET row == IF i > 1 /\ v = NULL THEN <<>> ELSE Row(nodes, IF i = 1 THEN root ELSE nodes[v].down)
             IN  IF i > 0 /\ IsAt(nodes, row, word[i]) THEN row[Place(nodes, row, word[i])] ELSE NULL
           Eq(at) == at = [i \in 0..Len(word) |-> Step(i, at[i - 1])]
           c == CHOOSE at : Eq(at)
<1>0. N \in Nat /\ Len(word) \in Nat
  BY NodeTypes
<1>w. /\ \A x \in 0..N : Word(path, x) \in Seq(Codes)
      /\ \A x, z \in 0..N : Word(path, x) = Word(path, z) => x = z
      /\ \A x \in 0..N, y \in 1..N, l \in Codes :
           path[y] = Append(Word(path, x), l) => y \in Below(nodes, path, x) /\ nodes[y].letter = l
  BY WordsDiffer
<1>p. \A y, z \in 1..N : path[y] = path[z] => y = z
  BY DEF Trie
<1>1. \A i : /\ \A z \in 1..N : path[z] = SubSeq(word, 1, i) => At(i) = z
             /\ (\A z \in 1..N : path[z] # SubSeq(word, 1, i)) => At(i) = NULL
  BY <1>p
<1>2. ASSUME NEW i \in 1..Len(word), NEW v, i > 1 => v = At(i - 1) PROVE Step(i, v) = At(i)
  <2>0. PICK head \in Seq(Codes), l \in Codes :
          head = SubSeq(word, 1, i - 1) /\ l = word[i] /\ SubSeq(word, 1, i) = Append(head, l)
          /\ Len(head) = i - 1
    <3>1. SubSeq(word, 1, i - 1) \in Seq(Codes) /\ word[i] \in Codes /\ Len(SubSeq(word, 1, i - 1)) = i - 1
      BY <1>0, ElementOfSeq
    <3>2. SubSeq(word, 1, i) \in Seq(Codes) /\ Len(SubSeq(word, 1, i)) = i
      BY <1>0
    <3>3. Len(Append(SubSeq(word, 1, i - 1), word[i])) = i /\ Append(SubSeq(word, 1, i - 1), word[i]) \in Seq(Codes)
      BY <1>0, <3>1
    <3>4. \A h \in 1..i : SubSeq(word, 1, i)[h] = Append(SubSeq(word, 1, i - 1), word[i])[h]
      BY <1>0, <3>1
    <3>5. SubSeq(word, 1, i) = Append(SubSeq(word, 1, i - 1), word[i])
      BY <3>2, <3>3, <3>4, SeqEqual
    <3> QED BY <3>1, <3>5
  <2>h. head \in Seq(Codes)
    BY <2>0
  <2>l. l \in Codes /\ l \in Int /\ i \in Nat /\ i > 0
    BY <2>0 DEF Codes
  <2>1. CASE i > 1 /\ v = NULL
    <3>1. Step(i, v) = NULL
      <4>1. Place(nodes, <<>>, word[i]) \in 1..1
        <5> DEFINE P == {h \in 1..(Len(<<>>) + 1) : h > Len(<<>>) \/ nodes[<<>>[h]].letter >= word[i]}
        <5>1. P = {1}
          OBVIOUS
        <5>2. P \subseteq Nat /\ P # {}
          BY <5>1
        <5>3. Least(P) \in P
          <6> HIDE DEF P
          <6> QED BY <5>2, LeastIsThere
        <5>4. Place(nodes, <<>>, word[i]) = Least(P)
          BY DEF Place
        <5> QED BY <5>1, <5>3, <5>4
      <4>2. ~IsAt(nodes, <<>>, word[i])
        BY <4>1 DEF IsAt
      <4> QED BY <2>1, <4>2
    <3>2. ASSUME NEW z \in 1..N, path[z] = Append(head, l) PROVE FALSE
      <4>1. PICK u \in 0..N : path[z] = Append(Word(path, u), nodes[z].letter)
        BY DEF Trie, Below
      <4>2. Word(path, u) \in Seq(Codes) /\ nodes[z].letter \in Codes
        BY <1>w, NodeTypes DEF TrieNode
      <4>3. Word(path, u) = head
        BY <2>h, <2>l, <3>2, <4>1, <4>2, LettersAppended
      <4>4. u # NULL
        BY <1>0, <2>0, <2>1, <4>3 DEF Word
      <4>5. u \in 1..N /\ path[u] = head
        BY <1>0, <4>3, <4>4 DEF Word, NULL
      <4>6. At(i - 1) = u
        BY <1>1, <2>0, <4>5
      <4> QED BY <1>2, <2>1, <4>4, <4>6
    <3>3. At(i) = NULL
      BY <1>1, <2>0, <3>2
    <3> QED BY <3>1, <3>3
  <2>2. CASE ~(i > 1 /\ v = NULL)
    <3>1. PICK x \in 0..N : Word(path, x) = head /\ Step(i, v) =
            (IF IsAt(nodes, Row(nodes, Child(nodes, root, x)), l)
               THEN Row(nodes, Child(nodes, root, x))[Place(nodes, Row(nodes, Child(nodes, root, x)), l)] ELSE NULL)
      <4>1. CASE i = 1
        <5>1. Word(path, NULL) = head /\ Child(nodes, root, NULL) = root /\ NULL \in 0..N
          BY <1>0, <2>0, <4>1, EmptySeq DEF Word, Child, NULL
        <5>2. Step(i, v) = (IF IsAt(nodes, Row(nodes, root), l) THEN Row(nodes, root)[Place(nodes, Row(nodes, root), l)] ELSE NULL)
          BY <2>0, <4>1
        <5> QED BY <5>1, <5>2
      <4>2. CASE i # 1
        <5>1. i > 1 /\ v = At(i - 1) /\ v # NULL
          BY <1>2, <2>2, <4>2
        <5>2. v \in 1..N /\ path[v] = head
          <6>1. \E z \in 1..N : path[z] = SubSeq(word, 1, i - 1)
            BY <5>1
          <6> QED BY <2>0, <5>1, <6>1
        <5>3. Word(path, v) = head /\ Child(nodes, root, v) = nodes[v].down /\ v \in 0..N
          BY <1>0, <5>1, <5>2 DEF Word, Child
        <5>4. Step(i, v) = (IF IsAt(nodes, Row(nodes, nodes[v].down), l)
                              THEN Row(nodes, nodes[v].down)[Place(nodes, Row(nodes, nodes[v].down), l)] ELSE NULL)
          BY <2>0, <2>l, <4>2, <5>1
        <5> QED BY <5>3, <5>4
      <4> QED BY <4>1, <4>2
    <3>2. PICK row : row = Row(nodes, Child(nodes, root, x))
      OBVIOUS
    <3>4. /\ IsAt(nodes, row, l) => /\ row[Place(nodes, row, l)] \in Below(nodes, path, x)
                                    /\ nodes[row[Place(nodes, row, l)]].letter = l
          /\ ~IsAt(nodes, row, l) => \A z \in Below(nodes, path, x) : nodes[z].letter # l
      BY <1>0, <2>l, <3>2, PlacedBelow
    <3>5. CASE IsAt(nodes, row, l)
      <4>1. PICK z \in 1..N : z = row[Place(nodes, row, l)] /\ path[z] = Append(head, l)
        BY <3>1, <3>4, <3>5 DEF Below
      <4> QED BY <1>1, <2>0, <3>1, <3>2, <3>5, <4>1
    <3>6. CASE ~IsAt(nodes, row, l)
      <4>1. \A z \in 1..N : path[z] # Append(head, l)
        BY <1>w, <2>l, <3>1, <3>4, <3>6
      <4> QED BY <1>1, <2>0, <3>1, <3>2, <3>6, <4>1
    <3> QED BY <3>5, <3>6
  <2> QED BY <2>1, <2>2
<1> HIDE DEF At
<1>3. Eq(c)
  <2> DEFINE a == [i \in 0..Len(word) |-> IF i = 0 THEN NULL ELSE At(i)]
  <2>1. ASSUME NEW i \in 0..Len(word) PROVE a[i] = Step(i, a[i - 1])
    <3>1. CASE i = 0
      BY <3>1
    <3>2. CASE i # 0
      <4>1. i \in 1..Len(word) /\ (i > 1 => a[i - 1] = At(i - 1)) /\ a[i] = At(i)
        BY <1>0, <3>2
      <4> HIDE DEF Step
      <4> QED BY <1>2, <4>1
    <3> QED BY <3>1, <3>2
  <2>2. Eq(a)
    <3> HIDE DEF Step
    <3> QED BY <2>1
  <2> HIDE DEF Step, a
  <2> QED BY <2>2
<1>4. search(word) = IF word = <<>> \/ c[Len(word)] = NULL THEN <<>> ELSE nodes[c[Len(word)]].posting_list
  BY DEF search
<1> HIDE DEF c
<1>5. \A n \in Nat : n \in {i \in Nat : i \in 1..Len(word) => c[i] = At(i)}
  <2> DEFINE Good == {i \in Nat : i \in 1..Len(word) => c[i] = At(i)}
  <2>1. 0 \in Good
    OBVIOUS
  <2>2. ASSUME NEW n \in Nat, n \in Good PROVE n + 1 \in Good
    <3> SUFFICES ASSUME n + 1 \in 1..Len(word) PROVE c[n + 1] = At(n + 1)
      OBVIOUS
    <3>1. n + 1 > 1 => c[(n + 1) - 1] = At((n + 1) - 1)
      <4>1. n + 1 > 1 => n \in 1..Len(word)
        BY <1>0
      <4>2. (n + 1) - 1 = n
        OBVIOUS
      <4> QED BY <2>2, <4>1, <4>2
    <3>2. c[n + 1] = Step(n + 1, c[(n + 1) - 1])
      <4> n + 1 \in 0..Len(word)
        OBVIOUS
      <4> HIDE DEF Step
      <4> QED BY <1>3
    <3> HIDE DEF Step
    <3> QED BY <1>2, <3>1, <3>2
  <2> HIDE DEF Good
  <2>3. \A n \in Nat : n \in Good
    BY <2>1, <2>2, Induction
  <2> QED BY <2>3 DEF Good
<1>6. word # <<>> => c[Len(word)] = At(Len(word)) /\ SubSeq(word, 1, Len(word)) = word
  <2> SUFFICES ASSUME word # <<>> PROVE c[Len(word)] = At(Len(word)) /\ SubSeq(word, 1, Len(word)) = word
    OBVIOUS
  <2>1. Len(word) \in 1..Len(word)
    BY <1>0, EmptySeq
  <2>2. SubSeq(word, 1, Len(word)) = word
    BY SubSeqFull
  <2> QED BY <1>0, <1>5, <2>1, <2>2
<1>7. \A y \in 1..N : path[y] # <<>>
  <2> SUFFICES ASSUME NEW y \in 1..N, path[y] = <<>> PROVE FALSE
    OBVIOUS
  <2>1. Word(path, y) = Word(path, NULL) /\ y \in 0..N /\ NULL \in 0..N /\ y # NULL
    BY <1>0 DEF Word, NULL
  <2> QED BY <1>w, <2>1
<1>8. ASSUME NEW y \in 1..N, path[y] = word PROVE search(word) = nodes[y].posting_list
  <2>1. At(Len(word)) = y /\ y # NULL
    BY <1>0, <1>1, <1>6, <1>7, <1>8 DEF NULL
  <2> QED BY <1>4, <1>6, <1>7, <1>8, <2>1
<1>9. ASSUME \A y \in 1..N : path[y] # word PROVE search(word) = <<>>
  <2>1. word # <<>> => At(Len(word)) = NULL
    BY <1>1, <1>6, <1>9
  <2> QED BY <1>4, <1>6, <2>1
<1> QED BY <1>8, <1>9

-----------------------------------------------------------------------------
(* A posting list and the places that it stands for. *)

Not_after(o, f, l) == o.fileID < f \/ (o.fileID = f /\ o.lineID <= l)
At(S, f, l) == {o \in S : o.fileID = f /\ o.lineID = l}
Exact(posts, S) ==
  /\ \A i, j \in 1..Len(posts) : i < j => Before(posts[i], posts[j].fileID, posts[j].lineID)
  /\ \A o \in S : \E j \in 1..Len(posts) : posts[j].fileID = o.fileID /\ posts[j].lineID = o.lineID
  /\ \A j \in 1..Len(posts) :
       /\ posts[j].times = Cardinality(At(S, posts[j].fileID, posts[j].lineID))
       /\ \E o \in S : posts[j].fileID = o.fileID /\ posts[j].lineID = o.lineID

(* What add_appearance makes of a list with nothing behind the place. *)
LEMMA AddedLast ==
  ASSUME NEW posts \in Seq(Posting), NEW f \in Nat, NEW l \in Nat,
         \A i, j \in 1..Len(posts) : i < j => Before(posts[i], posts[j].fileID, posts[j].lineID),
         \A j \in 1..Len(posts) : Not_after(posts[j], f, l)
  PROVE  LET n == Len(posts)
             there == n > 0 /\ posts[n].fileID = f /\ posts[n].lineID = l
         IN  add_appearance(posts, f, l) =
               (IF there THEN [posts EXCEPT ![n].times = @ + 1]
                ELSE Append(posts, [fileID |-> f, lineID |-> l, times |-> 1]))
<1> DEFINE n == Len(posts)
           there == n > 0 /\ posts[n].fileID = f /\ posts[n].lineID = l
           new == [fileID |-> f, lineID |-> l, times |-> 1]
           P == {h \in 1..(n + 1) : h > n \/ ~Before(posts[h], f, l)}
           j == Least(P)
<1>0. n \in Nat /\ \A i \in 1..n : posts[i] \in Posting /\ posts[i].fileID \in Nat /\ posts[i].lineID \in Nat
  <2>1. \A i \in 1..n : posts[i] \in Posting
    BY ElementOfSeq
  <2> QED BY <2>1 DEF Posting
<1>1. j \in P /\ \A k \in P : j <= k
  <2>1. P \subseteq Nat /\ n + 1 \in P
    BY <1>0
  <2> HIDE DEF P
  <2> QED BY <2>1, LeastIsThere
<1>2. CASE there
  <2>1. n \in P
    BY <1>0, <1>2 DEF Before
  <2>2. \A i \in 1..n : i < n => Before(posts[i], f, l)
    BY <1>0, <1>2
  <2>3. j = n
    BY <1>0, <1>1, <2>1, <2>2
  <2>4. add_appearance(posts, f, l) = [posts EXCEPT ![j].times = @ + 1]
    <3>1. j <= Len(posts) /\ posts[j].fileID = f /\ posts[j].lineID = l
      <4> HIDE DEF j
      <4> QED BY <1>0, <1>2, <2>3
    <3> QED BY <3>1 DEF add_appearance
  <2> QED BY <1>2, <2>3, <2>4
<1>3. CASE ~there
  <2>1. \A i \in 1..n : Before(posts[i], f, l)
    <3> SUFFICES ASSUME NEW i \in 1..n PROVE Before(posts[i], f, l)
      OBVIOUS
    <3>1. n \in 1..n /\ Not_after(posts[n], f, l) /\ n > 0
      BY <1>0
    <3>2. Before(posts[n], f, l)
      BY <1>0, <1>3, <3>1 DEF Not_after, Before
    <3>3. CASE i = n
      BY <3>2, <3>3
    <3>4. CASE i # n
      <4>1. Before(posts[i], posts[n].fileID, posts[n].lineID)
        BY <1>0, <3>1, <3>4
      <4> QED BY <1>0, <3>1, <3>2, <4>1 DEF Before
    <3> QED BY <3>3, <3>4
  <2>2. j = n + 1
    BY <1>0, <1>1, <2>1
  <2>3. add_appearance(posts, f, l) = SubSeq(posts, 1, n) \o <<new>> \o SubSeq(posts, n + 1, n)
    <3>1. ~(j <= Len(posts) /\ posts[j].fileID = f /\ posts[j].lineID = l) /\ j - 1 = n
      BY <1>0, <2>2
    <3>2. add_appearance(posts, f, l) = SubSeq(posts, 1, j - 1) \o <<new>> \o SubSeq(posts, j, Len(posts))
      BY <3>1 DEF add_appearance
    <3> QED BY <2>2, <3>1, <3>2
  <2>4. new \in Posting
    BY DEF Posting
  <2>5. SubSeq(posts, 1, n) = posts /\ SubSeq(posts, n + 1, n) = <<>>
    BY <1>0
  <2> HIDE DEF new
  <2>6. posts \o <<new>> \o <<>> = Append(posts, new)
    BY <2>4
  <2> QED BY <1>3, <2>3, <2>5, <2>6 DEF new
<1> QED BY <1>2, <1>3

(* A place that is not before the others is added. *)
LEMMA ExactAdds ==
  ASSUME NEW posts \in Seq(Posting), NEW S, IsFiniteSet(S), NEW o, Exact(posts, S), o \notin S,
         o.fileID \in Nat, o.lineID \in Nat, \A x \in S : Not_after(x, o.fileID, o.lineID)
  PROVE  /\ Exact(add_appearance(posts, o.fileID, o.lineID), S \cup {o})
         /\ add_appearance(posts, o.fileID, o.lineID) \in Seq(Posting)
<1> DEFINE n == Len(posts)
           f == o.fileID
           l == o.lineID
           there == n > 0 /\ posts[n].fileID = f /\ posts[n].lineID = l
           new == [fileID |-> f, lineID |-> l, times |-> 1]
           q == add_appearance(posts, f, l)
           T == S \cup {o}
<1>0. n \in Nat /\ \A i \in 1..n : posts[i] \in Posting /\ posts[i].fileID \in Nat /\ posts[i].lineID \in Nat
                                   /\ posts[i].times \in Nat
  <2>1. \A i \in 1..n : posts[i] \in Posting
    BY ElementOfSeq
  <2> QED BY <2>1 DEF Posting
<1>1. q = (IF there THEN [posts EXCEPT ![n].times = @ + 1] ELSE Append(posts, new))
  <2>1. \A j \in 1..n : Not_after(posts[j], f, l)
    BY DEF Exact, Not_after
  <2>2. \A i, j \in 1..Len(posts) : i < j => Before(posts[i], posts[j].fileID, posts[j].lineID)
    BY DEF Exact
  <2> QED BY <2>1, <2>2, AddedLast
<1>2. \A a, c : /\ ~(a = f /\ c = l) => At(T, a, c) = At(S, a, c)
                /\ IsFiniteSet(At(S, a, c)) /\ Cardinality(At(S, a, c)) \in Nat
  <2> SUFFICES ASSUME NEW a, NEW c
               PROVE  /\ ~(a = f /\ c = l) => At(T, a, c) = At(S, a, c)
                      /\ IsFiniteSet(At(S, a, c)) /\ Cardinality(At(S, a, c)) \in Nat
    OBVIOUS
  <2>1. ~(a = f /\ c = l) => At(T, a, c) = At(S, a, c)
    BY DEF At
  <2>2. At(S, a, c) \in SUBSET S
    BY DEF At
  <2> QED BY <2>1, <2>2, FS_Subset, FS_CardinalityType
<1>3. Cardinality(At(T, f, l)) = Cardinality(At(S, f, l)) + 1
  <2>1. At(T, f, l) = At(S, f, l) \cup {o} /\ o \notin At(S, f, l)
    BY DEF At
  <2> QED BY <1>2, <2>1, FS_AddElement
<1>s. /\ \A i, j \in 1..n : i < j => Before(posts[i], posts[j].fileID, posts[j].lineID)
      /\ \A x \in S : \E j \in 1..n : posts[j].fileID = x.fileID /\ posts[j].lineID = x.lineID
      /\ \A j \in 1..n :
           /\ posts[j].times = Cardinality(At(S, posts[j].fileID, posts[j].lineID))
           /\ \E x \in S : posts[j].fileID = x.fileID /\ posts[j].lineID = x.lineID
  BY DEF Exact
<1>t. new \in Posting
  BY DEF Posting
<1>f. f \in Nat /\ l \in Nat
  OBVIOUS
<1>4. CASE there
  <2>1. /\ q \in Seq(Posting) /\ Len(q) = n
        /\ \A j \in 1..n : /\ q[j].fileID = posts[j].fileID /\ q[j].lineID = posts[j].lineID
                           /\ q[j].times = (IF j = n THEN posts[j].times + 1 ELSE posts[j].times)
    <3>1. q = [posts EXCEPT ![n].times = @ + 1]
      BY <1>1, <1>4
    <3>2. n \in 1..n /\ posts[n] \in Posting
      BY <1>0, <1>4
    <3> DEFINE p == [posts[n] EXCEPT !.times = @ + 1]
    <3>3. /\ p \in Posting /\ p.fileID = posts[n].fileID /\ p.lineID = posts[n].lineID
          /\ p.times = posts[n].times + 1
      <4>1. \A r \in Posting : /\ [r EXCEPT !.times = @ + 1] \in Posting
                               /\ [r EXCEPT !.times = @ + 1].fileID = r.fileID
                               /\ [r EXCEPT !.times = @ + 1].lineID = r.lineID
                               /\ [r EXCEPT !.times = @ + 1].times = r.times + 1
        <5> SUFFICES ASSUME NEW r \in Posting
                     PROVE  /\ [r EXCEPT !.times = @ + 1] \in Posting
                            /\ [r EXCEPT !.times = @ + 1].fileID = r.fileID
                            /\ [r EXCEPT !.times = @ + 1].lineID = r.lineID
                            /\ [r EXCEPT !.times = @ + 1].times = r.times + 1
          OBVIOUS
        <5>1. r.times + 1 \in Nat
          BY DEF Posting
        <5> QED BY <5>1 DEF Posting
      <4> QED BY <3>2, <4>1
    <3>4. q = [posts EXCEPT ![n] = p]
      BY <3>1
    <3> HIDE DEF p, q
    <3>5. q \in Seq(Posting) /\ Len(q) = n /\ \A j \in 1..n : q[j] = IF j = n THEN p ELSE posts[j]
      BY <1>0, <3>2, <3>3, <3>4
    <3> QED BY <3>3, <3>5
  <2> HIDE DEF q, new
  <2>2. \A i, j \in 1..Len(q) : i < j => Before(q[i], q[j].fileID, q[j].lineID)
    BY <1>s, <2>1 DEF Before
  <2>3. \A x \in T : \E j \in 1..Len(q) : q[j].fileID = x.fileID /\ q[j].lineID = x.lineID
    <3>1. n \in 1..n /\ q[n].fileID = f /\ q[n].lineID = l
      BY <1>0, <1>4, <2>1
    <3> QED BY <1>s, <2>1, <3>1
  <2>4. \A j \in 1..Len(q) : \E x \in T : q[j].fileID = x.fileID /\ q[j].lineID = x.lineID
    BY <1>s, <2>1
  <2>5. ASSUME NEW j \in 1..Len(q) PROVE q[j].times = Cardinality(At(T, q[j].fileID, q[j].lineID))
    <3>1. CASE j = n
      <4>1. q[j].fileID = f /\ q[j].lineID = l /\ posts[n].times = Cardinality(At(S, f, l))
        BY <1>s, <1>4, <2>1, <3>1
      <4> QED BY <1>3, <2>1, <3>1, <4>1
    <3>2. CASE j # n
      <4>1. j \in 1..n /\ n \in 1..n /\ j < n
        BY <1>0, <2>1, <3>2
      <4>2. Before(posts[j], f, l)
        BY <1>s, <1>4, <4>1
      <4>3. ~(posts[j].fileID = f /\ posts[j].lineID = l)
        BY <1>0, <1>f, <4>1, <4>2 DEF Before
      <4>4. q[j].fileID = posts[j].fileID /\ q[j].lineID = posts[j].lineID /\ q[j].times = posts[j].times
        BY <2>1, <3>2, <4>1
      <4>5. At(T, posts[j].fileID, posts[j].lineID) = At(S, posts[j].fileID, posts[j].lineID)
        BY <1>2, <4>3
      <4>6. posts[j].times = Cardinality(At(S, posts[j].fileID, posts[j].lineID))
        BY <1>s, <4>1
      <4> QED BY <4>4, <4>5, <4>6
    <3> QED BY <3>1, <3>2
  <2>6. Exact(q, T)
    <3> HIDE DEF T
    <3> QED BY <2>2, <2>3, <2>4, <2>5 DEF Exact
  <2> QED BY <2>1, <2>6 DEF q
<1>5. CASE ~there
  <2>1. /\ q \in Seq(Posting) /\ Len(q) = n + 1 /\ q[n + 1].fileID = f /\ q[n + 1].lineID = l
        /\ q[n + 1].times = 1 /\ \A j \in 1..n : q[j] = posts[j]
    <3>1. q = Append(posts, new)
      BY <1>1, <1>5
    <3>2. new.fileID = f /\ new.lineID = l /\ new.times = 1
      OBVIOUS
    <3> HIDE DEF new
    <3> QED BY <1>0, <1>t, <3>1, <3>2
  <2>2. ASSUME NEW i \in 1..n PROVE Before(posts[i], f, l) /\ ~(posts[i].fileID = f /\ posts[i].lineID = l)
    <3>1. n \in 1..n /\ n > 0
      BY <1>0
    <3>2. \A j \in 1..n : Not_after(posts[j], f, l)
      BY <1>s DEF Not_after
    <3>3. Before(posts[n], f, l)
      BY <1>0, <1>f, <1>5, <3>1, <3>2 DEF Not_after, Before
    <3>4. i = n \/ Before(posts[i], posts[n].fileID, posts[n].lineID)
      BY <1>0, <1>s, <3>1
    <3>5. Before(posts[i], f, l)
      BY <1>0, <1>f, <3>1, <3>3, <3>4 DEF Before
    <3> QED BY <1>0, <1>f, <3>5 DEF Before
  <2>3. At(S, f, l) = {}
    <3> SUFFICES ASSUME NEW x \in At(S, f, l) PROVE FALSE
      OBVIOUS
    <3>1. x \in S /\ x.fileID = f /\ x.lineID = l
      BY DEF At
    <3> QED BY <1>s, <2>2, <3>1
  <2>4. Cardinality(At(T, f, l)) = 1
    BY <1>3, <2>3, FS_EmptySet
  <2> HIDE DEF q, new, there
  <2>5. \A j \in 1..(n + 1) : j \in 1..n \/ j = n + 1
    BY <1>0
  <2>6. \A i, j \in 1..Len(q) : i < j => Before(q[i], q[j].fileID, q[j].lineID)
    <3> SUFFICES ASSUME NEW i \in 1..(n + 1), NEW j \in 1..(n + 1), i < j
                 PROVE  Before(q[i], q[j].fileID, q[j].lineID)
      BY <2>1
    <3>1. i \in 1..n
      BY <1>0
    <3> QED BY <1>s, <2>1, <2>2, <2>5, <3>1
  <2>7. \A x \in T : \E j \in 1..Len(q) : q[j].fileID = x.fileID /\ q[j].lineID = x.lineID
    <3>1. n + 1 \in 1..(n + 1) /\ \A j \in 1..n : j \in 1..(n + 1)
      BY <1>0
    <3>2. \A x \in S : \E j \in 1..(n + 1) : q[j].fileID = x.fileID /\ q[j].lineID = x.lineID
      <4> SUFFICES ASSUME NEW x \in S
                   PROVE  \E j \in 1..(n + 1) : q[j].fileID = x.fileID /\ q[j].lineID = x.lineID
        OBVIOUS
      <4>1. PICK j \in 1..n : posts[j].fileID = x.fileID /\ posts[j].lineID = x.lineID
        BY <1>s
      <4> QED BY <2>1, <3>1, <4>1
    <3>3. \A x \in T : x \in S \/ x = o
      OBVIOUS
    <3> HIDE DEF T
    <3> QED BY <2>1, <3>1, <3>2, <3>3
  <2>8. \A j \in 1..Len(q) : \E x \in T : q[j].fileID = x.fileID /\ q[j].lineID = x.lineID
    <3> SUFFICES ASSUME NEW j \in 1..(n + 1)
                 PROVE  \E x \in T : q[j].fileID = x.fileID /\ q[j].lineID = x.lineID
      BY <2>1
    <3>1. CASE j \in 1..n
      <4>1. PICK x \in S : posts[j].fileID = x.fileID /\ posts[j].lineID = x.lineID
        BY <1>s, <3>1
      <4> QED BY <2>1, <3>1, <4>1
    <3>2. CASE j = n + 1
      <4>1. o \in T /\ o.fileID = f /\ o.lineID = l
        BY <1>f
      <4> QED BY <2>1, <3>2, <4>1
    <3> QED BY <2>5, <3>1, <3>2
  <2>9. \A j \in 1..Len(q) : q[j].times = Cardinality(At(T, q[j].fileID, q[j].lineID))
    <3> SUFFICES ASSUME NEW j \in 1..Len(q) PROVE q[j].times = Cardinality(At(T, q[j].fileID, q[j].lineID))
      OBVIOUS
    <3>1. CASE j = n + 1
      BY <2>1, <2>4, <3>1
    <3>2. CASE j \in 1..n
      <4>1. q[j] = posts[j] /\ ~(posts[j].fileID = f /\ posts[j].lineID = l)
        BY <2>1, <2>2, <3>2
      <4>2. At(T, posts[j].fileID, posts[j].lineID) = At(S, posts[j].fileID, posts[j].lineID)
        BY <1>2, <4>1
      <4>3. posts[j].times = Cardinality(At(S, posts[j].fileID, posts[j].lineID))
        BY <1>s, <3>2
      <4> QED BY <4>1, <4>2, <4>3
    <3> QED BY <2>1, <2>5, <3>1, <3>2
  <2>10. Exact(q, T)
    <3> HIDE DEF T
    <3> QED BY <2>6, <2>7, <2>8, <2>9 DEF Exact
  <2> QED BY <2>1, <2>10 DEF q
<1> QED BY <1>4, <1>5
=============================================================================
