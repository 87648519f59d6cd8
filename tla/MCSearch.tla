------------------------------ MODULE MCSearch ------------------------------
(***************************************************************************)
(* The command channel, from the start of jobExecutor, and the index of a  *)
(* worker, for TLC.  The two share no state: a behaviour is of the one     *)
(* (textfiles = <<>>) or of the other, and the run explores both.  What    *)
(* the index comes to ("loop", "exited", "endless") is what content says   *)
(* of a directory in the other ("ok", "bad", "endless").                   *)
(***************************************************************************)
EXTENDS CommandChannel, WorkerIndex

Stays(tokens) == [tokens |-> tokens, closes |-> FALSE]
Closes(tokens) == [tokens |-> tokens, closes |-> TRUE]

MCEarlyScripts == {Closes(<<"MAXCOUNT", " ", "arg", " ", "\n">>), Stays(<<"SHUTDOWN", "\n">>)}
MCScripts ==
  MCEarlyScripts \cup
    {Stays(<<"SEARCH", " ", "arg", "\r", "\n">>), Stays(<<" ", "WORDCOUNT", "\n">>),
     Closes(<<"SEARCH", " ", "arg", "arg", "arg", "arg">>), Stays(<<"MAXCOUNT", "\n">>),
     Stays(<<"SEARCH", " ", "\n">>), Stays(<<"SEARCH", " ", "arg">>), Closes(<<" ">>), Closes(<<"part">>)}

(* At most one thing is wrong from the beginning. *)
OneTrouble ==
  Cardinality({d \in Dirs : content[d] # "ok"}) <= (IF fifos = {} THEN 1 ELSE 0)

(* Texts of one file: all short ones, and lines of several words. *)
a == 97
b == 98
Chars == {a, b, 32, LT, GT, NL}
ShortTexts == UNION {[1..m -> Chars] : m \in 0..4} \cup {t \o <<a, NL>> : t \in [1..4 -> Chars \ {b}]}
Joined(ws) ==
  LET upTo[m \in 0..Len(ws)] == IF m = 0 THEN <<>> ELSE upTo[m - 1] \o ws[m] \o <<32>>
  IN  upTo[Len(ws)] \o <<NL>>
WordLines == {Joined(ws) : ws \in [1..3 -> {<<a>>, <<b>>, <<a, b>>, <<b, a>>, <<a, a>>}]}

(* Three files, in the order of their paths or not. *)
Documents == {Joined(<<<<a>>, <<b>>>>), Joined(<<<<b>>, <<b>>>>), Joined(<<<<a>>>>) \o Joined(<<<<a>>>>),
              Joined(<<<<b>>, <<a>>>>) \o Joined(<<<<b>>>>)}
Paths == {<<1, 2, 3>>, <<2, 1, 3>>, <<3, 1, 2>>, <<3, 2, 1>>}

MCInputs ==
  {<<>>} \cup {<<[path |-> 1, text |-> t]>> : t \in ShortTexts \cup WordLines}
    \cup {[j \in 1..3 |-> [path |-> p[j], text |-> t[j]]] : p \in Paths, t \in [1..3 -> Documents]}

MCInit ==
  /\ ChannelInit /\ IndexInit
  /\ IF textfiles = <<>> THEN OneTrouble ELSE fifos = {} /\ \A d \in Dirs : content[d] = "ok"

MCNext ==
  \/ textfiles = <<>> /\ ChannelNext /\ UNCHANGED indexVars
  \/ IndexNext /\ UNCHANGED allVars

(* All that is fair waits in the one that does not run. *)
MCSpec == MCInit /\ [][MCNext]_<<allVars, indexVars>> /\ Fairness /\ IndexFairness
=============================================================================
