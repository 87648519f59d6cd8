------------------------- MODULE JobExecutorProofs --------------------------
(***************************************************************************)
(* Theorems about JobExecutor for any number of workers, commands and      *)
(* deaths, in three parts: that every variable holds a value of its kind;  *)
(* that no death is forgotten and no descriptor mistaken for another; that *)
(* answers are of the worker and the command they are read for.            *)
(*                                                                         *)
(* Two things keep TypeOK from being inductive by itself.  A request is    *)
(* written for the command at work, so its kind is one only because of     *)
(* where jobExecutor is (Control).  And open takes the lowest free number, *)
(* which is in the table only because one is free: the numbers that are    *)
(* open are all in Rfds or Afds (Named), 2 * numWorkers of them at most,   *)
(* and the table is longer.                                                *)
(*                                                                         *)
(* A step is one of jobExecutor's own that touches no descriptor           *)
(* (ControlStep, AskStep, AnswerStep), one that opens or closes some, a    *)
(* handler, or a worker's.                                                 *)
(***************************************************************************)
EXTENDS JobExecutor, SequenceTheorems, FiniteSetTheorems, WellFoundedInduction, TLAPS

(* Where jobExecutor is: in replace_worker after the fork, ... *)
Mid == {"openR", "dirs", "openA"}
(* ... in replace_worker at all, ... *)
Replacing == Mid \cup {"fork"}
(* ... writing requests, ... *)
Asking == {"send", "write"}
(* ... in the round that waits for answers, ... *)
Awaiting == {"collect", "poll", "take", "reading"}
(* ... reading what canceled searches answer, ... *)
Draining == {"drain", "draining"}
(* ... reading the answers to /wc. *)
Counting == {"wc", "wcReading"}
(* The worker whose replacement runs and has not yet opened both its pipes. *)
New(w) == jePc \in Mid /\ i = w

(* The command at work is one that is sent to workers where requests are written and *)
(* answers read; only send leads into replace_worker with back = "write"             *)
(* (jobExecutor.cpp:357-365).                                                        *)
Control ==
  /\ jePc = "replace" => back \in {"top", "dispatch"}
  /\ jePc \in Asking \/ (jePc \in Replacing /\ back = "write") =>
       command \in {"search", "count", "wc"}
  /\ jePc \in Awaiting => command \in {"search", "count"}
  /\ jePc \in Draining => command = "search"
  /\ jePc \in Counting => command = "wc"

(* An open descriptor is in the tables; the entries of a worker that is being replaced do *)
(* not count until the open has overwritten them (jobExecutor.cpp:948-1005).              *)
Named ==
  \A f \in Fds : fds[f] # Closed =>
    \E w \in Workers : \/ f = Rfds[w] /\ ~(jePc = "openR" /\ i = w)
                       \/ f = Afds[w] /\ ~New(w)

Sound == TypeOK /\ Control /\ Named

-----------------------------------------------------------------------------
(* A set of numbers has a least member. *)
LEMMA LeastExists ==
  ASSUME NEW S, S \subseteq Nat, S # {}
  PROVE  \E m \in S : \A k \in S : m <= k
<1> DEFINE L == {pair \in Nat \X Nat : pair[1] < pair[2]}
<1>1. IsWellFoundedOn(L, Nat)
  BY NatLessThanWellFounded DEF OpToRel
<1>2. PICK m \in S : \A k \in S : <<k, m>> \notin L
  <2> HIDE DEF L
  <2> QED BY <1>1, WFMin
<1>3. \A k \in S : ~(k < m)
  <2> SUFFICES ASSUME NEW k \in S, k < m
               PROVE  FALSE
    OBVIOUS
  <2> QED BY <1>2
<1> QED BY <1>2, <1>3

(* The worker that Take chooses is one of those poll reported. *)
LEMMA LeastReady ==
  ASSUME TypeOK, ready # {}
  PROVE  /\ (CHOOSE w \in ready : \A v \in ready : w <= v) \in ready
         /\ ready \subseteq Workers
<1>1. ready \subseteq Nat /\ ready \subseteq Workers
  BY JobExecutorAssumption DEF TypeOK, Workers
<1>2. \E w \in ready : \A v \in ready : w <= v
  BY <1>1, LeastExists
<1> QED BY <1>1, <1>2

(* There are more descriptors than entries in the tables, so one is free for an open. *)
LEMMA FreeExists ==
  ASSUME TypeOK, Named, jePc \in {"openR", "openA"}
  PROVE  \E f \in Fds : fds[f] = Closed
<1> SUFFICES ASSUME \A f \in Fds : fds[f] # Closed
             PROVE  FALSE
  OBVIOUS
<1> DEFINE T == 0..(2 * numWorkers - 1)
           num == [c \in T |-> IF c < numWorkers THEN Rfds[c] ELSE Afds[c - numWorkers]]
           name == [f \in Fds |-> CHOOSE c \in T : num[c] = f]
<1>N. numWorkers \in Nat \ {0}
  BY JobExecutorAssumption
<1>1. \A f \in Fds : \E c \in T : num[c] = f
  <2> SUFFICES ASSUME NEW f \in Fds
               PROVE  \E c \in T : num[c] = f
    OBVIOUS
  <2>1. PICK w \in Workers : f = Rfds[w] \/ f = Afds[w]
    BY DEF Named
  <2>2. CASE f = Rfds[w]
    <3>1. w \in T /\ num[w] = Rfds[w]
      BY <1>N DEF Workers
    <3> QED BY <2>2, <3>1
  <2>3. CASE f = Afds[w]
    <3>1. PICK c \in T : ~(c < numWorkers) /\ c - numWorkers = w
      <4>1. /\ numWorkers + w \in T /\ ~(numWorkers + w < numWorkers)
            /\ (numWorkers + w) - numWorkers = w
        BY <1>N DEF Workers
      <4> QED BY <4>1
    <3> QED BY <2>3, <3>1
  <2> QED BY <2>1, <2>2, <2>3
<1>2. \A f \in Fds : name[f] \in T /\ num[name[f]] = f
  <2> HIDE DEF T, num
  <2> QED BY <1>1
<1>3. name \in [Fds -> T]
  BY <1>2
<1>4. IsFiniteSet(Fds) /\ Cardinality(Fds) = 3 * numWorkers + 1
  BY <1>N, FS_Interval DEF Fds
<1>5. IsFiniteSet(T) /\ Cardinality(T) = 2 * numWorkers
  BY <1>N, FS_Interval
<1>6. \E f, g \in Fds : f # g /\ name[f] = name[g]
  <2>1. Cardinality(T) < Cardinality(Fds)
    BY <1>N, <1>4, <1>5
  <2> HIDE DEF T, num, name
  <2> QED BY <1>3, <1>4, <1>5, <2>1, FS_PigeonHole
<1> HIDE DEF T, num, name
<1> QED BY <1>2, <1>6

(* LowestFree is what its name says. *)
LEMMA LowestFreeIs ==
  ASSUME TypeOK, Named, jePc \in {"openR", "openA"}
  PROVE  /\ LowestFree \in Fds /\ fds[LowestFree] = Closed
         /\ \A g \in Fds : fds[g] = Closed => LowestFree <= g
<1> DEFINE S == {f \in Fds : fds[f] = Closed}
<1>1. S \subseteq Nat /\ S # {}
  BY FreeExists, JobExecutorAssumption DEF Fds
<1>2. PICK m \in S : \A k \in S : m <= k
  <2> HIDE DEF S
  <2> QED BY <1>1, LeastExists
<1>3. \E f \in Fds : fds[f] = Closed /\ \A g \in Fds : fds[g] = Closed => f <= g
  BY <1>2
<1> QED BY <1>3 DEF LowestFree

-----------------------------------------------------------------------------
(* The types of the pipes. *)
RequestSet == [kind : Kinds, n : Nat]
AnswerSet == [kind : AnswerKinds, from : Workers, n : Nat]
RequestQueues == [Workers -> Seq(RequestSet)]
AnswerQueues == [Workers -> Seq(AnswerSet)]

(* Pipes drops what nobody can read any more: what remains has the type it had. *)
LEMMA PipesType ==
  ASSUME NEW q \in RequestQueues, NEW a \in AnswerQueues, Pipes(q, a)
  PROVE  requests' \in RequestQueues /\ answers' \in AnswerQueues
<1> DEFINE K(w) == Held(R(w))' \/ HasReader(w)'
           L(w) == Held(A(w))' \/ HasWriter(w)'
<1>1. /\ requests' = [w \in Workers |-> IF K(w) THEN q[w] ELSE <<>>]
      /\ answers' = [w \in Workers |-> IF L(w) THEN a[w] ELSE <<>>]
  BY DEF Pipes
<1> HIDE DEF K, L
<1>2. <<>> \in Seq(RequestSet) /\ <<>> \in Seq(AnswerSet)
  OBVIOUS
<1> QED BY <1>1, <1>2 DEF RequestQueues, AnswerQueues

(* An end of a pipe names a worker. *)
LEMMA EndType ==
  ASSUME TypeOK, NEW fd
  PROVE  End(fd) \in Ends \cup {Closed}
BY DEF TypeOK, End

LEMMA WorkerOfEnd ==
  ASSUME NEW e, e \in {R(w) : w \in Workers} \/ e \in {A(w) : w \in Workers}
  PROVE  e[2] \in Workers
BY DEF R, A

(* TypeOK in parts, so that a step has to show only those it can disturb. *)
CallTypes == jePc \in JePcs /\ i \in 0..numWorkers /\ (jePc \in Indexing => i \in Workers)
             /\ back \in {"top", "dispatch", "write"}
CommandTypes == /\ command \in Commands /\ n \in Nat
                /\ responded \subseteq Workers /\ ready \subseteq Workers
FlagTypes == worker_is_dead \in [Workers -> BOOLEAN] /\ a_worker_died \in BOOLEAN
             /\ jobExecutor_must_terminate \in BOOLEAN
FdTypes == /\ Rfds \in [Workers -> Fds \cup {-1}] /\ Afds \in [Workers -> Fds \cup {-1}]
           /\ fds \in [Fds -> Ends \cup {Closed}]
WorkerTypes ==
  /\ zombies \subseteq Workers \cup {Unknown}
  /\ workerPc \in [Workers -> WorkerPcs] /\ asked \in [Workers -> Nat]
  /\ search_canceled \in [Workers -> BOOLEAN] /\ worker_must_terminate \in [Workers -> BOOLEAN]
  /\ inherited \in [Workers -> SUBSET Ends]
PipeTypes == requests \in RequestQueues /\ answers \in AnswerQueues
BoundTypes == deaths \in 0..MaxDeaths /\ startFailures \in 0..MaxStartFailures

LEMMA TypeParts ==
  TypeOK <=> /\ CallTypes /\ CommandTypes /\ FlagTypes /\ FdTypes /\ WorkerTypes /\ PipeTypes
             /\ BoundTypes
BY DEF TypeOK, CallTypes, CommandTypes, FlagTypes, FdTypes, WorkerTypes, PipeTypes, BoundTypes,
       RequestQueues, AnswerQueues, RequestSet, AnswerSet

LEMMA TypePartsNext ==
  ASSUME CallTypes', CommandTypes', FlagTypes', FdTypes', WorkerTypes', PipeTypes', BoundTypes'
  PROVE  TypeOK'
BY DEF TypeOK, CallTypes, CommandTypes, FlagTypes, FdTypes, WorkerTypes, PipeTypes, BoundTypes,
       RequestQueues, AnswerQueues, RequestSet, AnswerSet

(* jobExecutor's steps that touch no descriptor, pipe or worker. *)
ControlStep ==
  \/ Top \/ ReadFails \/ Dispatch \/ EndCommand \/ ReplaceAll \/ Send \/ Collect \/ Poll \/ Take
  \/ Drain \/ WordCount \/ Finish \/ WaitForAll \/ \E c \in Commands : ReadCommand(c)

LEMMA ControlFrame ==
  ASSUME ControlStep
  PROVE  /\ UNCHANGED <<jobExecutor_must_terminate, Rfds, Afds, fds, requests, answers>>
         /\ UNCHANGED <<zombies, workerPc, asked, search_canceled, worker_must_terminate>>
         /\ UNCHANGED <<inherited, deaths, startFailures>>
<1> USE DEF fdVars, pipeVars, elsewhere, workerVars, boundVars
<1>1. CASE Top BY <1>1 DEF Top
<1>2. CASE ReadFails BY <1>2 DEF ReadFails
<1>3. CASE Dispatch BY <1>3 DEF Dispatch
<1>4. CASE EndCommand BY <1>4 DEF EndCommand
<1>5. CASE ReplaceAll BY <1>5 DEF ReplaceAll
<1>6. CASE Send BY <1>6 DEF Send
<1>7. CASE Collect BY <1>7 DEF Collect
<1>8. CASE Poll BY <1>8 DEF Poll
<1>9. CASE Take BY <1>9 DEF Take
<1>10. CASE Drain BY <1>10 DEF Drain
<1>11. CASE WordCount BY <1>11 DEF WordCount
<1>12. CASE Finish BY <1>12 DEF Finish
<1>13. CASE WaitForAll BY <1>13 DEF WaitForAll
<1>14. CASE \E c \in Commands : ReadCommand(c) BY <1>14 DEF ReadCommand
<1> QED
  BY <1>1, <1>2, <1>3, <1>4, <1>5, <1>6, <1>7, <1>8, <1>9, <1>10, <1>11, <1>12, <1>13, <1>14
     DEF ControlStep

LEMMA ControlTypes ==
  ASSUME TypeOK, ControlStep
  PROVE  CommandTypes' /\ FlagTypes'
<1> USE TypeParts DEF CallTypes, CommandTypes, FlagTypes, commandVars, deadVars
<1>1. CASE Top BY <1>1 DEF Top
<1>2. CASE ReadFails BY <1>2 DEF ReadFails
<1>3. CASE Dispatch BY <1>3 DEF Dispatch
<1>4. CASE EndCommand BY <1>4 DEF EndCommand
<1>5. CASE ReplaceAll BY <1>5 DEF ReplaceAll, Unflagged
<1>6. CASE Send BY <1>6 DEF Send, Unflagged
<1>7. CASE Collect BY <1>7 DEF Collect, Dead
<1>8. CASE Poll BY <1>8 DEF Poll
<1>9. CASE Take
  <2>1. CASE ready # {}
    BY <2>1, <1>9, LeastReady DEF Take
  <2>2. CASE ready = {}
    BY <2>2, <1>9 DEF Take
  <2> QED BY <2>1, <2>2
<1>10. CASE Drain BY <1>10 DEF Drain
<1>11. CASE WordCount BY <1>11 DEF WordCount
<1>12. CASE Finish BY <1>12 DEF Finish
<1>13. CASE WaitForAll BY <1>13 DEF WaitForAll
<1>14. CASE \E c \in Commands : ReadCommand(c)
  <2> PICK c \in Commands : ReadCommand(c) BY <1>14
  <2>1. CommandTypes'
    BY DEF ReadCommand
  <2>2. FlagTypes'
    BY DEF ReadCommand
  <2> QED BY <2>1, <2>2
<1> QED
  BY <1>1, <1>2, <1>3, <1>4, <1>5, <1>6, <1>7, <1>8, <1>9, <1>10, <1>11, <1>12, <1>13, <1>14
     DEF ControlStep

LEMMA ControlMoves ==
  ASSUME TypeOK, Control, ControlStep
  PROVE  CallTypes' /\ Control'
<1>W. /\ numWorkers \in Nat /\ 0 \in Workers
      /\ Workers \subseteq 0..numWorkers /\ 0 \in 0..numWorkers
      /\ \A j \in 0..numWorkers : j # numWorkers => j \in Workers /\ j + 1 \in 0..numWorkers
  BY JobExecutorAssumption DEF Workers
<1> USE <1>W, TypeParts DEF CallTypes, Control,
        Mid, Replacing, Asking, Awaiting, Draining, Counting, JePcs, Indexing,
        commandVars
<1>1. CASE Top BY <1>1 DEF Top
<1>2. CASE ReadFails BY <1>2 DEF ReadFails
<1>3. CASE Dispatch BY <1>3 DEF Dispatch, Route, CommandTypes, Commands
<1>4. CASE EndCommand BY <1>4 DEF EndCommand
<1>5. CASE ReplaceAll BY <1>5 DEF ReplaceAll
<1>6. CASE Send BY <1>6 DEF Send
<1>7. CASE Collect BY <1>7 DEF Collect
<1>8. CASE Poll BY <1>8 DEF Poll
<1>9. CASE Take
  <2>1. CASE ready # {}
    BY <2>1, <1>9, LeastReady DEF Take, CommandTypes
  <2>2. CASE ready = {}
    BY <2>2, <1>9 DEF Take
  <2> QED BY <2>1, <2>2
<1>10. CASE Drain BY <1>10 DEF Drain
<1>11. CASE WordCount BY <1>11 DEF WordCount
<1>12. CASE Finish BY <1>12 DEF Finish
<1>13. CASE WaitForAll BY <1>13 DEF WaitForAll
<1>14. CASE \E c \in Commands : ReadCommand(c)
  <2> PICK c \in Commands : ReadCommand(c) BY <1>14
  <2> QED BY DEF ReadCommand, Route, Commands
<1> QED
  BY <1>1, <1>2, <1>3, <1>4, <1>5, <1>6, <1>7, <1>8, <1>9, <1>10, <1>11, <1>12, <1>13, <1>14
     DEF ControlStep

-----------------------------------------------------------------------------
(* The steps that write to one request pipe, and those that read from one answer pipe. *)
AskStep == Write \/ SendDirectories \/ SendExit
AnswerStep == TakeAnswer \/ DrainAnswer \/ WordCountAnswer \/ ExitAnswer

LEMMA AskFrame ==
  ASSUME AskStep
  PROVE  /\ UNCHANGED <<back, command, n, responded, ready, a_worker_died>>
         /\ UNCHANGED <<jobExecutor_must_terminate, Rfds, Afds, fds, answers>>
         /\ UNCHANGED <<zombies, workerPc, asked, search_canceled, worker_must_terminate>>
         /\ UNCHANGED <<inherited, deaths, startFailures>>
<1> USE DEF fdVars, commandVars, deadVars, elsewhere, workerVars, boundVars
<1>1. CASE Write BY <1>1 DEF Write
<1>2. CASE SendDirectories BY <1>2 DEF SendDirectories
<1>3. CASE SendExit BY <1>3 DEF SendExit
<1> QED BY <1>1, <1>2, <1>3 DEF AskStep

LEMMA AnswerFrame ==
  ASSUME AnswerStep
  PROVE  /\ UNCHANGED <<back, command, n, responded, ready, worker_is_dead, a_worker_died>>
         /\ UNCHANGED <<jobExecutor_must_terminate, Rfds, Afds, fds, requests>>
         /\ UNCHANGED <<zombies, workerPc, asked, search_canceled, worker_must_terminate>>
         /\ UNCHANGED <<inherited, deaths, startFailures>>
<1> USE DEF fdVars, commandVars, deadVars, elsewhere, workerVars, boundVars, ReadAnswer
<1>1. CASE TakeAnswer BY <1>1 DEF TakeAnswer
<1>2. CASE DrainAnswer BY <1>2 DEF DrainAnswer
<1>3. CASE WordCountAnswer BY <1>3 DEF WordCountAnswer
<1>4. CASE ExitAnswer BY <1>4 DEF ExitAnswer
<1> QED BY <1>1, <1>2, <1>3, <1>4 DEF AnswerStep

(* Writing to a pipe and reading from one, and what Request, ReadAnswer and EmptyAnswers do *)
(* with them, keep its type.                                                                *)
LEMMA AppendType ==
  ASSUME NEW S, NEW p \in [Workers -> Seq(S)], NEW w \in Workers, NEW m \in S
  PROVE  [p EXCEPT ![w] = Append(@, m)] \in [Workers -> Seq(S)]
<1>1. Append(p[w], m) \in Seq(S)
  BY AppendProperties
<1> QED BY <1>1

LEMMA TailType ==
  ASSUME NEW S, NEW p \in [Workers -> Seq(S)], NEW w \in Workers, p[w] # <<>>
  PROVE  [p EXCEPT ![w] = Tail(@)] \in [Workers -> Seq(S)]
<1>1. Tail(p[w]) \in Seq(S)
  BY HeadTailProperties
<1> QED BY <1>1

LEMMA RequestType ==
  ASSUME TypeOK, NEW kind \in Kinds, Request(kind)
  PROVE  requests' \in RequestQueues
<1> DEFINE e == End(Rfds[i])
           m == [kind |-> kind, n |-> n]
<1>0. requests \in RequestQueues /\ m \in RequestSet
  BY TypeParts DEF PipeTypes, CommandTypes, RequestSet
<1>1. CASE e \in {R(w) : w \in Workers} /\ HasReader(e[2])
  <2>1. e[2] \in Workers
    BY <1>1, WorkerOfEnd
  <2>2. requests' = [requests EXCEPT ![e[2]] = Append(@, m)]
    BY <1>1 DEF Request
  <2> HIDE DEF e, m
  <2> QED BY <1>0, <2>1, <2>2, AppendType DEF RequestQueues
<1>2. CASE ~(e \in {R(w) : w \in Workers} /\ HasReader(e[2]))
  BY <1>0, <1>2 DEF Request
<1> QED BY <1>1, <1>2

LEMMA ReadAnswerType ==
  ASSUME TypeOK, NEW done, NEW next, ReadAnswer(done, next)
  PROVE  /\ answers' \in AnswerQueues
         /\ \/ UNCHANGED <<jePc, i>>
            \/ jePc' = done /\ i' = next
<1> DEFINE e == End(Afds[i])
<1>0. answers \in AnswerQueues
  BY TypeParts DEF PipeTypes
<1>1. CASE Readable(i) /\ answers' = [answers EXCEPT ![e[2]] = Tail(@)]
  <2>1. e[2] \in Workers /\ answers[e[2]] # <<>>
    BY <1>1, WorkerOfEnd DEF Readable
  <2> HIDE DEF e
  <2> QED BY <1>0, <1>1, <2>1, TailType DEF AnswerQueues, ReadAnswer
<1>2. CASE UNCHANGED answers
  BY <1>0, <1>2 DEF ReadAnswer
<1> QED BY <1>1, <1>2 DEF ReadAnswer

LEMMA NextWorker ==
  ASSUME NEW j \in Workers
  PROVE  j \in 0..numWorkers /\ j + 1 \in 0..numWorkers
BY JobExecutorAssumption DEF Workers

(* The types after these steps. *)
LEMMA AskTypes ==
  ASSUME TypeOK, Control, AskStep
  PROVE  /\ CallTypes' /\ CommandTypes' /\ FlagTypes' /\ requests' \in RequestQueues /\ Control'
         /\ \/ jePc' \notin Mid
            \/ jePc = "dirs" /\ jePc' = "openA" /\ i' = i
<1>W. /\ numWorkers \in Nat /\ 0 \in Workers /\ Workers \subseteq 0..numWorkers
      /\ \A j \in 0..numWorkers : j # numWorkers => j \in Workers
      /\ \A j \in Workers : j + 1 \in 0..numWorkers
  BY JobExecutorAssumption DEF Workers
<1> USE <1>W, TypeParts DEF CallTypes, Control,
        Mid, Replacing, Asking, Awaiting, Draining, Counting, JePcs, Indexing
<1>1. CASE Write
  <2>1. command \in Kinds
    BY <1>1 DEF Write, Kinds
  <2>2. requests' \in RequestQueues
    BY <1>1, <2>1, RequestType DEF Write
  <2>3. /\ jePc = "write" /\ jePc' = "send" /\ i' = i + 1 /\ i \in Workers
        /\ UNCHANGED <<back, command, n, responded, ready>>
        /\ UNCHANGED <<worker_is_dead, a_worker_died, jobExecutor_must_terminate>>
    BY <1>1 DEF Write, commandVars, deadVars
  <2>7. i + 1 \in 0..numWorkers
    BY <2>3, NextWorker
  <2>4. CallTypes'
    <3>1. i' \in 0..numWorkers
      BY <2>3, <2>7
    <3> QED BY <2>3, <3>1
  <2>6. Control'
    BY <2>3
  <2>5. CommandTypes' /\ FlagTypes'
    BY <2>3 DEF CommandTypes, FlagTypes
  <2> QED BY <2>2, <2>3, <2>4, <2>5, <2>6
<1>2. CASE SendDirectories
  <2>0. i \in Workers /\ worker_is_dead \in [Workers -> BOOLEAN]
    BY <1>2 DEF SendDirectories, FlagTypes
  <2>1. CASE HasReader(i)
    <3>1. [kind |-> "dirs", n |-> n] \in RequestSet
      BY DEF RequestSet, Kinds, CommandTypes
    <3>2. requests' \in RequestQueues
      <4> DEFINE m == [kind |-> "dirs", n |-> n]
      <4>1. requests' = [requests EXCEPT ![i] = Append(@, m)] /\ m \in RequestSet
        BY <1>2, <2>1, <3>1 DEF SendDirectories
      <4> HIDE DEF m
      <4> QED BY <2>0, <4>1, AppendType DEF RequestQueues, PipeTypes
    <3>3. jePc = "dirs" /\ jePc' = "openA" /\ i' = i /\ UNCHANGED worker_is_dead
      BY <1>2, <2>1 DEF SendDirectories
    <3> QED BY <1>2, <3>2, <3>3, <2>0, AskFrame DEF AskStep, CommandTypes, FlagTypes
  <2>2. CASE ~HasReader(i)
    <3>1. /\ jePc = "dirs" /\ requests' = requests /\ worker_is_dead' \in [Workers -> BOOLEAN]
          /\ IF back = "write" THEN jePc' = "write" /\ UNCHANGED i
                               ELSE jePc' = "replace" /\ i' = i + 1
      BY <1>2, <2>0, <2>2 DEF SendDirectories, Return
    <3>2. CommandTypes' /\ FlagTypes' /\ requests' \in RequestQueues
      BY <1>2, <3>1, AskFrame DEF AskStep, CommandTypes, FlagTypes, PipeTypes
    <3>3. UNCHANGED <<back, command>>
      BY <1>2, AskFrame DEF AskStep
    <3>6. i + 1 \in 0..numWorkers
      BY <2>0, NextWorker
    <3>4. CallTypes'
      <4>1. i' \in 0..numWorkers /\ (jePc' = "write" => i' \in Workers)
        BY <3>1, <3>6, <2>0
      <4> QED BY <3>1, <3>3, <4>1
    <3>5. Control'
      BY <3>1, <3>3
    <3> QED BY <3>1, <3>2, <3>4, <3>5
  <2> QED BY <2>1, <2>2
<1>3. CASE SendExit
  <2>1. requests' \in RequestQueues
    BY <1>3, RequestType DEF SendExit, Kinds, PipeTypes
  <2> QED BY <1>3, <2>1, AskFrame DEF AskStep, SendExit, CommandTypes, FlagTypes, deadVars
<1> QED BY <1>1, <1>2, <1>3 DEF AskStep

LEMMA AnswerTypes ==
  ASSUME TypeOK, Control, AnswerStep
  PROVE  CallTypes' /\ answers' \in AnswerQueues /\ Control' /\ jePc' \notin Mid
<1>W. /\ Workers \subseteq 0..numWorkers
      /\ \A j \in Workers : j + 1 \in 0..numWorkers
  BY JobExecutorAssumption DEF Workers
<1> USE <1>W, AnswerFrame, TypeParts DEF CallTypes, Control,
        Mid, Replacing, Asking, Awaiting, Draining, Counting, JePcs, Indexing
<1>1. CASE TakeAnswer BY <1>1, ReadAnswerType DEF TakeAnswer
<1>2. CASE DrainAnswer BY <1>2, ReadAnswerType DEF DrainAnswer
<1>3. CASE WordCountAnswer BY <1>3, ReadAnswerType DEF WordCountAnswer
<1>4. CASE ExitAnswer BY <1>4, ReadAnswerType DEF ExitAnswer
<1> QED BY <1>1, <1>2, <1>3, <1>4 DEF AnswerStep

-----------------------------------------------------------------------------
(* The steps of replace_worker. What EmptyAnswers throws away leaves answers. *)
LEMMA EmptyAnswersPipes ==
  ASSUME TypeOK, EmptyAnswers
  PROVE  \E a \in AnswerQueues : Pipes(requests, a)
<1> DEFINE e == End(Afds[i])
<1>0. answers \in AnswerQueues
  BY TypeParts DEF PipeTypes
<1>1. CASE e \in {A(w) : w \in Workers} /\ answers[e[2]] # <<>>
  <2>1. PICK j \in 1..Len(answers[e[2]]) :
          Pipes(requests, [answers EXCEPT ![e[2]] = SubSeq(@, j + 1, Len(@))])
    BY <1>1 DEF EmptyAnswers
  <2>2. e[2] \in Workers
    BY <1>1, WorkerOfEnd
  <2> DEFINE a == [answers EXCEPT ![e[2]] = SubSeq(@, j + 1, Len(@))]
  <2>3. SubSeq(answers[e[2]], j + 1, Len(answers[e[2]])) \in Seq(AnswerSet)
    <3> DEFINE s == answers[e[2]]
    <3>1. s \in Seq(AnswerSet) /\ j \in 1..Len(s)
      BY <1>0, <2>2 DEF AnswerQueues
    <3> HIDE DEF s
    <3>2. j + 1 >= 1 /\ j + 1 \in Nat /\ Len(s) \in Nat
      BY <3>1, LenProperties
    <3>3. SubSeq(s, j + 1, Len(s)) \in Seq(AnswerSet)
      BY <3>1, <3>2
    <3> QED BY <3>3 DEF s
  <2>4. a \in AnswerQueues
    <3> HIDE DEF e
    <3> QED BY <1>0, <2>2, <2>3 DEF AnswerQueues
  <2> QED BY <2>1, <2>4
<1>2. CASE ~(e \in {A(w) : w \in Workers} /\ answers[e[2]] # <<>>)
  BY <1>0, <1>2 DEF EmptyAnswers
<1> QED BY <1>1, <1>2

LEMMA EmptyAnswersType ==
  ASSUME TypeOK, EmptyAnswers
  PROVE  PipeTypes'
<1>1. requests \in RequestQueues
  BY TypeParts DEF PipeTypes
<1> QED BY <1>1, EmptyAnswersPipes, PipesType DEF PipeTypes

LEMMA CloseOldType ==
  ASSUME TypeOK, CloseOld
  PROVE  /\ fds' \in [Fds -> Ends \cup {Closed}]
         /\ \A f \in Fds : fds'[f] = IF f \in {Rfds[i], Afds[i]} THEN Closed ELSE fds[f]
<1>1. fds' = [f \in Fds |-> IF f \in {Rfds[i], Afds[i]} THEN Closed ELSE fds[f]]
  BY DEF CloseOld, ClosedFirst
<1> QED BY <1>1, TypeParts DEF FdTypes

LEMMA ForkTypes ==
  ASSUME TypeOK, Control, Fork
  PROVE  TypeOK' /\ Control'
<1>0. /\ jePc = "fork" /\ jePc' = "openR" /\ i \in Workers /\ CloseOld /\ EmptyAnswers
      /\ UNCHANGED <<i, back, command, n, responded, ready>>
      /\ UNCHANGED <<worker_is_dead, a_worker_died, jobExecutor_must_terminate, Rfds, Afds>>
      /\ UNCHANGED <<asked, deaths, startFailures>>
  BY TypeParts DEF Fork, commandVars, deadVars, boundVars, CallTypes, Indexing
<1>1. CallTypes' /\ Control'
  BY <1>0, TypeParts DEF CallTypes, Control, JePcs, Mid, Replacing, Asking, Awaiting, Draining,
     Counting
<1>2. CommandTypes' /\ FlagTypes' /\ BoundTypes'
  BY <1>0, TypeParts DEF CommandTypes, FlagTypes, BoundTypes
<1>3. FdTypes'
  BY <1>0, CloseOldType, TypeParts DEF FdTypes
<1>4. WorkerTypes'
  <2>1. {fds'[f] : f \in Fds} \ {Closed} \subseteq Ends
    BY <1>0, CloseOldType
  <2>2. inherited' \in [Workers -> SUBSET Ends]
    BY <1>0, <2>1, TypeParts DEF Fork, WorkerTypes
  <2>3. /\ zombies' \subseteq Workers \cup {Unknown}
        /\ workerPc' \in [Workers -> WorkerPcs]
    BY <1>0, TypeParts DEF Fork, WorkerTypes, WorkerPcs
  <2>4. /\ search_canceled' \in [Workers -> BOOLEAN]
        /\ worker_must_terminate' \in [Workers -> BOOLEAN] /\ asked' = asked
    BY <1>0, TypeParts DEF Fork, WorkerTypes
  <2> QED BY <2>2, <2>3, <2>4, TypeParts DEF WorkerTypes
<1>5. PipeTypes'
  BY <1>0, EmptyAnswersType
<1> QED BY <1>1, <1>2, <1>3, <1>4, <1>5, TypePartsNext

LEMMA ForkFailsTypes ==
  ASSUME TypeOK, Control, ForkFails
  PROVE  TypeOK' /\ Control' /\ jePc' \notin Mid
<1>0. /\ jePc = "fork" /\ i \in Workers /\ CloseOld /\ EmptyAnswers
      /\ ForgetNumbers /\ Return(FALSE)
      /\ startFailures < MaxStartFailures /\ startFailures' = startFailures + 1
      /\ UNCHANGED <<back, command, n, responded, ready>>
      /\ UNCHANGED <<a_worker_died, jobExecutor_must_terminate, zombies, workerPc, asked>>
      /\ UNCHANGED <<search_canceled, worker_must_terminate, inherited, deaths>>
  BY TypeParts DEF ForkFails, commandVars, workerVars, CallTypes, Indexing
<1>1. IF back = "write" THEN jePc' = "write" /\ UNCHANGED i
                        ELSE jePc' = "replace" /\ i' = i + 1
  BY <1>0 DEF Return
<1>2. CallTypes'
  <2>1. i' \in 0..numWorkers
    BY <1>0, <1>1, NextWorker
  <2> QED BY <1>0, <1>1, <2>1, TypeParts DEF CallTypes, JePcs, Indexing
<1>3. Control' /\ jePc' \notin Mid
  BY <1>0, <1>1, TypeParts DEF CallTypes, Control, Mid, Replacing, Asking, Awaiting, Draining,
     Counting
<1>4. FlagTypes'
  BY <1>0, TypeParts DEF FlagTypes, Return
<1>5. CommandTypes' /\ WorkerTypes'
  BY <1>0, TypeParts DEF CommandTypes, WorkerTypes
<1>6. BoundTypes'
  BY <1>0, JobExecutorAssumption, TypeParts DEF BoundTypes
<1>7. FdTypes'
  BY <1>0, CloseOldType, TypeParts DEF FdTypes, ForgetNumbers
<1>8. PipeTypes'
  BY <1>0, EmptyAnswersType
<1> QED BY <1>2, <1>3, <1>4, <1>5, <1>6, <1>7, <1>8, TypePartsNext

LEMMA OpenRequestsTypes ==
  ASSUME TypeOK, Control, Named, OpenRequests
  PROVE  TypeOK' /\ Control'
<1>0. /\ jePc = "openR" /\ jePc' = "dirs" /\ i \in Workers /\ LowestFree \in Fds
      /\ UNCHANGED <<i, back, command, n, responded, ready>>
      /\ UNCHANGED <<worker_is_dead, a_worker_died, jobExecutor_must_terminate, Afds, zombies>>
      /\ UNCHANGED <<asked, search_canceled, worker_must_terminate, inherited, requests, answers>>
      /\ UNCHANGED <<deaths, startFailures>>
  BY TypeParts, LowestFreeIs DEF OpenRequests, commandVars, deadVars, boundVars, pipeVars,
     CallTypes, Indexing
<1>1. CallTypes' /\ Control'
  BY <1>0, TypeParts DEF CallTypes, Control, JePcs, Mid, Replacing, Asking, Awaiting, Draining,
     Counting
<1>2. CommandTypes' /\ FlagTypes' /\ BoundTypes' /\ PipeTypes'
  BY <1>0, TypeParts DEF CommandTypes, FlagTypes, BoundTypes, PipeTypes
<1>3. FdTypes'
  <2>1. R(i) \in Ends
    BY <1>0 DEF Ends
  <2>2. Rfds' = [Rfds EXCEPT ![i] = LowestFree] /\ fds' = [fds EXCEPT ![LowestFree] = R(i)]
    BY DEF OpenRequests
  <2> QED BY <1>0, <2>1, <2>2, TypeParts DEF FdTypes
<1>4. WorkerTypes'
  <2>1. workerPc' \in [Workers -> WorkerPcs]
    BY TypeParts DEF OpenRequests, WorkerTypes, WorkerPcs
  <2> QED BY <1>0, <2>1, TypeParts DEF WorkerTypes
<1> QED BY <1>1, <1>2, <1>3, <1>4, TypePartsNext

LEMMA OpenAnswersTypes ==
  ASSUME TypeOK, Control, Named, OpenAnswers
  PROVE  TypeOK' /\ Control' /\ jePc' \notin Mid
<1>0. /\ jePc = "openA" /\ i \in Workers /\ LowestFree \in Fds
      /\ UNCHANGED <<back, command, n, responded, ready>>
      /\ UNCHANGED <<worker_is_dead, a_worker_died, jobExecutor_must_terminate, Rfds, zombies>>
      /\ UNCHANGED <<asked, search_canceled, worker_must_terminate, inherited, requests, answers>>
      /\ UNCHANGED <<deaths, startFailures>>
  BY TypeParts, LowestFreeIs DEF OpenAnswers, Return, commandVars, boundVars, pipeVars, CallTypes,
     Indexing
<1>1. IF back = "write" THEN jePc' = "write" /\ UNCHANGED i
                        ELSE jePc' = "replace" /\ i' = i + 1
  BY DEF OpenAnswers, Return
<1>2. CallTypes'
  <2>1. i' \in 0..numWorkers
    BY <1>0, <1>1, NextWorker
  <2> QED BY <1>0, <1>1, <2>1, TypeParts DEF CallTypes, JePcs, Indexing
<1>3. Control' /\ jePc' \notin Mid
  BY <1>0, <1>1, TypeParts DEF CallTypes, Control, Mid, Replacing, Asking, Awaiting, Draining,
     Counting
<1>4. CommandTypes' /\ FlagTypes' /\ BoundTypes' /\ PipeTypes'
  BY <1>0, TypeParts DEF CommandTypes, FlagTypes, BoundTypes, PipeTypes
<1>5. FdTypes'
  <2>1. A(i) \in Ends
    BY <1>0 DEF Ends
  <2>2. Afds' = [Afds EXCEPT ![i] = LowestFree] /\ fds' = [fds EXCEPT ![LowestFree] = A(i)]
    BY DEF OpenAnswers
  <2> QED BY <1>0, <2>1, <2>2, TypeParts DEF FdTypes
<1>6. WorkerTypes'
  <2>1. workerPc' \in [Workers -> WorkerPcs]
    BY TypeParts DEF OpenAnswers, WorkerTypes, WorkerPcs
  <2> QED BY <1>0, <2>1, TypeParts DEF WorkerTypes
<1> QED BY <1>2, <1>3, <1>4, <1>5, <1>6, TypePartsNext

-----------------------------------------------------------------------------
(* The steps that signal the workers, those of the shutdown and the handlers. *)
LEMMA DeadlineTypes ==
  ASSUME TypeOK, Control, Deadline
  PROVE  TypeOK' /\ Control' /\ jePc' \notin Mid
<1>0. /\ jePc = "poll" /\ command = "search" /\ jePc' = "drain" /\ i' = 0
      /\ UNCHANGED <<back, command, n, responded, ready>>
      /\ UNCHANGED <<worker_is_dead, a_worker_died, jobExecutor_must_terminate, Rfds, Afds, fds>>
      /\ UNCHANGED <<zombies, workerPc, asked, worker_must_terminate, inherited>>
      /\ UNCHANGED <<requests, answers, deaths, startFailures>>
  BY DEF Deadline, commandVars, deadVars, fdVars, pipeVars, boundVars
<1>1. CallTypes' /\ Control' /\ jePc' \notin Mid
  BY <1>0, JobExecutorAssumption, TypeParts DEF CallTypes, Control, JePcs, Indexing, Mid,
     Replacing, Asking, Awaiting, Draining, Counting
<1>2. CommandTypes' /\ FlagTypes' /\ FdTypes' /\ PipeTypes' /\ BoundTypes'
  BY <1>0, TypeParts DEF CommandTypes, FlagTypes, FdTypes, PipeTypes, BoundTypes
<1>3. search_canceled' \in [Workers -> BOOLEAN]
  BY TypeParts DEF Deadline, FlagTypes, WorkerTypes
<1>4. WorkerTypes'
  BY <1>0, <1>3, TypeParts DEF WorkerTypes
<1> QED BY <1>1, <1>2, <1>4, TypePartsNext

LEMMA KillWorkersTypes ==
  ASSUME TypeOK, Control, KillWorkers
  PROVE  TypeOK' /\ Control' /\ jePc' \notin Mid
<1>0. /\ jePc = "kill" /\ jePc' = "close" /\ Pipes(requests, answers)
      /\ UNCHANGED <<i, back, command, n, responded, ready>>
      /\ UNCHANGED <<worker_is_dead, a_worker_died, jobExecutor_must_terminate, Rfds, Afds, fds>>
      /\ UNCHANGED <<zombies, asked, search_canceled, inherited, deaths, startFailures>>
  BY DEF KillWorkers, commandVars, deadVars, fdVars, boundVars
<1>1. CallTypes' /\ Control' /\ jePc' \notin Mid
  BY <1>0, TypeParts DEF CallTypes, Control, JePcs, Indexing, Mid, Replacing, Asking, Awaiting,
     Draining, Counting
<1>2. CommandTypes' /\ FlagTypes' /\ FdTypes' /\ BoundTypes'
  BY <1>0, TypeParts DEF CommandTypes, FlagTypes, FdTypes, BoundTypes
<1>3. PipeTypes'
  BY <1>0, PipesType, TypeParts DEF PipeTypes
<1>4. /\ workerPc' \in [Workers -> WorkerPcs]
      /\ worker_must_terminate' \in [Workers -> BOOLEAN]
  BY TypeParts DEF KillWorkers, WorkerTypes, WorkerPcs
<1>5. WorkerTypes'
  BY <1>0, <1>4, TypeParts DEF WorkerTypes
<1> QED BY <1>1, <1>2, <1>3, <1>5, TypePartsNext

LEMMA CloseAllTypes ==
  ASSUME TypeOK, Control, CloseAll
  PROVE  TypeOK' /\ Control' /\ jePc' \notin Mid
<1>0. /\ jePc = "close" /\ jePc' = "wait" /\ Pipes(requests, answers)
      /\ UNCHANGED <<i, back, command, n, responded, ready>>
      /\ UNCHANGED <<worker_is_dead, a_worker_died, jobExecutor_must_terminate, Rfds, Afds>>
      /\ UNCHANGED <<zombies, workerPc, asked, search_canceled, worker_must_terminate, inherited>>
      /\ UNCHANGED <<deaths, startFailures>>
  BY DEF CloseAll, commandVars, deadVars, workerVars, boundVars, elsewhere
<1>1. CallTypes' /\ Control' /\ jePc' \notin Mid
  BY <1>0, TypeParts DEF CallTypes, Control, JePcs, Indexing, Mid, Replacing, Asking, Awaiting,
     Draining, Counting
<1>2. CommandTypes' /\ FlagTypes' /\ WorkerTypes' /\ BoundTypes'
  BY <1>0, TypeParts DEF CommandTypes, FlagTypes, WorkerTypes, BoundTypes
<1>3. PipeTypes'
  BY <1>0, PipesType, TypeParts DEF PipeTypes
<1>4. FdTypes'
  BY <1>0, TypeParts DEF CloseAll, FdTypes
<1> QED BY <1>1, <1>2, <1>3, <1>4, TypePartsNext

(* A handler interrupts a read of the command, a poll or the read of an EXIT answer. *)
Handler == handle_child_termination \/ handle_sig_termination

LEMMA HandlerFrame ==
  ASSUME Handler
  PROVE  /\ UNCHANGED <<back, command, n, responded, ready, Rfds, Afds, fds, requests, answers>>
         /\ UNCHANGED <<workerPc, asked, search_canceled, worker_must_terminate, inherited>>
         /\ UNCHANGED <<deaths, startFailures>>
         /\ \/ UNCHANGED <<jePc, i>>
            \/ jePc = "read" /\ jePc' = "interrupted" /\ i' = i
            \/ jePc = "poll" /\ jePc' = "collect" /\ i' = i
            \/ jePc = "exitReading" /\ jePc' = "exit" /\ i' = i + 1
<1> USE DEF commandVars, deadVars, fdVars, pipeVars, workerVars, boundVars, elsewhere
<1>0. ASSUME interrupt
      PROVE  \/ jePc' = jePc
             \/ jePc = "read" /\ jePc' = "interrupted"
             \/ jePc = "poll" /\ jePc' = "collect"
  <2>1. CASE jePc = "read"
    BY <1>0, <2>1 DEF interrupt
  <2>2. CASE jePc = "poll"
    BY <1>0, <2>2 DEF interrupt
  <2>3. CASE jePc \notin {"read", "poll"}
    BY <1>0, <2>3 DEF interrupt
  <2> QED BY <2>1, <2>2, <2>3
<1>1. CASE handle_child_termination
  BY <1>0, <1>1 DEF handle_child_termination
<1>2. CASE handle_sig_termination
  BY <1>0, <1>2 DEF handle_sig_termination
<1> QED BY <1>1, <1>2 DEF Handler

LEMMA HandlerTypes ==
  ASSUME TypeOK, Control, Handler
  PROVE  TypeOK' /\ Control' /\ (jePc' \in Mid => UNCHANGED <<jePc, i>>)
<1>1. CallTypes'
  <2>1. i' \in 0..numWorkers
    BY HandlerFrame, NextWorker, TypeParts DEF CallTypes, Indexing
  <2> QED BY HandlerFrame, <2>1, TypeParts DEF CallTypes, JePcs, Indexing
<1>2. Control' /\ (jePc' \in Mid => UNCHANGED <<jePc, i>>)
  BY HandlerFrame DEF Control, Mid, Replacing, Asking, Awaiting, Draining, Counting
<1>3. CommandTypes' /\ FdTypes' /\ PipeTypes' /\ BoundTypes'
  BY HandlerFrame, TypeParts DEF CommandTypes, FdTypes, PipeTypes, BoundTypes
<1>4. FlagTypes' /\ zombies' \subseteq Workers \cup {Unknown}
  <2>1. CASE handle_child_termination
    BY <2>1, TypeParts DEF handle_child_termination, FlagTypes, WorkerTypes
  <2>2. CASE handle_sig_termination
    BY <2>2, TypeParts DEF handle_sig_termination, FlagTypes, WorkerTypes, deadVars, elsewhere
  <2> QED BY <2>1, <2>2 DEF Handler
<1>5. WorkerTypes'
  BY <1>4, HandlerFrame, TypeParts DEF WorkerTypes
<1> QED BY <1>1, <1>2, <1>3, <1>4, <1>5, TypePartsNext

-----------------------------------------------------------------------------
(* The steps of a worker. It ends, or is back in its loop. *)
LEMMA ContinuesCases ==
  ASSUME NEW w, NEW q, NEW a, Continues(w, q, a)
  PROVE  \/ /\ worker_must_terminate[w] /\ Gone(w, q, a) /\ UNCHANGED <<deaths, startFailures>>
         \/ /\ ~worker_must_terminate[w]
            /\ workerPc' = [workerPc EXCEPT ![w] = "loop"] /\ requests' = q /\ answers' = a
            /\ asked' = [asked EXCEPT ![w] = 0]
            /\ UNCHANGED <<search_canceled, worker_must_terminate, inherited, zombies>>
            /\ UNCHANGED jobExecutorUnchanged
BY DEF Continues, Ended, boundVars

LEMMA GoneFrame ==
  ASSUME NEW w, NEW q, NEW a, Gone(w, q, a)
  PROVE  /\ UNCHANGED <<jePc, i, back, command, n, responded, ready>>
         /\ UNCHANGED <<worker_is_dead, a_worker_died, jobExecutor_must_terminate, Rfds, Afds, fds>>
         /\ UNCHANGED <<search_canceled, worker_must_terminate>>
BY DEF Gone, callVars, commandVars, deadVars, fdVars

(* A worker's step changes nothing of jobExecutor's. *)
LEMMA WorkerFrame ==
  ASSUME NEW w \in Workers, WorkerStep(w) \/ Die(w)
  PROVE  /\ UNCHANGED <<jePc, i, back, command, n, responded, ready>>
         /\ UNCHANGED <<worker_is_dead, a_worker_died, jobExecutor_must_terminate, Rfds, Afds, fds>>
         /\ UNCHANGED worker_must_terminate
<1>0. UNCHANGED jobExecutorUnchanged =>
         /\ UNCHANGED <<jePc, i, back, command, n, responded, ready>>
         /\ UNCHANGED <<worker_is_dead, a_worker_died, jobExecutor_must_terminate, Rfds, Afds, fds>>
         /\ UNCHANGED <<deaths, startFailures>>
  BY DEF jobExecutorUnchanged, callVars, commandVars, deadVars, fdVars, boundVars
<1>1. CASE ReadDirectories(w) BY <1>0, <1>1 DEF ReadDirectories
<1>2. CASE AnswerRequest(w)
  <2>1. PICK q, a : Continues(w, q, a) \/ Ended(w, q, a)
    BY <1>2 DEF AnswerRequest
  <2>2. CASE Ended(w, q, a)
    BY <2>2, GoneFrame DEF Ended
  <2>3. CASE Continues(w, q, a)
    BY <1>0, <2>3, ContinuesCases, GoneFrame
  <2> QED BY <2>1, <2>2, <2>3
<1>3. CASE StartSearch(w)
  <2>1. CASE worker_must_terminate[w]
    BY <1>3, <2>1, GoneFrame DEF StartSearch, Ended
  <2>2. CASE ~worker_must_terminate[w]
    BY <1>0, <1>3, <2>2 DEF StartSearch
  <2> QED BY <2>1, <2>2
<1>4. CASE FindLine(w) BY <1>0, <1>4 DEF FindLine
<1>5. CASE EndSearch(w)
  <2>1. PICK q, a : Continues(w, q, a)
    BY <1>5 DEF EndSearch
  <2> QED BY <1>0, <2>1, ContinuesCases, GoneFrame
<1>6. CASE EndOfRequests(w) BY <1>6, GoneFrame DEF EndOfRequests, Ended
<1>7. CASE NoExecutable(w) BY <1>7, GoneFrame DEF NoExecutable
<1>8. CASE Die(w) BY <1>8, GoneFrame DEF Die
<1> QED BY <1>1, <1>2, <1>3, <1>4, <1>5, <1>6, <1>7, <1>8 DEF WorkerStep

LEMMA AnswerType ==
  ASSUME TypeOK, NEW w \in Workers, NEW kind \in AnswerKinds, NEW number \in Nat
  PROVE  Answer(w, kind, number) \in AnswerQueues
<1> DEFINE m == [kind |-> kind, from |-> w, n |-> number]
<1>1. m \in AnswerSet /\ answers \in [Workers -> Seq(AnswerSet)]
  BY TypeParts DEF PipeTypes, AnswerQueues, AnswerSet
<1>2. Answer(w, kind, number) = IF Held(A(w)) THEN [answers EXCEPT ![w] = Append(@, m)] ELSE answers
  BY DEF Answer
<1> HIDE DEF m
<1> QED BY <1>1, <1>2, AppendType DEF AnswerQueues

LEMMA RestType ==
  ASSUME TypeOK, NEW w \in Workers, requests[w] # <<>>
  PROVE  /\ [requests EXCEPT ![w] = Tail(@)] \in RequestQueues
         /\ Head(requests[w]) \in RequestSet
<1>1. requests \in [Workers -> Seq(RequestSet)]
  BY TypeParts DEF PipeTypes, RequestQueues
<1>2. Head(requests[w]) \in RequestSet
  BY <1>1, HeadTailProperties
<1> QED BY <1>1, <1>2, TailType DEF RequestQueues

LEMMA GoneTypes ==
  ASSUME TypeOK, NEW w \in Workers, NEW q \in RequestQueues, NEW a \in AnswerQueues, Gone(w, q, a)
  PROVE  WorkerTypes' /\ PipeTypes'
<1>1. PipeTypes'
  BY PipesType DEF Gone, PipeTypes
<1>2. /\ workerPc' = [workerPc EXCEPT ![w] = "dead"]
      /\ inherited' = [inherited EXCEPT ![w] = {}] /\ asked' = [asked EXCEPT ![w] = 0]
      /\ zombies' \in {zombies, zombies \cup {w}}
      /\ UNCHANGED <<search_canceled, worker_must_terminate>>
  BY DEF Gone
<1>3. WorkerTypes'
  BY <1>2, TypeParts DEF WorkerTypes, WorkerPcs
<1> QED BY <1>1, <1>3

LEMMA ContinuesTypes ==
  ASSUME TypeOK, NEW w \in Workers, NEW q \in RequestQueues, NEW a \in AnswerQueues,
         Continues(w, q, a)
  PROVE  WorkerTypes' /\ PipeTypes' /\ BoundTypes'
<1>1. CASE Gone(w, q, a) /\ UNCHANGED <<deaths, startFailures>>
  BY <1>1, GoneTypes, TypeParts DEF BoundTypes
<1>2. CASE /\ workerPc' = [workerPc EXCEPT ![w] = "loop"] /\ requests' = q /\ answers' = a
           /\ asked' = [asked EXCEPT ![w] = 0]
           /\ UNCHANGED <<search_canceled, worker_must_terminate, inherited, zombies>>
           /\ UNCHANGED jobExecutorUnchanged
  <2>1. WorkerTypes'
    BY <1>2, TypeParts DEF WorkerTypes, WorkerPcs
  <2>2. PipeTypes' /\ BoundTypes'
    BY <1>2, TypeParts DEF PipeTypes, BoundTypes, jobExecutorUnchanged, boundVars
  <2> QED BY <2>1, <2>2
<1> QED BY <1>1, <1>2, ContinuesCases

LEMMA WorkerStepTypes ==
  ASSUME TypeOK, NEW w \in Workers, WorkerStep(w) \/ Die(w)
  PROVE  WorkerTypes' /\ PipeTypes' /\ BoundTypes'
<1>0. /\ UNCHANGED jobExecutorUnchanged => UNCHANGED <<deaths, startFailures>>
      /\ WorkerTypes /\ requests \in RequestQueues /\ answers \in AnswerQueues /\ BoundTypes
      /\ asked[w] \in Nat
  BY TypeParts DEF jobExecutorUnchanged, boundVars, PipeTypes, WorkerTypes
<1> DEFINE q == [requests EXCEPT ![w] = Tail(@)]
           m == Head(requests[w])
<1>1. CASE ReadDirectories(w)
  <2>1. q \in RequestQueues
    BY <1>1, RestType DEF ReadDirectories
  <2>2. /\ requests' = q
        /\ \E pc \in {"openA", "garbled"} : workerPc' = [workerPc EXCEPT ![w] = pc]
        /\ UNCHANGED <<asked, search_canceled, worker_must_terminate, inherited, zombies, answers>>
        /\ UNCHANGED <<deaths, startFailures>>
    BY <1>0, <1>1 DEF ReadDirectories
  <2> HIDE DEF q
  <2> QED BY <1>0, <2>1, <2>2 DEF WorkerTypes, WorkerPcs, PipeTypes, BoundTypes
<1>2. CASE AnswerRequest(w)
  <2>1. q \in RequestQueues /\ m.n \in Nat
    BY <1>2, RestType DEF AnswerRequest, RequestSet
  <2>2. /\ Answer(w, "count", m.n) \in AnswerQueues /\ Answer(w, "wc", m.n) \in AnswerQueues
        /\ Answer(w, "exit", m.n) \in AnswerQueues
    BY <2>1, AnswerType DEF AnswerKinds
  <2>3. \E a \in AnswerQueues : Continues(w, q, a) \/ Ended(w, q, a)
    BY <1>0, <1>2, <2>2 DEF AnswerRequest
  <2> HIDE DEF q, m
  <2> QED BY <1>0, <2>1, <2>3, ContinuesTypes, GoneTypes DEF Ended, boundVars, BoundTypes
<1>3. CASE StartSearch(w)
  <2>1. q \in RequestQueues /\ m.n \in Nat
    BY <1>3, RestType DEF StartSearch, RequestSet
  <2>2. CASE worker_must_terminate[w]
    <3>1. Ended(w, q, answers)
      BY <1>3, <2>2 DEF StartSearch
    <3> HIDE DEF q, m
    <3> QED BY <1>0, <2>1, <3>1, GoneTypes DEF Ended, boundVars, BoundTypes
  <2>3. CASE ~worker_must_terminate[w]
    <3>1. /\ workerPc' = [workerPc EXCEPT ![w] = "search"] /\ asked' = [asked EXCEPT ![w] = m.n]
          /\ search_canceled' = [search_canceled EXCEPT ![w] = FALSE] /\ requests' = q
          /\ UNCHANGED <<worker_must_terminate, inherited, zombies, answers>>
          /\ UNCHANGED <<deaths, startFailures>>
      BY <1>0, <1>3, <2>3 DEF StartSearch
    <3> HIDE DEF q, m
    <3> QED BY <1>0, <2>1, <3>1 DEF WorkerTypes, WorkerPcs, PipeTypes, BoundTypes
  <2> QED BY <2>2, <2>3
<1>4. CASE FindLine(w)
  <2>1. Answer(w, "line", asked[w]) \in AnswerQueues
    BY <1>0, AnswerType DEF AnswerKinds
  <2>2. /\ workerPc' = [workerPc EXCEPT ![w] = "searched"]
        /\ answers' = Answer(w, "line", asked[w])
        /\ UNCHANGED <<asked, search_canceled, worker_must_terminate, inherited, zombies, requests>>
        /\ UNCHANGED <<deaths, startFailures>>
    BY <1>0, <1>4 DEF FindLine
  <2> QED BY <1>0, <2>1, <2>2 DEF WorkerTypes, WorkerPcs, PipeTypes, BoundTypes
<1>5. CASE EndSearch(w)
  <2>1. Answer(w, "end", asked[w]) \in AnswerQueues
    BY <1>0, AnswerType DEF AnswerKinds
  <2>2. \E a \in AnswerQueues : Continues(w, requests, a)
    BY <1>0, <1>5, <2>1 DEF EndSearch
  <2> QED BY <1>0, <2>2, ContinuesTypes
<1>6. CASE EndOfRequests(w)
  BY <1>0, <1>6, GoneTypes DEF EndOfRequests, Ended, boundVars, BoundTypes
<1>7. CASE NoExecutable(w)
  BY <1>0, <1>7, GoneTypes, JobExecutorAssumption DEF NoExecutable, BoundTypes
<1>8. CASE Die(w)
  BY <1>0, <1>8, GoneTypes, JobExecutorAssumption DEF Die, BoundTypes
<1> QED BY <1>1, <1>2, <1>3, <1>4, <1>5, <1>6, <1>7, <1>8 DEF WorkerStep

LEMMA WorkerTypesNext ==
  ASSUME TypeOK, Control, NEW w \in Workers, WorkerStep(w) \/ Die(w)
  PROVE  TypeOK' /\ Control'
<1>1. CallTypes' /\ CommandTypes' /\ FlagTypes' /\ FdTypes'
  BY WorkerFrame, TypeParts DEF CallTypes, CommandTypes, FlagTypes, FdTypes
<1>2. Control'
  BY WorkerFrame DEF Control, Mid, Replacing, Asking, Awaiting, Draining, Counting
<1> QED BY <1>1, <1>2, WorkerStepTypes, TypePartsNext

-----------------------------------------------------------------------------
(* The steps that open and close no descriptor keep Named; then the others, one by one. *)
QuietStep ==
  \/ ControlStep \/ AskStep \/ AnswerStep \/ Deadline \/ KillWorkers \/ Handler
  \/ \E w \in Workers : WorkerStep(w) \/ Die(w)

LEMMA NextCases ==
  ASSUME [Next]_vars
  PROVE  QuietStep \/ Fork \/ ForkFails \/ OpenRequests \/ OpenAnswers \/ CloseAll \/ UNCHANGED vars
BY DEF Next, jobExecutorStep, QuietStep, ControlStep, AskStep, AnswerStep, Handler

LEMMA ControlOutside ==
  ASSUME ControlStep, Control, TypeOK
  PROVE  jePc \notin Mid /\ jePc' \notin Mid
<1>0. back \notin Mid /\ Route(command) \notin Mid
  BY TypeParts DEF CallTypes, Mid, Route, CommandTypes, Commands
<1> USE DEF Mid
<1>1. CASE Top BY <1>1 DEF Top
<1>2. CASE ReadFails BY <1>2 DEF ReadFails
<1>3. CASE Dispatch BY <1>0, <1>3 DEF Dispatch
<1>4. CASE EndCommand BY <1>4 DEF EndCommand
<1>5. CASE ReplaceAll BY <1>0, <1>5 DEF ReplaceAll
<1>6. CASE Send BY <1>6 DEF Send
<1>7. CASE Collect BY <1>7 DEF Collect
<1>8. CASE Poll BY <1>8 DEF Poll
<1>9. CASE Take BY <1>9 DEF Take
<1>10. CASE Drain BY <1>10 DEF Drain
<1>11. CASE WordCount BY <1>11 DEF WordCount
<1>12. CASE Finish BY <1>12 DEF Finish
<1>13. CASE WaitForAll BY <1>13 DEF WaitForAll
<1>14. CASE \E c \in Commands : ReadCommand(c)
  <2> PICK c \in Commands : ReadCommand(c) BY <1>14
  <2>1. Route(c) \notin Mid
    BY DEF Route, Commands
  <2> QED BY <2>1 DEF ReadCommand
<1> QED
  BY <1>1, <1>2, <1>3, <1>4, <1>5, <1>6, <1>7, <1>8, <1>9, <1>10, <1>11, <1>12, <1>13, <1>14
     DEF ControlStep

LEMMA QuietFds ==
  ASSUME TypeOK, Control, QuietStep
  PROVE  /\ UNCHANGED <<Rfds, Afds, fds>>
         /\ \/ UNCHANGED <<jePc, i>>
            \/ jePc \notin Mid /\ jePc' \notin Mid
            \/ jePc = "dirs" /\ jePc' \notin Mid
            \/ jePc = "dirs" /\ jePc' = "openA" /\ i' = i
<1>1. CASE ControlStep BY <1>1, ControlFrame, ControlOutside
<1>2. CASE AskStep
  <2>1. jePc \in {"write", "dirs", "exit"}
    BY <1>2 DEF AskStep, Write, SendDirectories, SendExit
  <2> QED BY <1>2, <2>1, AskFrame, AskTypes DEF Mid
<1>3. CASE AnswerStep
  <2>1. jePc \notin Mid
    BY <1>3 DEF AnswerStep, TakeAnswer, DrainAnswer, WordCountAnswer, ExitAnswer, Mid
  <2> QED BY <1>3, <2>1, AnswerFrame, AnswerTypes
<1>4. CASE Deadline BY <1>4 DEF Deadline, fdVars, Mid
<1>5. CASE KillWorkers BY <1>5 DEF KillWorkers, fdVars, Mid
<1>6. CASE Handler
  BY <1>6, HandlerFrame DEF Mid
<1>7. CASE \E w \in Workers : WorkerStep(w) \/ Die(w)
  BY <1>7, WorkerFrame
<1> QED BY <1>1, <1>2, <1>3, <1>4, <1>5, <1>6, <1>7 DEF QuietStep

LEMMA QuietTypes ==
  ASSUME TypeOK, Control, QuietStep
  PROVE  TypeOK' /\ Control'
<1>1. CASE ControlStep
  <2>1. FdTypes' /\ WorkerTypes' /\ PipeTypes' /\ BoundTypes'
    BY <1>1, ControlFrame, TypeParts DEF FdTypes, WorkerTypes, PipeTypes, BoundTypes
  <2> QED BY <1>1, <2>1, ControlTypes, ControlMoves, TypePartsNext
<1>2. CASE AskStep
  <2>1. FdTypes' /\ WorkerTypes' /\ PipeTypes' /\ BoundTypes'
    BY <1>2, AskFrame, AskTypes, TypeParts DEF FdTypes, WorkerTypes, PipeTypes, BoundTypes
  <2> QED BY <1>2, <2>1, AskTypes, TypePartsNext
<1>3. CASE AnswerStep
  <2>1. /\ CommandTypes' /\ FlagTypes' /\ FdTypes' /\ WorkerTypes' /\ PipeTypes' /\ BoundTypes'
    BY <1>3, AnswerFrame, AnswerTypes, TypeParts
       DEF CommandTypes, FlagTypes, FdTypes, WorkerTypes, PipeTypes, BoundTypes
  <2> QED BY <1>3, <2>1, AnswerTypes, TypePartsNext
<1>4. CASE Deadline BY <1>4, DeadlineTypes
<1>5. CASE KillWorkers BY <1>5, KillWorkersTypes
<1>6. CASE Handler BY <1>6, HandlerTypes
<1>7. CASE \E w \in Workers : WorkerStep(w) \/ Die(w)
  BY <1>7, WorkerTypesNext
<1> QED BY <1>1, <1>2, <1>3, <1>4, <1>5, <1>6, <1>7 DEF QuietStep

LEMMA QuietNamed ==
  ASSUME Sound, QuietStep
  PROVE  Sound'
<1>1. TypeOK' /\ Control'
  BY QuietTypes DEF Sound
<1>2. Named'
  BY QuietFds DEF Sound, Named, New, Mid
<1> QED BY <1>1, <1>2 DEF Sound

LEMMA ForkNamed ==
  ASSUME Sound, Fork
  PROVE  Sound'
<1>1. /\ jePc = "fork" /\ jePc' = "openR" /\ i' = i /\ UNCHANGED <<Rfds, Afds>>
      /\ \A f \in Fds : fds'[f] = IF f \in {Rfds[i], Afds[i]} THEN Closed ELSE fds[f]
  BY CloseOldType DEF Sound, Fork
<1>2. Named'
  BY <1>1 DEF Sound, Named, New, Mid
<1> QED BY <1>2, ForkTypes DEF Sound

LEMMA ForkFailsNamed ==
  ASSUME Sound, ForkFails
  PROVE  Sound'
<1>1. /\ jePc = "fork" /\ jePc' \notin Mid
      /\ \A f \in Fds : fds'[f] = IF f \in {Rfds[i], Afds[i]} THEN Closed ELSE fds[f]
      /\ \A w \in Workers : w # i => Rfds'[w] = Rfds[w] /\ Afds'[w] = Afds[w]
  BY CloseOldType, ForkFailsTypes, TypeParts DEF Sound, ForkFails, ForgetNumbers, FdTypes
<1>2. Named'
  <2> SUFFICES ASSUME NEW f \in Fds, fds'[f] # Closed
               PROVE  \E w \in Workers : f = Rfds'[w] \/ f = Afds'[w]
    BY <1>1 DEF Named, New, Mid
  <2>1. fds[f] # Closed /\ f \notin {Rfds[i], Afds[i]}
    BY <1>1
  <2>2. PICK w \in Workers : f = Rfds[w] \/ f = Afds[w]
    BY <2>1 DEF Sound, Named
  <2> QED BY <1>1, <2>1, <2>2
<1> QED BY <1>2, ForkFailsTypes DEF Sound

LEMMA OpenRequestsNamed ==
  ASSUME Sound, OpenRequests
  PROVE  Sound'
<1>1. /\ jePc = "openR" /\ jePc' = "dirs" /\ i' = i /\ Afds' = Afds /\ i \in Workers
      /\ Rfds'[i] = LowestFree /\ \A w \in Workers : w # i => Rfds'[w] = Rfds[w]
      /\ \A f \in Fds : fds'[f] = IF f = LowestFree THEN R(i) ELSE fds[f]
  BY TypeParts DEF Sound, OpenRequests, FdTypes, CallTypes, Indexing
<1>2. Named'
  <2> SUFFICES ASSUME NEW f \in Fds, fds'[f] # Closed
               PROVE  \E w \in Workers : f = Rfds'[w] \/ (f = Afds'[w] /\ w # i)
    BY <1>1 DEF Named, New, Mid
  <2>1. CASE f = LowestFree
    BY <1>1, <2>1
  <2>2. CASE f # LowestFree
    <3>1. PICK w \in Workers : (f = Rfds[w] \/ f = Afds[w]) /\ w # i
      BY <1>1, <2>2 DEF Sound, Named, New, Mid
    <3> QED BY <1>1, <3>1
  <2> QED BY <2>1, <2>2
<1> QED BY <1>2, OpenRequestsTypes DEF Sound

LEMMA OpenAnswersNamed ==
  ASSUME Sound, OpenAnswers
  PROVE  Sound'
<1>1. /\ jePc = "openA" /\ jePc' \notin Mid /\ Rfds' = Rfds /\ i \in Workers
      /\ Afds'[i] = LowestFree /\ \A w \in Workers : w # i => Afds'[w] = Afds[w]
      /\ \A f \in Fds : fds'[f] = IF f = LowestFree THEN A(i) ELSE fds[f]
  BY OpenAnswersTypes, TypeParts DEF Sound, OpenAnswers, FdTypes, CallTypes, Indexing
<1>2. Named'
  <2> SUFFICES ASSUME NEW f \in Fds, fds'[f] # Closed
               PROVE  \E w \in Workers : f = Rfds'[w] \/ f = Afds'[w]
    BY <1>1 DEF Named, New, Mid
  <2>1. CASE f = LowestFree
    BY <1>1, <2>1
  <2>2. CASE f # LowestFree
    <3>1. PICK w \in Workers : f = Rfds[w] \/ (f = Afds[w] /\ w # i)
      BY <1>1, <2>2 DEF Sound, Named, New, Mid
    <3> QED BY <1>1, <3>1
  <2> QED BY <2>1, <2>2
<1> QED BY <1>2, OpenAnswersTypes DEF Sound

LEMMA CloseAllNamed ==
  ASSUME Sound, CloseAll
  PROVE  Sound'
<1>1. /\ jePc' \notin Mid /\ UNCHANGED <<Rfds, Afds>>
      /\ \A f \in Fds : fds'[f] \in {Closed, fds[f]}
  BY CloseAllTypes DEF Sound, CloseAll
<1>2. Named'
  BY <1>1 DEF Sound, Named, New, Mid
<1> QED BY <1>2, CloseAllTypes DEF Sound

(* The initial state and every step: Sound is inductive. *)
LEMMA SoundInit ==
  ASSUME Init
  PROVE  Sound
<1>N. numWorkers \in Nat \ {0} /\ MaxDeaths \in Nat /\ MaxStartFailures \in Nat
  BY JobExecutorAssumption
<1>1. CallTypes /\ CommandTypes /\ FlagTypes /\ BoundTypes /\ PipeTypes
  <2>1. CallTypes
    BY <1>N DEF Init, CallTypes, JePcs, Indexing
  <2>2. CommandTypes /\ FlagTypes
    BY DEF Init, CommandTypes, FlagTypes, Commands
  <2>3. BoundTypes
    BY <1>N DEF Init, BoundTypes
  <2>4. PipeTypes
    <3>1. <<>> \in Seq(RequestSet) /\ <<>> \in Seq(AnswerSet)
      OBVIOUS
    <3>2. requests = [w \in Workers |-> <<>>] /\ answers = [w \in Workers |-> <<>>]
      BY DEF Init
    <3> QED BY <3>1, <3>2 DEF PipeTypes, RequestQueues, AnswerQueues
  <2> QED BY <2>1, <2>2, <2>3, <2>4
<1>2. WorkerTypes
  BY DEF Init, WorkerTypes, WorkerPcs
<1>3. FdTypes
  <2>1. /\ \A w \in Workers : w \in Fds /\ numWorkers + w \in Fds
        /\ \A f \in Fds : /\ f < numWorkers => f \in Workers
                          /\ f \in numWorkers..(2 * numWorkers - 1) => f - numWorkers \in Workers
    BY <1>N DEF Fds, Workers
  <2>2. \A f \in Fds : fds[f] \in Ends \cup {Closed}
    BY <2>1 DEF Init, Ends
  <2>3. fds \in [Fds -> Ends \cup {Closed}]
    BY <2>2 DEF Init
  <2> QED BY <2>1, <2>3 DEF Init, FdTypes
<1>4. Control
  BY DEF Init, Control, Mid, Replacing, Asking, Awaiting, Draining, Counting
<1>5. Named
  <2> SUFFICES ASSUME NEW f \in Fds, fds[f] # Closed
               PROVE  \E w \in Workers : f = Rfds[w] \/ f = Afds[w]
    BY DEF Init, Named, New, Mid
  <2>1. f < numWorkers \/ f \in numWorkers..(2 * numWorkers - 1)
    BY DEF Init
  <2>2. CASE f < numWorkers
    BY <1>N, <2>2 DEF Init, Fds, Workers
  <2>3. CASE f \in numWorkers..(2 * numWorkers - 1)
    <3>1. f - numWorkers \in Workers /\ f = numWorkers + (f - numWorkers)
      BY <1>N, <2>3 DEF Workers, Fds
    <3> QED BY <3>1 DEF Init
  <2> QED BY <2>1, <2>2, <2>3
<1> QED BY <1>1, <1>2, <1>3, <1>4, <1>5, TypeParts DEF Sound

LEMMA SoundNext ==
  ASSUME Sound, [Next]_vars
  PROVE  Sound'
<1>1. CASE UNCHANGED vars
  <2>1. /\ UNCHANGED <<callVars, commandVars, deadVars, jobExecutor_must_terminate, fdVars>>
        /\ UNCHANGED <<zombies, workerVars, pipeVars, boundVars>>
    BY <1>1 DEF vars
  <2>2. CallTypes' /\ CommandTypes' /\ FlagTypes' /\ FdTypes'
    BY <2>1, TypeParts DEF Sound, CallTypes, CommandTypes, FlagTypes, FdTypes, callVars,
       commandVars, deadVars, fdVars
  <2>3. WorkerTypes' /\ PipeTypes' /\ BoundTypes'
    BY <2>1, TypeParts DEF Sound, WorkerTypes, PipeTypes, BoundTypes, workerVars, pipeVars,
       boundVars
  <2>4. Control' /\ Named'
    BY <2>1 DEF Sound, Control, Named, New, Mid, Replacing, Asking, Awaiting, Draining, Counting,
       callVars, commandVars, fdVars
  <2> QED BY <2>2, <2>3, <2>4, TypePartsNext DEF Sound
<1> QED
  BY <1>1, NextCases, QuietNamed, ForkNamed, ForkFailsNamed, OpenRequestsNamed, OpenAnswersNamed,
     CloseAllNamed

(* Types, the place of jobExecutor and the numbers in use fit together in every state. *)
LEMMA SoundAlways == Spec => []Sound
<1>1. Init => Sound
  BY SoundInit
<1>2. Sound /\ [Next]_vars => Sound'
  BY SoundNext
<1> QED BY <1>1, <1>2, PTL DEF Spec

(* Every variable holds a value of its kind; in particular i is in the range of the       *)
(* workers' tables wherever jobExecutor uses it as an index, also when it comes back from *)
(* replace_worker into the loop that called it (jobExecutor.cpp:357-365), and an open in  *)
(* replace_worker (962-1005) finds a free descriptor.                                     *)
THEOREM Types == Spec => []TypeOK
<1>1. Sound => TypeOK
  BY DEF Sound
<1> QED BY <1>1, SoundAlways, PTL

-----------------------------------------------------------------------------
(***************************************************************************)
(* Second part, deaths.  Two theorems that hold whoever dies: no death is  *)
(* forgotten, and, as long as there are at most two, no descriptor number  *)
(* in the tables has become that of another worker's pipe.                 *)
(*                                                                         *)
(* For the first it is enough to follow the flags.  The second needs the   *)
(* deaths counted: a replacement that dies while it is sent its            *)
(* directories leaves the number of its predecessor's answer pipe behind,  *)
(* which the next open may hand out again.  That takes a death before it   *)
(* (DeathsCounted), so that with two it is the only worker with such       *)
(* numbers (Numbers).                                                      *)
(***************************************************************************)

(* jobExecutor is past the loop of main (jobExecutor.cpp:717-776). *)
Ending == {"exit", "exitReading", "close", "wait", "exited"}

(* A process that has not opened its pipes is the one replace_worker waits for. *)
Fresh ==
  \A w \in Workers :
    /\ workerPc[w] = "start" => jePc = "openR" /\ i = w
    /\ workerPc[w] \in {"dirs", "openA"} => jePc \in {"dirs", "openA"} /\ i = w

(* Before the shutdown nobody is told to exit or to terminate: a worker that ends then has *)
(* died.                                                                                   *)
Ordinary == [kind : Kinds \ {"exit"}, n : Nat]
NoExit ==
  jePc \notin Ending =>
    /\ requests \in [Workers -> Seq(Ordinary)]
    /\ \A w \in Workers : ~worker_must_terminate[w]

(* Each dead worker stands for a death; one being replaced for a death before, and one that *)
(* dies again while its replacement is sent directories for two.                            *)
DeathsCounted ==
  jePc \notin Ending =>
    /\ \A w \in Workers : ~Alive(w) => deaths >= 1
    /\ \A u, w \in Workers : u # w /\ ~Alive(u) /\ ~Alive(w) => deaths >= 2
    /\ jePc \in Mid => deaths >= 1 /\ \A w \in Workers : w # i /\ ~Alive(w) => deaths >= 2
    /\ jePc \in {"dirs", "openA"} /\ ~Alive(i) =>
         deaths >= 2 /\ \A w \in Workers : w # i /\ ~Alive(w) => deaths >= 3

-----------------------------------------------------------------------------
(* A flag is taken back only on the way into replace_worker, for the worker that is *)
(* replaced.                                                                        *)
LEMMA ControlFlags ==
  ASSUME TypeOK, Control, ControlStep
  PROVE  /\ jePc \in Ending => jePc' \in Ending
         /\ jePc \notin Ending /\ jePc' \in Ending => jePc = "finish" /\ jePc' = "exit"
         /\ jePc # "fork"
         /\ \/ jePc' # "fork" /\ UNCHANGED worker_is_dead
            \/ /\ jePc' = "fork" /\ i' = i /\ i \in Workers
               /\ worker_is_dead[i] /\ worker_is_dead' = [worker_is_dead EXCEPT ![i] = FALSE]
<1>0. back \notin Ending \cup {"fork"} /\ Route(command) \notin Ending \cup {"fork"}
  BY TypeParts DEF CallTypes, Ending, Route, CommandTypes, Commands
<1> USE DEF Ending, deadVars
<1>1. CASE Top BY <1>1 DEF Top
<1>2. CASE ReadFails BY <1>2 DEF ReadFails
<1>3. CASE Dispatch BY <1>0, <1>3 DEF Dispatch
<1>4. CASE EndCommand BY <1>4 DEF EndCommand
<1>5. CASE ReplaceAll
  <2>1. i # numWorkers => i \in Workers
    BY TypeParts, JobExecutorAssumption DEF CallTypes, Workers
  <2> QED BY <1>0, <1>5, <2>1 DEF ReplaceAll, Unflagged
<1>6. CASE Send
  <2>1. i < numWorkers => i \in Workers
    BY TypeParts, JobExecutorAssumption DEF CallTypes, Workers
  <2> QED BY <1>6, <2>1 DEF Send, Unflagged
<1>7. CASE Collect BY <1>7 DEF Collect
<1>8. CASE Poll BY <1>8 DEF Poll
<1>9. CASE Take BY <1>9 DEF Take
<1>10. CASE Drain BY <1>10 DEF Drain
<1>11. CASE WordCount BY <1>11 DEF WordCount
<1>12. CASE Finish BY <1>12 DEF Finish
<1>13. CASE WaitForAll BY <1>13 DEF WaitForAll
<1>14. CASE \E c \in Commands : ReadCommand(c)
  <2> PICK c \in Commands : ReadCommand(c) BY <1>14
  <2>1. Route(c) \notin Ending \cup {"fork"}
    BY DEF Route, Commands
  <2> QED BY <2>1 DEF ReadCommand
<1> QED
  BY <1>1, <1>2, <1>3, <1>4, <1>5, <1>6, <1>7, <1>8, <1>9, <1>10, <1>11, <1>12, <1>13, <1>14
     DEF ControlStep

(* What a step of a worker does to its place, its inherited ends and zombies. *)
LEMMA WorkerMoves ==
  ASSUME TypeOK, NEW w \in Workers, WorkerStep(w) \/ Die(w)
  PROVE  \/ /\ Alive(w) /\ workerPc' = [workerPc EXCEPT ![w] = "dead"]
            /\ inherited' = [inherited EXCEPT ![w] = {}]
            /\ zombies' = (IF Ignoring THEN zombies ELSE zombies \cup {w})
            /\ \/ deaths' = deaths + 1
               \/ /\ deaths' = deaths
                  /\ \/ workerPc[w] = "start" \/ worker_must_terminate[w]
                     \/ requests[w] # <<>> /\ Head(requests[w]).kind = "exit"
         \/ /\ UNCHANGED <<inherited, zombies, deaths>>
            /\ \E pc \in WorkerPcs :
                 /\ workerPc' = [workerPc EXCEPT ![w] = pc]
                 /\ \/ workerPc[w] = "dirs" /\ pc \in {"openA", "garbled"}
                    \/ workerPc[w] \in Serving /\ pc \in Serving
<1> USE DEF Alive
<1>0. /\ UNCHANGED jobExecutorUnchanged => UNCHANGED deaths
      /\ UNCHANGED boundVars => UNCHANGED deaths
  BY DEF jobExecutorUnchanged, boundVars
<1>G. ASSUME NEW q, NEW a, Gone(w, q, a)
      PROVE  /\ workerPc' = [workerPc EXCEPT ![w] = "dead"]
             /\ inherited' = [inherited EXCEPT ![w] = {}]
             /\ zombies' = (IF Ignoring THEN zombies ELSE zombies \cup {w})
  BY <1>G DEF Gone
<1>1. CASE ReadDirectories(w)
  BY <1>0, <1>1 DEF ReadDirectories, WorkerPcs
<1>2. CASE AnswerRequest(w)
  <2>1. workerPc[w] = "loop" /\ requests[w] # <<>>
    BY <1>2 DEF AnswerRequest
  <2>2. PICK q, a : Continues(w, q, a) \/ (Ended(w, q, a) /\ Head(requests[w]).kind = "exit")
    BY <1>2 DEF AnswerRequest
  <2>3. CASE Ended(w, q, a) /\ Head(requests[w]).kind = "exit"
    BY <1>0, <1>G, <2>1, <2>3 DEF Ended
  <2>4. CASE Continues(w, q, a)
    BY <1>0, <1>G, <2>1, <2>4, ContinuesCases DEF Serving, WorkerPcs
  <2> QED BY <2>2, <2>3, <2>4
<1>3. CASE StartSearch(w)
  <2>1. CASE worker_must_terminate[w]
    BY <1>0, <1>3, <2>1, <1>G DEF StartSearch, Ended
  <2>2. CASE ~worker_must_terminate[w]
    BY <1>0, <1>3, <2>2 DEF StartSearch, Serving, WorkerPcs
  <2> QED BY <2>1, <2>2
<1>4. CASE FindLine(w) BY <1>0, <1>4 DEF FindLine, Serving, WorkerPcs
<1>5. CASE EndSearch(w)
  <2>1. PICK q, a : Continues(w, q, a)
    BY <1>5 DEF EndSearch
  <2>2. workerPc[w] \in {"search", "searched"}
    BY <1>5 DEF EndSearch
  <2> QED BY <1>0, <1>G, <2>1, <2>2, ContinuesCases DEF Serving, WorkerPcs
<1>6. CASE EndOfRequests(w) BY <1>0, <1>6, <1>G DEF EndOfRequests, Ended
<1>7. CASE NoExecutable(w) BY <1>7, <1>G DEF NoExecutable
<1>8. CASE Die(w) BY <1>8, <1>G DEF Die
<1> QED BY <1>1, <1>2, <1>3, <1>4, <1>5, <1>6, <1>7, <1>8 DEF WorkerStep

(* jobExecutor's steps that leave the workers and the descriptors as they are. *)
JeStep == ControlStep \/ AskStep \/ AnswerStep \/ Deadline \/ Handler

LEMMA JeFrame ==
  ASSUME TypeOK, Control, JeStep
  PROVE  /\ UNCHANGED <<workerPc, asked, worker_must_terminate, inherited, deaths, Rfds, Afds, fds>>
         /\ jePc \in Ending => jePc' \in Ending
         /\ jePc \notin Ending /\ jePc' \in Ending => jePc = "finish" /\ jePc' = "exit"
         /\ \/ UNCHANGED <<jePc, i>>
            \/ jePc \notin Mid /\ jePc' \notin Mid
            \/ jePc = "dirs" /\ jePc' = "openA" /\ i' = i
            \/ jePc = "dirs" /\ jePc' \in {"write", "replace"} /\ ~HasReader(i)
<1>1. CASE ControlStep
  BY <1>1, ControlFrame, ControlOutside, ControlFlags
<1>2. CASE AskStep
  <2>1. \/ jePc = "write" /\ jePc' = "send"
        \/ jePc = "exit" /\ jePc' \in {"close", "exitReading"}
        \/ jePc = "dirs" /\ jePc' = "openA" /\ i' = i
        \/ jePc = "dirs" /\ jePc' \in {"write", "replace"} /\ ~HasReader(i)
    BY <1>2 DEF AskStep, Write, SendDirectories, SendExit, Return
  <2> QED BY <1>2, <2>1, AskFrame DEF Mid, Ending
<1>3. CASE AnswerStep
  <2>1. \/ jePc = "reading" /\ jePc' \in {"reading", "take"}
        \/ jePc = "draining" /\ jePc' \in {"draining", "drain"}
        \/ jePc = "wcReading" /\ jePc' \in {"wcReading", "wc"}
        \/ jePc = "exitReading" /\ jePc' \in {"exitReading", "exit"}
    BY <1>3, ReadAnswerType DEF AnswerStep, TakeAnswer, DrainAnswer, WordCountAnswer, ExitAnswer
  <2> QED BY <1>3, <2>1, AnswerFrame DEF Mid, Ending
<1>4. CASE Deadline
  BY <1>4 DEF Deadline, boundVars, fdVars, Mid, Ending
<1>5. CASE Handler
  BY <1>5, HandlerFrame DEF Mid, Ending
<1> QED BY <1>1, <1>2, <1>3, <1>4, <1>5 DEF JeStep

LEMMA StepCases ==
  ASSUME [Next]_vars
  PROVE  \/ JeStep \/ KillWorkers \/ CloseAll \/ Fork \/ ForkFails \/ OpenRequests \/ OpenAnswers
         \/ \E w \in Workers : WorkerStep(w) \/ Die(w)
         \/ UNCHANGED vars
BY NextCases DEF QuietStep, JeStep

(* A stuttering step, variable by variable. *)
LEMMA VarsFrame ==
  ASSUME UNCHANGED vars
  PROVE  /\ UNCHANGED <<jePc, i, back, command, n, responded, ready>>
         /\ UNCHANGED <<worker_is_dead, a_worker_died, jobExecutor_must_terminate, Rfds, Afds, fds>>
         /\ UNCHANGED <<zombies, workerPc, asked, search_canceled, worker_must_terminate>>
         /\ UNCHANGED <<inherited, requests, answers, deaths, startFailures>>
BY DEF vars, callVars, commandVars, deadVars, fdVars, workerVars, pipeVars, boundVars

(* Only Fork starts a process, and jobExecutor waits where that process is. *)
LEMMA FreshNext ==
  ASSUME Sound, Fresh, [Next]_vars
  PROVE  Fresh'
<1>0. /\ i \in 0..numWorkers /\ workerPc \in [Workers -> WorkerPcs]
      /\ jePc \in Mid \cup {"fork"} => i \in Workers
  BY TypeParts DEF Sound, CallTypes, WorkerTypes, Indexing, Mid
<1>1. CASE JeStep
  <2>1. workerPc' = workerPc
    BY <1>1, JeFrame DEF Sound
  <2>2. CASE jePc = "dirs" /\ jePc' \in {"write", "replace"} /\ ~HasReader(i)
    BY <2>1, <2>2 DEF Fresh, HasReader, Reading
  <2>3. CASE jePc \notin Mid /\ jePc' \notin Mid
    BY <2>1, <2>3 DEF Fresh, Mid
  <2>4. CASE UNCHANGED <<jePc, i>>
    BY <2>1, <2>4 DEF Fresh
  <2>5. CASE jePc = "dirs" /\ jePc' = "openA" /\ i' = i
    BY <2>1, <2>5 DEF Fresh
  <2> QED BY <1>1, <2>2, <2>3, <2>4, <2>5, JeFrame DEF Sound
<1>2. CASE KillWorkers
  <2>1. jePc = "kill" /\ \A w \in Workers : workerPc'[w] \in {workerPc[w], "dead"}
    BY <1>2 DEF KillWorkers
  <2> QED BY <2>1 DEF Fresh
<1>3. CASE CloseAll
  BY <1>3 DEF CloseAll, elsewhere, workerVars, Fresh
<1>4. CASE Fork
  BY <1>0, <1>4 DEF Fork, Fresh
<1>5. CASE ForkFails
  BY <1>5 DEF ForkFails, workerVars, Fresh
<1>6. CASE OpenRequests
  BY <1>0, <1>6 DEF OpenRequests, Fresh
<1>7. CASE OpenAnswers
  <2>1. jePc = "openA" /\ workerPc' = [workerPc EXCEPT ![i] = "loop"]
    BY <1>7 DEF OpenAnswers
  <2> QED BY <1>0, <2>1 DEF Fresh
<1>8. CASE \E w \in Workers : WorkerStep(w) \/ Die(w)
  <2> PICK w \in Workers : WorkerStep(w) \/ Die(w) BY <1>8
  <2>1. UNCHANGED <<jePc, i>>
    BY WorkerFrame
  <2>2. \E pc \in WorkerPcs : /\ workerPc' = [workerPc EXCEPT ![w] = pc]
                               /\ \/ pc \in {"dead", "garbled"} \cup Serving
                                  \/ workerPc[w] = "dirs" /\ pc = "openA"
    BY WorkerMoves DEF Sound, WorkerPcs
  <2> QED BY <1>0, <2>1, <2>2 DEF Fresh, Serving
<1>9. CASE UNCHANGED vars
  BY <1>9, VarsFrame DEF Fresh
<1> QED BY <1>1, <1>2, <1>3, <1>4, <1>5, <1>6, <1>7, <1>8, <1>9, StepCases

-----------------------------------------------------------------------------
(* What is in the request pipes comes from Request and SendDirectories. *)
LEMMA PipesKeep ==
  ASSUME NEW S, NEW q \in [Workers -> Seq(S)], NEW a, Pipes(q, a)
  PROVE  requests' \in [Workers -> Seq(S)]
<1> DEFINE K(w) == Held(R(w))' \/ HasReader(w)'
<1>1. requests' = [w \in Workers |-> IF K(w) THEN q[w] ELSE <<>>]
  BY DEF Pipes
<1>2. <<>> \in Seq(S)
  OBVIOUS
<1> HIDE DEF K
<1> QED BY <1>1, <1>2

LEMMA RequestKeeps ==
  ASSUME NEW S, requests \in [Workers -> Seq(S)],
         NEW kind, [kind |-> kind, n |-> n] \in S, Request(kind)
  PROVE  requests' \in [Workers -> Seq(S)]
<1> DEFINE e == End(Rfds[i])
           m == [kind |-> kind, n |-> n]
<1>1. CASE e \in {R(w) : w \in Workers} /\ HasReader(e[2])
  <2>1. e[2] \in Workers
    BY <1>1, WorkerOfEnd
  <2>2. requests' = [requests EXCEPT ![e[2]] = Append(@, m)]
    BY <1>1 DEF Request
  <2> HIDE DEF e, m
  <2>3. m \in S
    BY DEF m
  <2> QED BY <2>1, <2>2, <2>3, AppendType
<1>2. CASE ~(e \in {R(w) : w \in Workers} /\ HasReader(e[2]))
  BY <1>2 DEF Request
<1> QED BY <1>1, <1>2

LEMMA WorkerReads ==
  ASSUME NEW w \in Workers, WorkerStep(w) \/ Die(w)
  PROVE  \E q : /\ q = requests \/ (requests[w] # <<>> /\ q = [requests EXCEPT ![w] = Tail(@)])
                /\ requests' = q \/ \E a : Pipes(q, a)
<1>1. CASE ReadDirectories(w) BY <1>1 DEF ReadDirectories
<1>2. CASE AnswerRequest(w)
  <2> DEFINE q == [requests EXCEPT ![w] = Tail(@)]
  <2>1. requests[w] # <<>> /\ \E a : Continues(w, q, a) \/ Ended(w, q, a)
    BY <1>2 DEF AnswerRequest
  <2> HIDE DEF q
  <2>2. requests' = q \/ \E a : Pipes(q, a)
    BY <2>1, ContinuesCases DEF Ended, Gone
  <2> QED BY <2>1, <2>2 DEF q
<1>3. CASE StartSearch(w)
  <2> DEFINE q == [requests EXCEPT ![w] = Tail(@)]
  <2>1. requests[w] # <<>> /\ (requests' = q \/ Ended(w, q, answers))
    BY <1>3 DEF StartSearch
  <2> HIDE DEF q
  <2>2. requests' = q \/ \E a : Pipes(q, a)
    BY <2>1 DEF Ended, Gone
  <2> QED BY <2>1, <2>2 DEF q
<1>4. CASE FindLine(w) BY <1>4 DEF FindLine
<1>5. CASE EndSearch(w)
  <2>1. PICK a : Continues(w, requests, a)
    BY <1>5 DEF EndSearch
  <2> QED BY <2>1, ContinuesCases DEF Gone
<1>6. CASE EndOfRequests(w) BY <1>6 DEF EndOfRequests, Ended, Gone
<1>7. CASE NoExecutable(w) BY <1>7 DEF NoExecutable, Gone
<1>8. CASE Die(w) BY <1>8 DEF Die, Gone
<1> QED BY <1>1, <1>2, <1>3, <1>4, <1>5, <1>6, <1>7, <1>8 DEF WorkerStep

(* EXIT is written, and SIGTERM sent, only past the loop. *)
LEMMA NoExitNext ==
  ASSUME Sound, NoExit, [Next]_vars
  PROVE  NoExit'
<1> SUFFICES ASSUME jePc' \notin Ending
             PROVE  /\ requests' \in [Workers -> Seq(Ordinary)]
                    /\ \A w \in Workers : ~worker_must_terminate'[w]
  BY DEF NoExit
<1>0. /\ n \in Nat /\ worker_must_terminate \in [Workers -> BOOLEAN]
      /\ jePc = "fork" \/ jePc = "dirs" => i \in Workers
  BY TypeParts DEF Sound, CommandTypes, WorkerTypes, CallTypes, Indexing
<1>1. ASSUME jePc \notin Ending
      PROVE  requests \in [Workers -> Seq(Ordinary)] /\ \A w \in Workers : ~worker_must_terminate[w]
  BY <1>1 DEF NoExit
<1>2. CASE JeStep
  <2>1. jePc \notin Ending /\ worker_must_terminate' = worker_must_terminate
    BY <1>2, JeFrame DEF Sound
  <2>2. requests' = requests \/ AskStep
    BY <1>2, ControlFrame, AnswerFrame, HandlerFrame DEF JeStep, Deadline, pipeVars
  <2>3. CASE Write
    <3>1. command \in {"search", "count", "wc"}
      BY <2>3 DEF Write, Sound, Control, Asking
    <3>2. [kind |-> command, n |-> n] \in Ordinary
      BY <1>0, <3>1 DEF Ordinary, Kinds
    <3>3. Request(command)
      BY <2>3 DEF Write
    <3>4. requests' \in [Workers -> Seq(Ordinary)]
      BY <1>1, <2>1, <3>2, <3>3, RequestKeeps
    <3> QED BY <1>1, <2>1, <3>4
  <2>4. CASE SendDirectories
    <3> DEFINE m == [kind |-> "dirs", n |-> n]
    <3>1. m \in Ordinary
      BY <1>0 DEF Ordinary, Kinds
    <3>2. requests' \in {requests, [requests EXCEPT ![i] = Append(@, m)]} /\ jePc = "dirs"
      BY <2>4 DEF SendDirectories
    <3> HIDE DEF m
    <3>3. [requests EXCEPT ![i] = Append(@, m)] \in [Workers -> Seq(Ordinary)]
      BY <1>0, <1>1, <2>1, <3>1, <3>2, AppendType
    <3> QED BY <1>1, <2>1, <3>2, <3>3
  <2>5. CASE SendExit
    BY <2>1, <2>5 DEF SendExit, Ending
  <2>6. CASE requests' = requests
    BY <1>1, <2>1, <2>6
  <2> QED BY <2>2, <2>3, <2>4, <2>5, <2>6 DEF AskStep
<1>3. CASE KillWorkers \/ CloseAll
  BY <1>3 DEF KillWorkers, CloseAll, Ending
<1>4. CASE Fork \/ ForkFails
  <2>1. jePc \notin Ending /\ jePc = "fork" /\ EmptyAnswers
    BY <1>4 DEF Fork, ForkFails, Ending
  <2>2. PICK a : Pipes(requests, a)
    BY <2>1, EmptyAnswersPipes DEF Sound
  <2>3. requests' \in [Workers -> Seq(Ordinary)]
    BY <1>1, <2>1, <2>2, PipesKeep
  <2>4. \/ worker_must_terminate' = worker_must_terminate
        \/ worker_must_terminate' = [worker_must_terminate EXCEPT ![i] = FALSE]
    BY <1>4 DEF Fork, ForkFails, workerVars
  <2> QED BY <1>0, <1>1, <2>1, <2>3, <2>4
<1>5. CASE OpenRequests \/ OpenAnswers
  BY <1>1, <1>5 DEF OpenRequests, OpenAnswers, pipeVars, Ending
<1>6. CASE \E w \in Workers : WorkerStep(w) \/ Die(w)
  <2> PICK w \in Workers : WorkerStep(w) \/ Die(w) BY <1>6
  <2>1. jePc \notin Ending /\ worker_must_terminate' = worker_must_terminate
    BY WorkerFrame
  <2>2. PICK q : /\ q = requests \/ (requests[w] # <<>> /\ q = [requests EXCEPT ![w] = Tail(@)])
                 /\ requests' = q \/ \E a : Pipes(q, a)
    BY WorkerReads
  <2>3. q \in [Workers -> Seq(Ordinary)]
    <3>1. requests \in [Workers -> Seq(Ordinary)]
      BY <1>1, <2>1
    <3>2. requests[w] # <<>> => [requests EXCEPT ![w] = Tail(@)] \in [Workers -> Seq(Ordinary)]
      BY <3>1, TailType
    <3> QED BY <2>2, <3>1, <3>2
  <2>4. requests' \in [Workers -> Seq(Ordinary)]
    BY <2>2, <2>3, PipesKeep
  <2> QED BY <1>1, <2>1, <2>4
<1>7. CASE UNCHANGED vars
  BY <1>1, <1>7, VarsFrame
<1> QED BY <1>2, <1>3, <1>4, <1>5, <1>6, <1>7, StepCases
-----------------------------------------------------------------------------
(* A worker that ends before the shutdown has died, but for a replacement without an *)
(* executable.                                                                       *)
LEMMA WorkerDeath ==
  ASSUME Sound, Fresh, NoExit, jePc \notin Ending,
         NEW w \in Workers, WorkerStep(w) \/ Die(w)
  PROVE  /\ UNCHANGED <<jePc, i>> /\ deaths' \in {deaths, deaths + 1}
         /\ \A v \in Workers : v # w => workerPc'[v] = workerPc[v]
         /\ \/ /\ Alive(w) /\ ~Alive(w)'
               /\ deaths' = deaths + 1 \/ (jePc = "openR" /\ i = w)
            \/ Alive(w)' /\ deaths' = deaths
         /\ ~Alive(w) => ~Alive(w)'
<1>0. /\ UNCHANGED <<jePc, i>> /\ workerPc \in [Workers -> WorkerPcs] /\ deaths \in Nat
      /\ requests[w] # <<>> => Head(requests[w]).kind # "exit"
      /\ ~worker_must_terminate[w]
  <2>1. requests \in [Workers -> Seq(Ordinary)] /\ ~worker_must_terminate[w]
    BY DEF NoExit
  <2>2. requests[w] # <<>> => Head(requests[w]) \in Ordinary
    BY <2>1, HeadTailProperties
  <2>3. requests[w] # <<>> => Head(requests[w]).kind # "exit"
    BY <2>2 DEF Ordinary
  <2> QED
    BY <2>1, <2>3, WorkerFrame, TypeParts, JobExecutorAssumption DEF Sound, WorkerTypes, BoundTypes
<1>1. workerPc[w] = "start" => jePc = "openR" /\ i = w
  BY DEF Fresh
<1>2. CASE \E pc \in WorkerPcs :
             /\ workerPc' = [workerPc EXCEPT ![w] = pc]
             /\ \/ workerPc[w] = "dirs" /\ pc \in {"openA", "garbled"}
                \/ workerPc[w] \in Serving /\ pc \in Serving
             /\ deaths' = deaths
  BY <1>0, <1>2 DEF Alive, Serving
<1>3. CASE /\ Alive(w) /\ workerPc' = [workerPc EXCEPT ![w] = "dead"]
           /\ deaths' = deaths + 1 \/ (deaths' = deaths /\ workerPc[w] = "start")
  BY <1>0, <1>1, <1>3 DEF Alive
<1> QED BY <1>0, <1>2, <1>3, WorkerMoves DEF Sound

(* The count holds: a death raises it, and Fork starts from one. *)
LEMMA DeathsNext ==
  ASSUME Sound, Fresh, NoExit, DeathsCounted, [Next]_vars
  PROVE  DeathsCounted'
<1>0. /\ i \in 0..numWorkers /\ workerPc \in [Workers -> WorkerPcs] /\ deaths \in Nat
      /\ jePc \in Mid \cup {"fork"} => i \in Workers
  BY TypeParts, JobExecutorAssumption DEF Sound, CallTypes, WorkerTypes, BoundTypes, Indexing, Mid
<1>1. CASE JeStep
  <2>1. UNCHANGED <<workerPc, deaths>> /\ (jePc \in Ending => jePc' \in Ending)
    BY <1>1, JeFrame DEF Sound
  <2> SUFFICES ASSUME jePc \notin Ending
               PROVE  DeathsCounted'
    BY <2>1 DEF DeathsCounted
  <2>2. CASE jePc = "dirs" /\ jePc' \in {"write", "replace"} /\ ~HasReader(i)
    BY <1>0, <2>1, <2>2 DEF DeathsCounted, Alive, Mid
  <2>3. CASE jePc \notin Mid /\ jePc' \notin Mid
    BY <1>0, <2>1, <2>3 DEF DeathsCounted, Alive, Mid
  <2>4. CASE UNCHANGED <<jePc, i>>
    BY <2>1, <2>4 DEF DeathsCounted, Alive
  <2>5. CASE jePc = "dirs" /\ jePc' = "openA" /\ i' = i
    BY <2>1, <2>5 DEF DeathsCounted, Alive, Mid
  <2> QED BY <1>1, <2>2, <2>3, <2>4, <2>5, JeFrame DEF Sound
<1>2. CASE KillWorkers \/ CloseAll
  BY <1>2 DEF KillWorkers, CloseAll, DeathsCounted, Ending
<1>3. CASE Fork
  <2>1. /\ jePc = "fork" /\ ~Alive(i) /\ jePc' = "openR" /\ i' = i /\ deaths' = deaths
        /\ workerPc' = [workerPc EXCEPT ![i] = "start"]
    BY <1>3 DEF Fork, boundVars
  <2> QED BY <1>0, <2>1 DEF DeathsCounted, Alive, Ending, Mid
<1>4. CASE ForkFails
  <2>1. jePc = "fork" /\ jePc' \notin Mid /\ UNCHANGED <<workerPc, deaths>>
    BY <1>4, ForkFailsTypes DEF Sound, ForkFails, workerVars
  <2> QED BY <1>0, <2>1 DEF DeathsCounted, Alive, Ending, Mid
<1>5. CASE OpenRequests
  <2>1. /\ jePc = "openR" /\ workerPc[i] = "start" /\ jePc' = "dirs" /\ i' = i /\ deaths' = deaths
        /\ workerPc' = [workerPc EXCEPT ![i] = "dirs"]
    BY <1>5 DEF OpenRequests, boundVars
  <2> QED BY <1>0, <2>1 DEF DeathsCounted, Alive, Ending, Mid
<1>6. CASE OpenAnswers
  <2>1. /\ jePc = "openA" /\ workerPc[i] = "openA" /\ jePc' \notin Mid /\ deaths' = deaths
        /\ workerPc' = [workerPc EXCEPT ![i] = "loop"]
    BY <1>6, OpenAnswersTypes DEF Sound, OpenAnswers, boundVars
  <2> QED BY <1>0, <2>1 DEF DeathsCounted, Alive, Ending, Mid
<1>7. CASE \E w \in Workers : WorkerStep(w) \/ Die(w)
  <2> PICK w \in Workers : WorkerStep(w) \/ Die(w) BY <1>7
  <2>1. UNCHANGED <<jePc, i>>
    BY WorkerFrame
  <2> SUFFICES ASSUME jePc \notin Ending
               PROVE  DeathsCounted'
    BY <2>1 DEF DeathsCounted
  <2>2. \A v \in Workers : v # w => (Alive(v)' <=> Alive(v))
    BY WorkerDeath DEF Alive
  <2>3. CASE Alive(w) /\ ~Alive(w)' /\ deaths' = deaths + 1
    BY <1>0, <2>1, <2>2, <2>3 DEF DeathsCounted, Mid
  <2>4. CASE Alive(w) /\ ~Alive(w)' /\ jePc = "openR" /\ i = w /\ deaths' = deaths
    BY <1>0, <2>1, <2>2, <2>4 DEF DeathsCounted, Mid
  <2>5. CASE Alive(w)' /\ deaths' = deaths
    <3>1. Alive(w)
      BY <2>5, WorkerDeath
    <3> QED BY <1>0, <2>1, <2>2, <2>5, <3>1 DEF DeathsCounted, Mid
  <2> QED BY <2>3, <2>4, <2>5, WorkerDeath
<1>8. CASE UNCHANGED vars
  BY <1>8, VarsFrame DEF DeathsCounted, Alive
<1> QED BY <1>1, <1>2, <1>3, <1>4, <1>5, <1>6, <1>7, <1>8, StepCases
-----------------------------------------------------------------------------
(* The handler moves a death from zombies to the flags, and a flag is taken back only when *)
(* its worker is replaced.                                                                 *)
LEMMA KnownNext ==
  ASSUME Sound, DeathIsKnown, [Next]_vars
  PROVE  DeathIsKnown'
<1> SUFFICES ASSUME NEW w \in Workers, ~Alive(w)', ~Ignoring'
             PROVE  \/ w \in zombies' \/ worker_is_dead'[w]
                    \/ i' = w /\ jePc' \in {"fork", "openR", "dirs", "openA"}
  BY DEF DeathIsKnown
<1>0. /\ worker_is_dead \in [Workers -> BOOLEAN] /\ workerPc \in [Workers -> WorkerPcs]
      /\ jePc \in {"fork", "openR", "dirs", "openA"} => i \in Workers
      /\ ~jobExecutor_must_terminate' /\ jePc' \notin Ending
  BY TypeParts DEF Sound, FlagTypes, WorkerTypes, CallTypes, Indexing, Ignoring, Ending
<1>1. ASSUME ~Alive(w), ~jobExecutor_must_terminate, jePc \notin Ending
      PROVE  \/ w \in zombies \/ worker_is_dead[w]
             \/ i = w /\ jePc \in {"fork", "openR", "dirs", "openA"}
  BY <1>1 DEF DeathIsKnown, Ignoring, Ending
<1>2. CASE ControlStep
  <2>1. UNCHANGED <<workerPc, jobExecutor_must_terminate, zombies>>
    BY <1>2, ControlFrame
  <2>2. jePc \notin {"fork", "openR", "dirs", "openA"} /\ jePc \notin Ending
    BY <1>0, <1>2, ControlOutside, ControlFlags DEF Sound, Mid
  <2>3. w \in zombies \/ worker_is_dead[w]
    BY <1>0, <1>1, <2>1, <2>2 DEF Alive
  <2>4. \/ UNCHANGED worker_is_dead
        \/ /\ jePc' = "fork" /\ i' = i
           /\ worker_is_dead' = [worker_is_dead EXCEPT ![i] = FALSE]
    BY <1>2, ControlFlags DEF Sound
  <2> QED BY <1>0, <2>1, <2>3, <2>4
<1>3. CASE AskStep
  <2>1. UNCHANGED <<workerPc, jobExecutor_must_terminate, zombies>>
    BY <1>3, AskFrame
  <2>2. \/ jePc \in {"write", "exit"} /\ UNCHANGED worker_is_dead
        \/ jePc = "dirs" /\ jePc' = "openA" /\ i' = i /\ UNCHANGED worker_is_dead
        \/ jePc = "dirs" /\ worker_is_dead' = [worker_is_dead EXCEPT ![i] = TRUE]
    BY <1>3 DEF AskStep, Write, SendExit, SendDirectories, Return, deadVars
  <2>3. jePc \notin Ending
    BY <1>0, <1>3, JeFrame DEF JeStep, Sound
  <2> QED BY <1>0, <1>1, <2>1, <2>2, <2>3 DEF Alive
<1>4. CASE AnswerStep
  <2>1. UNCHANGED <<workerPc, jobExecutor_must_terminate, zombies, worker_is_dead>>
    BY <1>4, AnswerFrame
  <2>2. jePc \notin {"fork", "openR", "dirs", "openA"}
    BY <1>4 DEF AnswerStep, TakeAnswer, DrainAnswer, WordCountAnswer, ExitAnswer
  <2>3. jePc \notin Ending
    BY <1>0, <1>4, JeFrame DEF JeStep, Sound
  <2> QED BY <1>0, <1>1, <2>1, <2>2, <2>3 DEF Alive
<1>5. CASE Deadline
  <2>1. jePc = "poll" /\ UNCHANGED <<workerPc, jobExecutor_must_terminate, zombies, worker_is_dead>>
    BY <1>5 DEF Deadline, deadVars
  <2> QED BY <1>0, <1>1, <2>1 DEF Alive, Ending
<1>6. CASE handle_child_termination
  <2>1. \A v \in Workers : worker_is_dead'[v] <=> (worker_is_dead[v] \/ v \in zombies)
    BY <1>6 DEF handle_child_termination
  <2>2. UNCHANGED <<workerPc, jobExecutor_must_terminate>> /\ ~Ignoring
    BY <1>6 DEF handle_child_termination, workerVars
  <2>3. jePc \in {"fork", "openR", "dirs", "openA"} => UNCHANGED <<jePc, i>>
    BY <1>6, HandlerFrame DEF Handler
  <2> QED BY <1>1, <2>1, <2>2, <2>3 DEF Alive, Ignoring, Ending
<1>7. CASE handle_sig_termination
  BY <1>0, <1>7 DEF handle_sig_termination
<1>8. CASE KillWorkers \/ CloseAll
  BY <1>0, <1>8 DEF KillWorkers, CloseAll, Ending
<1>9. CASE Fork
  <2>1. /\ jePc = "fork" /\ workerPc' = [workerPc EXCEPT ![i] = "start"]
        /\ UNCHANGED <<jobExecutor_must_terminate, worker_is_dead>>
        /\ zombies' \in {zombies, (zombies \ {i}) \cup {Unknown}}
    BY <1>9 DEF Fork, deadVars
  <2> QED BY <1>0, <1>1, <2>1 DEF Alive, Ending
<1>10. CASE ForkFails
  <2>1. /\ jePc = "fork" /\ worker_is_dead' = [worker_is_dead EXCEPT ![i] = TRUE]
        /\ UNCHANGED <<jobExecutor_must_terminate, workerPc, zombies>>
    BY <1>10 DEF ForkFails, Return, workerVars
  <2> QED BY <1>0, <1>1, <2>1 DEF Alive, Ending
<1>11. CASE OpenRequests
  <2>1. /\ jePc = "openR" /\ jePc' = "dirs" /\ i' = i /\ workerPc' = [workerPc EXCEPT ![i] = "dirs"]
        /\ UNCHANGED <<jobExecutor_must_terminate, worker_is_dead, zombies>>
    BY <1>11 DEF OpenRequests, deadVars
  <2> QED BY <1>0, <1>1, <2>1 DEF Alive, Ending
<1>12. CASE OpenAnswers
  <2>1. /\ jePc = "openA" /\ workerPc' = [workerPc EXCEPT ![i] = "loop"]
        /\ UNCHANGED <<jobExecutor_must_terminate, worker_is_dead, zombies>>
    BY <1>12 DEF OpenAnswers, Return
  <2> QED BY <1>0, <1>1, <2>1 DEF Alive, Ending
<1>13. CASE \E v \in Workers : WorkerStep(v) \/ Die(v)
  <2> PICK v \in Workers : WorkerStep(v) \/ Die(v) BY <1>13
  <2>1. UNCHANGED <<jePc, i, worker_is_dead, jobExecutor_must_terminate>>
    BY WorkerFrame
  <2>2. ~Ignoring
    BY <1>0, <2>1 DEF Ignoring, Ending
  <2>3. CASE zombies' = zombies \cup {v} /\ workerPc' = [workerPc EXCEPT ![v] = "dead"]
    BY <1>0, <1>1, <2>1, <2>3 DEF Alive
  <2>4. CASE /\ zombies' = zombies /\ Alive(v)'
             /\ \A u \in Workers : u # v => workerPc'[u] = workerPc[u]
    BY <1>0, <1>1, <2>1, <2>4 DEF Alive
  <2>5. (\E pc \in Serving \cup {"openA", "garbled"} : workerPc' = [workerPc EXCEPT ![v] = pc]) =>
          Alive(v)' /\ \A u \in Workers : u # v => workerPc'[u] = workerPc[u]
    BY <1>0 DEF Alive, Serving
  <2> QED BY <2>2, <2>3, <2>4, <2>5, WorkerMoves DEF Sound
<1>14. CASE UNCHANGED vars
  BY <1>0, <1>1, <1>14, VarsFrame DEF Alive
<1> QED
  BY <1>2, <1>3, <1>4, <1>5, <1>6, <1>7, <1>8, <1>9, <1>10, <1>11, <1>12, <1>13, <1>14, StepCases
     DEF JeStep, Handler

-----------------------------------------------------------------------------
(* What holds of the workers whoever dies. *)
Mortal == Sound /\ Fresh /\ NoExit /\ DeathsCounted /\ DeathIsKnown

LEMMA MortalAlways == Spec => []Mortal
<1>1. Init => Mortal
  <2> SUFFICES ASSUME Init PROVE Mortal
    OBVIOUS
  <2>1. Fresh /\ DeathsCounted /\ DeathIsKnown
    BY DEF Init, Fresh, DeathsCounted, DeathIsKnown, Alive, Mid
  <2>2. NoExit
    <3>1. <<>> \in Seq(Ordinary)
      OBVIOUS
    <3> QED BY <3>1 DEF Init, NoExit
  <2> QED BY <2>1, <2>2, SoundInit DEF Mortal
<1>2. Mortal /\ [Next]_vars => Mortal'
  BY SoundNext, FreshNext, NoExitNext, DeathsNext, KnownNext DEF Mortal
<1> QED BY <1>1, <1>2, PTL DEF Spec

(* No death is forgotten, although the handler of SIGCHLD runs at any moment and         *)
(* a_worker_died is cleared before the flags are looked at (jobExecutor.cpp:308,1032): a *)
(* dead worker is flagged, will be flagged by the handler, or is the one being replaced. *)
(* For any number of deaths.                                                             *)
THEOREM DeathKnown == Spec => []DeathIsKnown
<1>1. Mortal => DeathIsKnown
  BY DEF Mortal
<1> QED BY <1>1, MortalAlways, PTL
-----------------------------------------------------------------------------
(* The entries of a worker in Rfds and Afds: both pipes are open, ... *)
Both(w) == /\ Rfds[w] \in Fds /\ Afds[w] \in Fds /\ Rfds[w] < Afds[w]
           /\ fds[Rfds[w]] = R(w) /\ fds[Afds[w]] = A(w)
(* ... neither (the fork failed), ... *)
None(w) == Rfds[w] = -1 /\ Afds[w] = -1
(* ... or the request pipe is, and Afds still has the number of the old answer pipe, which *)
(* is closed.                                                                              *)
OldAnswers(w) == Afds[w] = -1 \/ (Afds[w] \in Fds /\ Rfds[w] < Afds[w] /\ fds[Afds[w]] = Closed)
Half(w) == Rfds[w] \in Fds /\ fds[Rfds[w]] = R(w) /\ OldAnswers(w)
(* The fork has closed both. *)
Shut(w) == None(w) \/ (Rfds[w] \in Fds /\ fds[Rfds[w]] = Closed /\ OldAnswers(w))
(* The request pipe took the lowest free number, so the next open cannot take a lower one. *)
Lowest(w) == \A f \in Fds : fds[f] = Closed => Rfds[w] < f
(* The one worker whose replacement died half way, after a first death. *)
Alone(w) == ~Alive(w) /\ deaths = 2 /\ \A v \in Workers : v # w => Alive(v)

(* The entries of every worker, wherever jobExecutor is: those of a worker that is not *)
(* being replaced are both open or both gone, unless it is the one that died twice     *)
(* (jobExecutor.cpp:948-1005).                                                         *)
Numbers ==
  deaths <= 2 /\ jePc \notin Ending =>
    \A w \in Workers :
      /\ jePc = "openR" /\ i = w => Shut(w)
      /\ jePc \in {"dirs", "openA"} /\ i = w => Half(w) /\ Lowest(w)
      /\ ~New(w) => Both(w) \/ None(w) \/ (Half(w) /\ Alone(w) /\ jePc \notin Mid)

(* An end is of one pipe. *)
LEMMA EndsDiffer ==
  /\ \A v, w : R(v) # A(w) /\ R(v) # Closed /\ A(v) # Closed
  /\ \A v, w : v # w => R(v) # R(w) /\ A(v) # A(w)
BY DEF R, A, Closed

(* Deaths and the shutdown are not taken back. *)
LEMMA DeathsGrow ==
  ASSUME Sound, [Next]_vars
  PROVE  /\ deaths \in Nat /\ deaths' \in Nat /\ deaths <= deaths'
         /\ jePc \in Ending => jePc' \in Ending
<1>0. deaths \in Nat
  BY TypeParts, JobExecutorAssumption DEF Sound, BoundTypes
<1>1. CASE JeStep
  BY <1>0, <1>1, JeFrame DEF Sound
<1>2. CASE KillWorkers \/ CloseAll \/ Fork \/ ForkFails \/ OpenRequests \/ OpenAnswers
  <2>1. deaths' = deaths
    <3>1. KillWorkers => deaths' = deaths BY DEF KillWorkers, boundVars
    <3>2. CloseAll => deaths' = deaths BY DEF CloseAll, boundVars, elsewhere
    <3>3. Fork => deaths' = deaths BY DEF Fork, boundVars
    <3>4. ForkFails => deaths' = deaths BY DEF ForkFails
    <3>5. OpenRequests \/ OpenAnswers => deaths' = deaths
      BY DEF OpenRequests, OpenAnswers, boundVars
    <3> QED BY <1>2, <3>1, <3>2, <3>3, <3>4, <3>5
  <2>2. jePc \in Ending => jePc' \in Ending
    BY <1>2 DEF KillWorkers, CloseAll, Fork, ForkFails, OpenRequests, OpenAnswers, Ending
  <2> QED BY <1>0, <2>1, <2>2
<1>3. CASE \E w \in Workers : WorkerStep(w) \/ Die(w)
  <2> PICK w \in Workers : WorkerStep(w) \/ Die(w) BY <1>3
  <2>1. deaths' \in {deaths, deaths + 1}
    BY WorkerMoves DEF Sound
  <2> QED BY <1>0, <2>1, WorkerFrame
<1>4. CASE UNCHANGED vars
  BY <1>0, <1>4, VarsFrame
<1> QED BY <1>1, <1>2, <1>3, <1>4, StepCases

(* The descriptors that replace_worker closes belong to no other worker. *)
LEMMA NumbersApart ==
  ASSUME Sound, Numbers, deaths <= 2, jePc = "fork",
         NEW w \in Workers, w # i, NEW e \in {R(w), A(w)}, NEW f \in Fds, fds[f] = e
  PROVE  f \notin {Rfds[i], Afds[i]}
<1>1. i \in Workers /\ jePc \notin Ending /\ ~New(i)
  BY TypeParts DEF Sound, CallTypes, Indexing, Ending, New, Mid
<1>2. Both(i) \/ None(i) \/ Half(i)
  BY <1>1 DEF Numbers
<1>3. -1 \notin Fds
  BY JobExecutorAssumption DEF Fds
<1> QED BY <1>2, <1>3, EndsDiffer DEF Both, None, Half, OldAnswers

(* Numbers is kept by each step of replace_worker, by jobExecutor's other steps and by a *)
(* death.                                                                                *)
LEMMA NumbersFork ==
  ASSUME Mortal, Numbers, Fork, deaths <= 2
  PROVE  Numbers'
<1>1. /\ jePc = "fork" /\ jePc' = "openR" /\ i' = i /\ i \in Workers /\ ~Alive(i)
      /\ UNCHANGED <<Rfds, Afds, deaths>>
      /\ \A f \in Fds : fds'[f] = IF f \in {Rfds[i], Afds[i]} THEN Closed ELSE fds[f]
  BY CloseOldType, TypeParts DEF Mortal, Sound, Fork, CallTypes, Indexing, boundVars
<1>2. Shut(i)'
  <2>1. Both(i) \/ None(i) \/ Half(i)
    BY <1>1 DEF Numbers, Ending, New, Mid
  <2>2. None(i) => None(i)'
    BY <1>1 DEF None
  <2>3. ASSUME Both(i) \/ Half(i)
        PROVE  Shut(i)'
    <3>1. Rfds[i] \in Fds /\ fds'[Rfds[i]] = Closed
      BY <1>1, <2>3 DEF Both, Half
    <3>2. Afds[i] = -1 \/ (Afds[i] \in Fds /\ Rfds[i] < Afds[i])
      BY <2>3 DEF Both, Half, OldAnswers
    <3>3. Afds[i] \in Fds => fds'[Afds[i]] = Closed
      BY <1>1
    <3>4. Rfds'[i'] = Rfds[i] /\ Afds'[i'] = Afds[i]
      BY <1>1
    <3>5. OldAnswers(i)'
      BY <3>2, <3>3, <3>4 DEF OldAnswers
    <3> QED BY <3>1, <3>4, <3>5 DEF Shut
  <2> QED BY <2>1, <2>2, <2>3 DEF Shut
<1>3. ASSUME NEW w \in Workers, w # i
      PROVE  Both(w)' \/ None(w)'
  <2>1. Both(w) \/ None(w)
    BY <1>1, <1>3 DEF Numbers, Ending, New, Mid, Alone
  <2>2. None(w) => None(w)'
    BY <1>1 DEF None
  <2>3. ASSUME Both(w)
        PROVE  Both(w)'
    <3>1. Rfds[w] \notin {Rfds[i], Afds[i]} /\ Afds[w] \notin {Rfds[i], Afds[i]}
      BY <1>1, <1>3, <2>3, NumbersApart DEF Both, Mortal
    <3> QED BY <1>1, <2>3, <3>1 DEF Both
  <2> QED BY <2>1, <2>2, <2>3
<1> QED BY <1>1, <1>2, <1>3 DEF Numbers, New, Mid

LEMMA NumbersForkFails ==
  ASSUME Mortal, Numbers, ForkFails, deaths <= 2
  PROVE  Numbers'
<1>1. /\ jePc = "fork" /\ jePc' \notin Mid /\ i \in Workers /\ UNCHANGED <<workerPc, deaths>>
      /\ Rfds'[i] = -1 /\ Afds'[i] = -1
      /\ \A w \in Workers : w # i => Rfds'[w] = Rfds[w] /\ Afds'[w] = Afds[w]
      /\ \A f \in Fds : fds'[f] = IF f \in {Rfds[i], Afds[i]} THEN Closed ELSE fds[f]
  BY CloseOldType, ForkFailsTypes, TypeParts
     DEF Mortal, Sound, ForkFails, ForgetNumbers, FdTypes, CallTypes, Indexing, workerVars
<1>2. ASSUME NEW w \in Workers, w = i
      PROVE  None(w)'
  BY <1>1, <1>2 DEF None
<1>3. ASSUME NEW w \in Workers, w # i
      PROVE  Both(w)' \/ None(w)' \/ (Half(w)' /\ Alone(w)')
  <2>1. Both(w) \/ None(w) \/ (Half(w) /\ Alone(w))
    BY <1>1 DEF Numbers, Ending, New, Mid
  <2>2. None(w) => None(w)'
    BY <1>1, <1>3 DEF None
  <2>3. ASSUME Both(w)
        PROVE  Both(w)'
    <3>1. Rfds[w] \notin {Rfds[i], Afds[i]} /\ Afds[w] \notin {Rfds[i], Afds[i]}
      BY <1>1, <1>3, <2>3, NumbersApart DEF Both, Mortal
    <3> QED BY <1>1, <1>3, <2>3, <3>1 DEF Both
  <2>4. ASSUME Half(w), Alone(w)
        PROVE  Half(w)' /\ Alone(w)'
    <3>1. Rfds[w] \notin {Rfds[i], Afds[i]}
      BY <1>1, <1>3, <2>4, NumbersApart DEF Half, Mortal
    <3>2. Half(w)'
      BY <1>1, <1>3, <2>4, <3>1 DEF Half, OldAnswers
    <3>3. Alone(w)'
      BY <1>1, <2>4 DEF Alone, Alive
    <3> QED BY <3>2, <3>3
  <2> QED BY <2>1, <2>2, <2>3, <2>4
<1> QED BY <1>1, <1>2, <1>3 DEF Numbers, New, Mid

LEMMA NumbersOpenRequests ==
  ASSUME Mortal, Numbers, OpenRequests, deaths <= 2
  PROVE  Numbers'
<1>1. /\ jePc = "openR" /\ jePc' = "dirs" /\ i' = i /\ i \in Workers /\ UNCHANGED <<Afds, deaths>>
      /\ Rfds'[i] = LowestFree /\ \A w \in Workers : w # i => Rfds'[w] = Rfds[w]
      /\ \A f \in Fds : fds'[f] = IF f = LowestFree THEN R(i) ELSE fds[f]
  BY TypeParts DEF Mortal, Sound, OpenRequests, FdTypes, CallTypes, Indexing, boundVars
<1>2. /\ LowestFree \in Fds /\ fds[LowestFree] = Closed
      /\ \A g \in Fds : fds[g] = Closed => LowestFree <= g
  BY <1>1, LowestFreeIs DEF Mortal, Sound
<1>N. Fds \subseteq Int /\ -1 \notin Fds
  BY JobExecutorAssumption DEF Fds
<1> DEFINE L == LowestFree
<1> HIDE DEF L
<1>3. Half(i)' /\ Lowest(i)'
  <2>1. Shut(i)
    BY <1>1 DEF Numbers, Ending
  <2>2. Afds[i] = -1 \/ (Afds[i] \in Fds /\ fds[Afds[i]] = Closed /\ LowestFree < Afds[i])
    BY <1>2, <1>N, <2>1 DEF Shut, None, OldAnswers
  <2>3. Half(i)'
    <3>1. Rfds'[i'] = LowestFree /\ Afds'[i'] = Afds[i] /\ fds'[LowestFree] = R(i')
      BY <1>1, <1>2
    <3>2. Afds[i] # -1 => Afds[i] \in Fds /\ LowestFree < Afds[i] /\ fds'[Afds[i]] = Closed
      <4> SUFFICES ASSUME Afds[i] # -1
                   PROVE  Afds[i] \in Fds /\ LowestFree < Afds[i] /\ fds'[Afds[i]] = Closed
        OBVIOUS
      <4>1. Afds[i] \in Fds /\ fds[Afds[i]] = Closed /\ LowestFree < Afds[i]
        BY <2>2
      <4>2. Afds[i] # LowestFree
        BY <1>2, <1>N, <4>1
      <4> QED BY <1>1, <4>1, <4>2
    <3>3. OldAnswers(i)'
      BY <3>1, <3>2 DEF OldAnswers
    <3> QED BY <1>2, <3>1, <3>3 DEF Half
  <2>4. Lowest(i)'
    <3> SUFFICES ASSUME NEW f \in Fds, fds'[f] = Closed
                 PROVE  LowestFree < f
      BY <1>1 DEF Lowest
    <3>1. f # LowestFree /\ fds[f] = Closed
      BY <1>1, EndsDiffer
    <3> QED BY <1>2, <1>N, <3>1
  <2> QED BY <2>3, <2>4
<1>4. ASSUME NEW w \in Workers, w # i
      PROVE  Both(w)' \/ None(w)'
  <2>1. Both(w) \/ None(w)
    BY <1>1, <1>4 DEF Numbers, Ending, New, Mid
  <2> QED BY <1>1, <1>2, <1>4, <2>1, EndsDiffer DEF Both, None
<1> QED BY <1>1, <1>3, <1>4 DEF Numbers, New, Mid

LEMMA NumbersOpenAnswers ==
  ASSUME Mortal, Numbers, OpenAnswers, deaths <= 2
  PROVE  Numbers'
<1>1. /\ jePc = "openA" /\ jePc' \notin Mid /\ i \in Workers /\ UNCHANGED <<Rfds, deaths>>
      /\ Afds'[i] = LowestFree /\ \A w \in Workers : w # i => Afds'[w] = Afds[w]
      /\ \A f \in Fds : fds'[f] = IF f = LowestFree THEN A(i) ELSE fds[f]
  BY OpenAnswersTypes, TypeParts DEF Mortal, Sound, OpenAnswers, FdTypes, CallTypes, Indexing,
     boundVars
<1>2. LowestFree \in Fds /\ fds[LowestFree] = Closed
  BY <1>1, LowestFreeIs DEF Mortal, Sound
<1>3. ASSUME NEW w \in Workers, w = i
      PROVE  Both(w)'
  <2>1. Half(w) /\ Lowest(w)
    BY <1>1, <1>3 DEF Numbers, Ending
  <2>2. Rfds[w] \in Fds /\ fds[Rfds[w]] = R(w) /\ Rfds[w] < LowestFree
    BY <1>2, <2>1 DEF Half, Lowest
  <2>3. Rfds[w] # LowestFree
    BY <1>2, <2>2, EndsDiffer
  <2> QED BY <1>1, <1>2, <1>3, <2>2, <2>3 DEF Both
<1>4. ASSUME NEW w \in Workers, w # i
      PROVE  Both(w)' \/ None(w)'
  <2>1. Both(w) \/ None(w)
    BY <1>1, <1>4 DEF Numbers, Ending, New, Mid
  <2> QED BY <1>1, <1>2, <1>4, <2>1, EndsDiffer DEF Both, None
<1> QED BY <1>1, <1>3, <1>4 DEF Numbers, New, Mid

LEMMA NumbersJe ==
  ASSUME Mortal, Numbers, JeStep, deaths <= 2, jePc \notin Ending
  PROVE  Numbers'
<1>1. UNCHANGED <<workerPc, deaths, Rfds, Afds, fds>>
  BY JeFrame DEF Mortal, Sound
<1>2. \A w \in Workers : /\ Both(w)' <=> Both(w)
                         /\ None(w)' <=> None(w)
                         /\ Half(w)' <=> Half(w)
                         /\ Shut(w)' <=> Shut(w)
                         /\ Lowest(w)' <=> Lowest(w)
                         /\ Alone(w)' <=> Alone(w)
  BY <1>1 DEF Both, None, Half, Shut, Lowest, OldAnswers, Alone, Alive
<1>3. \A w \in Workers :
        /\ jePc = "openR" /\ i = w => Shut(w)
        /\ jePc \in {"dirs", "openA"} /\ i = w => Half(w) /\ Lowest(w)
        /\ ~New(w) => Both(w) \/ None(w) \/ (Half(w) /\ Alone(w) /\ jePc \notin Mid)
  BY DEF Numbers
<1> SUFFICES ASSUME NEW w \in Workers
             PROVE  /\ jePc' = "openR" /\ i' = w => Shut(w)
                    /\ jePc' \in {"dirs", "openA"} /\ i' = w => Half(w) /\ Lowest(w)
                    /\ ~New(w)' => Both(w) \/ None(w) \/ (Half(w) /\ Alone(w) /\ jePc' \notin Mid)
  BY <1>2 DEF Numbers
<1>4. CASE UNCHANGED <<jePc, i>>
  BY <1>3, <1>4 DEF New
<1>5. CASE jePc \notin Mid /\ jePc' \notin Mid
  BY <1>3, <1>5 DEF New, Mid
<1>6. CASE jePc = "dirs" /\ jePc' = "openA" /\ i' = i
  BY <1>3, <1>6 DEF New, Mid
<1>7. CASE jePc = "dirs" /\ jePc' \in {"write", "replace"} /\ ~HasReader(i)
  <2>1. i \in Workers /\ workerPc[i] \in WorkerPcs
    BY <1>7, TypeParts DEF Mortal, Sound, CallTypes, WorkerTypes, Indexing
  <2>2. ~Alive(i)
    BY <1>7, <2>1 DEF Mortal, Fresh, HasReader, Reading, Serving, WorkerPcs, Alive
  <2>3. Alone(i)
    BY <1>7, <2>1, <2>2, TypeParts, JobExecutorAssumption
       DEF Mortal, Sound, DeathsCounted, Alone, BoundTypes
  <2>4. Half(i)
    BY <1>3, <1>7, <2>1
  <2> QED BY <1>3, <1>7, <2>3, <2>4 DEF New, Mid
<1> QED BY <1>4, <1>5, <1>6, <1>7, JeFrame DEF Mortal, Sound

LEMMA NumbersWorker ==
  ASSUME Mortal, Numbers, deaths' <= 2, jePc \notin Ending,
         NEW v \in Workers, WorkerStep(v) \/ Die(v)
  PROVE  Numbers'
<1>1. UNCHANGED <<jePc, i, Rfds, Afds, fds>>
  BY WorkerFrame
<1>2. deaths \in Nat /\ deaths <= 2
  BY DeathsGrow DEF Mortal, Next
<1>3. ASSUME NEW w \in Workers, Alone(w), jePc \notin Mid
      PROVE  Alone(w)'
  <2>1. Alive(v)' /\ deaths' = deaths
    BY <1>2, <1>3, WorkerDeath DEF Mortal, Alone, Mid
  <2>2. v # w
    BY <1>3, <2>1, WorkerDeath DEF Mortal, Alone
  <2>3. \A u \in Workers : u # v => workerPc'[u] = workerPc[u]
    BY WorkerDeath DEF Mortal
  <2> QED BY <1>3, <2>1, <2>2, <2>3 DEF Alone, Alive
<1>4. \A w \in Workers : /\ Both(w)' <=> Both(w)
                         /\ None(w)' <=> None(w)
                         /\ Half(w)' <=> Half(w)
                         /\ Shut(w)' <=> Shut(w)
                         /\ Lowest(w)' <=> Lowest(w)
  BY <1>1 DEF Both, None, Half, Shut, Lowest, OldAnswers
<1> QED BY <1>1, <1>2, <1>3, <1>4 DEF Numbers, New

LEMMA NumbersNext ==
  ASSUME Mortal, Numbers, [Next]_vars
  PROVE  Numbers'
<1>1. /\ deaths \in Nat /\ deaths' \in Nat /\ deaths <= deaths'
      /\ jePc \in Ending => jePc' \in Ending
  BY DeathsGrow DEF Mortal
<1> SUFFICES ASSUME deaths' <= 2, jePc' \notin Ending
             PROVE  Numbers'
  BY DEF Numbers
<1>2. deaths <= 2 /\ jePc \notin Ending
  BY <1>1
<1>3. CASE KillWorkers \/ CloseAll
  BY <1>3 DEF KillWorkers, CloseAll, Ending
<1>4. CASE UNCHANGED vars
  BY <1>4, VarsFrame
     DEF Numbers, Both, None, Half, Shut, Lowest, OldAnswers, Alone, Alive, New
<1> QED
  BY <1>2, <1>3, <1>4, NumbersJe, NumbersFork, NumbersForkFails, NumbersOpenRequests,
     NumbersOpenAnswers, NumbersWorker, StepCases

-----------------------------------------------------------------------------
(* Numbers implies FdsOwn, and the shutdown only closes descriptors. *)
LEMMA OwnFromNumbers ==
  ASSUME Sound, Numbers, jePc \notin Ending
  PROVE  FdsOwn
<1> SUFFICES ASSUME deaths <= 2, NEW w \in Workers
             PROVE  End(Afds[w]) \in {A(w), Closed} /\ End(Rfds[w]) \in {R(w), Closed}
  BY DEF FdsOwn
<1>1. -1 \notin Fds
  BY JobExecutorAssumption DEF Fds
<1>2. Both(w) \/ None(w) \/ Half(w) \/ Shut(w)
  <2>1. New(w) => Shut(w) \/ Half(w)
    BY DEF Numbers, New, Mid
  <2>2. ~New(w) => Both(w) \/ None(w) \/ Half(w)
    BY DEF Numbers
  <2> QED BY <2>1, <2>2
<1> QED BY <1>1, <1>2 DEF Both, None, Half, Shut, OldAnswers, End

LEMMA OwnInTheEnd ==
  ASSUME Mortal, FdsOwn, [Next]_vars, jePc' \in Ending
  PROVE  FdsOwn'
<1>1. deaths \in Nat /\ deaths' \in Nat /\ deaths <= deaths'
  BY DeathsGrow DEF Mortal
<1>2. UNCHANGED <<Rfds, Afds>> /\ \A f \in Fds : fds'[f] \in {fds[f], Closed}
  <2>1. CASE JeStep
    BY <2>1, JeFrame DEF Mortal, Sound
  <2>2. CASE KillWorkers
    BY <2>2 DEF KillWorkers, fdVars
  <2>3. CASE CloseAll
    BY <2>3 DEF CloseAll
  <2>4. CASE Fork \/ ForkFails \/ OpenRequests \/ OpenAnswers
    <3>1. Fork \/ OpenRequests => jePc' \notin Ending
      BY DEF Fork, OpenRequests, Ending
    <3>2. ForkFails \/ OpenAnswers => jePc' \notin Ending
      BY DEF ForkFails, OpenAnswers, Return, Ending
    <3> QED BY <2>4, <3>1, <3>2
  <2>5. CASE \E w \in Workers : WorkerStep(w) \/ Die(w)
    BY <2>5, WorkerFrame
  <2>6. CASE UNCHANGED vars
    BY <2>6, VarsFrame
  <2> QED BY <2>1, <2>2, <2>3, <2>4, <2>5, <2>6, StepCases
<1> SUFFICES ASSUME deaths' <= 2, NEW w \in Workers
             PROVE  End(Afds[w])' \in {A(w), Closed} /\ End(Rfds[w])' \in {R(w), Closed}
  BY DEF FdsOwn
<1>3. End(Afds[w]) \in {A(w), Closed} /\ End(Rfds[w]) \in {R(w), Closed}
  BY <1>1 DEF FdsOwn
<1> QED BY <1>2, <1>3 DEF End

(* The workers and their descriptors. *)
Owned == Mortal /\ Numbers /\ FdsOwn

LEMMA OwnedAlways == Spec => []Owned
<1>1. Init => Numbers /\ FdsOwn
  <2> SUFFICES ASSUME Init PROVE Numbers /\ FdsOwn
    OBVIOUS
  <2>1. ASSUME NEW w \in Workers
        PROVE  Both(w)
    <3>1. /\ Rfds[w] = w /\ Afds[w] = numWorkers + w /\ w \in Fds /\ numWorkers + w \in Fds
          /\ w < numWorkers + w /\ w < numWorkers /\ ~(numWorkers + w < numWorkers)
          /\ numWorkers + w \in numWorkers..(2 * numWorkers - 1) /\ numWorkers + w - numWorkers = w
      BY JobExecutorAssumption DEF Init, Workers, Fds
    <3>2. fds[w] = R(w)
      <4>1. w \notin numWorkers..(2 * numWorkers - 1)
        BY JobExecutorAssumption DEF Workers
      <4>2. fds[w] = CASE w < numWorkers -> R(w)
                       [] w \in numWorkers..(2 * numWorkers - 1) -> A(w - numWorkers)
                       [] OTHER -> Closed
        BY <3>1, Zenon DEF Init
      <4> QED BY <3>1, <4>1, <4>2, Zenon
    <3>3. fds[numWorkers + w] = A(w)
      <4> DEFINE f == numWorkers + w
      <4>1. /\ f \in Fds /\ ~(f < numWorkers) /\ f \in numWorkers..(2 * numWorkers - 1)
            /\ f - numWorkers = w
        BY <3>1, JobExecutorAssumption DEF Workers
      <4> HIDE DEF f
      <4>2. fds[f] = CASE f < numWorkers -> R(f)
                       [] f \in numWorkers..(2 * numWorkers - 1) -> A(f - numWorkers)
                       [] OTHER -> Closed
        BY <4>1, Zenon DEF Init
      <4>3. fds[f] = A(f - numWorkers)
        BY <4>1, <4>2, Zenon
      <4>4. fds[f] = A(w)
        BY <4>1, <4>3
      <4> QED BY <4>4 DEF f
    <3> QED BY <3>1, <3>2, <3>3 DEF Both
  <2>2. Numbers
    BY <2>1 DEF Init, Numbers
  <2>3. jePc \notin Ending
    BY DEF Init, Ending
  <2> QED BY <2>2, <2>3, SoundInit, OwnFromNumbers
<1>2. (Sound /\ Numbers /\ jePc \notin Ending) => FdsOwn
  BY OwnFromNumbers
<1>3. Owned /\ [Next]_vars /\ Mortal' /\ (Sound /\ Numbers /\ jePc \notin Ending => FdsOwn)' =>
        Owned'
  <2> SUFFICES ASSUME Owned, [Next]_vars, Mortal',
                      (Sound' /\ Numbers' /\ jePc' \notin Ending) => FdsOwn'
               PROVE  Owned'
    OBVIOUS
  <2>1. Numbers'
    BY NumbersNext DEF Owned
  <2>2. jePc' \notin Ending => FdsOwn'
    BY <2>1 DEF Mortal
  <2> QED BY <2>1, <2>2, OwnInTheEnd DEF Owned
<1>4. Mortal /\ Numbers /\ FdsOwn => Owned
  BY DEF Owned
<1> QED BY <1>1, <1>2, <1>3, <1>4, MortalAlways, PTL DEF Spec

(* With at most two deaths a number in Rfds or Afds is that of the worker's own pipe or of *)
(* none, although numbers are closed, kept and handed out again by replace_worker          *)
(* (jobExecutor.cpp:948,962,969,999): no worker is asked in the place of another.          *)
THEOREM DescriptorsOwn == Spec => []FdsOwn
<1>1. Owned => FdsOwn
  BY DEF Owned
<1> QED BY <1>1, OwnedAlways, PTL

-----------------------------------------------------------------------------
(***************************************************************************)
(* Third part, answers: what jobExecutor and the workers say to each other *)
(* as long as one worker dies at most.  Only the dead are replaced, a      *)
(* replacement finds no old request in its pipe, what is read as an answer *)
(* is the answer, and at the end of a command the pipes are empty.         *)
(*                                                                         *)
(* All of it follows from what is in the pipes of each worker at any       *)
(* moment of a command, Talk: a worker that has been asked and whose       *)
(* answer has not been read is Due, and Pending if it is alive; one that   *)
(* is not due is Calm.  To keep this over a death one must know that the   *)
(* pipes are attached to their workers (Attached), that a replacement      *)
(* inherits no end that matters (Inherit), which workers are flagged       *)
(* (Flags), and which jobExecutor has heard of (Rounds).                   *)
(***************************************************************************)

(* jobExecutor has left the loop over commands, or is about to; before that, with one death *)
(* at most, it is Active.                                                                   *)
Over == Ending \cup {"finish", "kill"}
Active == deaths <= 1 /\ jePc \notin Over

(* Both pipes of a worker are open in jobExecutor, or neither is and the worker is dead *)
(* with nothing left to read (a fork that failed).                                      *)
Attached ==
  Active => \A w \in Workers : ~New(w) => Both(w) \/ (None(w) /\ ~Alive(w) /\ answers[w] = <<>>)

(* A flag stands for a death that nobody has dealt with, and for one only. *)
Flags ==
  Active =>
    /\ \A w \in Workers : /\ worker_is_dead[w] => ~Alive(w) /\ w \notin zombies
                          /\ w \in zombies => ~Alive(w)
    /\ jePc = "fork" => ~Alive(i) /\ i \notin zombies /\ ~worker_is_dead[i]

(* Only a replacement inherits ends, and when there is one everybody is alive: no pipe is *)
(* kept open by a process that jobExecutor does not count with.                           *)
Inherit ==
  Active => \A v \in Workers : inherited[v] # {} =>
      deaths >= 1 /\ (\A u \in Workers : Alive(u)) /\ (jePc \in Mid => v = i)

(* What jobExecutor has read of a round: nobody has answered before it, the worker being *)
(* read from is counted where the code counts it, and nothing is ready that is answered. *)
Rounds ==
  /\ jePc \in {"top", "read", "interrupted", "replace", "dispatch"}
              \cup Replacing \cup Asking \cup Counting =>
       responded = {} /\ ready = {}
  /\ ready \cap responded = {}
  /\ jePc = "reading" => i \in responded
  /\ jePc = "draining" => i \notin responded
  /\ jePc \in {"collect", "poll"} => ready = {} \/ jobExecutor_must_terminate

-----------------------------------------------------------------------------
(* A run that is active has been so from the start. *)
LEMMA ActiveBefore ==
  ASSUME Mortal, [Next]_vars, Active'
  PROVE  Active
<1>1. /\ deaths \in Nat /\ deaths' \in Nat /\ deaths <= deaths'
      /\ jePc \in Ending => jePc' \in Ending
  BY DeathsGrow DEF Mortal
<1> SUFFICES ASSUME jePc \in {"finish", "kill"}
             PROVE  jePc' \in Over
  BY <1>1 DEF Active, Over
<1> USE DEF Over, Ending
<1>2. CASE ControlStep
  <2>1. CASE Finish BY <2>1 DEF Finish
  <2>2. CASE ~Finish
    BY <1>2, <2>2 DEF ControlStep, Top, ReadFails, Dispatch, EndCommand, ReplaceAll, Send, Collect,
       Poll, Take, Drain, WordCount, WaitForAll, ReadCommand
  <2> QED BY <2>1, <2>2
<1>3. CASE AskStep BY <1>3 DEF AskStep, Write, SendDirectories, SendExit
<1>4. CASE AnswerStep BY <1>4 DEF AnswerStep, TakeAnswer, DrainAnswer, WordCountAnswer, ExitAnswer
<1>5. CASE Deadline BY <1>5 DEF Deadline
<1>6. CASE Handler BY <1>6 DEF Handler, handle_child_termination, handle_sig_termination, interrupt
<1>7. CASE KillWorkers \/ CloseAll BY <1>7 DEF KillWorkers, CloseAll
<1>8. CASE Fork \/ ForkFails \/ OpenRequests \/ OpenAnswers
  BY <1>8 DEF Fork, ForkFails, OpenRequests, OpenAnswers
<1>9. CASE \E w \in Workers : WorkerStep(w) \/ Die(w)
  BY <1>9, WorkerFrame
<1>10. CASE UNCHANGED vars
  BY <1>10, VarsFrame
<1> QED BY <1>2, <1>3, <1>4, <1>5, <1>6, <1>7, <1>8, <1>9, <1>10, StepCases DEF JeStep

(* With one death at most the replacement lives while it is sent its directories. *)
LEMMA ReadsDirectories ==
  ASSUME Mortal, Active, jePc = "dirs"
  PROVE  i \in Workers /\ HasReader(i) /\ Alive(i)
<1>1. i \in Workers /\ workerPc[i] \in WorkerPcs /\ deaths \in Nat
  BY TypeParts, JobExecutorAssumption
     DEF Mortal, Sound, CallTypes, WorkerTypes, BoundTypes, Indexing
<1>2. Alive(i)
  BY <1>1 DEF Mortal, DeathsCounted, Active, Over
<1>3. workerPc[i] # "start"
  BY <1>1 DEF Mortal, Fresh
<1> QED BY <1>1, <1>2, <1>3 DEF Alive, HasReader, Reading, Serving, WorkerPcs

(* The one death is that of the worker being replaced. *)
LEMMA OthersLive ==
  ASSUME Mortal, Active, i \in Workers, jePc \in Mid \/ ~Alive(i)
  PROVE  deaths = 1 /\ \A w \in Workers : w # i => Alive(w)
<1>1. deaths \in Nat
  BY TypeParts, JobExecutorAssumption DEF Mortal, Sound, BoundTypes
<1> QED BY <1>1 DEF Mortal, DeathsCounted, Active, Over

(* A worker that steps dies, for the first time or without an executable, or lives on. *)
LEMMA WorkerFate ==
  ASSUME Mortal, Active, Active', NEW v \in Workers, WorkerStep(v) \/ Die(v)
  PROVE  /\ Alive(v) /\ \A w \in Workers : w # v => workerPc'[w] = workerPc[w]
         /\ \/ /\ ~Alive(v)' /\ inherited' = [inherited EXCEPT ![v] = {}]
               /\ zombies' \in {zombies, zombies \cup {v}}
               /\ \A w \in Workers : w # v => Alive(w)
               /\ \/ deaths = 0 /\ deaths' = 1 /\ jePc \notin Mid
                  \/ deaths' = deaths /\ jePc = "openR" /\ i = v
            \/ Alive(v)' /\ UNCHANGED <<inherited, zombies, deaths>>
<1>1. deaths \in Nat /\ jePc \notin Ending /\ workerPc \in [Workers -> WorkerPcs]
  BY TypeParts, JobExecutorAssumption DEF Mortal, Sound, BoundTypes, WorkerTypes, Active, Over
<1>2. \A w \in Workers : w # v => workerPc'[w] = workerPc[w]
  BY <1>1, WorkerDeath DEF Mortal
<1>3. CASE /\ Alive(v) /\ workerPc' = [workerPc EXCEPT ![v] = "dead"]
           /\ inherited' = [inherited EXCEPT ![v] = {}]
           /\ zombies' = (IF Ignoring THEN zombies ELSE zombies \cup {v})
  <2>1. ~Alive(v)'
    BY <1>1, <1>3 DEF Alive
  <2>2. \/ deaths' = deaths + 1
        \/ deaths' = deaths /\ jePc = "openR" /\ i = v
    BY <1>1, <2>1, WorkerDeath DEF Mortal
  <2>3. CASE deaths' = deaths + 1
    <3>1. deaths = 0 /\ deaths' = 1
      BY <1>1, <2>3 DEF Active
    <3> QED BY <1>1, <1>2, <1>3, <2>1, <3>1 DEF Mortal, DeathsCounted, Mid
  <2>4. CASE deaths' = deaths /\ jePc = "openR" /\ i = v
    BY <1>2, <1>3, <2>1, <2>4, OthersLive DEF Mid
  <2> QED BY <2>2, <2>3, <2>4
<1>4. CASE UNCHANGED <<inherited, zombies, deaths>> /\ \E pc \in WorkerPcs :
                 /\ workerPc' = [workerPc EXCEPT ![v] = pc]
                 /\ \/ workerPc[v] = "dirs" /\ pc \in {"openA", "garbled"}
                    \/ workerPc[v] \in Serving /\ pc \in Serving
  BY <1>1, <1>2, <1>4 DEF Alive, Serving
<1> QED BY <1>3, <1>4, WorkerMoves DEF Mortal, Sound

-----------------------------------------------------------------------------
(* Only the handler sets a flag, for a worker that died and was not replaced. *)
LEMMA FlagsNext ==
  ASSUME Mortal, Flags, Active, Active', [Next]_vars
  PROVE  Flags'
<1>0. /\ worker_is_dead \in [Workers -> BOOLEAN] /\ workerPc \in [Workers -> WorkerPcs]
      /\ jePc \in Mid \cup {"fork"} => i \in Workers
  BY TypeParts DEF Mortal, Sound, FlagTypes, WorkerTypes, CallTypes, Indexing, Mid
<1>1. /\ \A w \in Workers : /\ worker_is_dead[w] => ~Alive(w) /\ w \notin zombies
                            /\ w \in zombies => ~Alive(w)
      /\ jePc = "fork" => ~Alive(i) /\ i \notin zombies /\ ~worker_is_dead[i]
  BY DEF Flags
<1> SUFFICES /\ \A w \in Workers : /\ worker_is_dead'[w] => ~Alive(w)' /\ w \notin zombies'
                                   /\ w \in zombies' => ~Alive(w)'
             /\ jePc' = "fork" =>
                  workerPc'[i'] = "dead" /\ i' \notin zombies' /\ ~worker_is_dead'[i']
  BY DEF Flags, Alive
<1>2. CASE ControlStep
  <2>1. UNCHANGED <<workerPc, zombies>>
    BY <1>2, ControlFrame
  <2> QED BY <1>0, <1>1, <1>2, <2>1, ControlFlags DEF Mortal, Sound, Alive
<1>3. CASE AskStep
  <2>1. UNCHANGED <<workerPc, zombies>>
    BY <1>3, AskFrame
  <2>2. UNCHANGED worker_is_dead /\ jePc' # "fork"
    <3>1. CASE Write BY <3>1 DEF Write, deadVars
    <3>2. CASE SendExit BY <3>2 DEF SendExit, deadVars
    <3>3. CASE SendDirectories BY <3>3, ReadsDirectories DEF SendDirectories
    <3> QED BY <1>3, <3>1, <3>2, <3>3 DEF AskStep
  <2> QED BY <1>1, <2>1, <2>2 DEF Alive
<1>4. CASE AnswerStep
  <2>1. UNCHANGED <<workerPc, zombies, worker_is_dead>>
    BY <1>4, AnswerFrame
  <2>2. jePc' # "fork"
    BY <1>4, ReadAnswerType
       DEF Mortal, Sound, AnswerStep, TakeAnswer, DrainAnswer, WordCountAnswer, ExitAnswer
  <2> QED BY <1>1, <2>1, <2>2 DEF Alive
<1>5. CASE Deadline
  BY <1>1, <1>5 DEF Deadline, deadVars, Alive
<1>6. CASE handle_child_termination
  <2>1. /\ zombies' = {} /\ workerPc' = workerPc /\ i' = i /\ (jePc' = "fork" => jePc = "fork")
        /\ \A w \in Workers : worker_is_dead'[w] <=> (worker_is_dead[w] \/ w \in zombies)
    BY <1>6 DEF handle_child_termination, workerVars, interrupt
  <2> QED BY <1>0, <1>1, <2>1 DEF Alive
<1>7. CASE handle_sig_termination
  <2>1. /\ UNCHANGED <<workerPc, zombies, worker_is_dead>>
        /\ jePc' = "fork" => jePc = "fork" /\ i' = i
    BY <1>7 DEF handle_sig_termination, workerVars, elsewhere, deadVars, interrupt
  <2> QED BY <1>1, <2>1 DEF Alive
<1>8. CASE KillWorkers \/ CloseAll
  BY <1>8 DEF KillWorkers, CloseAll, Active, Over, Ending
<1>9. CASE Fork
  <2>1. /\ jePc = "fork" /\ jePc' = "openR" /\ worker_is_dead' = worker_is_dead
        /\ workerPc' = [workerPc EXCEPT ![i] = "start"] /\ zombies' = zombies
    BY <1>1, <1>9 DEF Fork, deadVars
  <2> QED BY <1>0, <1>1, <2>1 DEF Alive
<1>10. CASE ForkFails
  <2>1. /\ jePc = "fork" /\ jePc' # "fork" /\ worker_is_dead' = [worker_is_dead EXCEPT ![i] = TRUE]
        /\ UNCHANGED <<workerPc, zombies>>
    BY <1>10 DEF ForkFails, Return, workerVars
  <2> QED BY <1>0, <1>1, <2>1 DEF Alive
<1>11. CASE OpenRequests
  <2>1. /\ workerPc[i] = "start" /\ jePc = "openR" /\ jePc' = "dirs"
        /\ workerPc' = [workerPc EXCEPT ![i] = "dirs"]
        /\ UNCHANGED <<worker_is_dead, zombies>>
    BY <1>11 DEF OpenRequests, deadVars
  <2> QED BY <1>0, <1>1, <2>1 DEF Alive
<1>12. CASE OpenAnswers
  <2>1. /\ workerPc[i] = "openA" /\ jePc = "openA" /\ jePc' # "fork"
        /\ workerPc' = [workerPc EXCEPT ![i] = "loop"]
        /\ UNCHANGED <<worker_is_dead, zombies>>
    BY <1>12 DEF OpenAnswers, Return
  <2> QED BY <1>0, <1>1, <2>1 DEF Alive
<1>13. CASE \E v \in Workers : WorkerStep(v) \/ Die(v)
  <2> PICK v \in Workers : WorkerStep(v) \/ Die(v) BY <1>13
  <2>1. UNCHANGED <<jePc, i, worker_is_dead>>
    BY WorkerFrame
  <2>2. /\ Alive(v) /\ \A w \in Workers : w # v => workerPc'[w] = workerPc[w]
        /\ \/ ~Alive(v)' /\ zombies' \in {zombies, zombies \cup {v}}
           \/ Alive(v)' /\ UNCHANGED zombies
    BY WorkerFate
  <2> QED BY <1>0, <1>1, <2>1, <2>2 DEF Alive
<1>14. CASE UNCHANGED vars
  BY <1>1, <1>14, VarsFrame DEF Alive
<1> QED
  BY <1>2, <1>3, <1>4, <1>5, <1>6, <1>7, <1>8, <1>9, <1>10, <1>11, <1>12, <1>13, <1>14, StepCases
     DEF JeStep, Handler

-----------------------------------------------------------------------------

(* Rounds is about three of the loops, and each starts with nothing heard. *)
LEMMA RoundsControl ==
  ASSUME Sound, Rounds, ControlStep
  PROVE  Rounds'
<1>0. /\ back \in {"top", "dispatch", "write"} /\ command \in Commands
      /\ responded \subseteq Workers /\ ready \subseteq Workers
      /\ jePc = "replace" => back \in {"top", "dispatch"}
  BY TypeParts DEF Sound, CallTypes, CommandTypes, Control
<1> USE DEF Rounds, Awaiting, Draining, Counting, Replacing, Mid, Asking, commandVars
<1>1. CASE Top BY <1>1 DEF Top
<1>2. CASE ReadFails BY <1>2 DEF ReadFails
<1>3. CASE Dispatch BY <1>3 DEF Dispatch, Route
<1>4. CASE EndCommand BY <1>4 DEF EndCommand
<1>5. CASE ReplaceAll BY <1>0, <1>5 DEF ReplaceAll
<1>6. CASE Send BY <1>6 DEF Send
<1>7. CASE Collect BY <1>7 DEF Collect
<1>8. CASE Poll BY <1>8 DEF Poll
<1>9. CASE Take
  <2>1. CASE ready = {} \/ jobExecutor_must_terminate
    BY <2>1, <1>9 DEF Take
  <2>2. CASE ready # {} /\ ~jobExecutor_must_terminate
    BY <2>2, <1>9 DEF Take
  <2> QED BY <2>1, <2>2
<1>10. CASE Drain BY <1>10 DEF Drain
<1>11. CASE WordCount BY <1>11 DEF WordCount
<1>12. CASE Finish BY <1>12 DEF Finish
<1>13. CASE WaitForAll BY <1>13 DEF WaitForAll
<1>14. CASE \E c \in Commands : ReadCommand(c)
  <2> PICK c \in Commands : ReadCommand(c) BY <1>14
  <2> QED BY DEF ReadCommand, Route, Commands
<1> QED
  BY <1>1, <1>2, <1>3, <1>4, <1>5, <1>6, <1>7, <1>8, <1>9, <1>10, <1>11, <1>12, <1>13, <1>14
     DEF ControlStep

LEMMA RoundsNext ==
  ASSUME Sound, Rounds, [Next]_vars
  PROVE  Rounds'
<1> USE DEF Rounds, Awaiting, Draining, Counting, Replacing, Mid, Asking
<1>1. CASE ControlStep
  BY <1>1, RoundsControl
<1>2. CASE AskStep
  <2>1. UNCHANGED <<responded, ready, jobExecutor_must_terminate>>
    BY <1>2, AskFrame
  <2>2. /\ jePc \in {"write", "dirs", "exit"}
        /\ jePc' \in {"send", "openA", "write", "replace", "exitReading", "close"}
        /\ jePc = "exit" => jePc' \in {"exitReading", "close"}
    BY <1>2 DEF AskStep, Write, SendDirectories, SendExit, Return
  <2> QED BY <2>1, <2>2
<1>3. CASE AnswerStep
  <2>1. UNCHANGED <<responded, ready, jobExecutor_must_terminate>>
    BY <1>3, AnswerFrame
  <2>2. \/ UNCHANGED <<jePc, i>>
        \/ jePc = "reading" /\ jePc' = "take" /\ i' = i
        \/ jePc = "draining" /\ jePc' = "drain"
        \/ jePc = "wcReading" /\ jePc' = "wc"
        \/ jePc = "exitReading" /\ jePc' = "exit"
    BY <1>3, ReadAnswerType
       DEF Sound, AnswerStep, TakeAnswer, DrainAnswer, WordCountAnswer, ExitAnswer
  <2> QED BY <2>1, <2>2
<1>4. CASE Deadline
  BY <1>4 DEF Deadline, commandVars
<1>5. CASE Handler
  <2>1. /\ UNCHANGED <<responded, ready>>
        /\ jobExecutor_must_terminate => jobExecutor_must_terminate'
    BY <1>5 DEF Handler, handle_child_termination, handle_sig_termination, commandVars
  <2>2. \/ UNCHANGED <<jePc, i>>
        \/ jePc = "read" /\ jePc' = "interrupted"
        \/ jePc = "poll" /\ jePc' = "collect"
        \/ jePc = "exitReading" /\ jePc' = "exit"
    <3>1. interrupt => \/ jePc' = jePc
                       \/ jePc = "read" /\ jePc' = "interrupted"
                       \/ jePc = "poll" /\ jePc' = "collect"
      BY Zenon DEF interrupt
    <3> QED BY <1>5, <3>1 DEF Handler, handle_child_termination, handle_sig_termination
  <2> QED BY <2>1, <2>2
<1>6. CASE KillWorkers \/ CloseAll
  BY <1>6 DEF KillWorkers, CloseAll, commandVars
<1>7. CASE Fork \/ OpenRequests
  BY <1>7 DEF Fork, OpenRequests, commandVars
<1>8. CASE ForkFails \/ OpenAnswers
  <2>1. /\ UNCHANGED <<responded, ready, jobExecutor_must_terminate>> /\ jePc \in {"fork", "openA"}
        /\ jePc' \in {"write", "replace"}
    BY <1>8 DEF ForkFails, OpenAnswers, Return, commandVars
  <2> QED BY <2>1
<1>9. CASE \E w \in Workers : WorkerStep(w) \/ Die(w)
  <2>1. UNCHANGED <<responded, ready, jobExecutor_must_terminate, jePc, i>>
    BY <1>9, WorkerFrame
  <2> QED BY <2>1
<1>10. CASE UNCHANGED vars
  BY <1>10, VarsFrame
<1> QED BY <1>1, <1>2, <1>3, <1>4, <1>5, <1>6, <1>7, <1>8, <1>9, <1>10, StepCases DEF JeStep

-----------------------------------------------------------------------------
(* Outside replace_worker a descriptor is open for one worker. *)
LEMMA OneEnd ==
  ASSUME Sound, Active, Attached, jePc \notin Mid,
         NEW w \in Workers, NEW f \in Fds, fds[f] \in {R(w), A(w)}
  PROVE  Both(w) /\ f \in {Rfds[w], Afds[w]}
<1>1. PICK v \in Workers : f = Rfds[v] \/ f = Afds[v]
  BY EndsDiffer DEF Sound, Named
<1>2. f # -1
  BY JobExecutorAssumption DEF Fds
<1>3. Both(v)
  BY <1>1, <1>2 DEF Attached, New, None
<1> QED BY <1>1, <1>3, EndsDiffer DEF Both

(* While a worker is dead nobody has inherited anything. *)
LEMMA NothingInherited ==
  ASSUME Inherit, Active, NEW u \in Workers, ~Alive(u)
  PROVE  \A v \in Workers : inherited[v] = {}
BY DEF Inherit

(* EmptyAnswers reads from the pipe of the worker being replaced, if from any. *)
LEMMA ClosesOwn ==
  ASSUME Mortal, FdsOwn, Active, EmptyAnswers, i \in Workers
  PROVE  \E a : Pipes(requests, a) /\ \A w \in Workers : w # i => a[w] = answers[w]
<1> DEFINE e == End(Afds[i])
<1>0. answers \in AnswerQueues
  BY TypeParts DEF Mortal, Sound, PipeTypes
<1>E. e \in {A(i), Closed}
  BY TypeParts, JobExecutorAssumption DEF FdsOwn, Active, Mortal, Sound, BoundTypes
<1>1. CASE e \in {A(w) : w \in Workers} /\ answers[e[2]] # <<>>
  <2>1. PICK j \in 1..Len(answers[e[2]]) :
          Pipes(requests, [answers EXCEPT ![e[2]] = SubSeq(@, j + 1, Len(@))])
    BY <1>1 DEF EmptyAnswers
  <2>2. e = A(i) /\ e[2] = i
    BY <1>1, <1>E, EndsDiffer DEF A
  <2> DEFINE a == [answers EXCEPT ![e[2]] = SubSeq(@, j + 1, Len(@))]
  <2>3. \A w \in Workers : w # i => a[w] = answers[w]
    BY <1>0, <2>2 DEF AnswerQueues
  <2> HIDE DEF a, e
  <2> QED BY <2>1, <2>3 DEF a
<1>2. CASE ~(e \in {A(w) : w \in Workers} /\ answers[e[2]] # <<>>)
  <2>1. Pipes(requests, answers)
    BY <1>2 DEF EmptyAnswers
  <2> QED BY <2>1
<1> QED BY <1>1, <1>2

(* After the old descriptors are closed nobody has the pipes of the dead worker open: both *)
(* are empty for its replacement (jobExecutor.cpp:950-973). Those of the others are as     *)
(* before.                                                                                 *)
LEMMA ForkPipes ==
  ASSUME Owned, Flags, Inherit, Attached, Numbers', Active, Active', Fork \/ ForkFails,
         NEW j \in Workers, j = i
  PROVE  /\ requests'[j] = <<>> /\ answers'[j] = <<>>
         /\ \A w \in Workers : w # j => /\ Alive(w) /\ Both(w)'
                                        /\ requests'[w] = requests[w] /\ answers'[w] = answers[w]
<1>0. /\ Mortal /\ FdsOwn /\ jePc = "fork" /\ jePc \notin Mid /\ i \in Workers /\ ~Alive(j)
      /\ CloseOld /\ EmptyAnswers /\ jePc' \notin Ending /\ deaths' <= 2
      /\ jePc' \in Mid => i' = j
  <2>1. jePc = "fork" /\ CloseOld /\ EmptyAnswers /\ (jePc' \in Mid => i' = i)
    BY DEF Fork, ForkFails, Return, Mid
  <2>2. deaths' \in Nat
    BY TypePartsNext, DeathsGrow DEF Owned, Mortal, Next, jobExecutorStep
  <2> QED BY <2>1, <2>2 DEF Owned, Flags, Active, Over, Mid
<1>1. /\ \A f \in Fds : fds'[f] = IF f \in {Rfds[j], Afds[j]} THEN Closed ELSE fds[f]
      /\ \A w \in Workers : w # j =>
           Rfds'[w] = Rfds[w] /\ Afds'[w] = Afds[w] /\ workerPc'[w] = workerPc[w]
      /\ workerPc'[j] \in {"start", "dead"}
      /\ \A f \in Fds : fds'[f] \notin {R(j), A(j)}
  <2>1. \A f \in Fds : fds'[f] = IF f \in {Rfds[j], Afds[j]} THEN Closed ELSE fds[f]
    BY <1>0, CloseOldType DEF Mortal, Sound
  <2>2. /\ \A w \in Workers : w # j =>
             Rfds'[w] = Rfds[w] /\ Afds'[w] = Afds[w] /\ workerPc'[w] = workerPc[w]
        /\ workerPc'[j] \in {"start", "dead"}
    BY <1>0, TypeParts
       DEF Mortal, Sound, FdTypes, WorkerTypes, Fork, ForkFails, ForgetNumbers, workerVars, Alive
  <2>3. \A f \in Fds : fds'[f] \notin {R(j), A(j)}
    BY <1>0, <2>1, OneEnd, EndsDiffer DEF Mortal
  <2> QED BY <2>1, <2>2, <2>3
<1>2. PICK a : Pipes(requests, a) /\ \A w \in Workers : w # j => a[w] = answers[w]
  BY <1>0, ClosesOwn
<1>3. \A v \in Workers : inherited'[v] \cap {R(j), A(j)} = {}
  <2>1. \A v \in Workers : inherited[v] = {}
    BY <1>0, NothingInherited
  <2>2. CASE Fork
    <3>1. inherited' = [inherited EXCEPT ![i] = {fds'[f] : f \in Fds} \ {Closed}]
      BY <2>2 DEF Fork
    <3>2. \A v \in Workers : inherited'[v] \in {{}, {fds'[f] : f \in Fds} \ {Closed}}
      BY <1>0, <2>1, <3>1, TypeParts DEF Mortal, Sound, WorkerTypes
    <3> QED BY <1>1, <3>2
  <2>3. CASE ForkFails
    BY <2>1, <2>3 DEF ForkFails, workerVars
  <2> QED BY <2>2, <2>3
<1>4. requests'[j] = <<>> /\ answers'[j] = <<>>
  <2>1. ~Held(R(j))' /\ ~Held(A(j))'
    BY <1>1, <1>3 DEF Held
  <2>2. ~HasReader(j)' /\ ~HasWriter(j)'
    BY <1>1 DEF HasReader, HasWriter, Reading, Serving
  <2> QED BY <1>2, <2>1, <2>2 DEF Pipes
<1>5. ASSUME NEW w \in Workers, w # j
      PROVE  /\ Alive(w) /\ Both(w)'
             /\ requests'[w] = requests[w] /\ answers'[w] = answers[w]
  <2>1. Alive(w)
    BY <1>0, <1>5, OthersLive
  <2>2. Both(w)
    BY <1>0, <2>1 DEF Attached, New
  <2>3. Both(w)'
    <3>1. ~New(w)' /\ ~None(w)'
      BY <1>0, <1>1, <1>5, <2>2, JobExecutorAssumption DEF New, None, Both, Fds
    <3>2. ~Alone(w)'
      BY <1>1, <1>5, <2>1 DEF Alone, Alive
    <3> QED BY <1>0, <3>1, <3>2 DEF Numbers
  <2>4. Held(R(w))' /\ Held(A(w))'
    BY <2>3 DEF Both, Held
  <2> QED BY <1>2, <1>5, <2>1, <2>3, <2>4 DEF Pipes
<1> QED BY <1>4, <1>5

(* Only Fork hands on ends, at the only death. *)
LEMMA InheritNext ==
  ASSUME Owned, Flags, Inherit, Active, Active', [Next]_vars
  PROVE  Inherit'
<1>0. /\ Mortal /\ deaths \in Nat
      /\ workerPc \in [Workers -> WorkerPcs] /\ inherited \in [Workers -> SUBSET Ends]
      /\ (jePc \in Mid \cup {"fork"} => i \in Workers)
  BY TypeParts, JobExecutorAssumption
     DEF Owned, Mortal, Sound, BoundTypes, WorkerTypes, CallTypes, Indexing, Mid
<1>1. \A v \in Workers : inherited[v] # {} =>
        deaths >= 1 /\ (\A u \in Workers : Alive(u)) /\ (jePc \in Mid => v = i)
  BY DEF Inherit
<1> SUFFICES ASSUME NEW v \in Workers, inherited'[v] # {}
             PROVE  deaths' >= 1 /\ (\A u \in Workers : Alive(u)') /\ (jePc' \in Mid => v = i')
  BY DEF Inherit
<1>2. CASE JeStep
  <2>1. UNCHANGED <<workerPc, inherited, deaths>>
    BY <1>0, <1>2, JeFrame DEF Mortal, Sound
  <2>2. jePc' \in Mid => jePc \in Mid /\ i' = i
    BY <1>0, <1>2, JeFrame DEF Mortal, Sound, Mid
  <2> QED BY <1>1, <2>1, <2>2 DEF Alive
<1>3. CASE KillWorkers \/ CloseAll
  BY <1>3 DEF KillWorkers, CloseAll, Active, Over, Ending
<1>4. CASE Fork
  <2>1. /\ jePc = "fork" /\ i' = i /\ deaths' = deaths /\ ~Alive(i)
        /\ workerPc' = [workerPc EXCEPT ![i] = "start"]
        /\ \E x : inherited' = [inherited EXCEPT ![i] = x]
    BY <1>4 DEF Fork, boundVars
  <2>2. \A u \in Workers : inherited[u] = {}
    BY <1>0, <2>1, NothingInherited
  <2>3. v = i
    BY <1>0, <2>1, <2>2
  <2>4. deaths = 1 /\ \A u \in Workers : u # i => Alive(u)
    BY <1>0, <2>1, OthersLive
  <2> QED BY <1>0, <2>1, <2>3, <2>4 DEF Alive
<1>5. CASE ForkFails
  <2>1. UNCHANGED <<workerPc, inherited, deaths>> /\ jePc' \notin Mid
    BY <1>5 DEF ForkFails, workerVars, Return, Mid
  <2> QED BY <1>1, <2>1 DEF Alive
<1>6. CASE OpenRequests
  <2>1. /\ jePc = "openR" /\ i' = i /\ UNCHANGED <<inherited, deaths>>
        /\ workerPc' = [workerPc EXCEPT ![i] = "dirs"]
    BY <1>6 DEF OpenRequests, boundVars
  <2> QED BY <1>0, <1>1, <2>1 DEF Alive, Mid
<1>7. CASE OpenAnswers
  <2>1. /\ jePc = "openA" /\ UNCHANGED <<inherited, deaths>> /\ jePc' \notin Mid
        /\ workerPc' = [workerPc EXCEPT ![i] = "loop"]
    BY <1>7 DEF OpenAnswers, boundVars, Return, Mid
  <2> QED BY <1>0, <1>1, <2>1 DEF Alive, Mid
<1>8. CASE \E u \in Workers : WorkerStep(u) \/ Die(u)
  <2> PICK u \in Workers : WorkerStep(u) \/ Die(u) BY <1>8
  <2>1. UNCHANGED <<jePc, i>>
    BY WorkerFrame
  <2>2. CASE /\ Alive(u) /\ ~Alive(u)' /\ inherited' = [inherited EXCEPT ![u] = {}]
             /\ \/ deaths = 0 /\ deaths' = 1 /\ jePc \notin Mid
                \/ deaths' = deaths /\ jePc = "openR" /\ i = u
    BY <1>0, <1>1, <2>2 DEF Mid
  <2>3. CASE /\ Alive(u)' /\ UNCHANGED <<inherited, deaths>>
             /\ \A w \in Workers : w # u => workerPc'[w] = workerPc[w]
    BY <1>1, <2>1, <2>3 DEF Alive
  <2> QED BY <1>0, <2>2, <2>3, WorkerFate
<1>9. CASE UNCHANGED vars
  BY <1>1, <1>9, VarsFrame DEF Alive
<1> QED BY <1>2, <1>3, <1>4, <1>5, <1>6, <1>7, <1>8, <1>9, StepCases

-----------------------------------------------------------------------------
(* What a read of an answer takes from the pipe, and when jobExecutor goes on: after the *)
(* last message of the answer, or when there is nobody to write more.                    *)
LEMMA AnswerPops ==
  ASSUME Mortal, FdsOwn, Active, AnswerStep
  PROVE  /\ i \in Workers
         /\ \/ /\ Readable(i) /\ End(Afds[i]) = A(i) /\ answers[i] # <<>>
               /\ answers' = [answers EXCEPT ![i] = Tail(@)]
               /\ MoreToCome(Head(answers[i])) => UNCHANGED <<jePc, i>>
               /\ ~MoreToCome(Head(answers[i])) =>
                    \/ jePc = "reading" /\ jePc' = "take" /\ i' = i
                    \/ jePc = "draining" /\ jePc' = "drain" /\ i' = i + 1
                    \/ jePc = "wcReading" /\ jePc' = "wc" /\ i' = i + 1
            \/ /\ UNCHANGED answers
               /\ \/ End(Afds[i]) = A(i) /\ answers[i] = <<>> /\ ~HasWriter(i)
                  \/ End(Afds[i]) = Closed
               /\ \/ jePc = "reading" /\ jePc' = "take" /\ i' = i
                  \/ jePc = "draining" /\ jePc' = "drain" /\ i' = i + 1
                  \/ jePc = "wcReading" /\ jePc' = "wc" /\ i' = i + 1
<1>1. PICK done, next :
        /\ ReadAnswer(done, next)
        /\ \/ jePc = "reading" /\ done = "take" /\ next = i
           \/ jePc = "draining" /\ done = "drain" /\ next = i + 1
           \/ jePc = "wcReading" /\ done = "wc" /\ next = i + 1
  <2>1. CASE TakeAnswer BY <2>1 DEF TakeAnswer
  <2>2. CASE DrainAnswer BY <2>2 DEF DrainAnswer
  <2>3. CASE WordCountAnswer BY <2>3 DEF WordCountAnswer
  <2>4. CASE ExitAnswer BY <2>4 DEF ExitAnswer, Active, Over, Ending
  <2> QED BY <2>1, <2>2, <2>3, <2>4 DEF AnswerStep
<1>2. i \in Workers
  BY <1>1, TypeParts DEF Mortal, Sound, CallTypes, Indexing
<1> DEFINE e == End(Afds[i])
<1>3. e \in {A(i), Closed}
  BY <1>2, TypeParts, JobExecutorAssumption DEF FdsOwn, Active, Mortal, Sound, BoundTypes
<1>4. CASE e = A(i)
  <2>1. e \in {A(v) : v \in Workers} /\ e[2] = i
    BY <1>2, <1>4 DEF A
  <2>2. Readable(i) <=> answers[i] # <<>>
    BY <2>1 DEF Readable
  <2> QED BY <1>1, <1>2, <1>4, <2>1, <2>2 DEF ReadAnswer
<1>5. CASE e = Closed
  <2>1. ~Readable(i)
    BY <1>5, EndsDiffer DEF Readable
  <2> QED BY <1>1, <1>2, <1>5, <2>1 DEF ReadAnswer
<1> QED BY <1>3, <1>4, <1>5

(* A worker touches its own pipes. *)
LEMMA WorkerShape ==
  ASSUME TypeOK, NEW v \in Workers, WorkerStep(v) \/ Die(v)
  PROVE  /\ \A w \in Workers : w # v => asked'[w] = asked[w]
         /\ \E q, a : /\ \A w \in Workers : w # v => q[w] = requests[w] /\ a[w] = answers[w]
                      /\ (requests' = q /\ answers' = a) \/ Gone(v, q, a)
<1>0. /\ requests \in RequestQueues /\ answers \in AnswerQueues /\ asked \in [Workers -> Nat]
  BY TypeParts DEF PipeTypes, WorkerTypes
<1> DEFINE q0 == [requests EXCEPT ![v] = Tail(@)]
           Other(q, a) == \A w \in Workers : w # v => q[w] = requests[w] /\ a[w] = answers[w]
           Kept == \A w \in Workers : w # v => asked'[w] = asked[w]
<1>A. \A kind, number : \A w \in Workers : w # v => Answer(v, kind, number)[w] = answers[w]
  BY <1>0 DEF Answer, AnswerQueues
<1>B. Other(requests, answers) /\ Other(q0, answers)
      /\ \A kind, number : Other(requests, Answer(v, kind, number)) /\ Other(q0, Answer(v, kind, number))
  BY <1>0, <1>A DEF RequestQueues
<1>G. ASSUME NEW q, NEW a, Gone(v, q, a)
      PROVE  Kept
  BY <1>0, <1>G DEF Gone
<1>C. ASSUME NEW q, NEW a, Continues(v, q, a)
      PROVE  Kept /\ ((requests' = q /\ answers' = a) \/ Gone(v, q, a))
  <2>1. CASE worker_must_terminate[v]
    BY <1>C, <1>G, <2>1 DEF Continues, Ended
  <2>2. CASE ~worker_must_terminate[v]
    BY <1>0, <1>C, <2>2 DEF Continues
  <2> QED BY <2>1, <2>2
<1>1. CASE ReadDirectories(v)
  <2>1. requests' = q0 /\ answers' = answers /\ asked' = asked
    BY <1>1 DEF ReadDirectories
  <2> QED BY <1>B, <2>1
<1>2. CASE AnswerRequest(v)
  <2>1. PICK a : /\ a = answers \/ \E kind, number : a = Answer(v, kind, number)
                 /\ Continues(v, q0, a) \/ Gone(v, q0, a)
    BY <1>2 DEF AnswerRequest, Ended
  <2> HIDE DEF q0, Other, Kept
  <2>2. Other(q0, a)
    BY <1>B, <2>1
  <2>3. Kept /\ ((requests' = q0 /\ answers' = a) \/ Gone(v, q0, a))
    BY <1>C, <1>G, <2>1
  <2> QED BY <2>2, <2>3 DEF Other, Kept
<1>3. CASE StartSearch(v)
  <2>1. Gone(v, q0, answers) \/ (requests' = q0 /\ answers' = answers /\ Kept)
    BY <1>0, <1>3 DEF StartSearch, Ended
  <2> HIDE DEF q0, Other, Kept
  <2>2. Kept
    BY <1>G, <2>1
  <2> QED BY <1>B, <2>1, <2>2 DEF Other, Kept
<1>4. CASE FindLine(v)
  <2>1. requests' = requests /\ answers' = Answer(v, "line", asked[v]) /\ Kept
    BY <1>4 DEF FindLine
  <2> QED BY <1>B, <2>1
<1>5. CASE EndSearch(v)
  <2>1. PICK a : /\ a = answers \/ \E kind, number : a = Answer(v, kind, number)
                 /\ Continues(v, requests, a)
    BY <1>5 DEF EndSearch
  <2> HIDE DEF q0, Other, Kept
  <2>2. Other(requests, a)
    BY <1>B, <2>1
  <2>3. Kept /\ ((requests' = requests /\ answers' = a) \/ Gone(v, requests, a))
    BY <1>C, <2>1
  <2> QED BY <2>2, <2>3 DEF Other, Kept
<1>6. CASE EndOfRequests(v) \/ NoExecutable(v) \/ Die(v)
  <2>1. Gone(v, requests, answers)
    BY <1>6 DEF EndOfRequests, NoExecutable, Die, Ended
  <2> HIDE DEF Other, Kept
  <2>2. Kept
    BY <1>G, <2>1
  <2> QED BY <1>B, <2>1, <2>2 DEF Other, Kept
<1> QED BY <1>1, <1>2, <1>3, <1>4, <1>5, <1>6 DEF WorkerStep

(* ... and its end empties none of another. *)
LEMMA WorkerLeaves ==
  ASSUME Owned, Attached, Active, Active', NEW v \in Workers, WorkerStep(v) \/ Die(v),
         NEW w \in Workers, w # v
  PROVE  /\ workerPc'[w] = workerPc[w] /\ asked'[w] = asked[w]
         /\ requests'[w] = requests[w] /\ answers'[w] = answers[w]
<1>0. Mortal /\ Sound /\ UNCHANGED <<fds, Rfds, Afds>>
  BY WorkerFrame DEF Owned, Mortal
<1>1. workerPc'[w] = workerPc[w]
  BY <1>0, WorkerFate
<1>2. asked'[w] = asked[w]
  BY <1>0, WorkerShape DEF Sound
<1>3. PICK q, a : /\ q[w] = requests[w] /\ a[w] = answers[w]
                  /\ (requests' = q /\ answers' = a) \/ Gone(v, q, a)
  BY <1>0, WorkerShape DEF Sound
<1>4. CASE requests' = q /\ answers' = a
  BY <1>1, <1>2, <1>3, <1>4
<1>5. CASE Gone(v, q, a)
  <2>1. ~Alive(v)'
    BY <1>0, <1>5, TypeParts DEF Gone, Alive, Sound, WorkerTypes
  <2>2. Alive(w) /\ ~New(w)
    BY <1>0, <2>1, WorkerFate DEF New, Mid
  <2>3. Both(w)
    BY <2>2 DEF Attached
  <2>4. Held(R(w))' /\ Held(A(w))'
    BY <1>0, <2>3 DEF Both, Held
  <2>5. Pipes(q, a)
    BY <1>5 DEF Gone
  <2> QED BY <1>1, <1>2, <1>3, <2>4, <2>5 DEF Pipes
<1> QED BY <1>3, <1>4, <1>5

(* Attached is kept: ForkFails leaves a worker with neither pipe, the opens one with both. *)
LEMMA AttachedNext ==
  ASSUME Owned, Owned', Flags, Inherit, Attached, Active, Active', [Next]_vars
  PROVE  Attached'
<1>0. /\ Mortal /\ FdsOwn /\ Numbers' /\ deaths \in Nat /\ workerPc \in [Workers -> WorkerPcs]
      /\ jePc \in Mid \cup {"fork"} => i \in Workers
      /\ Rfds \in [Workers -> Fds \cup {-1}] /\ Afds \in [Workers -> Fds \cup {-1}]
  BY TypeParts, JobExecutorAssumption
     DEF Owned, Mortal, Sound, BoundTypes, WorkerTypes, FdTypes, CallTypes, Indexing, Mid
<1> SUFFICES ASSUME NEW w \in Workers, ~New(w)', None(w)'
             PROVE  ~Alive(w)' /\ answers'[w] = <<>>
  <2>1. ASSUME NEW w \in Workers, ~New(w)'
        PROVE  Both(w)' \/ None(w)'
    <3>1. deaths' \in Nat
      BY <1>0, DeathsGrow DEF Mortal
    <3>2. deaths' <= 2 /\ deaths' # 2 /\ jePc' \notin Ending
      BY <3>1 DEF Active, Over
    <3> QED BY <1>0, <2>1, <3>2 DEF Numbers, Alone
  <2> QED BY <2>1 DEF Attached
<1>1. ~New(w) /\ None(w) => ~Alive(w) /\ answers[w] = <<>>
  BY JobExecutorAssumption DEF Attached, None, Both, Fds
<1>N. ASSUME jePc \in Mid \cup {"fork"}, w # i
      PROVE  ~New(w) /\ ~None(w)
  <2>1. jePc = "fork" => ~Alive(i)
    BY DEF Flags
  <2>2. Alive(w)
    BY <1>0, <1>N, <2>1, OthersLive
  <2> QED BY <1>1, <1>N, <2>2 DEF New
<1>2. CASE JeStep
  <2>1. UNCHANGED <<workerPc, Rfds, Afds>>
    BY <1>0, <1>2, JeFrame DEF Mortal, Sound
  <2>2. ~(jePc = "dirs" /\ ~HasReader(i))
    BY <1>0, ReadsDirectories
  <2>3. ~New(w)
    BY <1>0, <1>2, <2>2, JeFrame DEF Mortal, Sound, New, Mid
  <2>4. None(w)
    BY <2>1 DEF None
  <2>5. answers'[w] = answers[w]
    <3>1. CASE AnswerStep
      BY <1>0, <1>1, <2>3, <2>4, <3>1, AnswerPops, TypeParts
         DEF Mortal, Sound, PipeTypes, AnswerQueues
    <3>2. CASE ~AnswerStep
      BY <1>2, <3>2, ControlFrame, AskFrame, HandlerFrame DEF JeStep, Deadline, pipeVars
    <3> QED BY <3>1, <3>2
  <2> QED BY <1>1, <2>1, <2>3, <2>4, <2>5 DEF Alive
<1>3. CASE KillWorkers \/ CloseAll
  BY <1>3 DEF KillWorkers, CloseAll, Active, Over, Ending
<1>4. CASE Fork
  <2>1. jePc = "fork" /\ jePc' = "openR" /\ i' = i /\ UNCHANGED <<Rfds, Afds>>
    BY <1>4 DEF Fork
  <2> QED BY <1>0, <1>N, <2>1 DEF New, None, Mid
<1>5. CASE ForkFails
  <2>1. /\ jePc = "fork" /\ workerPc' = workerPc
        /\ Rfds' = [Rfds EXCEPT ![i] = -1] /\ Afds' = [Afds EXCEPT ![i] = -1]
    BY <1>5 DEF ForkFails, ForgetNumbers, workerVars
  <2>2. w = i
    BY <1>0, <1>N, <2>1 DEF None
  <2>3. ~Alive(i)
    BY <2>1 DEF Flags
  <2>4. answers'[w] = <<>>
    BY <1>0, <1>5, <2>2, ForkPipes
  <2> QED BY <2>1, <2>2, <2>3, <2>4 DEF Alive
<1>6. CASE OpenRequests
  <2>1. /\ jePc = "openR" /\ jePc' = "dirs" /\ i' = i
        /\ Rfds' = [Rfds EXCEPT ![i] = LowestFree] /\ Afds' = Afds
    BY <1>6 DEF OpenRequests
  <2> QED BY <1>0, <1>N, <2>1 DEF New, None, Mid
<1>7. CASE OpenAnswers
  <2>1. /\ jePc = "openA" /\ Afds' = [Afds EXCEPT ![i] = LowestFree] /\ Rfds' = Rfds
    BY <1>7 DEF OpenAnswers
  <2>2. LowestFree \in Fds
    BY <1>0, <2>1, LowestFreeIs DEF Mortal, Sound
  <2> QED BY <1>0, <1>N, <2>1, <2>2, JobExecutorAssumption DEF None, Mid, Fds
<1>8. CASE \E v \in Workers : WorkerStep(v) \/ Die(v)
  <2> PICK v \in Workers : WorkerStep(v) \/ Die(v) BY <1>8
  <2>1. UNCHANGED <<jePc, i, Rfds, Afds>>
    BY WorkerFrame
  <2>2. ~Alive(w) /\ answers[w] = <<>>
    BY <1>1, <2>1 DEF New, None
  <2>3. w # v
    BY <1>0, <2>2, WorkerFate
  <2> QED BY <2>2, <2>3, WorkerLeaves DEF Alive
<1>9. CASE UNCHANGED vars
  BY <1>1, <1>9, VarsFrame DEF Alive, New, None
<1> QED BY <1>2, <1>3, <1>4, <1>5, <1>6, <1>7, <1>8, <1>9, StepCases

-----------------------------------------------------------------------------
(* A search answers with lines and a last message: s has lines x only, or is complete with *)
(* y.                                                                                      *)
OnlyLines(s, x) == \A k \in 1..Len(s) : s[k] = x
Complete(s, x, y) == Len(s) > 0 /\ s[Len(s)] = y /\ \A k \in 1..(Len(s) - 1) : s[k] = x

(* Writing to such an answer and reading from it. *)
LEMMA OneMoreLine ==
  ASSUME NEW S, NEW s \in Seq(S), NEW x \in S, OnlyLines(s, x)
  PROVE  OnlyLines(Append(s, x), x) /\ Append(s, x) # <<>>
<1>1. /\ Append(s, x) \in Seq(S) /\ Len(Append(s, x)) = Len(s) + 1 /\ Append(s, x) # <<>>
      /\ \A k \in 1..Len(s) : Append(s, x)[k] = s[k]
      /\ Append(s, x)[Len(s) + 1] = x
  BY AppendProperties
<1> QED BY <1>1, LenProperties DEF OnlyLines

LEMMA LastMessage ==
  ASSUME NEW S, NEW s \in Seq(S), NEW x, NEW y \in S, OnlyLines(s, x)
  PROVE  Complete(Append(s, y), x, y) /\ (Len(Append(s, y)) > 1 => s # <<>>)
<1>1. /\ Append(s, y) \in Seq(S) /\ Len(Append(s, y)) = Len(s) + 1
      /\ \A k \in 1..Len(s) : Append(s, y)[k] = s[k]
      /\ Append(s, y)[Len(s) + 1] = y
  BY AppendProperties
<1>2. Len(s) \in Nat /\ (s = <<>> => Len(s) = 0)
  BY LenProperties, EmptySeq
<1> QED BY <1>1, <1>2 DEF OnlyLines, Complete

LEMMA TakeLine ==
  ASSUME NEW S, NEW s \in Seq(S), NEW x, OnlyLines(s, x), s # <<>>
  PROVE  Head(s) = x /\ OnlyLines(Tail(s), x)
<1>1. /\ Tail(s) \in Seq(S) /\ Len(Tail(s)) = Len(s) - 1 /\ Len(s) \in Nat /\ Len(s) > 0
      /\ \A k \in 1..Len(Tail(s)) : Tail(s)[k] = s[k + 1]
      /\ Head(s) = s[1]
  BY HeadTailProperties, LenProperties, EmptySeq
<1> QED BY <1>1 DEF OnlyLines

LEMMA TakeMessage ==
  ASSUME NEW S, NEW s \in Seq(S), NEW x, NEW y, Complete(s, x, y)
  PROVE  /\ s # <<>>
         /\ \/ Len(s) = 1 /\ Head(s) = y /\ Tail(s) = <<>>
            \/ Len(s) > 1 /\ Head(s) = x /\ Tail(s) # <<>> /\ Complete(Tail(s), x, y)
<1>0. s # <<>>
  BY EmptySeq DEF Complete
<1> DEFINE m == Len(s)
           t == Tail(s)
<1>1. /\ m \in Nat /\ m > 0 /\ t \in Seq(S) /\ Len(t) = m - 1 /\ Head(s) = s[1]
      /\ \A k \in 1..Len(t) : t[k] = s[k + 1]
  BY <1>0, HeadTailProperties, LenProperties DEF Complete
<1>2. s[m] = y /\ \A k \in 1..(m - 1) : s[k] = x
  BY DEF Complete
<1>3. t = <<>> <=> Len(t) = 0
  BY <1>1, EmptySeq
<1> HIDE DEF m, t
<1>4. ASSUME m = 1
      PROVE  Head(s) = y /\ t = <<>>
  <2>1. Len(t) = 0 /\ Head(s) = y
    BY <1>1, <1>2, <1>4
  <2>2. t = <<>>
    BY <1>3, <2>1, Zenon
  <2> QED BY <2>1, <2>2
<1>5. ASSUME m > 1
      PROVE  Head(s) = x /\ t # <<>> /\ Complete(t, x, y)
  <2>1. \A k \in 1..(Len(t) - 1) : t[k] = x
    <3> SUFFICES ASSUME NEW k \in 1..(Len(t) - 1)
                 PROVE  t[k] = x
      OBVIOUS
    <3>1. k \in 1..Len(t) /\ k + 1 \in 1..(m - 1)
      BY <1>1
    <3> QED BY <1>1, <1>2, <3>1
  <2>2. t[Len(t)] = y
    <3>1. Len(t) \in 1..Len(t) /\ Len(t) + 1 = m
      BY <1>1, <1>5
    <3> QED BY <1>1, <1>2, <3>1
  <2>3. Len(t) > 0 /\ Len(t) # 0 /\ Head(s) = x
    BY <1>1, <1>2, <1>5
  <2>4. t # <<>>
    BY <1>3, <2>3, Zenon
  <2>5. Complete(t, x, y)
    BY <2>1, <2>2, <2>3 DEF Complete
  <2> QED BY <2>3, <2>4, <2>5
<1>6. m = 1 \/ m > 1
  BY <1>1
<1> QED BY <1>0, <1>4, <1>5, <1>6 DEF m, t

-----------------------------------------------------------------------------
(* Worker w has been asked and its answer not been read, by where jobExecutor is in its *)
(* loops (jobExecutor.cpp:346-708, 780-900).                                            *)
Due(w) ==
  \/ jePc \in Asking /\ w < i
  \/ jePc \in Replacing /\ back = "write" /\ w < i
  \/ jePc \in Awaiting /\ w \notin responded
  \/ jePc = "reading" /\ w = i
  \/ jePc \in Draining /\ w >= i /\ w \notin responded
  \/ jePc \in Counting /\ w >= i

(* What w says, and what is left of its answer in its pipe: lines only, or all of it. *)
Message(kind, w) == [kind |-> kind, from |-> w, n |-> n]
Last == IF command = "search" THEN "end" ELSE command
Lines(w) == OnlyLines(answers[w], Message("line", w)) /\ (answers[w] # <<>> => command = "search")
Whole(w) == /\ Complete(answers[w], Message("line", w), Message(Last, w))
            /\ Len(answers[w]) > 1 => command = "search"

(* A worker waits for a request with both pipes empty; has its request, is at it, or has *)
(* answered; or is being started.                                                        *)
Calm(w) == workerPc[w] = "loop" /\ requests[w] = <<>> /\ answers[w] = <<>>
Pending(w) ==
  \/ /\ workerPc[w] = "loop" /\ answers[w] = <<>>
     /\ requests[w] = <<[kind |-> command, n |-> n]>>
  \/ /\ workerPc[w] \in {"search", "searched"} /\ requests[w] = <<>> /\ asked[w] = n
     /\ command = "search" /\ Lines(w)
  \/ workerPc[w] = "loop" /\ requests[w] = <<>> /\ Whole(w)
Starting(w) ==
  /\ answers[w] = <<>>
  /\ jePc = "openR" => requests[w] = <<>> /\ workerPc[w] \in {"start", "dead"}
  /\ jePc = "dirs"  => requests[w] = <<>> /\ workerPc[w] = "dirs"
  /\ jePc = "openA" => \/ workerPc[w] = "dirs" /\ requests[w] = <<[kind |-> "dirs", n |-> n]>>
                       \/ workerPc[w] = "openA" /\ requests[w] = <<>>
(* A dead worker whose answer is not waited for may have left one: it is flagged, or its *)
(* replacement empties the pipe.                                                         *)
Excused(w) == \/ worker_is_dead[w] /\ ~(jePc = "write" /\ i = w)
              \/ jePc = "fork" /\ i = w

(* Where the conversation with worker w is. *)
Talk(w) ==
  /\ New(w) => Starting(w)
  /\ ~New(w) /\ Due(w) /\ Alive(w) => Pending(w)
  /\ ~New(w) /\ Due(w) /\ ~Alive(w) => Lines(w) \/ Whole(w)
  /\ ~New(w) /\ ~Due(w) /\ Alive(w) => Calm(w)
  /\ ~New(w) /\ ~Due(w) /\ ~Alive(w) => answers[w] = <<>> \/ Excused(w)
Conversation == Active => \A w \in Workers : Talk(w)

(* A worker that nobody touches is where it was. *)
LEMMA Unmoved ==
  ASSUME NEW w \in Workers, UNCHANGED <<command, n>>,
         workerPc'[w] = workerPc[w], asked'[w] = asked[w],
         requests'[w] = requests[w], answers'[w] = answers[w]
  PROVE  /\ Alive(w)' <=> Alive(w)
         /\ Lines(w) => Lines(w)'
         /\ Whole(w) => Whole(w)'
         /\ Pending(w) => Pending(w)'
         /\ Calm(w) => Calm(w)'
<1>1. UNCHANGED <<Message("line", w), Message(Last, w)>>
  BY DEF Message, Last
<1>2. Lines(w) => Lines(w)'
  BY <1>1 DEF Lines
<1>3. Whole(w) => Whole(w)'
  BY <1>1 DEF Whole
<1>4. Pending(w) => Pending(w)'
  <2>1. CASE /\ workerPc[w] = "loop" /\ answers[w] = <<>>
             /\ requests[w] = <<[kind |-> command, n |-> n]>>
    BY <2>1 DEF Pending
  <2>2. CASE /\ workerPc[w] \in {"search", "searched"} /\ requests[w] = <<>> /\ asked[w] = n
             /\ command = "search" /\ Lines(w)
    BY <1>2, <2>2 DEF Pending
  <2>3. CASE workerPc[w] = "loop" /\ requests[w] = <<>> /\ Whole(w)
    BY <1>3, <2>3 DEF Pending
  <2> QED BY <2>1, <2>2, <2>3 DEF Pending
<1> QED BY <1>2, <1>3, <1>4 DEF Alive, Calm

LEMMA TalkKept ==
  ASSUME NEW w \in Workers, Talk(w), UNCHANGED <<command, n>>,
         workerPc'[w] = workerPc[w], asked'[w] = asked[w],
         requests'[w] = requests[w], answers'[w] = answers[w],
         ~New(w), ~New(w)', Due(w)' <=> Due(w), Excused(w) => Excused(w)'
  PROVE  Talk(w)'
BY Unmoved DEF Talk

(* A round ends only when nobody is due but the dead. *)
LEMMA ControlDue ==
  ASSUME Sound, Flags, Rounds, Active, Active', ControlStep, NEW w \in Workers
  PROVE  /\ Due(w)' => Due(w) /\ UNCHANGED <<command, n>>
         /\ Due(w) /\ ~Due(w)' => ~Alive(w) /\ Excused(w)'
         /\ Excused(w) => Excused(w)'
<1>0. /\ i \in 0..numWorkers /\ back \in {"top", "dispatch", "write"} /\ command \in Commands
      /\ numWorkers \in Nat \ {0} /\ w \in 0..(numWorkers - 1) /\ 0 \in Workers
      /\ jePc = "replace" => back \in {"top", "dispatch"}
      /\ worker_is_dead \in [Workers -> BOOLEAN]
      /\ responded \subseteq Workers /\ ready \subseteq Workers
  BY TypeParts, JobExecutorAssumption DEF Sound, CallTypes, CommandTypes, FlagTypes, Control,
     Workers
<1>1. \A v \in Workers : worker_is_dead[v] => ~Alive(v)
  BY DEF Flags
<1> USE DEF Due, Excused, Asking, Replacing, Mid, Awaiting, Draining, Counting, commandVars,
   deadVars
<1>2. CASE Top BY <1>2 DEF Top
<1>3. CASE ReadFails BY <1>3 DEF ReadFails
<1>4. CASE Dispatch BY <1>0, <1>4 DEF Dispatch, Route
<1>5. CASE EndCommand BY <1>5 DEF EndCommand
<1>6. CASE ReplaceAll BY <1>0, <1>6 DEF ReplaceAll, Unflagged
<1>7. CASE Send
  <2>1. /\ jePc = "send" /\ responded = {} /\ UNCHANGED <<command, n, responded>>
        /\ jePc' # "finish"
    BY <1>7 DEF Send, Rounds, Active, Over
  <2>2. CASE i < numWorkers /\ ~jobExecutor_must_terminate
    <3>1. /\ i' = i
          /\ \/ /\ worker_is_dead[i] /\ jePc' = "fork" /\ back' = "write"
                /\ worker_is_dead' = [worker_is_dead EXCEPT ![i] = FALSE]
             \/ ~worker_is_dead[i] /\ jePc' = "write" /\ UNCHANGED worker_is_dead
      BY <1>7, <2>2 DEF Send, Unflagged
    <3>2. Due(w)' <=> Due(w)
      BY <2>1, <3>1
    <3>3. Excused(w) => Excused(w)'
      BY <1>0, <2>1, <3>1
    <3> QED BY <2>1, <3>2, <3>3
  <2>3. CASE ~(i < numWorkers /\ ~jobExecutor_must_terminate)
    <3>1. i' = 0 /\ jePc' \in {"wc", "collect"} /\ i = numWorkers /\ UNCHANGED worker_is_dead
      BY <1>0, <1>7, <2>1, <2>3 DEF Send
    <3>2. Due(w) /\ Due(w)'
      BY <1>0, <2>1, <3>1
    <3> QED BY <2>1, <3>1, <3>2
  <2> QED BY <2>2, <2>3
<1>8. CASE Collect
  <2>1. jePc = "collect" /\ jePc' # "finish" /\ UNCHANGED <<command, n, worker_is_dead>>
    BY <1>8 DEF Collect, Active, Over
  <2>2. \/ responded = Workers /\ jePc' = "end"
        \/ /\ responded' = responded \cup Dead
           /\ \/ responded' = Workers /\ jePc' = "end"
              \/ jePc' = "poll"
    BY <1>8, <2>1 DEF Collect
  <2>3. w \in Dead => worker_is_dead[w] /\ ~Alive(w)
    BY <1>1 DEF Dead
  <2> QED BY <1>0, <2>1, <2>2, <2>3
<1>9. CASE Poll BY <1>9 DEF Poll
<1>10. CASE Take BY <1>10, LeastReady DEF Take, Rounds, Sound
<1>11. CASE Drain BY <1>0, <1>11 DEF Drain
<1>12. CASE WordCount BY <1>0, <1>1, <1>12 DEF WordCount, Active, Over
<1>13. CASE Finish BY <1>13 DEF Finish, Active, Over, Ending
<1>14. CASE WaitForAll BY <1>14 DEF WaitForAll, Active, Over, Ending
<1>15. CASE \E c \in Commands : ReadCommand(c)
  <2> PICK c \in Commands : ReadCommand(c) BY <1>15
  <2> QED BY <1>0 DEF ReadCommand, Route, Commands
<1> QED
  BY <1>2, <1>3, <1>4, <1>5, <1>6, <1>7, <1>8, <1>9, <1>10, <1>11, <1>12, <1>13, <1>14, <1>15
     DEF ControlStep

(* Everything the theorems need. *)
World == Owned /\ Flags /\ Inherit /\ Attached /\ Rounds /\ Conversation

(* The conversation is kept by jobExecutor's steps, ... *)
LEMMA ControlTalk ==
  ASSUME World, Active, Active', ControlStep, NEW w \in Workers
  PROVE  Talk(w)'
<1>1. UNCHANGED <<workerPc, asked, requests, answers>>
  BY ControlFrame
<1>2. ~New(w) /\ ~New(w)'
  BY ControlOutside DEF World, Owned, Mortal, Sound, New
<1>3. Talk(w)
  BY DEF World, Conversation
<1>4. /\ Due(w)' => Due(w) /\ UNCHANGED <<command, n>>
      /\ Due(w) /\ ~Due(w)' => ~Alive(w) /\ Excused(w)'
      /\ Excused(w) => Excused(w)'
  BY ControlDue DEF World, Owned, Mortal
<1>5. CASE Due(w)'
  BY <1>1, <1>2, <1>3, <1>4, <1>5, TalkKept
<1>6. CASE ~Due(w)'
  <2>1. Alive(w) => Calm(w)
    BY <1>2, <1>3, <1>4, <1>6 DEF Talk
  <2>2. ~Alive(w) => answers[w] = <<>> \/ Excused(w)'
    BY <1>2, <1>3, <1>4, <1>6 DEF Talk
  <2> QED BY <1>1, <1>2, <1>6, <2>1, <2>2 DEF Talk, Alive, Calm
<1> QED BY <1>5, <1>6

LEMMA WriteTalk ==
  ASSUME World, Active, Active', Write, NEW w \in Workers
  PROVE  Talk(w)'
<1>0. /\ Mortal /\ FdsOwn /\ Sound /\ jePc = "write" /\ i \in Workers /\ deaths <= 2
      /\ requests \in RequestQueues /\ jePc \notin Mid
  BY TypeParts, JobExecutorAssumption
     DEF World, Owned, Mortal, Sound, Write, CallTypes, Indexing, PipeTypes, BoundTypes, Active,
        Mid
<1>1. /\ jePc' = "send" /\ i' = i + 1 /\ Request(command)
      /\ UNCHANGED <<back, command, n, responded, worker_is_dead, answers, workerPc, asked>>
  BY DEF Write, commandVars, deadVars, elsewhere, workerVars
<1>2. ~New(w) /\ ~New(w)' /\ Talk(w)
  BY <1>0, <1>1 DEF World, Conversation, New, Mid
<1>3. CASE w # i
  <2>1. requests'[w] = requests[w]
    <3>1. End(Rfds[i]) \in {R(i), Closed}
      BY <1>0 DEF FdsOwn
    <3>2. End(Rfds[i]) = R(i) => End(Rfds[i])[2] = i
      BY DEF R
    <3>3. End(Rfds[i]) = Closed => requests' = requests
      BY <1>1, EndsDiffer DEF Request
    <3> QED BY <1>0, <1>1, <1>3, <3>1, <3>2, <3>3 DEF Request, RequestQueues
  <2>2. Due(w)' <=> Due(w)
    BY <1>0, <1>1, <1>3, JobExecutorAssumption
       DEF Due, Asking, Replacing, Mid, Awaiting, Draining, Counting, Workers
  <2>3. Excused(w) => Excused(w)'
    BY <1>0, <1>1 DEF Excused
  <2> QED BY <1>1, <1>2, <2>1, <2>2, <2>3, TalkKept
<1>4. CASE w = i
  <2>1. ~Due(w) /\ Due(w)'
    BY <1>0, <1>1, <1>4, JobExecutorAssumption
       DEF Due, Asking, Replacing, Mid, Awaiting, Draining, Counting, Workers
  <2>2. CASE Alive(w)
    <3>1. Calm(w)
      BY <1>2, <2>1, <2>2 DEF Talk
    <3>2. Both(w)
      BY <1>2, <2>2 DEF World, Attached
    <3>3. End(Rfds[w]) = R(w) /\ R(w)[2] = w /\ HasReader(w)
      BY <3>1, <3>2 DEF Both, End, R, Calm, HasReader, Reading, Serving
    <3>4. requests'[w] = Append(<<>>, [kind |-> command, n |-> n])
      BY <1>0, <1>1, <1>4, <3>1, <3>3 DEF Request, Calm, RequestQueues
    <3>5. requests'[w] = <<[kind |-> command, n |-> n]>>
      BY <3>4
    <3>6. Pending(w)'
      BY <1>1, <3>1, <3>5 DEF Pending, Calm
    <3> QED BY <1>1, <1>2, <2>1, <2>2, <3>6 DEF Talk, Alive
  <2>3. CASE ~Alive(w)
    <3>1. answers[w] = <<>>
      BY <1>0, <1>2, <1>4, <2>1, <2>3 DEF Talk, Excused
    <3>2. Lines(w)'
      BY <1>1, <3>1 DEF Lines, OnlyLines
    <3> QED BY <1>1, <1>2, <2>1, <2>3, <3>2 DEF Talk, Alive
  <2> QED BY <2>2, <2>3
<1> QED BY <1>3, <1>4

LEMMA DirectoriesTalk ==
  ASSUME World, Active, Active', SendDirectories, NEW w \in Workers
  PROVE  Talk(w)'
<1>0. /\ Mortal /\ jePc = "dirs" /\ i \in Workers /\ HasReader(i) /\ requests \in RequestQueues
  BY TypeParts, ReadsDirectories DEF World, Owned, Mortal, Sound, SendDirectories, PipeTypes
<1>1. /\ jePc' = "openA" /\ i' = i
      /\ requests' = [requests EXCEPT ![i] = Append(@, [kind |-> "dirs", n |-> n])]
      /\ UNCHANGED <<back, command, n, responded, worker_is_dead, answers, workerPc, asked>>
  BY <1>0 DEF SendDirectories, commandVars, deadVars, elsewhere, workerVars
<1>2. Talk(w)
  BY DEF World, Conversation
<1>3. CASE w # i
  <2>1. requests'[w] = requests[w] /\ ~New(w) /\ ~New(w)'
    BY <1>0, <1>1, <1>3 DEF RequestQueues, New
  <2>2. Due(w)' <=> Due(w)
    BY <1>0, <1>1 DEF Due, Asking, Replacing, Mid, Awaiting, Draining, Counting
  <2>3. Excused(w) => Excused(w)'
    BY <1>0, <1>1 DEF Excused
  <2> QED BY <1>1, <1>2, <2>1, <2>2, <2>3, TalkKept
<1>4. CASE w = i
  <2>1. Starting(w) /\ New(w)'
    BY <1>0, <1>1, <1>2, <1>4 DEF Talk, New, Mid
  <2>2. answers[w] = <<>> /\ requests[w] = <<>> /\ workerPc[w] = "dirs"
    BY <1>0, <2>1 DEF Starting
  <2>3. requests'[w] = Append(<<>>, [kind |-> "dirs", n |-> n])
    BY <1>0, <1>1, <1>4, <2>2 DEF RequestQueues
  <2>4. requests'[w] = <<[kind |-> "dirs", n |-> n]>>
    BY <2>3
  <2>5. Starting(w)'
    BY <1>1, <2>2, <2>4 DEF Starting
  <2> QED BY <2>1, <2>5 DEF Talk
<1> QED BY <1>3, <1>4

LEMMA AnswerTalk ==
  ASSUME World, Active, Active', AnswerStep, NEW w \in Workers
  PROVE  Talk(w)'
<1>0. /\ Mortal /\ FdsOwn /\ jePc \in {"reading", "draining", "wcReading"} /\ jePc \notin Mid
      /\ i \in Workers /\ answers \in AnswerQueues /\ command \in Commands /\ n \in Nat
  <2>1. jePc \in {"reading", "draining", "wcReading"}
    BY DEF AnswerStep, TakeAnswer, DrainAnswer, WordCountAnswer, ExitAnswer, Active, Over, Ending
  <2> QED BY <2>1, AnswerPops, TypeParts
          DEF World, Owned, Mortal, Sound, PipeTypes, CommandTypes, Mid
<1>1. UNCHANGED <<back, command, n, responded, worker_is_dead, workerPc, asked, requests>>
  BY AnswerFrame
<1> DEFINE Pop == /\ answers[i] # <<>> /\ answers' = [answers EXCEPT ![i] = Tail(@)]
                  /\ End(Afds[i]) = A(i)
           More == MoreToCome(Head(answers[i]))
           Stay == UNCHANGED <<jePc, i>>
           Done == \/ jePc = "reading" /\ jePc' = "take" /\ i' = i
                   \/ jePc = "draining" /\ jePc' = "drain" /\ i' = i + 1
                   \/ jePc = "wcReading" /\ jePc' = "wc" /\ i' = i + 1
<1>2. \/ Pop /\ (More => Stay) /\ (~More => Done)
      \/ /\ UNCHANGED answers /\ Done
         /\ \/ End(Afds[i]) = A(i) /\ answers[i] = <<>> /\ ~HasWriter(i)
            \/ End(Afds[i]) = Closed
  BY <1>0, AnswerPops
<1>3. ~New(w) /\ ~New(w)' /\ Talk(w) /\ (Stay \/ Done) /\ (Excused(w) => Excused(w)')
  BY <1>0, <1>1, <1>2 DEF World, Conversation, New, Mid, Excused
<1> HIDE DEF Pop, More
<1>4. CASE w # i
  <2>1. answers'[w] = answers[w]
    BY <1>0, <1>2, <1>4 DEF AnswerQueues, Pop
  <2>2. Due(w)' <=> Due(w)
    BY <1>0, <1>1, <1>3, <1>4, JobExecutorAssumption
       DEF Due, Asking, Replacing, Mid, Awaiting, Draining, Counting, Workers
  <2> QED BY <1>1, <1>3, <2>1, <2>2, TalkKept
<1>5. CASE w = i
  <2>1. Due(w) /\ (Stay => Due(w)') /\ (Done => ~Due(w)')
    BY <1>0, <1>1, <1>5, JobExecutorAssumption
       DEF Due, Asking, Replacing, Mid, Awaiting, Draining, Counting, Workers, World, Rounds
  <2>2. Alive(w)' <=> Alive(w)
    BY <1>1 DEF Alive
  <2>3. CASE Pop /\ (More => Stay) /\ (~More => Done)
    <3> DEFINE s == answers[w]
    <3>1. s \in Seq(AnswerSet) /\ s # <<>> /\ answers'[w] = Tail(s)
      BY <1>0, <1>5, <2>3 DEF Pop, AnswerQueues
    <3>2. UNCHANGED <<Message("line", w), Message(Last, w), command>>
      BY <1>1 DEF Message, Last
    <3>3. ASSUME Lines(w)
          PROVE  Stay /\ Lines(w)'
      <4>1. Head(s) = Message("line", w) /\ OnlyLines(Tail(s), Message("line", w)) /\ command = "search"
        BY <3>1, <3>3, TakeLine DEF Lines
      <4>2. More
        BY <1>5, <4>1 DEF More, MoreToCome, Message
      <4>3. Stay
        BY <2>3, <4>2
      <4>4. OnlyLines(answers'[w], Message("line", w)')
        BY <3>1, <3>2, <4>1
      <4> QED BY <3>2, <4>1, <4>3, <4>4 DEF Lines
    <3>4. ASSUME Whole(w)
          PROVE  (Stay /\ Whole(w)') \/ (Done /\ answers'[w] = <<>>)
      <4>1. \/ Len(s) = 1 /\ Head(s) = Message(Last, w) /\ Tail(s) = <<>>
            \/ /\ Len(s) > 1 /\ Head(s) = Message("line", w)
               /\ Complete(Tail(s), Message("line", w), Message(Last, w))
        BY <3>1, <3>4, TakeMessage DEF Whole
      <4>2. CASE Len(s) = 1 /\ Head(s) = Message(Last, w) /\ Tail(s) = <<>>
        <5>1. ~More
          BY <1>5, <4>2 DEF More, MoreToCome, Message, Last
        <5> QED BY <2>3, <3>1, <4>2, <5>1
      <4>3. CASE /\ Len(s) > 1 /\ Head(s) = Message("line", w)
                 /\ Complete(Tail(s), Message("line", w), Message(Last, w))
        <5>1. command = "search"
          BY <3>4, <4>3 DEF Whole
        <5>2. More
          BY <1>5, <4>3, <5>1 DEF More, MoreToCome, Message
        <5>3. Stay
          BY <2>3, <5>2
        <5>4. Complete(answers'[w], Message("line", w)', Message(Last, w)')
          BY <3>1, <3>2, <4>3
        <5> QED BY <3>2, <5>1, <5>3, <5>4 DEF Whole
      <4> QED BY <4>1, <4>2, <4>3
    <3> HIDE DEF s, Stay, Done
    <3>5. CASE Alive(w)
      <4>1. \/ /\ workerPc[w] \in {"search", "searched"} /\ requests[w] = <<>> /\ asked[w] = n
               /\ command = "search" /\ Lines(w)
            \/ workerPc[w] = "loop" /\ requests[w] = <<>> /\ Whole(w)
        BY <1>3, <2>1, <3>1, <3>5 DEF Talk, Pending, s
      <4>2. (Stay /\ Pending(w)') \/ (Done /\ Calm(w)')
        BY <1>1, <3>3, <3>4, <4>1 DEF Pending, Calm
      <4> QED BY <1>3, <2>1, <2>2, <3>5, <4>2 DEF Talk
    <3>6. CASE ~Alive(w)
      <4>1. Lines(w) \/ Whole(w)
        BY <1>3, <2>1, <3>6 DEF Talk
      <4>2. (Stay /\ (Lines(w)' \/ Whole(w)')) \/ (Done /\ answers'[w] = <<>>)
        BY <3>3, <3>4, <4>1
      <4> QED BY <1>3, <2>1, <2>2, <3>6, <4>2 DEF Talk
    <3> QED BY <3>5, <3>6
  <2>4. CASE /\ UNCHANGED answers /\ Done
             /\ \/ End(Afds[i]) = A(i) /\ answers[i] = <<>> /\ ~HasWriter(i)
                \/ End(Afds[i]) = Closed
    <3>1. Both(w) => End(Afds[w]) = A(w)
      BY DEF Both, End
    <3>2. ~Alive(w)
      <4> SUFFICES ASSUME Alive(w)
                   PROVE  FALSE
        OBVIOUS
      <4>1. Both(w)
        BY <1>3 DEF World, Attached
      <4>2. HasWriter(w)
        BY <1>3, <2>1 DEF Talk, Pending, HasWriter, Serving
      <4> QED BY <1>5, <2>4, <3>1, <4>1, <4>2, EndsDiffer
    <3>3. answers[w] = <<>>
      BY <1>3, <1>5, <2>4, <3>1, EndsDiffer DEF World, Attached
    <3> QED BY <1>3, <2>1, <2>2, <2>4, <3>2, <3>3 DEF Talk
  <2> QED BY <1>2, <2>3, <2>4
<1> QED BY <1>4, <1>5

LEMMA QuietTalk ==
  ASSUME World, Active, Active', Deadline \/ Handler \/ UNCHANGED vars, NEW w \in Workers
  PROVE  Talk(w)'
<1>1. UNCHANGED <<back, command, n, responded, workerPc, asked, requests, answers>>
  <2>1. CASE Deadline BY <2>1 DEF Deadline, commandVars, pipeVars
  <2>2. CASE Handler BY <2>2, HandlerFrame
  <2>3. CASE UNCHANGED vars BY <2>3, VarsFrame
  <2> QED BY <2>1, <2>2, <2>3
<1>2. /\ w \in 0..(numWorkers - 1) /\ numWorkers \in Nat
      /\ worker_is_dead[w] => worker_is_dead'[w]
      /\ \/ UNCHANGED <<jePc, i>>
         \/ jePc = "poll" /\ jePc' = "drain" /\ i' = 0
         \/ jePc = "poll" /\ jePc' = "collect" /\ i' = i
         \/ jePc = "read" /\ jePc' = "interrupted" /\ i' = i
  <2>1. w \in 0..(numWorkers - 1) /\ numWorkers \in Nat
    BY JobExecutorAssumption DEF Workers
  <2>2. interrupt => \/ jePc' = jePc
                     \/ jePc = "read" /\ jePc' = "interrupted"
                     \/ jePc = "poll" /\ jePc' = "collect"
    BY Zenon DEF interrupt
  <2>3. CASE Deadline BY <2>1, <2>3 DEF Deadline, deadVars
  <2>4. CASE handle_child_termination
    BY <2>1, <2>2, <2>4 DEF handle_child_termination
  <2>5. CASE handle_sig_termination
    BY <2>1, <2>2, <2>5 DEF handle_sig_termination, deadVars, Active, Over, Ending
  <2>6. CASE UNCHANGED vars BY <2>1, <2>6, VarsFrame
  <2> QED BY <2>3, <2>4, <2>5, <2>6 DEF Handler
<1>3. Talk(w)
  BY DEF World, Conversation
<1>4. CASE New(w)
  <2>1. UNCHANGED <<jePc, i>>
    BY <1>2, <1>4 DEF New, Mid
  <2> QED BY <1>1, <1>3, <1>4, <2>1 DEF Talk, New, Starting
<1>5. CASE ~New(w)
  <2>1. ~New(w)'
    BY <1>2, <1>5 DEF New, Mid
  <2>2. Due(w)' <=> Due(w)
    BY <1>1, <1>2 DEF Due, Asking, Replacing, Mid, Awaiting, Draining, Counting
  <2>3. Excused(w) => Excused(w)'
    BY <1>2 DEF Excused
  <2> QED BY <1>1, <1>3, <1>5, <2>1, <2>2, <2>3, TalkKept
<1> QED BY <1>4, <1>5

(* ... by those of replace_worker, ... *)
LEMMA ForkTalk ==
  ASSUME World, Numbers', Active, Active', Fork, NEW w \in Workers
  PROVE  Talk(w)'
<1>1. /\ jePc = "fork" /\ jePc' = "openR" /\ i \in Workers /\ i' = i
      /\ workerPc' = [workerPc EXCEPT ![i] = "start"] /\ workerPc \in [Workers -> WorkerPcs]
      /\ UNCHANGED <<back, command, n, responded, asked, worker_is_dead>>
  BY TypeParts
     DEF World, Owned, Mortal, Sound, Fork, commandVars, deadVars, CallTypes, WorkerTypes, Indexing
<1>2. ~New(w) /\ Talk(w)
  BY <1>1 DEF World, Conversation, New, Mid
<1>3. CASE w = i
  <2>1. requests'[w] = <<>> /\ answers'[w] = <<>>
    BY <1>3, ForkPipes DEF World
  <2>2. New(w)' /\ Starting(w)'
    BY <1>1, <1>3, <2>1 DEF New, Mid, Starting
  <2> QED BY <2>2 DEF Talk
<1>4. CASE w # i
  <2>1. requests'[w] = requests[w] /\ answers'[w] = answers[w]
    BY <1>1, <1>4, ForkPipes DEF World
  <2>2. workerPc'[w] = workerPc[w] /\ ~New(w)'
    BY <1>1, <1>4 DEF New
  <2>3. Due(w)' <=> Due(w)
    BY <1>1 DEF Due, Asking, Replacing, Mid, Awaiting, Draining, Counting
  <2>4. Excused(w) => Excused(w)'
    BY <1>1, <1>4 DEF Excused
  <2> QED BY <1>1, <1>2, <2>1, <2>2, <2>3, <2>4, TalkKept
<1> QED BY <1>3, <1>4

LEMMA ForkFailsTalk ==
  ASSUME World, Numbers', Active, Active', ForkFails, NEW w \in Workers
  PROVE  Talk(w)'
<1>1. /\ jePc = "fork" /\ i \in Workers
      /\ \/ back = "write" /\ jePc' = "write" /\ i' = i
         \/ back # "write" /\ jePc' = "replace" /\ i' = i + 1
      /\ worker_is_dead' = [worker_is_dead EXCEPT ![i] = TRUE]
      /\ worker_is_dead \in [Workers -> BOOLEAN]
      /\ UNCHANGED <<back, command, n, responded, asked, workerPc>>
  BY TypeParts DEF World, Owned, Mortal, Sound, ForkFails, Return, commandVars, workerVars,
                   CallTypes, FlagTypes, Indexing
<1>2. ~New(w) /\ ~New(w)' /\ Talk(w)
  BY <1>1 DEF World, Conversation, New, Mid
<1>3. Due(w)' <=> Due(w)
  BY <1>1 DEF Due, Asking, Replacing, Mid, Awaiting, Draining, Counting
<1>4. CASE w = i
  <2>1. answers'[w] = <<>>
    BY <1>4, ForkPipes DEF World
  <2>2. ~Alive(w)'
    BY <1>1, <1>4 DEF World, Flags, Alive
  <2>3. ~Due(w)
    BY <1>1, <1>4, JobExecutorAssumption
       DEF Due, Asking, Replacing, Mid, Awaiting, Draining, Counting, Workers
  <2> QED BY <1>2, <1>3, <2>1, <2>2, <2>3 DEF Talk
<1>5. CASE w # i
  <2>1. requests'[w] = requests[w] /\ answers'[w] = answers[w]
    BY <1>1, <1>5, ForkPipes DEF World
  <2>2. Excused(w) => Excused(w)'
    BY <1>1, <1>5 DEF Excused
  <2> QED BY <1>1, <1>2, <1>3, <2>1, <2>2, TalkKept
<1> QED BY <1>4, <1>5

LEMMA OpenTalk ==
  ASSUME World, Active, Active', OpenRequests \/ OpenAnswers, NEW w \in Workers
  PROVE  Talk(w)'
<1>1. /\ i \in Workers /\ workerPc \in [Workers -> WorkerPcs]
      /\ UNCHANGED <<back, command, n, responded, asked, worker_is_dead, requests, answers>>
      /\ \/ /\ jePc = "openR" /\ jePc' = "dirs" /\ i' = i /\ workerPc[i] = "start"
            /\ workerPc' = [workerPc EXCEPT ![i] = "dirs"]
         \/ /\ jePc = "openA" /\ workerPc[i] = "openA"
            /\ \/ back = "write" /\ jePc' = "write" /\ i' = i
               \/ back # "write" /\ jePc' = "replace" /\ i' = i + 1
            /\ workerPc' = [workerPc EXCEPT ![i] = "loop"]
  <2>1. jePc \in {"openR", "openA"}
    BY DEF OpenRequests, OpenAnswers
  <2>2. i \in Workers /\ workerPc \in [Workers -> WorkerPcs]
    BY <2>1, TypeParts DEF World, Owned, Mortal, Sound, CallTypes, WorkerTypes, Indexing
  <2>3. CASE OpenRequests
    BY <2>2, <2>3 DEF OpenRequests, commandVars, deadVars, pipeVars
  <2>4. CASE OpenAnswers
    BY <2>2, <2>4 DEF OpenAnswers, Return, commandVars, pipeVars
  <2> QED BY <2>3, <2>4
<1>2. Talk(w)
  BY DEF World, Conversation
<1>3. CASE w # i
  <2>1. workerPc'[w] = workerPc[w] /\ ~New(w) /\ ~New(w)'
    BY <1>1, <1>3 DEF New, Mid
  <2>2. Due(w)' <=> Due(w)
    BY <1>1, <1>3 DEF Due, Asking, Replacing, Mid, Awaiting, Draining, Counting
  <2>3. Excused(w) => Excused(w)'
    BY <1>1, <1>3 DEF Excused
  <2> QED BY <1>1, <1>2, <2>1, <2>2, <2>3, TalkKept
<1>4. CASE w = i
  <2>1. Starting(w)
    BY <1>1, <1>2, <1>4 DEF Talk, New, Mid
  <2>2. CASE jePc = "openR"
    BY <1>1, <1>4, <2>1, <2>2 DEF Talk, New, Mid, Starting
  <2>3. CASE jePc = "openA"
    <3>1. answers[w] = <<>> /\ requests[w] = <<>>
      BY <1>1, <1>4, <2>1, <2>3 DEF Starting
    <3>2. Calm(w)' /\ Alive(w)'
      BY <1>1, <1>4, <2>3, <3>1 DEF Calm, Alive
    <3>3. ~New(w)' /\ ~Due(w)'
      BY <1>1, <1>4, <2>3, JobExecutorAssumption
         DEF New, Due, Asking, Replacing, Mid, Awaiting, Draining, Counting, Workers
    <3> QED BY <3>2, <3>3 DEF Talk
  <2> QED BY <1>1, <2>2, <2>3
<1> QED BY <1>3, <1>4

-----------------------------------------------------------------------------
(* ... and by the workers: one that has a request or searches is due and its answer pipe is *)
(* open.                                                                                    *)
LEMMA Asked ==
  ASSUME World, Active, NEW v \in Workers, Alive(v),
         requests[v] # <<>> \/ workerPc[v] \in {"search", "searched"},
         workerPc[v] \in Serving
  PROVE  /\ ~New(v) /\ Due(v) /\ Held(A(v)) /\ ~worker_must_terminate[v]
         /\ \/ /\ workerPc[v] = "loop" /\ answers[v] = <<>>
               /\ requests[v] = <<[kind |-> command, n |-> n]>>
            \/ /\ workerPc[v] \in {"search", "searched"} /\ requests[v] = <<>> /\ asked[v] = n
               /\ command = "search" /\ Lines(v)
<1>1. Talk(v)
  BY DEF World, Conversation
<1>2. ~New(v)
  BY <1>1 DEF Talk, New, Mid, Starting, Serving
<1>3. Both(v)
  BY <1>2 DEF World, Attached
<1>4. Held(A(v))
  BY <1>3 DEF Both, Held
<1>5. Due(v) /\ Pending(v)
  BY <1>1, <1>2 DEF Talk, Calm
<1>6. ~worker_must_terminate[v]
  BY DEF World, Owned, Mortal, NoExit, Active, Over
<1> QED BY <1>2, <1>4, <1>5, <1>6 DEF Pending

LEMMA WorkerTalk ==
  ASSUME World, Active, Active', NEW v \in Workers, WorkerStep(v) \/ Die(v)
  PROVE  Talk(v)'
<1>0. /\ Mortal /\ Sound /\ requests \in RequestQueues /\ answers \in AnswerQueues /\ n \in Nat
      /\ command \in Commands /\ workerPc \in [Workers -> WorkerPcs] /\ asked \in [Workers -> Nat]
      /\ ~worker_must_terminate[v]
  BY TypeParts DEF World, Owned, Mortal, Sound, PipeTypes, CommandTypes, WorkerTypes, NoExit,
                   Active, Over
<1>1. /\ UNCHANGED <<jePc, i, back, command, n, responded, fds, Rfds, Afds>> /\ Talk(v)
      /\ New(v)' <=> New(v)
      /\ Due(v)' <=> Due(v)
      /\ UNCHANGED <<Message("line", v), Message(Last, v)>>
  BY WorkerFrame DEF World, Conversation, New, Due, Message, Last
<1>Q. ASSUME ~New(v), Due(v), Pending(v)', Alive(v)'
      PROVE  Talk(v)'
  BY <1>1, <1>Q DEF Talk
<1>A. ASSUME NEW kind \in AnswerKinds, Held(A(v))
      PROVE  /\ Answer(v, kind, n)[v] = Append(answers[v], Message(kind, v))
             /\ Message(kind, v) \in AnswerSet /\ answers[v] \in Seq(AnswerSet)
  BY <1>0, <1>A DEF Answer, Message, AnswerSet, AnswerQueues
<1>E. OnlyLines(<<>>, Message("line", v)) /\ <<>> \in Seq(AnswerSet) /\ Len(<<>>) = 0
  BY EmptySeq DEF OnlyLines
<1>T. requests[v] = <<[kind |-> command, n |-> n]>> =>
        Tail(requests[v]) = <<>> /\ Head(requests[v]) = [kind |-> command, n |-> n] /\ requests[v] # <<>>
  OBVIOUS
<1>2. CASE ReadDirectories(v)
  <2>1. workerPc[v] = "dirs" /\ requests[v] # <<>>
    BY <1>2 DEF ReadDirectories
  <2>2. New(v) /\ jePc \in {"dirs", "openA"}
    BY <1>0, <2>1 DEF Mortal, Fresh, New, Mid
  <2>3. Starting(v)
    BY <1>1, <2>2 DEF Talk
  <2>4. jePc = "openA" /\ answers[v] = <<>> /\ requests[v] = <<[kind |-> "dirs", n |-> n]>>
    BY <2>1, <2>2, <2>3 DEF Starting
  <2>5. Head(requests[v]).kind = "dirs" /\ Tail(requests[v]) = <<>>
    BY <2>4
  <2>6. workerPc'[v] = "openA" /\ requests'[v] = <<>> /\ answers'[v] = <<>>
    BY <1>0, <1>2, <2>4, <2>5 DEF ReadDirectories, RequestQueues
  <2> QED BY <1>1, <2>2, <2>4, <2>6 DEF Talk, Starting
<1>3. CASE AnswerRequest(v)
  <2>1. workerPc[v] = "loop" /\ requests[v] # <<>>
    BY <1>3 DEF AnswerRequest
  <2>2. /\ ~New(v) /\ Due(v) /\ Held(A(v)) /\ answers[v] = <<>>
        /\ requests[v] = <<[kind |-> command, n |-> n]>>
    BY <2>1, Asked DEF Alive, Serving
  <2>3. Head(requests[v]).kind # "exit" /\ Head(requests[v]) = [kind |-> command, n |-> n]
        /\ Tail(requests[v]) = <<>>
    <3>1. command # "exit"
      BY <1>0, <2>2
         DEF Sound, Control, Due, Asking, Replacing, Mid, Awaiting, Draining, Counting
    <3> QED BY <1>T, <2>2, <3>1
  <2>4. PICK kind \in {"count", "wc"} :
          /\ command = kind
          /\ Continues(v, [requests EXCEPT ![v] = Tail(@)], Answer(v, kind, n))
    BY <1>0, <1>3, <2>3 DEF AnswerRequest
  <2>5. /\ workerPc' = [workerPc EXCEPT ![v] = "loop"]
        /\ requests' = [requests EXCEPT ![v] = Tail(@)] /\ answers' = Answer(v, kind, n)
    BY <1>0, <2>4 DEF Continues
  <2>6. workerPc'[v] = "loop" /\ requests'[v] = <<>> /\ answers'[v] = Append(<<>>, Message(Last, v))
    BY <1>0, <1>A, <2>2, <2>3, <2>4, <2>5 DEF RequestQueues, Last, AnswerKinds
  <2>7. /\ Complete(Append(<<>>, Message(Last, v)), Message("line", v), Message(Last, v))
        /\ ~(Len(Append(<<>>, Message(Last, v))) > 1)
    BY <1>A, <1>E, <2>2, <2>4, LastMessage DEF Last, AnswerKinds
  <2>8. Whole(v)'
    BY <1>1, <2>6, <2>7 DEF Whole
  <2> QED BY <1>Q, <2>2, <2>6, <2>8 DEF Pending, Alive
<1>4. CASE StartSearch(v)
  <2>1. workerPc[v] = "loop" /\ requests[v] # <<>> /\ Head(requests[v]).kind = "search"
    BY <1>4 DEF StartSearch
  <2>2. /\ ~New(v) /\ Due(v) /\ answers[v] = <<>>
        /\ requests[v] = <<[kind |-> command, n |-> n]>>
    BY <2>1, Asked DEF Alive, Serving
  <2>3. command = "search" /\ Head(requests[v]).n = n /\ Tail(requests[v]) = <<>>
    BY <1>T, <2>1, <2>2
  <2>4. workerPc'[v] = "search" /\ requests'[v] = <<>> /\ asked'[v] = n /\ answers'[v] = <<>>
    BY <1>0, <1>4, <2>2, <2>3 DEF StartSearch, RequestQueues
  <2>5. Lines(v)'
    BY <1>1, <1>E, <2>4 DEF Lines
  <2> QED BY <1>1, <1>Q, <2>2, <2>3, <2>4, <2>5 DEF Pending, Alive
<1>5. CASE FindLine(v)
  <2>1. workerPc[v] = "search"
    BY <1>5 DEF FindLine
  <2>2. /\ ~New(v) /\ Due(v) /\ Held(A(v)) /\ requests[v] = <<>>
        /\ asked[v] = n /\ command = "search" /\ Lines(v)
    BY <2>1, Asked DEF Alive, Serving
  <2>3. /\ workerPc'[v] = "searched" /\ requests'[v] = <<>> /\ asked'[v] = n
        /\ answers'[v] = Append(answers[v], Message("line", v))
    BY <1>0, <1>5, <1>A, <2>2 DEF FindLine, AnswerKinds
  <2>4. OnlyLines(Append(answers[v], Message("line", v)), Message("line", v))
    BY <1>A, <2>2, OneMoreLine DEF Lines, AnswerKinds
  <2>5. Lines(v)'
    BY <1>1, <2>2, <2>3, <2>4 DEF Lines
  <2> QED BY <1>1, <1>Q, <2>2, <2>3, <2>5 DEF Pending, Alive
<1>6. CASE EndSearch(v)
  <2>1. workerPc[v] \in {"search", "searched"}
    BY <1>6 DEF EndSearch
  <2>2. /\ ~New(v) /\ Due(v) /\ Held(A(v)) /\ requests[v] = <<>>
        /\ asked[v] = n /\ command = "search" /\ Lines(v)
    BY <2>1, Asked DEF Alive, Serving
  <2>3. /\ workerPc'[v] = "loop" /\ requests'[v] = <<>>
        /\ answers'[v] = Append(answers[v], Message(Last, v))
    BY <1>0, <1>6, <1>A, <2>2 DEF EndSearch, Continues, AnswerKinds, Last
  <2>4. /\ Complete(Append(answers[v], Message(Last, v)), Message("line", v), Message(Last, v))
    BY <1>A, <2>2, LastMessage DEF Lines, AnswerKinds, Last
  <2>5. Whole(v)'
    BY <1>1, <2>2, <2>3, <2>4 DEF Whole
  <2> QED BY <1>Q, <2>2, <2>3, <2>5 DEF Pending, Alive
<1>7. CASE EndOfRequests(v)
  BY <1>0, <1>7 DEF EndOfRequests
<1>8. CASE NoExecutable(v)
  <2>1. workerPc[v] = "start" /\ Gone(v, requests, answers)
    BY <1>8 DEF NoExecutable
  <2>2. New(v) /\ jePc = "openR"
    BY <1>0, <2>1 DEF Mortal, Fresh, New, Mid
  <2>3. requests[v] = <<>> /\ answers[v] = <<>>
    BY <1>1, <2>2 DEF Talk, Starting
  <2>4. workerPc'[v] = "dead" /\ requests'[v] = <<>> /\ answers'[v] = <<>>
    BY <1>0, <2>1, <2>3 DEF Gone, Pipes
  <2> QED BY <1>1, <2>2, <2>4 DEF Talk, Starting
<1>9. CASE Die(v)
  <2>1. Alive(v) /\ Gone(v, requests, answers) /\ deaths' = deaths + 1
    BY <1>9 DEF Die
  <2>2. ~Alive(v)'
    BY <1>0, <2>1 DEF Gone, Alive
  <2>3. jePc \notin Mid
    BY <1>0, <2>1, <2>2, WorkerFate, TypeParts, JobExecutorAssumption DEF Sound, BoundTypes
  <2>4. ~New(v)
    BY <2>3 DEF New
  <2>5. Both(v)
    BY <2>1, <2>4 DEF World, Attached
  <2>6. Held(A(v))'
    BY <1>1, <2>5 DEF Both, Held
  <2>7. answers'[v] = answers[v]
    BY <2>1, <2>6 DEF Gone, Pipes
  <2>8. CASE Due(v)
    <3>1. Pending(v)
      BY <1>1, <2>1, <2>4, <2>8 DEF Talk
    <3>2. Lines(v) \/ Whole(v)
      BY <1>E, <3>1 DEF Pending, Lines
    <3>3. Lines(v)' \/ Whole(v)'
      BY <1>1, <2>7, <3>2 DEF Lines, Whole
    <3> QED BY <1>1, <2>2, <2>4, <2>8, <3>3 DEF Talk
  <2>9. CASE ~Due(v)
    <3>1. Calm(v)
      BY <1>1, <2>1, <2>4, <2>9 DEF Talk
    <3> QED BY <1>1, <2>2, <2>4, <2>7, <2>9, <3>1 DEF Talk, Calm
  <2> QED BY <2>8, <2>9
<1> QED BY <1>2, <1>3, <1>4, <1>5, <1>6, <1>7, <1>8, <1>9 DEF WorkerStep

(* Every step keeps the conversation. *)
LEMMA ConversationNext ==
  ASSUME World, Numbers', Active, Active', [Next]_vars
  PROVE  Conversation'
<1> SUFFICES ASSUME NEW w \in Workers
             PROVE  Talk(w)'
  BY DEF Conversation
<1>1. CASE KillWorkers \/ CloseAll
  BY <1>1 DEF KillWorkers, CloseAll, Active, Over, Ending
<1>2. CASE AskStep
  <2>1. ~SendExit
    BY DEF SendExit, Active, Over, Ending
  <2> QED BY <1>2, <2>1, WriteTalk, DirectoriesTalk DEF AskStep
<1>3. CASE \E v \in Workers : WorkerStep(v) \/ Die(v)
  <2> PICK v \in Workers : WorkerStep(v) \/ Die(v) BY <1>3
  <2>1. CASE w = v
    BY <2>1, WorkerTalk
  <2>2. CASE w # v
    <3>1. /\ workerPc'[w] = workerPc[w] /\ asked'[w] = asked[w]
          /\ requests'[w] = requests[w] /\ answers'[w] = answers[w]
      BY <2>2, WorkerLeaves DEF World
    <3>2. /\ UNCHANGED <<jePc, i, back, command, n, responded, worker_is_dead>> /\ Talk(w)
      BY WorkerFrame DEF World, Conversation
    <3>3. CASE New(w)
      BY <3>1, <3>2, <3>3 DEF Talk, New, Starting
    <3>4. CASE ~New(w)
      <4>1. ~New(w)' /\ (Due(w)' <=> Due(w)) /\ (Excused(w) => Excused(w)')
        BY <3>2, <3>4 DEF New, Due, Excused
      <4> QED BY <3>1, <3>2, <3>4, <4>1, TalkKept
    <3> QED BY <3>3, <3>4
  <2> QED BY <2>1, <2>2
<1> QED
  BY <1>1, <1>2, <1>3, ControlTalk, AnswerTalk, QuietTalk, ForkTalk, ForkFailsTalk, OpenTalk,
     StepCases DEF JeStep

(* A replacement takes its directories for what they are: nothing else is in its pipe. *)
LEMMA InFrameNext ==
  ASSUME World, InFrame, [Next]_vars
  PROVE  InFrame'
<1>0. /\ Mortal /\ TypeOK /\ deaths \in Nat /\ deaths' \in Nat /\ deaths <= deaths'
      /\ workerPc \in [Workers -> WorkerPcs]
  BY DeathsGrow, TypeParts DEF World, Owned, Mortal, Sound, WorkerTypes
<1> SUFFICES ASSUME deaths' <= 1, NEW w \in Workers
             PROVE  workerPc'[w] # "garbled"
  BY DEF InFrame, OneDeath
<1>1. deaths <= 1 /\ workerPc[w] # "garbled"
  BY <1>0 DEF InFrame, OneDeath
<1>2. CASE JeStep
  BY <1>0, <1>1, <1>2, JeFrame DEF Mortal, Sound
<1>3. CASE KillWorkers
  BY <1>0, <1>1, <1>3 DEF KillWorkers
<1>4. CASE CloseAll \/ ForkFails
  BY <1>1, <1>4 DEF CloseAll, ForkFails, elsewhere, workerVars
<1>5. CASE Fork \/ OpenRequests \/ OpenAnswers
  <2>1. \E pc \in {"start", "dirs", "loop"} : workerPc' = [workerPc EXCEPT ![i] = pc]
    BY <1>5 DEF Fork, OpenRequests, OpenAnswers
  <2> QED BY <1>0, <1>1, <2>1
<1>6. CASE \E v \in Workers : WorkerStep(v) \/ Die(v)
  <2> PICK v \in Workers : WorkerStep(v) \/ Die(v) BY <1>6
  <2>1. PICK pc \in WorkerPcs : /\ workerPc' = [workerPc EXCEPT ![v] = pc]
                                /\ pc = "garbled" => workerPc[v] = "dirs"
    BY <1>0, WorkerMoves DEF Serving, WorkerPcs
  <2>2. CASE w # v \/ pc # "garbled"
    BY <1>0, <1>1, <2>1, <2>2
  <2>3. CASE w = v /\ pc = "garbled"
    <3>1. workerPc[v] = "dirs"
      BY <2>1, <2>3
    <3>2. New(v) /\ jePc \in {"dirs", "openA"} /\ Active
      BY <1>0, <1>1, <3>1 DEF Mortal, Fresh, New, Mid, Active, Over, Ending
    <3>3. Starting(v)
      BY <3>2 DEF World, Conversation, Talk
    <3>4. requests[v] # <<>> => requests[v] = <<[kind |-> "dirs", n |-> n]>>
      BY <3>1, <3>2, <3>3 DEF Starting
    <3>5. requests[v] # <<>> => Head(requests[v]).kind = "dirs"
      BY <3>4
    <3>6. ReadDirectories(v) => workerPc'[v] = "openA"
      BY <1>0, <3>5 DEF ReadDirectories
    <3>7. workerPc'[v] = "garbled"
      BY <1>0, <2>1, <2>3
    <3>8. ~ReadDirectories(v)
      BY <3>6, <3>7
    <3> QED
      BY <3>1, <3>7, <3>8, <1>0, ContinuesCases DEF WorkerStep, AnswerRequest, StartSearch,
         FindLine, EndSearch, EndOfRequests, NoExecutable, Die, Ended, Gone
  <2> QED BY <2>2, <2>3
<1>7. CASE UNCHANGED vars
  BY <1>1, <1>7, VarsFrame
<1> QED BY <1>2, <1>3, <1>4, <1>5, <1>6, <1>7, StepCases

LEMMA WorldInit ==
  ASSUME Init, Owned
  PROVE  World /\ InFrame
<1>1. \A w \in Workers : Both(w)
  <2>1. -1 \notin Fds
    BY JobExecutorAssumption DEF Fds
  <2>2. deaths <= 2 /\ jePc \notin Ending /\ jePc \notin Mid
    BY DEF Init, Ending, Mid
  <2>3. \A w \in Workers : ~None(w) /\ ~Alone(w)
    BY <2>1, JobExecutorAssumption DEF Init, None, Workers, Alone
  <2> QED BY <2>2, <2>3 DEF Owned, Numbers, New
<1>2. Flags /\ Inherit /\ Attached /\ Rounds /\ InFrame
  BY <1>1 DEF Init, Flags, Inherit, Attached, Rounds, InFrame, Awaiting, Draining, New, Mid
<1>3. ASSUME NEW w \in Workers
      PROVE  Talk(w)
  BY DEF Init, Talk, New, Mid, Due, Asking, Replacing, Awaiting, Draining, Counting, Alive, Calm
<1> QED BY <1>2, <1>3 DEF World, Conversation

(* All of it holds in every state. *)
LEMMA WorldAlways == Spec => [](World /\ InFrame)
<1>1. Init /\ Owned => World /\ InFrame
  BY WorldInit
<1>2. World /\ InFrame /\ [Next]_vars /\ Owned' => (World /\ InFrame)'
  <2> SUFFICES ASSUME World, InFrame, [Next]_vars, Owned'
               PROVE  (World /\ InFrame)'
    OBVIOUS
  <2>1. Rounds' /\ InFrame'
    BY RoundsNext, InFrameNext DEF World, Owned, Mortal
  <2>2. Active' => Active
    BY ActiveBefore DEF World, Owned
  <2>3. ~Active' => Flags' /\ Inherit' /\ Attached' /\ Conversation'
    BY DEF Flags, Inherit, Attached, Conversation
  <2>4. Active' => Flags' /\ Inherit' /\ Attached' /\ Conversation'
    BY <2>2, FlagsNext, InheritNext, AttachedNext, ConversationNext DEF World, Owned
  <2> QED BY <2>1, <2>3, <2>4 DEF World
<1> QED BY <1>1, <1>2, OwnedAlways, PTL DEF Spec

-----------------------------------------------------------------------------
(* With one death at most no worker is replaced while its process runs: the flag the       *)
(* handler of SIGCHLD sets at any moment (jobExecutor.cpp:1032), and that the loops take   *)
(* back before they call replace_worker (312,357), never stands for a death that was dealt *)
(* with.                                                                                   *)
THEOREM NotFlagged == Spec => []LiveNotFlagged
<1>1. World => LiveNotFlagged
  BY DEF World, Flags, LiveNotFlagged, OneDeath, Active, Over, Ending
<1> QED BY <1>1, WorldAlways, PTL

(* With one death at most a replacement reads directories first: no request to its *)
(* predecessor is left in the named pipe it opens (jobExecutor.cpp:973).           *)
THEOREM FramesKept == Spec => []InFrame
<1> QED BY WorldAlways, PTL

(* With one death at most what is read as the answer to a command is that worker's answer *)
(* to that command: neither an answer to the command before, however late it was canceled *)
(* (jobExecutor.cpp:845-883), nor what a worker that died had written (950-963).          *)
THEOREM Matched == Spec => []AnswersMatch
<1>1. ASSUME World
      PROVE  AnswersMatch
  <2> SUFFICES ASSUME OneDeath, jePc \in {"reading", "draining", "wcReading"}, Readable(i)
               PROVE  LET m == Head(answers[End(Afds[i])[2]])
                      IN  m.from = i /\ m.n = n /\ m.kind \in Expected
    BY DEF AnswersMatch
  <2>0. /\ Sound /\ i \in Workers /\ Active /\ jePc \notin Mid /\ deaths <= 2
        /\ answers \in AnswerQueues
    BY <1>1, TypeParts, JobExecutorAssumption
       DEF World, Owned, Mortal, Sound, CallTypes, PipeTypes, BoundTypes, Indexing, Active,
          OneDeath,
           Over, Ending, Mid
  <2>1. End(Afds[i]) = A(i) /\ A(i)[2] = i /\ answers[i] # <<>>
    <3>1. End(Afds[i]) \in {A(i), Closed}
      BY <1>1, <2>0 DEF World, Owned, FdsOwn
    <3>2. A(i)[2] = i
      BY DEF A
    <3> QED BY <3>1, <3>2, EndsDiffer DEF Readable
  <2>2. ~New(i) /\ Due(i) /\ Talk(i)
    BY <1>1, <2>0, JobExecutorAssumption
       DEF World, Conversation, Rounds, New, Due, Awaiting, Draining, Counting, Workers
  <2>3. Lines(i) \/ Whole(i)
    BY <2>1, <2>2 DEF Talk, Pending
  <2>4. \/ Head(answers[i]) = Message("line", i) /\ command = "search"
        \/ Head(answers[i]) = Message(Last, i)
    <3>1. answers[i] \in Seq(AnswerSet)
      BY <2>0 DEF AnswerQueues
    <3>2. CASE Lines(i)
      BY <2>1, <3>1, <3>2, TakeLine DEF Lines
    <3>3. CASE Whole(i)
      BY <3>1, <3>3, TakeMessage DEF Whole
    <3> QED BY <2>3, <3>2, <3>3
  <2>5. command \in {"search", "count", "wc"}
    BY <2>0 DEF Sound, Control, Awaiting, Draining, Counting
  <2>6. /\ command = "search" => Expected = {"line", "end"}
        /\ command = "count" => Expected = {"count"}
        /\ command = "wc" => Expected = {"wc"}
    BY Zenon DEF Expected
  <2> QED BY <2>1, <2>4, <2>5, <2>6 DEF Message, Last
<1> QED BY <1>1, WorldAlways, PTL

(* With one death at most, at the end of a command (jobExecutor.cpp:709) every live worker *)
(* waits for the next request and nothing is left in its pipes.                            *)
THEOREM Emptied == Spec => []PipesEmpty
<1>1. ASSUME World
      PROVE  PipesEmpty
  <2> SUFFICES ASSUME OneDeath, jePc = "end", NEW w \in Workers, Alive(w)
               PROVE  Calm(w)
    BY DEF PipesEmpty, Calm
  <2>1. Active /\ ~New(w) /\ ~Due(w)
    BY DEF OneDeath, Active, Over, Ending, New, Due, Mid, Asking, Replacing, Awaiting, Draining,
           Counting
  <2> QED BY <1>1, <2>1 DEF World, Conversation, Talk
<1> QED BY <1>1, WorldAlways, PTL
=============================================================================
