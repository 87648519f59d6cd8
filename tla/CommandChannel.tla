--------------------------- MODULE CommandChannel ---------------------------
(***************************************************************************)
(* A command on its way (webcrawler.cpp, jobExecutor.cpp): the crawler's   *)
(* main reads it from a client, forwards it over a pipe to the command     *)
(* loop of jobExecutor, and copies what jobExecutor prints to the client   *)
(* until it finds a line with a "<".  Together with JobExecutorStart, so   *)
(* that clients may come before jobExecutor is there, while it starts,     *)
(* and after it died.                                                      *)
(*                                                                         *)
(* A client sends a script, a sequence of command words, "part" of one,    *)
(* arguments ("arg"), " ", "\r" and "\n", and then closes its connection   *)
(* or is silent.  What goes to jobExecutor carries the number n of the     *)
(* connection, and so does what it prints.  One argument stands for what a *)
(* read returns at once; a longer read is several steps.  How jobExecutor  *)
(* serves a command and replaces a worker is in JobExecutor: here it is    *)
(* one step (Work, Replace).  printed, received and misread only record.   *)
(*                                                                         *)
(* Left out: reads that fail, a signal between a word that was taken for   *)
(* another and what ends it, a second connection that waits, and the bytes *)
(* of a single word, which "arg" stands for: that a word fits the array    *)
(* it is read into (jobExecutor.cpp:337,394) is not asked.                 *)
(*                                                                         *)
(* FullTooLate, NoChunkIsCut and NeverFlush are slips in the definition    *)
(* that follows each; no action uses them.                                 *)
(***************************************************************************)
EXTENDS JobExecutorStart

CONSTANTS Scripts,         \* what clients send: records of tokens and closes
          EarlyScripts,    \* those of clients that come before jobExecutor is ready
          MaxConnections,  \* a bound on the number of clients
          CommandSize,     \* 128: the size of the array command
          ArgSize,         \* MAX_ARGUMENT_WORD_SIZE * 10 + 64, or + 8
          BUFFER_SIZE,
          MaxWords,        \* 10: the words of a query
          MaxText          \* a bound on the bytes of a line that is printed

Forwarded == {"SEARCH", "MAXCOUNT", "WORDCOUNT"}  \* MINCOUNT is read as MAXCOUNT is
CommandWords == Forwarded \cup {"STATS", "SHUTDOWN"}
Blank == {" ", "\n"}
Sent == CommandWords \cup Blank \cup {"part", "arg", "\r"}

ASSUME ChannelAssumption ==
  /\ MaxConnections \in Nat /\ MaxText \in Nat \ {0}
  /\ {CommandSize, ArgSize, BUFFER_SIZE, MaxWords} \subseteq Nat \ {0}
  /\ Scripts \cup EarlyScripts \subseteq [tokens : Seq(Sent), closes : BOOLEAN]

VARIABLES
  mainPc, monitor_forced_exit,
  n, script, closes,         \* the connection, what its client is still to send
  word, skipped,             \* what was read of the command; was a blank before it
  command, noMoreInput, arguments,
  previous_chunk_ends_in_tag, received,
  toJob, cin, jobCommand, asker, words, back, \* jobExecutor: its input, the command at work
  buffered, printed, misread

clientVars == <<n, script, closes>>
readVars == <<word, skipped, command, noMoreInput, arguments>>
answerVars == <<previous_chunk_ends_in_tag, received>>
mainVars == <<mainPc, monitor_forced_exit, clientVars, readVars, answerVars>>
cinVars == <<toJob, cin, jobCommand, asker, words, back>>
coutVars == <<buffered, printed, misread>>
channelVars == <<mainVars, cinVars, coutVars>>
allVars == <<startVars, channelVars>>

ChannelInit ==
  /\ StartInit
  /\ mainPc = "poll" /\ monitor_forced_exit = FALSE
  /\ n = 0 /\ script = <<>> /\ closes = FALSE
  /\ word = <<>> /\ skipped = FALSE /\ command = "illegal" /\ noMoreInput = FALSE /\ arguments = <<>>
  /\ previous_chunk_ends_in_tag = FALSE /\ received = <<>>
  /\ toJob = <<>> /\ cin = "good" /\ jobCommand = "/exit" /\ asker = 0 /\ words = 0
  /\ back = "ready" /\ buffered = <<>> /\ printed = <<>> /\ misread = FALSE

-----------------------------------------------------------------------------
(* main: the command, byte by byte, ... *)

untouched == <<startVars, monitor_forced_exit, cinVars>>

Accept ==
  /\ mainPc = "poll" /\ n < MaxConnections
  /\ \E s \in IF jobExecutorReadyForCommands THEN Scripts ELSE EarlyScripts :
       script' = s.tokens /\ closes' = s.closes
  /\ n' = n + 1 /\ mainPc' = "read"
  /\ word' = <<>> /\ skipped' = FALSE /\ arguments' = <<>> /\ received' = <<>> /\ printed' = <<>>
  /\ previous_chunk_ends_in_tag' = FALSE
  /\ UNCHANGED <<command, noMoreInput, buffered, misread, untouched>>

Dispatch(c, more) == mainPc' = "dispatch" /\ command' = c /\ noMoreInput' = ~more

Spelled(w) ==
  IF Len(w) \in 1..2 /\ w[1] \in CommandWords /\ (Len(w) = 2 => w[2] = "\r") THEN w[1] ELSE "illegal"

ReadByte ==
  /\ mainPc = "read" /\ script # <<>>
  /\ LET t == Head(script)
     IN  IF t = "\n" \/ (t = " " /\ word # <<>>)
           THEN Dispatch(Spelled(word), t = " ") /\ UNCHANGED <<word, skipped>>
         ELSE IF t = " "
           THEN skipped' = TRUE /\ UNCHANGED <<mainPc, command, noMoreInput, word>>
         ELSE /\ word' = Append(word, t)
              /\ IF Len(word') = CommandSize THEN Dispatch("illegal", TRUE)
                                             ELSE UNCHANGED <<mainPc, command, noMoreInput>>
              /\ UNCHANGED skipped
  /\ script' = Tail(script)
  /\ UNCHANGED <<n, closes, arguments, answerVars, coutVars, untouched>>

(* Nothing more to read: the bytes of the array are taken as they are, left over *)
(* from an earlier command or never set; a blank at its start is skipped for ever. *)
MayBeTaken(w) ==
  {"illegal"} \cup (IF w \in {<<>>, <<"part">>} THEN CommandWords \ {"SHUTDOWN"}
                    ELSE IF Len(w) = 1 /\ w[1] \in CommandWords THEN {w[1]} ELSE {})
ReadNothing ==
  /\ mainPc = "read" /\ script = <<>> /\ closes
  /\ \/ /\ ~skipped \/ word # <<>>
        /\ \E c \in MayBeTaken(word), more \in BOOLEAN : Dispatch(c, more)
     \/ word = <<>> /\ mainPc' = "spin" /\ UNCHANGED <<command, noMoreInput>>
  /\ UNCHANGED <<clientVars, word, skipped, arguments, answerVars, coutVars, untouched>>

Close ==
  /\ mainPc \in {"close", "answered"} /\ mainPc' = "poll"
  /\ UNCHANGED <<clientVars, readVars, answerVars, coutVars, untouched>>

(* ... what main answers itself, ... *)
crawling_has_finished == monitorPc # "crawl"

Refused ==
  \/ ~crawling_has_finished \/ ~jobExecutorReadyForCommands
  \/ noMoreInput /\ command \in {"SEARCH", "MAXCOUNT"}

AnswerItself ==
  /\ mainPc = "dispatch"
  /\ command \in {"illegal", "STATS"} \/ (command \in Forwarded /\ Refused)
  /\ mainPc' = "close"
  /\ UNCHANGED <<clientVars, readVars, answerVars, coutVars, untouched>>

(* ... and what it forwards: the keyword, ... *)
Keyword(c) == CASE c = "SEARCH" -> <<"/search", " ">> [] c = "MAXCOUNT" -> <<"/maxcount", " ">>
                [] c = "WORDCOUNT" -> <<"/wc", "\n">>
(* Without a jobExecutor there is no pipe. *)
HasPipe == jePc # "none"
Write(ts) ==
  toJob' = IF HasPipe /\ PipeOpen THEN toJob \o [j \in 1..Len(ts) |-> [t |-> ts[j], n |-> n]] ELSE toJob

Forward ==
  /\ mainPc = "dispatch" /\ command \in Forwarded /\ ~Refused
  /\ Write(Keyword(command))
  /\ mainPc' = IF command = "WORDCOUNT" THEN "answer" ELSE "args"
  /\ UNCHANGED <<startVars, monitor_forced_exit, clientVars, readVars, answerVars, cin, jobCommand,
                 asker, words, back, coutVars>>

(* ... the arguments up to the end of the line or of the array, ... *)
EndsIn(s, t) == s # <<>> /\ s[Len(s)] = t
FullTooLate(s) == Len(s) > ArgSize
Full(s) == Len(s) = ArgSize

ReadArguments ==
  /\ mainPc = "args"
  /\ \/ /\ script # <<>> /\ script' = Tail(script)
        /\ IF Head(script) = "\n"
             THEN /\ arguments' = IF EndsIn(arguments, "\r") THEN SubSeq(arguments, 1, Len(arguments) - 1)
                                                             ELSE arguments
                  /\ mainPc' = "send"
             ELSE /\ arguments' = Append(arguments, Head(script))
                  /\ mainPc' = IF Full(arguments') THEN "send" ELSE "args"
     \/ script = <<>> /\ closes /\ mainPc' = "spin" /\ UNCHANGED <<script, arguments>>
  /\ UNCHANGED <<n, closes, word, skipped, command, noMoreInput, answerVars, coutVars, untouched>>

SendArguments ==
  /\ mainPc = "send"
  /\ Write([j \in DOMAIN arguments |-> IF arguments[j] = "\r" /\ j = ArgSize THEN " " ELSE arguments[j]])
  /\ mainPc' = "endLine"
  /\ UNCHANGED <<startVars, monitor_forced_exit, clientVars, readVars, answerVars, cin, jobCommand,
                 asker, words, back, coutVars>>

SendEndOfLine ==
  /\ mainPc = "endLine" /\ Write(<<"\n">>) /\ mainPc' = "answer"
  /\ UNCHANGED <<startVars, monitor_forced_exit, clientVars, readVars, answerVars, cin, jobCommand,
                 asker, words, back, coutVars>>

(* ... and the answer, chunk by chunk, without the "<" line that ends it. *)
Byte(chunk, j) == IF j \in 1..Len(chunk) THEN chunk[j].b ELSE ""
NoChunkIsCut(chunk) == FALSE
EndsInTag(chunk) == Byte(chunk, Len(chunk)) = "<"
EndsTheAnswer(chunk) ==
  \/ previous_chunk_ends_in_tag /\ Byte(chunk, 1) = "\n"
  \/ Byte(chunk, Len(chunk) - 1) = "<" /\ Byte(chunk, Len(chunk)) = "\n"
(* What of the chunk is written to the client. *)
Passed(chunk) ==
  IF previous_chunk_ends_in_tag /\ Byte(chunk, 1) = "\n" THEN <<>>
  ELSE SubSeq(chunk, 1, Len(chunk) - (IF EndsTheAnswer(chunk) THEN 2
                                      ELSE IF EndsInTag(chunk) THEN 1 ELSE 0))

ReadAnswer ==
  /\ mainPc = "answer" /\ fromJob # <<>>
  /\ LET m == IF Len(fromJob) < BUFFER_SIZE THEN Len(fromJob) ELSE BUFFER_SIZE
         chunk == SubSeq(fromJob, 1, m)
     IN  /\ fromJob' = SubSeq(fromJob, m + 1, Len(fromJob))
         /\ received' = received \o Passed(chunk)
         /\ previous_chunk_ends_in_tag' = (~EndsTheAnswer(chunk) /\ EndsInTag(chunk))
         /\ mainPc' = IF EndsTheAnswer(chunk) THEN "answered" ELSE "answer"
  /\ UNCHANGED <<monitorVars, loopVars, deadVars, fifos, workerPc, pipeVars, zombies, content, boundVars,
                 monitor_forced_exit, clientVars, readVars, cinVars, coutVars>>

(* Nobody will write any more, and reads of 0 bytes do not end the loop; with no *)
(* pipe at all the read fails, and that does.                                    *)
ReadNoAnswer ==
  /\ mainPc = "answer" /\ fromJob = <<>> /\ ~PipeOpen
  /\ mainPc' = IF HasPipe THEN "spin" ELSE "close"
  /\ UNCHANGED <<clientVars, readVars, answerVars, coutVars, untouched>>

(* SHUTDOWN: the monitor is joined, then jobExecutor is told and waited for. *)
Shutdown ==
  /\ mainPc = "dispatch" /\ command = "SHUTDOWN"
  /\ IF crawling_has_finished
       THEN UNCHANGED <<monitor_forced_exit, monitorPc>>
       ELSE monitor_forced_exit' = TRUE /\ monitorPc' = "done"
  /\ mainPc' = "join"
  /\ UNCHANGED <<msg, jobExecutorReadyForCommands, loopVars, deadVars, fifos, fromJob, workerPc, pipeVars,
                 zombies, content, boundVars, clientVars, readVars, answerVars, cinVars, coutVars>>

JoinMonitor ==
  /\ mainPc = "join" /\ monitorPc = "done"
  /\ IF monitor_forced_exit THEN mainPc' = "gone" /\ UNCHANGED toJob
                            ELSE mainPc' = "waitpid" /\ Write(<<"/exit", "\n">>)
  /\ UNCHANGED <<startVars, monitor_forced_exit, clientVars, readVars, answerVars, cin, jobCommand,
                 asker, words, back, coutVars>>

WaitForJobExecutor ==
  /\ mainPc = "waitpid" /\ jePc \in {"none", "gone"} /\ mainPc' = "gone"
  /\ UNCHANGED <<clientVars, readVars, answerVars, coutVars, untouched>>

Main == \/ ReadByte \/ ReadNothing \/ Close \/ AnswerItself \/ Forward \/ ReadArguments \/ SendArguments
        \/ SendEndOfLine \/ ReadAnswer \/ ReadNoAnswer \/ Shutdown \/ JoinMonitor \/ WaitForJobExecutor

-----------------------------------------------------------------------------
(* jobExecutor: the words of its input, ... *)

mainOnly == <<monitorVars, i, k, fifos, content, boundVars, mainVars>>
printVars == <<fromJob, coutVars>>

Line(m) == [j \in 1..(m + 1) |-> [n |-> asker, b |-> IF j <= m THEN "x" ELSE "\n"]]
EndOfAnswer == <<[n |-> 0, b |-> "<"], [n |-> 0, b |-> "\n"]>>
Record(text) == printed' = IF asker = n THEN printed \o text ELSE printed
(* cout << ... << endl, and without an end of the line that flushes. *)
PrintLine(text) == fromJob' = fromJob \o buffered \o text /\ buffered' = <<>> /\ Record(text)
Buffer(text) == buffered' = buffered \o text /\ Record(text) /\ UNCHANGED fromJob

Coming == IF toJob = <<>> THEN "none" ELSE toJob[1].t
(* The word at the front and what ends it are there. *)
WordIsThere == Len(toJob) >= 2 /\ toJob[1].t \notin Blank
(* The end of the line, if it is there. *)
LineEnds == {j \in DOMAIN toJob : toJob[j].t = "\n"}

(* cin >> command flushes what was printed, if cin is good; if not it fails. *)
NeverFlush == UNCHANGED <<fromJob, buffered>>
Flush == fromJob' = fromJob \o buffered /\ buffered' = <<>>

AskForCommand ==
  /\ jePc = "ready"
  /\ IF cin = "good"
       THEN Flush /\ jePc' = "read" /\ UNCHANGED <<a_worker_died, cin, back, misread>>
       ELSE /\ cin' = "good" /\ back' = "ready" /\ a_worker_died' = FALSE
            /\ IF a_worker_died THEN jePc' = "replace" /\ UNCHANGED misread
                                ELSE jePc' = "exit" /\ misread' = TRUE
            /\ UNCHANGED <<fromJob, buffered>>
  /\ UNCHANGED <<mainOnly, worker_is_dead, workerPc, pipeVars, zombies, toJob, jobCommand, asker, words,
                 printed>>

kept == <<mainOnly, deadVars, workerPc, pipeVars, zombies, cin, back>>

SkipBlank ==
  /\ \/ jePc = "read" /\ Coming \in Blank
     \/ jePc \in {"words", "keyword"} /\ Coming = " "
  /\ toJob' = Tail(toJob)
  /\ UNCHANGED <<kept, jePc, jobCommand, asker, words, printVars>>

TakeCommand ==
  /\ jePc = "read" /\ WordIsThere
  /\ toJob' = Tail(toJob) /\ jobCommand' = toJob[1].t /\ asker' = toJob[1].n /\ words' = 0
  /\ jePc' = (IF a_worker_died THEN "replace" ELSE "route") /\ back' = "route"
  /\ a_worker_died' = FALSE
  /\ UNCHANGED <<mainOnly, worker_is_dead, workerPc, pipeVars, zombies, cin, printVars>>

Known == {"/search", "/maxcount", "/wc"}

Route ==
  /\ jePc = "route"
  /\ jePc' = CASE jobCommand = "/exit" -> "exit" [] jobCommand = "/search" -> "words"
              [] jobCommand = "/maxcount" -> "keyword" [] OTHER -> "ignore"
  /\ IF jobCommand \in Known \cup {"/exit"} THEN UNCHANGED printVars
                                           ELSE Buffer(Line(1)) /\ misread' = TRUE
  /\ UNCHANGED <<kept, toJob, jobCommand, asker, words>>

TakeWord ==
  /\ jePc \in {"words", "keyword"} /\ words < MaxWords /\ WordIsThere
  /\ toJob' = Tail(toJob) /\ words' = words + 1
  /\ jePc' = IF jePc = "keyword" THEN "ignore" ELSE "words"
  /\ UNCHANGED <<kept, jobCommand, asker, printVars>>

EnoughWords ==
  /\ jePc = "words" /\ words = MaxWords /\ Coming \notin Blank \cup {"none"}
  /\ jePc' = "ignore"
  /\ UNCHANGED <<kept, toJob, jobCommand, asker, words, printVars>>

EndOfWords ==
  /\ jePc \in {"words", "keyword"} /\ Coming = "\n"
  /\ IF words > 0 THEN jePc' = "ignore" /\ UNCHANGED printVars
                  ELSE jePc' = "end" /\ PrintLine(Line(1)) /\ UNCHANGED misread
  /\ UNCHANGED <<kept, toJob, jobCommand, asker, words>>

IgnoreLine ==
  /\ jePc = "ignore" /\ LineEnds # {}
  /\ LET j == CHOOSE h \in LineEnds : \A g \in LineEnds : h <= g
     IN  toJob' = SubSeq(toJob, j + 1, Len(toJob))
  /\ jePc' = IF jobCommand \in Known THEN "work" ELSE "end"
  /\ UNCHANGED <<kept, jobCommand, asker, words, printVars>>

(* ... the answer, ... *)
Work ==
  /\ jePc = "work" /\ worker_is_dead = {}
  /\ \E m \in 1..MaxText : PrintLine(Line(m))
  /\ jePc' = "end"
  /\ UNCHANGED <<kept, toJob, jobCommand, asker, words, misread>>

EndCommand ==
  /\ jePc = "end"
  /\ buffered' = buffered \o EndOfAnswer
  /\ jePc' = (IF a_worker_died THEN "replace" ELSE "ready") /\ back' = "ready"
  /\ a_worker_died' = FALSE
  /\ UNCHANGED <<mainOnly, worker_is_dead, workerPc, pipeVars, zombies, cin, toJob, jobCommand, asker,
                 words, fromJob, printed, misread>>

(* ... the replacement of the dead, which may wait for ever (see JobExecutor), ... *)
ReplacementMessages(w) ==
  [j \in 1..Cardinality({d \in Dirs : d % numWorkers = w}) |-> Message(w + (j - 1) * numWorkers)]

Replace ==
  /\ jePc = "replace" \/ (jePc = "work" /\ worker_is_dead # {})
  /\ \/ worker_is_dead # {} /\ jePc' = "hung" /\ UNCHANGED <<worker_is_dead, workerPc, pipeVars>>
     \/ /\ jePc' = IF jePc = "replace" THEN back ELSE "work"
        /\ worker_is_dead' = {}
        /\ workerPc' = [w \in Workers |-> IF w \in worker_is_dead THEN "loop" ELSE workerPc[w]]
        /\ sent' = [w \in Workers |-> IF w \in worker_is_dead THEN ReplacementMessages(w) ELSE sent[w]]
        /\ got' = [w \in Workers |-> IF w \in worker_is_dead THEN Len(ReplacementMessages(w)) ELSE got[w]]
  /\ UNCHANGED <<mainOnly, a_worker_died, zombies, cinVars, printVars>>

(* ... and the end. *)
Exit ==
  /\ jePc = "exit" /\ jePc' = "gone"
  /\ fifos' = {} /\ zombies' = {} /\ workerPc' = [w \in Workers |-> "dead"]
  /\ fromJob' = fromJob \o buffered \o
       [j \in 1..(2 * numWorkers) |-> [n |-> 0, b |-> IF j % 2 = 1 THEN "x" ELSE "\n"]]
  /\ buffered' = <<>>
  /\ UNCHANGED <<monitorVars, i, k, content, boundVars, mainVars, deadVars, pipeVars, cinVars, printed,
                 misread>>

Loop == \/ AskForCommand \/ SkipBlank \/ TakeCommand \/ Route \/ TakeWord \/ EnoughWords \/ EndOfWords \/ IgnoreLine
        \/ Work \/ EndCommand \/ Replace \/ Exit

-----------------------------------------------------------------------------
(* A worker died: the handler takes note, ... *)

Serving == {"ready", "read", "route", "words", "keyword", "ignore", "work", "end", "replace"}
TakeNote == zombies # {} /\ zombies' = {} /\ worker_is_dead' = worker_is_dead \cup zombies

handle_child_termination ==
  /\ jePc \in Serving /\ TakeNote /\ a_worker_died' = TRUE
  /\ UNCHANGED <<mainOnly, jePc, workerPc, pipeVars, cinVars, printVars>>

(* ... and a read that waits for input fails: of the next command, ... *)
CommandInterrupted ==
  /\ jePc = "read" /\ toJob = <<>>
  /\ TakeNote /\ a_worker_died' = FALSE /\ jePc' = "replace" /\ back' = "ready"
  /\ UNCHANGED <<mainOnly, workerPc, pipeVars, toJob, cin, jobCommand, asker, words, printVars>>

(* ... of the words of a query or what follows the last of them (a word too big?), *)
(* which does not end the line, ...                                               *)
Starved == Coming = "none" \/ (words < MaxWords /\ Len(toJob) = 1 /\ Coming \notin Blank)

WordsInterrupted ==
  /\ jePc = "words" /\ Starved
  /\ TakeNote /\ a_worker_died' = TRUE /\ toJob' = <<>>
  /\ jePc' = "ignore" /\ PrintLine(Line(1))
  /\ UNCHANGED <<mainOnly, workerPc, pipeVars, cin, jobCommand, asker, words, back, misread>>

(* ... of a keyword, whose line is not ignored then, ... *)
KeywordInterrupted ==
  /\ jePc = "keyword" /\ Starved
  /\ TakeNote /\ a_worker_died' = TRUE /\ toJob' = <<>>
  /\ jePc' = "end" /\ PrintLine(Line(1))
  /\ UNCHANGED <<mainOnly, workerPc, pipeVars, cin, jobCommand, asker, words, back, misread>>

(* ... or of the rest of the line, which leaves cin at its end of file. *)
LineInterrupted ==
  /\ jePc = "ignore" /\ LineEnds = {}
  /\ TakeNote /\ a_worker_died' = TRUE /\ toJob' = <<>> /\ cin' = "eof"
  /\ jePc' = IF jobCommand \in Known THEN "work" ELSE "end"
  /\ UNCHANGED <<mainOnly, workerPc, pipeVars, jobCommand, asker, words, back, printVars>>

Interrupted ==
  handle_child_termination \/ CommandInterrupted \/ WordsInterrupted \/ KeywordInterrupted \/ LineInterrupted

ChannelNext == (StartNext /\ UNCHANGED channelVars) \/ Accept \/ Main \/ Loop \/ Interrupted

Fairness ==
  /\ WF_allVars((init_jobExecutor \/ ReadReady) /\ UNCHANGED channelVars)
  /\ WF_allVars((jobExecutorStarts /\ UNCHANGED channelVars) \/ Loop)
  /\ WF_allVars((ChildDiedAtStart /\ UNCHANGED channelVars) \/ Interrupted)
  /\ \A w \in 0..(NumOfWorkers - 1) : WF_allVars(w \in Workers /\ WorkerStarts(w) /\ UNCHANGED channelVars)
  /\ WF_allVars(Main)

ChannelSpec == ChannelInit /\ [][ChannelNext]_allVars /\ Fairness

-----------------------------------------------------------------------------
(* The state, with the sizes of the arrays: command and arguments are not written *)
(* past their ends (webcrawler.cpp:203,267,298), nor words (jobExecutor.cpp:337).   *)
MainPcs == {"poll", "read", "dispatch", "args", "send", "endLine", "answer", "answered", "close", "spin",
            "join", "waitpid", "gone"}
Symbols == Sent \cup {"/search", "/maxcount", "/wc", "/exit"}
Texts == Seq([n : 0..MaxConnections, b : {"READY", "x", "<", "\n"}])

ChannelTypeOK ==
  /\ StartTypeOK
  /\ jePc \in {"none", "gone", "exit", "hung"} \cup Starting \cup Serving
  /\ mainPc \in MainPcs /\ n \in 0..MaxConnections /\ script \in Seq(Sent)
  /\ {monitor_forced_exit, closes, skipped, noMoreInput, previous_chunk_ends_in_tag, misread} \subseteq BOOLEAN
  /\ word \in Seq(Sent) /\ Len(word) <= CommandSize
  /\ command \in CommandWords \cup {"illegal"}
  /\ arguments \in Seq(Sent) /\ Len(arguments) <= ArgSize
  /\ toJob \in Seq([t : Symbols, n : 0..MaxConnections]) /\ cin \in {"good", "eof"}
  /\ jobCommand \in Symbols /\ asker \in 0..MaxConnections /\ words \in 0..MaxWords
  /\ back \in {"ready", "route"}
  /\ {fromJob, buffered, printed, received} \subseteq Texts

(* What a client gets is what jobExecutor printed for its command, all of it, and *)
(* nothing that it printed for an earlier one (webcrawler.cpp:319), unless         *)
(* jobExecutor has taken arguments for a command or lost its input, after a        *)
(* signal (jobExecutor.cpp:397,723).                                               *)
AnswerIsOwn ==
  ~misread =>
    /\ \A j \in DOMAIN received : received[j].n = n /\ received[j].b # "<"
    /\ mainPc = "answered" => received = printed

(* Why a client may wait for ever: it does not end its line and is silent, or closes *)
(* and leaves main reading nothing (webcrawler.cpp:204,268); jobExecutor hangs (for   *)
(* the other end of a pipe, see JobExecutor), was killed and its workers keep the     *)
(* pipe open, or ended and main reads nothing (webcrawler.cpp:322); or its start      *)
(* never ends.                                                                        *)
SilentClient == mainPc \in {"read", "args"} /\ script = <<>> /\ ~closes
ClosedEarly == mainPc = "spin" /\ closes /\ script = <<>>
NoJobExecutor ==
  \/ mainPc = "answer" /\ fromJob = <<>> /\ (jePc = "hung" \/ Orphans)
  \/ mainPc = "spin" /\ jePc = "gone" /\ ~PipeOpen
  \/ mainPc = "waitpid" /\ jePc = "hung"
  \/ mainPc = "join" /\ StartHangs

(* A command that a client began is answered, refused or obeyed in the end. *)
CommandsEnd ==
  mainPc = "read" ~> (mainPc \in {"poll", "gone"} \/ SilentClient \/ ClosedEarly \/ NoJobExecutor)
=============================================================================
