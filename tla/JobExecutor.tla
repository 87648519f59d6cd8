---------------------------- MODULE JobExecutor ----------------------------
(***************************************************************************)
(* jobExecutor and its workers (jobExecutor.cpp, worker.cpp) from the      *)
(* moment all pipes are open ("READY"): commands from the crawler, a       *)
(* request to each worker over its request pipe, answers over its answer   *)
(* pipe, the deadline of /search, workers that die at any moment and are   *)
(* replaced, /exit and termination signals.                                *)
(*                                                                         *)
(* A request, an answer line and a list of directories are one message     *)
(* each.  The open of a named pipe returns when both ends are there.  What *)
(* is in a pipe is lost when no process has it open any more; a            *)
(* replacement inherits the ends jobExecutor has open when it is forked.   *)
(* MaxCommands, MaxDeaths and MaxStartFailures bound the environment.      *)
(*                                                                         *)
(* StillFlagged, ReturnToNext, ReturnSilently, CloseAnswersOnly,           *)
(* KeepNumbers, NobodyDead, FirstLineOnly, DrainNothing and AllButTheLast  *)
(* are slips in the definition that follows them; no action uses them.     *)
(***************************************************************************)
EXTENDS Integers, Sequences, FiniteSets

CONSTANTS numWorkers,
          WorkerPathExists, \* is there a ./bin/worker in jobExecutor's directory
          MaxCommands, MaxDeaths, MaxStartFailures

ASSUME JobExecutorAssumption ==
  /\ numWorkers \in Nat \ {0} /\ WorkerPathExists \in BOOLEAN
  /\ MaxCommands \in Nat /\ MaxDeaths \in Nat /\ MaxStartFailures \in Nat

Workers == 0..(numWorkers - 1)

VARIABLES
  jePc,             \* jobExecutor: where,
  i,                \* its loop over the workers,
  back,             \* where replace_worker returns to,
  command, n,       \* the command at work and its number,
  responded, ready, \* the answers it has, those poll has reported
  worker_is_dead, a_worker_died, jobExecutor_must_terminate,
  Rfds, Afds, fds,  \* descriptors of each worker, and the table of open ones
  zombies,          \* children that died and were not waited for
  workerPc, asked,  \* each worker: where, the number of the command it searches for,
  search_canceled, worker_must_terminate,
  inherited,        \* the ends of pipes its process got from jobExecutor
  requests, answers, \* what is in the two pipes of each worker
  deaths, startFailures

callVars == <<jePc, i, back>>
commandVars == <<command, n, responded, ready>>
deadVars == <<worker_is_dead, a_worker_died>>
fdVars == <<Rfds, Afds, fds>>
workerVars == <<workerPc, asked, search_canceled, worker_must_terminate, inherited>>
pipeVars == <<requests, answers>>
boundVars == <<deaths, startFailures>>
vars == <<callVars, commandVars, deadVars, jobExecutor_must_terminate, fdVars, zombies,
          workerVars, pipeVars, boundVars>>

Commands == {"search", "count", "wc", "other", "exit", "eof"}
Kinds == {"dirs", "search", "count", "wc", "exit"}
AnswerKinds == {"line", "end", "count", "wc", "exit"}
R(w) == <<"R", w>>
A(w) == <<"A", w>>
Ends == {R(w) : w \in Workers} \cup {A(w) : w \in Workers}
Closed == <<"closed", 0>>
Fds == 0..(3 * numWorkers)

(* "start": the executable runs; "dirs": reads its directories; "openA": parsed    *)
(* them; "loop": waits for a request; "search", "searched": looks for lines, found *)
(* some; "garbled": took a request for a directory and is lost for good.           *)
WorkerPcs == {"start", "dirs", "openA", "loop", "search", "searched", "garbled", "dead"}
Serving == {"loop", "search", "searched"}
Reading == {"dirs", "openA", "garbled"} \cup Serving
JePcs == {"top", "read", "interrupted", "replace", "fork", "openR", "dirs", "openA", "send",
          "write", "collect", "poll", "take", "reading", "drain", "draining", "wc", "wcReading",
          "end", "finish", "exit", "exitReading", "dispatch",
          "kill", "close", "wait", "exited"}
Unknown == -1

Alive(w) == workerPc[w] # "dead"
(* Does jobExecutor, or a replacement that inherited it, have this end open? *)
Held(e) == \/ \E f \in Fds : fds[f] = e
           \/ \E v \in Workers : Alive(v) /\ e \in inherited[v]
HasReader(w) == workerPc[w] \in Reading
HasWriter(w) == workerPc[w] \in Serving


(* What an open descriptor names, and the lowest number that is free. *)
End(fd) == IF fd \in Fds THEN fds[fd] ELSE Closed
LowestFree == CHOOSE f \in Fds : fds[f] = Closed /\ \A g \in Fds : fds[g] = Closed => f <= g

(* The pipes hold q and a, but for those that no process has open any more. *)
Pipes(q, a) ==
  /\ requests' = [w \in Workers |-> IF Held(R(w))' \/ HasReader(w)' THEN q[w] ELSE <<>>]
  /\ answers' = [w \in Workers |-> IF Held(A(w))' \/ HasWriter(w)' THEN a[w] ELSE <<>>]

Init ==
  /\ jePc = "top" /\ i = 0 /\ back = "top"
  /\ command = "other" /\ n = 0 /\ responded = {} /\ ready = {}
  /\ worker_is_dead = [w \in Workers |-> FALSE] /\ a_worker_died = FALSE
  /\ jobExecutor_must_terminate = FALSE
  /\ Rfds = [w \in Workers |-> w] /\ Afds = [w \in Workers |-> numWorkers + w]
  /\ fds = [f \in Fds |-> CASE f < numWorkers -> R(f)
                            [] f \in numWorkers..(2 * numWorkers - 1) -> A(f - numWorkers)
                            [] OTHER -> Closed]
  /\ zombies = {}
  /\ workerPc = [w \in Workers |-> "loop"] /\ asked = [w \in Workers |-> 0]
  /\ search_canceled = [w \in Workers |-> FALSE]
  /\ worker_must_terminate = [w \in Workers |-> FALSE]
  /\ inherited = [w \in Workers |-> {}]
  /\ requests = [w \in Workers |-> <<>>] /\ answers = [w \in Workers |-> <<>>]
  /\ deaths = 0 /\ startFailures = 0

-----------------------------------------------------------------------------
(* jobExecutor: the loop of main(). *)

elsewhere == <<zombies, workerVars, boundVars>>

Top ==
  /\ jePc = "top"
  /\ jePc' = IF jobExecutor_must_terminate THEN "finish" ELSE "read"
  /\ UNCHANGED <<i, back, commandVars, deadVars, jobExecutor_must_terminate, fdVars, pipeVars,
                 elsewhere>>

Route(c) == CASE c \in {"exit", "eof"} -> "finish"
              [] c = "other" -> "end"
              [] OTHER -> "send"

(* cin >> command succeeds, or finds that the crawler has closed its end ("eof"). *)
ReadCommand(c) ==
  /\ jePc = "read" /\ (c \in {"exit", "eof"} \/ n < MaxCommands)
  /\ command = "eof" => c = "eof"
  /\ command' = c /\ n' = n + 1 /\ i' = 0
  /\ IF jobExecutor_must_terminate
       THEN jePc' = "finish" /\ UNCHANGED <<back, a_worker_died>>
     ELSE IF a_worker_died
       THEN /\ a_worker_died' = FALSE /\ jePc' = "replace"
            /\ back' = IF c = "eof" THEN "top" ELSE "dispatch"
       ELSE jePc' = Route(c) /\ UNCHANGED <<back, a_worker_died>>
  /\ UNCHANGED <<responded, ready, worker_is_dead, jobExecutor_must_terminate, fdVars, pipeVars,
                 elsewhere>>

(* cin >> command fails because a signal was handled meanwhile. *)
ReadFails ==
  /\ jePc = "interrupted"
  /\ IF ~jobExecutor_must_terminate /\ a_worker_died
       THEN a_worker_died' = FALSE /\ i' = 0 /\ back' = "top" /\ jePc' = "replace"
       ELSE jePc' = "finish" /\ UNCHANGED <<i, back, a_worker_died>>
  /\ UNCHANGED <<commandVars, worker_is_dead, jobExecutor_must_terminate, fdVars, pipeVars,
                 elsewhere>>

Dispatch ==
  /\ jePc = "dispatch"
  /\ jePc' = Route(command) /\ i' = 0
  /\ UNCHANGED <<back, commandVars, deadVars, jobExecutor_must_terminate, fdVars, pipeVars,
                 elsewhere>>

(* "<" is printed; then the workers that died meanwhile are replaced. *)
EndCommand ==
  /\ jePc = "end"
  /\ i' = 0 /\ responded' = {} /\ ready' = {}
  /\ IF a_worker_died
       THEN a_worker_died' = FALSE /\ back' = "top" /\ jePc' = "replace"
       ELSE jePc' = "top" /\ UNCHANGED <<back, a_worker_died>>
  /\ UNCHANGED <<command, n, worker_is_dead, jobExecutor_must_terminate, fdVars, pipeVars,
                 elsewhere>>

-----------------------------------------------------------------------------
(* Replacing the dead: the loops around replace_worker and its steps. *)

(* replace_worker returns; after a failure the worker still counts as dead. *)
ReturnToNext(ok) ==
  /\ worker_is_dead' = IF ok THEN worker_is_dead ELSE [worker_is_dead EXCEPT ![i] = TRUE]
  /\ jePc' = (IF back = "write" THEN "write" ELSE "replace") /\ i' = i + 1
ReturnSilently(ok) ==
  /\ UNCHANGED worker_is_dead
  /\ IF back = "write" THEN jePc' = "write" /\ UNCHANGED i
                       ELSE jePc' = "replace" /\ i' = i + 1
Return(ok) ==
  /\ worker_is_dead' = IF ok THEN worker_is_dead ELSE [worker_is_dead EXCEPT ![i] = TRUE]
  /\ IF back = "write" THEN jePc' = "write" /\ UNCHANGED i
                       ELSE jePc' = "replace" /\ i' = i + 1

StillFlagged == worker_is_dead
Unflagged == [worker_is_dead EXCEPT ![i] = FALSE]

ReplaceAll ==
  /\ jePc = "replace"
  /\ IF i = numWorkers THEN jePc' = back /\ i' = 0 /\ UNCHANGED worker_is_dead
     ELSE IF worker_is_dead[i]
       THEN jePc' = "fork" /\ worker_is_dead' = Unflagged /\ UNCHANGED i
       ELSE i' = i + 1 /\ UNCHANGED <<jePc, worker_is_dead>>
  /\ UNCHANGED <<back, commandVars, a_worker_died, jobExecutor_must_terminate, fdVars, pipeVars,
                 elsewhere>>

(* The old descriptors are closed before the fork, with what is left of an answer *)
(* (at most PIPE_BUF bytes of it) thrown away.                                    *)
CloseAnswersOnly == {Afds[i]}
ClosedFirst == {Rfds[i], Afds[i]}

CloseOld == fds' = [f \in Fds |-> IF f \in ClosedFirst THEN Closed ELSE fds[f]]

EmptyAnswers ==
  LET e == End(Afds[i])
  IN  IF e \in {A(w) : w \in Workers} /\ answers[e[2]] # <<>>
        THEN \E j \in 1..Len(answers[e[2]]) :
               Pipes(requests, [answers EXCEPT ![e[2]] = SubSeq(@, j + 1, Len(@))])
        ELSE Pipes(requests, answers)

(* A child that dies before its pid is in the table is left out: the open that    *)
(* follows waits for ever for it, as it does when the child dies later.  So is    *)
(* what would come of a second process for a worker that is alive.                *)
Fork ==
  /\ jePc = "fork" /\ ~Alive(i)
  /\ CloseOld
  /\ jePc' = "openR"
  /\ workerPc' = [workerPc EXCEPT ![i] = "start"]
  /\ inherited' = [inherited EXCEPT ![i] = {fds'[f] : f \in Fds} \ {Closed}]
  /\ search_canceled' = [search_canceled EXCEPT ![i] = FALSE]
  /\ worker_must_terminate' = [worker_must_terminate EXCEPT ![i] = FALSE]
  /\ zombies' = IF i \in zombies THEN (zombies \ {i}) \cup {Unknown} ELSE zombies
  /\ EmptyAnswers
  /\ UNCHANGED <<i, back, commandVars, deadVars, jobExecutor_must_terminate, Rfds, Afds, asked,
                 boundVars>>

KeepNumbers == UNCHANGED <<Rfds, Afds>>
ForgetNumbers == Rfds' = [Rfds EXCEPT ![i] = -1] /\ Afds' = [Afds EXCEPT ![i] = -1]

ForkFails ==
  /\ jePc = "fork" /\ startFailures < MaxStartFailures
  /\ startFailures' = startFailures + 1
  /\ CloseOld /\ ForgetNumbers /\ Return(FALSE)
  /\ UNCHANGED <<back, commandVars, a_worker_died, jobExecutor_must_terminate, zombies,
                 workerVars, deaths>>
  /\ EmptyAnswers

OpenRequests ==
  /\ jePc = "openR" /\ workerPc[i] = "start" /\ WorkerPathExists
  /\ Rfds' = [Rfds EXCEPT ![i] = LowestFree] /\ fds' = [fds EXCEPT ![LowestFree] = R(i)]
  /\ workerPc' = [workerPc EXCEPT ![i] = "dirs"] /\ jePc' = "dirs"
  /\ UNCHANGED <<i, back, commandVars, deadVars, jobExecutor_must_terminate, Afds, zombies,
                 asked, search_canceled, worker_must_terminate, inherited, pipeVars, boundVars>>

SendDirectories ==
  /\ jePc = "dirs"
  /\ IF HasReader(i)
       THEN /\ requests' = [requests EXCEPT ![i] = Append(@, [kind |-> "dirs", n |-> n])]
            /\ jePc' = "openA" /\ UNCHANGED <<i, worker_is_dead>>
       ELSE Return(FALSE) /\ UNCHANGED requests
  /\ UNCHANGED <<back, commandVars, a_worker_died, jobExecutor_must_terminate, fdVars, answers,
                 elsewhere>>

OpenAnswers ==
  /\ jePc = "openA" /\ workerPc[i] = "openA"
  /\ Afds' = [Afds EXCEPT ![i] = LowestFree] /\ fds' = [fds EXCEPT ![LowestFree] = A(i)]
  /\ workerPc' = [workerPc EXCEPT ![i] = "loop"]
  /\ Return(TRUE)
  /\ UNCHANGED <<back, commandVars, a_worker_died, jobExecutor_must_terminate, Rfds, zombies,
                 asked, search_canceled, worker_must_terminate, inherited, pipeVars, boundVars>>

-----------------------------------------------------------------------------
(* A command: the request to each worker, ... *)

Send ==
  /\ jePc = "send"
  /\ IF i < numWorkers /\ ~jobExecutor_must_terminate
       THEN /\ IF worker_is_dead[i]
                 THEN worker_is_dead' = Unflagged /\ jePc' = "fork" /\ back' = "write"
                 ELSE jePc' = "write" /\ UNCHANGED <<back, worker_is_dead>>
            /\ UNCHANGED i
       ELSE /\ jePc' = IF jobExecutor_must_terminate THEN "finish"
                       ELSE IF command = "wc" THEN "wc" ELSE "collect"
            /\ i' = 0 /\ UNCHANGED <<back, worker_is_dead>>
  /\ UNCHANGED <<commandVars, a_worker_died, jobExecutor_must_terminate, fdVars, pipeVars,
                 elsewhere>>

(* write(Rfds[i], ...): nothing is written if nobody reads any more. *)
Request(kind) ==
  LET e == End(Rfds[i])
  IN  requests' = IF e \in {R(w) : w \in Workers} /\ HasReader(e[2])
                    THEN [requests EXCEPT ![e[2]] = Append(@, [kind |-> kind, n |-> n])]
                    ELSE requests

Write ==
  /\ jePc = "write"
  /\ Request(command) /\ jePc' = "send" /\ i' = i + 1
  /\ UNCHANGED <<back, commandVars, deadVars, jobExecutor_must_terminate, fdVars, answers,
                 elsewhere>>

(* ... the round that waits for answers (search_management, /maxcount, /mincount), ... *)
NobodyDead == {}
Dead == {w \in Workers : worker_is_dead[w]}

Collect ==
  /\ jePc = "collect" /\ i' = 0
  /\ IF command = "search" /\ responded = Workers THEN jePc' = "end" /\ UNCHANGED responded
     ELSE IF jobExecutor_must_terminate THEN jePc' = "finish" /\ UNCHANGED responded
     ELSE /\ responded' = responded \cup Dead
          /\ jePc' = IF responded' = Workers THEN "end" ELSE "poll"
  /\ UNCHANGED <<back, command, n, ready, deadVars, jobExecutor_must_terminate, fdVars,
                 pipeVars, elsewhere>>

Readable(w) == LET e == End(Afds[w]) IN e \in {A(v) : v \in Workers} /\ answers[e[2]] # <<>>
(* Would poll return for worker w: data, the end of the file, or a bad descriptor? *)
Reported(w) ==
  LET e == End(Afds[w])
  IN  /\ Afds[w] # -1
      /\ IF e \in {A(v) : v \in Workers} THEN answers[e[2]] # <<>> \/ ~HasWriter(e[2])
         ELSE IF e = Closed THEN TRUE ELSE ~HasReader(e[2])

Poll ==
  /\ jePc = "poll" /\ \E w \in Workers \ responded : Reported(w)
  /\ ready' = {w \in Workers \ responded : Readable(w)} /\ jePc' = "take"
  /\ UNCHANGED <<i, back, command, n, responded, deadVars, jobExecutor_must_terminate, fdVars,
                 pipeVars, elsewhere>>

Take ==
  /\ jePc = "take"
  /\ IF ready = {} \/ jobExecutor_must_terminate
       THEN jePc' = "collect" /\ UNCHANGED <<i, responded, ready>>
       ELSE /\ i' = CHOOSE w \in ready : \A v \in ready : w <= v
            /\ ready' = ready \ {i'} /\ responded' = responded \cup {i'} /\ jePc' = "reading"
  /\ UNCHANGED <<back, command, n, deadVars, jobExecutor_must_terminate, fdVars, pipeVars,
                 elsewhere>>

(* After a line of /search there is more to read. *)
FirstLineOnly(m) == FALSE
MoreToCome(m) == command = "search" /\ m.kind = "line"

(* read(Afds[i], ...): a message, the end of the file, or an error. *)
ReadAnswer(done, next) ==
  /\ LET e == End(Afds[i])
         w == e[2]
     IN  \/ /\ Readable(i) /\ answers' = [answers EXCEPT ![w] = Tail(@)]
            /\ IF MoreToCome(Head(answers[w]))
                 THEN UNCHANGED <<jePc, i>>
                 ELSE jePc' = done /\ i' = next
         \/ /\ ~Readable(i) /\ ~(e \in {A(v) : v \in Workers} /\ HasWriter(w))
            /\ jePc' = done /\ i' = next /\ UNCHANGED answers
  /\ UNCHANGED <<back, commandVars, deadVars, jobExecutor_must_terminate, fdVars, requests,
                 elsewhere>>

TakeAnswer == jePc = "reading" /\ ReadAnswer("take", i)

(* ... the deadline of /search: SIGUSR1 to the living and an end to be read from *)
(* each worker that did not answer in time, ...                                  *)
Deadline ==
  /\ jePc = "poll" /\ command = "search" /\ \A w \in Workers \ responded : ~Reported(w)
  /\ search_canceled' = [w \in Workers |->
       search_canceled[w] \/ (~worker_is_dead[w] /\ workerPc[w] \in {"search", "searched"})]
  /\ jePc' = "drain" /\ i' = 0
  /\ UNCHANGED <<back, commandVars, deadVars, jobExecutor_must_terminate, fdVars, zombies,
                 workerPc, asked, worker_must_terminate, inherited, pipeVars, boundVars>>

DrainNothing ==
  /\ jePc = "drain" /\ jePc' = "end"
  /\ UNCHANGED <<i, back, commandVars, deadVars, jobExecutor_must_terminate, fdVars, pipeVars,
                 elsewhere>>

Drain ==
  /\ jePc = "drain"
  /\ IF i = numWorkers THEN jePc' = "end" /\ UNCHANGED i
     ELSE IF i \in responded THEN i' = i + 1 /\ UNCHANGED jePc
     ELSE jePc' = "draining" /\ UNCHANGED i
  /\ UNCHANGED <<back, commandVars, deadVars, jobExecutor_must_terminate, fdVars, pipeVars,
                 elsewhere>>

DrainAnswer == jePc = "draining" /\ ReadAnswer("drain", i + 1)

(* ... and /wc, which reads from one worker after the other. *)
WordCount ==
  /\ jePc = "wc"
  /\ IF jobExecutor_must_terminate THEN jePc' = "finish" /\ UNCHANGED i
     ELSE IF i = numWorkers THEN jePc' = "end" /\ UNCHANGED i
     ELSE IF worker_is_dead[i] THEN i' = i + 1 /\ UNCHANGED jePc
     ELSE jePc' = "wcReading" /\ UNCHANGED i
  /\ UNCHANGED <<back, commandVars, deadVars, jobExecutor_must_terminate, fdVars, pipeVars,
                 elsewhere>>

WordCountAnswer == jePc = "wcReading" /\ ReadAnswer("wc", i + 1)

-----------------------------------------------------------------------------
(* The end of main(). *)

(* SIGCHLD is ignored from here on, and from the first termination signal on. *)
Ignoring == \/ jobExecutor_must_terminate
            \/ jePc \in {"exit", "exitReading", "close", "wait", "exited"}

Finish ==
  /\ jePc = "finish"
  /\ jePc' = (IF jobExecutor_must_terminate THEN "kill" ELSE "exit") /\ i' = 0
  /\ UNCHANGED <<back, commandVars, deadVars, jobExecutor_must_terminate, fdVars, pipeVars,
                 elsewhere>>

SendExit ==
  /\ jePc = "exit"
  /\ IF i = numWorkers THEN jePc' = "close" /\ UNCHANGED requests
                       ELSE jePc' = "exitReading" /\ Request("exit")
  /\ UNCHANGED <<i, back, commandVars, deadVars, jobExecutor_must_terminate, fdVars, answers,
                 elsewhere>>

ExitAnswer == jePc = "exitReading" /\ ReadAnswer("exit", i + 1)

(* SIGINT to every worker.  It ends one that has no handler yet and one that is    *)
(* blocked in a read; one that is just about to read notices it after the read.    *)
AllButTheLast == 0..(numWorkers - 2)
Signalled == Workers

KillWorkers ==
  /\ jePc = "kill" /\ jePc' = "close"
  /\ \E missed \in SUBSET {w \in Signalled : workerPc[w] = "loop"} :
       workerPc' = [w \in Workers |->
                      IF w \notin Signalled \/ w \in missed \/ workerPc[w] \in {"search", "searched"}
                        THEN workerPc[w] ELSE "dead"]
  /\ worker_must_terminate' = [w \in Workers |-> w \in Signalled]
  /\ UNCHANGED <<i, back, commandVars, deadVars, jobExecutor_must_terminate, fdVars, zombies,
                 asked, search_canceled, inherited, boundVars>>
  /\ Pipes(requests, answers)

CloseAll ==
  /\ jePc = "close" /\ jePc' = "wait"
  /\ fds' = [f \in Fds |-> IF \E w \in Workers : f \in {Rfds[w], Afds[w]} THEN Closed ELSE fds[f]]
  /\ UNCHANGED <<i, back, commandVars, deadVars, jobExecutor_must_terminate, Rfds, Afds, elsewhere>>
  /\ Pipes(requests, answers)

WaitForAll ==
  /\ jePc = "wait" /\ (\A w \in Workers : ~Alive(w)) /\ jePc' = "exited"
  /\ UNCHANGED <<i, back, commandVars, deadVars, jobExecutor_must_terminate, fdVars, pipeVars,
                 elsewhere>>

jobExecutorStep ==
  \/ Top \/ ReadFails \/ Dispatch \/ EndCommand
  \/ ReplaceAll \/ Fork \/ ForkFails \/ OpenRequests \/ SendDirectories \/ OpenAnswers
  \/ Send \/ Write \/ Collect \/ Poll \/ Take \/ TakeAnswer \/ Deadline
  \/ Drain \/ DrainAnswer
  \/ WordCount \/ WordCountAnswer
  \/ Finish \/ SendExit \/ ExitAnswer \/ KillWorkers \/ CloseAll \/ WaitForAll

-----------------------------------------------------------------------------
(* The signal handlers of jobExecutor.  A handled signal interrupts a read of the *)
(* command and a poll, unless it comes just before them.                          *)

interrupt == jePc' \in {jePc} \cup (CASE jePc = "read" -> {"interrupted"}
                                      [] jePc = "poll" -> {"collect"}
                                      [] OTHER -> {})

handle_child_termination ==
  /\ zombies # {} /\ ~Ignoring
  /\ zombies' = {} /\ a_worker_died' = TRUE
  /\ worker_is_dead' = [w \in Workers |-> worker_is_dead[w] \/ w \in zombies]
  /\ interrupt
  /\ UNCHANGED <<i, back, commandVars, jobExecutor_must_terminate, fdVars, workerVars, pipeVars,
                 boundVars>>

handle_sig_termination ==
  /\ ~jobExecutor_must_terminate /\ jePc \notin {"close", "wait", "exited"}
  /\ jobExecutor_must_terminate' = TRUE
  /\ \/ interrupt /\ UNCHANGED i
     \/ jePc = "exitReading" /\ jePc' = "exit" /\ i' = i + 1
  /\ UNCHANGED <<back, commandVars, deadVars, fdVars, pipeVars, elsewhere>>

-----------------------------------------------------------------------------
(* A worker. *)

jobExecutorUnchanged == <<callVars, commandVars, deadVars, jobExecutor_must_terminate, fdVars,
                          boundVars>>


(* write(answer_fd, ...): nothing is written if nobody can read it any more. *)
Answer(w, kind, number) ==
  IF Held(A(w)) THEN [answers EXCEPT ![w] = Append(@, [kind |-> kind, from |-> w, n |-> number])]
                ELSE answers

(* The worker's process ends, with q and a in the pipes. *)
Gone(w, q, a) ==
  /\ workerPc' = [workerPc EXCEPT ![w] = "dead"]
  /\ inherited' = [inherited EXCEPT ![w] = {}] /\ asked' = [asked EXCEPT ![w] = 0]
  /\ zombies' = IF Ignoring THEN zombies ELSE zombies \cup {w}
  /\ UNCHANGED <<search_canceled, worker_must_terminate, callVars, commandVars, deadVars,
                 jobExecutor_must_terminate, fdVars>>
  /\ Pipes(q, a)

Ended(w, q, a) == UNCHANGED boundVars /\ Gone(w, q, a)

(* The worker goes on to its next request, or ends if it was signalled. *)
Continues(w, q, a) ==
  IF worker_must_terminate[w] THEN Ended(w, q, a)
  ELSE /\ workerPc' = [workerPc EXCEPT ![w] = "loop"] /\ requests' = q /\ answers' = a
       /\ asked' = [asked EXCEPT ![w] = 0]
       /\ UNCHANGED <<search_canceled, worker_must_terminate, inherited, zombies,
                      jobExecutorUnchanged>>

ReadDirectories(w) ==
  /\ workerPc[w] = "dirs" /\ requests[w] # <<>>
  /\ workerPc' = [workerPc EXCEPT ![w] = IF Head(requests[w]).kind = "dirs" THEN "openA"
                                                                           ELSE "garbled"]
  /\ requests' = [requests EXCEPT ![w] = Tail(@)]
  /\ UNCHANGED <<asked, search_canceled, worker_must_terminate, inherited, zombies, answers,
                 jobExecutorUnchanged>>

(* /maxcount and /mincount, /wc and EXIT are answered at once. *)
AnswerRequest(w) ==
  /\ workerPc[w] = "loop" /\ requests[w] # <<>>
  /\ LET m == Head(requests[w])
         q == [requests EXCEPT ![w] = Tail(@)]
     IN  \/ /\ m.kind = "count"
            /\ Continues(w, q, IF worker_must_terminate[w] THEN answers ELSE Answer(w, "count", m.n))
         \/ m.kind = "wc" /\ Continues(w, q, Answer(w, "wc", m.n))
         \/ m.kind = "exit" /\ Ended(w, q, Answer(w, "exit", m.n))

StartSearch(w) ==
  /\ workerPc[w] = "loop" /\ requests[w] # <<>> /\ Head(requests[w]).kind = "search"
  /\ IF worker_must_terminate[w]
       THEN Ended(w, [requests EXCEPT ![w] = Tail(@)], answers)
       ELSE /\ workerPc' = [workerPc EXCEPT ![w] = "search"]
            /\ asked' = [asked EXCEPT ![w] = Head(requests[w]).n]
            /\ search_canceled' = [search_canceled EXCEPT ![w] = FALSE]
            /\ requests' = [requests EXCEPT ![w] = Tail(@)]
            /\ UNCHANGED <<worker_must_terminate, inherited, zombies, answers,
                           jobExecutorUnchanged>>

(* A line that contains a word of the query; one stands for all of them. *)
FindLine(w) ==
  /\ workerPc[w] = "search" /\ ~search_canceled[w] /\ ~worker_must_terminate[w]
  /\ workerPc' = [workerPc EXCEPT ![w] = "searched"] /\ answers' = Answer(w, "line", asked[w])
  /\ UNCHANGED <<asked, search_canceled, worker_must_terminate, inherited, zombies, requests,
                 jobExecutorUnchanged>>

(* END_OF_MESSAGES: nothing (more) was found, or the search was canceled. *)
EndSearch(w) ==
  /\ workerPc[w] \in {"search", "searched"}
  /\ Continues(w, requests,
               IF worker_must_terminate[w] THEN answers ELSE Answer(w, "end", asked[w]))

(* The read of a request finds no writer.  Unless it was signalled the worker just *)
(* reads again, and again.                                                         *)
EndOfRequests(w) ==
  /\ workerPc[w] = "loop" /\ requests[w] = <<>> /\ ~Held(R(w)) /\ worker_must_terminate[w]
  /\ Ended(w, requests, answers)

(* execl fails, as it does whenever there is no ./bin/worker. *)
NoExecutable(w) ==
  /\ workerPc[w] = "start"
  /\ IF WorkerPathExists THEN startFailures < MaxStartFailures /\ startFailures' = startFailures + 1
                         ELSE UNCHANGED startFailures
  /\ UNCHANGED deaths /\ Gone(w, requests, answers)

WorkerStep(w) ==
  \/ ReadDirectories(w) \/ AnswerRequest(w) \/ StartSearch(w) \/ FindLine(w) \/ EndSearch(w)
  \/ EndOfRequests(w) \/ NoExecutable(w)

(* A worker is killed, crashes, or ends of itself when it cannot parse its files. *)
Die(w) ==
  /\ Alive(w) /\ deaths < MaxDeaths
  /\ deaths' = deaths + 1 /\ UNCHANGED startFailures
  /\ Gone(w, requests, answers)

Next ==
  \/ jobExecutorStep
  \/ handle_child_termination
  \/ handle_sig_termination
  \/ \E w \in Workers : WorkerStep(w)
  \/ \E c \in Commands : ReadCommand(c)
  \/ \E w \in Workers : Die(w)

Spec == Init /\ [][Next]_vars

(* jobExecutor and the workers are scheduled and a signal is delivered; the crawler, *)
(* a death and a termination signal need not come.                                  *)
FairSpec == /\ Spec /\ WF_vars(jobExecutorStep) /\ WF_vars(handle_child_termination)
            /\ \A w \in Workers : WF_vars(WorkerStep(w))

-----------------------------------------------------------------------------
(* Where jobExecutor uses i as an index into its tables of workers. *)
Indexing == {"fork", "openR", "dirs", "openA", "write", "reading", "draining", "wcReading",
             "exitReading"}

(* Every variable holds a value of its kind; an index into the tables of workers is *)
(* in their range, also after a worker was replaced in the middle of a loop over    *)
(* them (jobExecutor.cpp:357-365).                                                  *)
TypeOK ==
  /\ jePc \in JePcs /\ i \in 0..numWorkers /\ (jePc \in Indexing => i \in Workers)
  /\ back \in {"top", "dispatch", "write"}
  /\ command \in Commands /\ n \in Nat /\ responded \subseteq Workers /\ ready \subseteq Workers
  /\ worker_is_dead \in [Workers -> BOOLEAN] /\ a_worker_died \in BOOLEAN
  /\ jobExecutor_must_terminate \in BOOLEAN
  /\ Rfds \in [Workers -> Fds \cup {-1}] /\ Afds \in [Workers -> Fds \cup {-1}]
  /\ fds \in [Fds -> Ends \cup {Closed}]
  /\ zombies \subseteq Workers \cup {Unknown}
  /\ workerPc \in [Workers -> WorkerPcs] /\ asked \in [Workers -> Nat]
  /\ search_canceled \in [Workers -> BOOLEAN] /\ worker_must_terminate \in [Workers -> BOOLEAN]
  /\ inherited \in [Workers -> SUBSET Ends]
  /\ requests \in [Workers -> Seq([kind : Kinds, n : Nat])]
  /\ answers \in [Workers -> Seq([kind : AnswerKinds, from : Workers, n : Nat])]
  /\ deaths \in 0..MaxDeaths /\ startFailures \in 0..MaxStartFailures

(* What several of the properties ask for: see RequestsInFrame for what happens *)
(* when a second worker dies while the first is being replaced.                 *)
OneDeath == deaths <= 1

(* No worker is replaced while its process runs: the flag that the handler of    *)
(* SIGCHLD sets at any moment (jobExecutor.cpp:1032) and replace_worker's caller *)
(* takes back first (312) never stands for a death that was dealt with before.   *)
LiveNotFlagged == OneDeath /\ jePc = "fork" => ~Alive(i)

(* A replacement reads directories first: no request to its predecessor is left in *)
(* the named pipe it opens (jobExecutor.cpp:973).                                  *)
InFrame == OneDeath => \A w \in Workers : workerPc[w] # "garbled"

(* A descriptor in the tables is the worker's own or closed, never one that was *)
(* closed and given to another worker's pipe (jobExecutor.cpp:948,962,969).  It  *)
(* takes a third death to break this: a replacement that dies while it is sent   *)
(* its directories leaves the number of its predecessor's answer pipe (999).     *)
FdsOwn ==
  deaths <= 2 => \A w \in Workers : /\ End(Afds[w]) \in {A(w), Closed}
                                  /\ End(Rfds[w]) \in {R(w), Closed}

Expected == CASE command = "search" -> {"line", "end"} [] command = "count" -> {"count"}
              [] command = "wc" -> {"wc"} [] OTHER -> {}

(* What is read as the answer to a command is that worker's answer to that command, *)
(* however late the one before was canceled (jobExecutor.cpp:845-883) and whatever  *)
(* a worker that died had written (950-963).                                        *)
AnswersMatch ==
  OneDeath /\ jePc \in {"reading", "draining", "wcReading"} /\ Readable(i) =>
    LET m == Head(answers[End(Afds[i])[2]]) IN m.from = i /\ m.n = n /\ m.kind \in Expected

(* No death is forgotten, although a_worker_died is cleared before the flags are    *)
(* looked at (jobExecutor.cpp:308): the worker is flagged, will be by the handler,  *)
(* or is the one being replaced.                                                    *)
DeathIsKnown ==
  \A w \in Workers : ~Alive(w) /\ ~Ignoring =>
    w \in zombies \/ worker_is_dead[w] \/ (i = w /\ jePc \in {"fork", "openR", "dirs", "openA"})

(* At the end of a command (jobExecutor.cpp:709) every live worker waits for the  *)
(* next request and nothing is left in its pipes.                                 *)
PipesEmpty ==
  OneDeath /\ jePc = "end" =>
    \A w \in Workers : Alive(w) =>
      workerPc[w] = "loop" /\ requests[w] = <<>> /\ answers[w] = <<>>

-----------------------------------------------------------------------------
(* replace_worker opens a pipe that nobody will open at the other end. *)
ReplacementHangs == jePc \in {"openR", "openA"} /\ workerPc[i] \in {"dead", "garbled"}

(* A command ends (jobExecutor.cpp:434,667,813), whoever dies meanwhile, unless a *)
(* replacement dies before it has opened its pipes or two workers die.            *)
CommandEnds ==
  jePc = "send" ~> (jePc \in {"read", "exited"} \/ ReplacementHangs \/ ~OneDeath)

(* A termination signal ends jobExecutor and its workers (jobExecutor.cpp:741-776), *)
(* or is noticed with the next command if it comes just before a read (303), with   *)
(* the same exceptions.                                                             *)
ShutdownEnds ==
  jobExecutor_must_terminate ~>
    (jePc \in {"read", "exited"} \/ ReplacementHangs \/ ~OneDeath)

(* jobExecutor.cpp:973-974, worker.cpp:172: a worker reads the whole of a request    *)
(* before it terminates, so that its replacement finds no part of one in the pipe.   *)
RequestsInFrame == \A w \in Workers : workerPc[w] # "garbled"

(* jobExecutor.cpp:307: a worker that died while jobExecutor waited for a command is *)
(* replaced before the next one.                                                     *)
DeadAreReplaced ==
  \A w \in Workers :
    (jePc = "replace" /\ worker_is_dead[w]) ~> (workerPc[w] = "loop" \/ jobExecutor_must_terminate)
=============================================================================
