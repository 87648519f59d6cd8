-------------------------- MODULE JobExecutorStart --------------------------
(***************************************************************************)
(* The start of jobExecutor (crawling_monitoring.cpp, jobExecutor.cpp,     *)
(* worker.cpp): the monitor thread forks it and waits for "READY";         *)
(* jobExecutor makes two named pipes and a process for each worker, opens  *)
(* the request pipes, deals the directories out over them, and opens the   *)
(* answer pipes; a worker reads its directories until the one marked as    *)
(* the last, parses their files and opens its answer pipe.                 *)
(*                                                                         *)
(* A pipe is the sequence of all messages written to it (sent) and the     *)
(* number of those read (got).  What a worker finds in a directory is      *)
(* "ok", "bad" (a file without a line, which makes it exit) or "endless"   *)
(* (a last line without an end, on which it never stops).  A termination   *)
(* signal is left out until "READY"; MaxDeaths and MaxStartFailures bound  *)
(* the environment.                                                        *)
(*                                                                         *)
(* EndTooEarly, EndTooLate, FlagBeforeRead and DeathOnlyNoted are slips in *)
(* the definition that follows; no action uses them.                       *)
(***************************************************************************)
EXTENDS Integers, Sequences, FiniteSets

CONSTANTS NumOfWorkers,  \* NUM_OF_WORKERS of the crawler
          dirfilesize,   \* the number of directories
          Contents,      \* what the files of a directory may be like
          MaxDeaths, MaxStartFailures

ASSUME StartAssumption ==
  /\ NumOfWorkers \in Nat \ {0} /\ dirfilesize \in Nat \ {0}
  /\ Contents \subseteq {"ok", "bad", "endless"}
  /\ MaxDeaths \in Nat /\ MaxStartFailures \in Nat

VARIABLES
  monitorPc, msg,   \* the monitor thread, and what it read in place of READY
  jobExecutorReadyForCommands,
  jePc, i, k,       \* jobExecutor: where, and its loop variables
  worker_is_dead, a_worker_died,
  fifos,            \* the named pipes that exist in the directory
  fromJob,          \* what is in the pipe from jobExecutor to the crawler
  workerPc, sent, got,
  zombies,          \* children that died, of which SIGCHLD has not been handled
  content, deaths, startFailures

monitorVars == <<monitorPc, msg, jobExecutorReadyForCommands>>
loopVars == <<jePc, i, k>>
deadVars == <<worker_is_dead, a_worker_died>>
pipeVars == <<sent, got>>
boundVars == <<deaths, startFailures>>
startVars == <<monitorVars, loopVars, deadVars, fifos, fromJob, workerPc, pipeVars, zombies,
               content, boundVars>>

Dirs == 0..(dirfilesize - 1)
numWorkers == IF NumOfWorkers > dirfilesize THEN dirfilesize ELSE NumOfWorkers
range == dirfilesize \div numWorkers + (IF dirfilesize % numWorkers > 0 THEN 1 ELSE 0)
Workers == 0..(numWorkers - 1)
R(w) == <<"R", w>>
A(w) == <<"A", w>>
PipesBelow(w) == {R(v) : v \in 0..(w - 1)} \cup {A(v) : v \in 0..(w - 1)}
Fifos == PipesBelow(numWorkers)

(* "none": not forked; "exec", "openR": opens its request pipe; "dirs": reads its *)
(* directories; "parse"; "endless": never stops parsing; "openA": opens its       *)
(* answer pipe; "loop": serves; "deaf": missed the signal that should end it.     *)
WorkerPcs == {"none", "exec", "openR", "dirs", "parse", "endless", "openA", "loop", "deaf", "dead"}
Alive(w) == workerPc[w] \notin {"none", "dead"}

(* jobExecutor: "make" makes workers, "openR" and "openA" open their pipes, blocked *)
(* in between until the other end comes; "send" deals out the directories; "wait"   *)
(* waits for workers it has killed.                                                 *)
Blocked == {"blockedR", "blockedA"}
Starting == {"make", "openR", "send", "openA", "wait"} \cup Blocked

READY == [n |-> 0, b |-> "READY"]
(* jobExecutor and the workers it forked have the pipe to the crawler as stdout. *)
PipeOpen == jePc \notin {"none", "gone"} \/ \E w \in Workers : Alive(w)

(* An earlier jobExecutor that was killed has left its pipes behind, or not. *)
StartInit ==
  /\ monitorPc = "crawl" /\ msg = "none" /\ jobExecutorReadyForCommands = FALSE
  /\ jePc = "none" /\ i = 0 /\ k = 0 /\ worker_is_dead = {} /\ a_worker_died = FALSE
  /\ fifos \in {{}, Fifos} /\ fromJob = <<>>
  /\ workerPc = [w \in Workers |-> "none"]
  /\ sent = [w \in Workers |-> <<>>] /\ got = [w \in Workers |-> 0]
  /\ zombies = {} /\ content \in [Dirs -> Contents] /\ deaths = 0 /\ startFailures = 0

-----------------------------------------------------------------------------
(* The monitor thread. *)

CrawlFinishes ==
  /\ monitorPc = "crawl" /\ monitorPc' = "init"
  /\ UNCHANGED <<msg, jobExecutorReadyForCommands, loopVars, deadVars, fifos, fromJob,
                 workerPc, pipeVars, zombies, content, boundVars>>

(* fork, and all directories written to the new process; ... *)
init_jobExecutor ==
  /\ monitorPc = "init" /\ monitorPc' = "wait" /\ jePc' = "make"
  /\ UNCHANGED <<msg, jobExecutorReadyForCommands, i, k, deadVars, fifos, fromJob, workerPc,
                 pipeVars, zombies, content, boundVars>>

(* ... what follows does not ask whether that worked, ... *)
ForkJobExecutorFails ==
  /\ monitorPc = "init" /\ startFailures < MaxStartFailures
  /\ startFailures' = startFailures + 1
  /\ monitorPc' = "done" /\ jobExecutorReadyForCommands' = TRUE
  /\ UNCHANGED <<msg, loopVars, deadVars, fifos, fromJob, workerPc, pipeVars, zombies,
                 content, deaths>>

(* ... nor whether READY, or nothing, was read. *)
FlagBeforeRead ==
  /\ monitorPc = "wait" /\ monitorPc' = "done" /\ jobExecutorReadyForCommands' = TRUE
  /\ UNCHANGED <<msg, fromJob, loopVars, deadVars, fifos, workerPc, pipeVars, zombies,
                 content, boundVars>>
ReadReady ==
  /\ monitorPc = "wait" /\ monitorPc' = "done" /\ jobExecutorReadyForCommands' = TRUE
  /\ \/ fromJob # <<>> /\ msg' = "READY" /\ fromJob' = Tail(fromJob)
     \/ fromJob = <<>> /\ ~PipeOpen /\ msg' = "" /\ UNCHANGED fromJob
  /\ UNCHANGED <<loopVars, deadVars, fifos, workerPc, pipeVars, zombies, content, boundVars>>

-----------------------------------------------------------------------------
(* jobExecutor. *)

(* SIGINT for these workers.  One that has its handler in place and is just about *)
(* to block on an open or a read does not notice.                                 *)
Kill(ws) ==
  \E missed \in SUBSET {w \in ws : workerPc[w] \in {"openA", "loop"}} :
    workerPc' = [w \in Workers |-> IF w \in missed THEN "deaf"
                                  ELSE IF w \in ws /\ Alive(w) THEN "dead" ELSE workerPc[w]]

(* What is done when a step fails: the workers are killed, pipes removed. *)
GiveUp(gone) == jePc' = "wait" /\ fifos' = fifos \ gone /\ Kill(Workers)

elsewhere == <<monitorVars, deadVars, pipeVars, zombies, content, deaths>>

NamesFree == {R(i), A(i)} \cap fifos = {}

MakeWorker ==
  /\ jePc = "make" /\ i < numWorkers /\ NamesFree
  /\ fifos' = fifos \cup {R(i), A(i)}
  /\ workerPc' = [workerPc EXCEPT ![i] = "exec"]
  /\ i' = i + 1
  /\ UNCHANGED <<jePc, k, fromJob, startFailures, elsewhere>>

(* mkfifo fails on a name that is left over; that name stays. *)
FifoExists ==
  /\ jePc = "make" /\ i < numWorkers
  /\ \/ R(i) \in fifos /\ GiveUp(PipesBelow(i))
     \/ R(i) \notin fifos /\ A(i) \in fifos /\ GiveUp(PipesBelow(i) \cup {R(i)})
  /\ UNCHANGED <<i, k, fromJob, startFailures, elsewhere>>

(* The loop is left, with pipes that have no worker. *)
ForkWorkerFails ==
  /\ jePc = "make" /\ i < numWorkers /\ NamesFree
  /\ startFailures < MaxStartFailures /\ startFailures' = startFailures + 1
  /\ fifos' = fifos \cup {R(i), A(i)} /\ jePc' = "openR" /\ i' = 0
  /\ UNCHANGED <<k, fromJob, workerPc, elsewhere>>

(* A loop over the workers, or the directories, ends. *)
LoopEnds(pc, bound, next) ==
  /\ jePc = pc /\ i = bound
  /\ jePc' = next /\ i' = 0
  /\ UNCHANGED <<k, fifos, workerPc, startFailures, elsewhere>>

AllMade == LoopEnds("make", numWorkers, "openR") /\ UNCHANGED fromJob

(* open() of a name that is there blocks until the other end comes, ... *)
Block(pc, blocked, name) ==
  /\ jePc = pc /\ i < numWorkers
  /\ IF name \in fifos THEN jePc' = blocked /\ UNCHANGED <<fifos, workerPc>> ELSE GiveUp(Fifos)
  /\ UNCHANGED <<i, k, fromJob, startFailures, elsewhere>>

(* ... and then both ends are open. *)
Meet(pc, blocked, wpc, next) ==
  /\ jePc = blocked /\ workerPc[i] = wpc
  /\ jePc' = pc /\ i' = i + 1 /\ workerPc' = [workerPc EXCEPT ![i] = next]
  /\ UNCHANGED <<k, fifos, fromJob, startFailures, elsewhere>>

OpenRequests == Block("openR", "blockedR", R(i)) \/ Meet("openR", "blockedR", "openR", "dirs")
AllRequestsOpen == LoopEnds("openR", numWorkers, "send") /\ UNCHANGED fromJob

(* The header of directory d; last: no other one is sent to this worker. *)
EndTooEarly(d) == [dir |-> d, last |-> dirfilesize - d - numWorkers <= 1]
EndTooLate(d) == [dir |-> d, last |-> dirfilesize - d - numWorkers < 0]
Message(d) == [dir |-> d, last |-> dirfilesize - d - numWorkers <= 0]

(* Nothing is written to a worker that died. *)
distribute_directories_to_workers ==
  /\ jePc = "send" /\ i < dirfilesize
  /\ LET w == IF k >= numWorkers THEN 0 ELSE k
     IN  /\ sent' = IF workerPc[w] = "dead" THEN sent
                                            ELSE [sent EXCEPT ![w] = Append(@, Message(i))]
         /\ k' = w + 1
  /\ i' = i + 1
  /\ UNCHANGED <<monitorVars, jePc, deadVars, fifos, fromJob, workerPc, got, zombies, content,
                 boundVars>>

AllDealtOut == LoopEnds("send", dirfilesize, "openA") /\ UNCHANGED fromJob

OpenAnswers == Block("openA", "blockedA", A(i)) \/ Meet("openA", "blockedA", "openA", "loop")
SayReady == LoopEnds("openA", numWorkers, "ready") /\ fromJob' = Append(fromJob, READY)

WaitForWorkers ==
  /\ jePc = "wait" /\ \A w \in Workers : ~Alive(w)
  /\ jePc' = "gone"
  /\ UNCHANGED <<i, k, fifos, fromJob, workerPc, startFailures, elsewhere>>

jobExecutorStarts ==
  \/ MakeWorker \/ FifoExists \/ AllMade \/ OpenRequests \/ AllRequestsOpen
  \/ distribute_directories_to_workers \/ AllDealtOut \/ OpenAnswers \/ SayReady
  \/ WaitForWorkers

(* handle_child_termination only notes who died; but it ends an open that blocks. *)
DeathOnlyNoted ==
  /\ zombies # {} /\ jePc \in Starting
  /\ zombies' = {} /\ worker_is_dead' = worker_is_dead \cup zombies /\ a_worker_died' = TRUE
  /\ UNCHANGED <<monitorVars, loopVars, fifos, fromJob, workerPc, pipeVars, content, boundVars>>
ChildDiedAtStart ==
  /\ zombies # {} /\ jePc \in Starting
  /\ zombies' = {} /\ worker_is_dead' = worker_is_dead \cup zombies /\ a_worker_died' = TRUE
  /\ IF jePc \in Blocked THEN GiveUp(Fifos) ELSE UNCHANGED <<jePc, fifos, workerPc>>
  /\ UNCHANGED <<monitorVars, i, k, fromJob, pipeVars, content, boundVars>>

-----------------------------------------------------------------------------
(* A worker. *)

aside == <<monitorVars, loopVars, deadVars, fromJob, content>>

Becomes(w, pc) ==
  /\ workerPc' = [workerPc EXCEPT ![w] = pc]
  /\ zombies' = IF pc = "dead" THEN zombies \cup {w} ELSE zombies

Exec(w) ==
  /\ workerPc[w] = "exec"
  /\ Becomes(w, IF R(w) \in fifos THEN "openR" ELSE "dead")
  /\ UNCHANGED <<fifos, pipeVars, boundVars, aside>>

(* The child removes the pipes and kills the workers that were there before it. *)
ExecFails(w) ==
  /\ workerPc[w] = "exec" /\ startFailures < MaxStartFailures
  /\ startFailures' = startFailures + 1
  /\ fifos' = fifos \ PipesBelow(w + 1)
  /\ Kill(0..w) /\ zombies' = zombies \cup {v \in 0..w : workerPc[v] # "dead" /\ workerPc'[v] = "dead"}
  /\ UNCHANGED <<pipeVars, deaths, aside>>

ReadDirectory(w) ==
  /\ workerPc[w] = "dirs" /\ got[w] < Len(sent[w])
  /\ got' = [got EXCEPT ![w] = @ + 1]
  /\ Becomes(w, IF sent[w][got'[w]].last \/ got'[w] = range THEN "parse" ELSE "dirs")
  /\ UNCHANGED <<fifos, sent, boundVars, aside>>

(* A directory without a name cannot be parsed. *)
NoMoreDirectories(w) ==
  /\ workerPc[w] = "dirs" /\ got[w] = Len(sent[w]) /\ jePc = "gone"
  /\ Becomes(w, "dead")
  /\ UNCHANGED <<fifos, pipeVars, boundVars, aside>>

IsOk(w, j) == content[sent[w][j].dir] = "ok"
(* The first directory that is not all right decides. *)
FirstWrong(w) == {j \in 1..got[w] : ~IsOk(w, j) /\ \A h \in 1..(j - 1) : IsOk(w, h)}

parse_subdirectories(w) ==
  /\ workerPc[w] = "parse"
  /\ \/ /\ \A j \in 1..got[w] : IsOk(w, j)
        /\ Becomes(w, IF A(w) \in fifos THEN "openA" ELSE "dead")
     \/ \E j \in FirstWrong(w) :
          Becomes(w, IF content[sent[w][j].dir] = "endless" THEN "endless" ELSE "dead")
  /\ UNCHANGED <<fifos, pipeVars, boundVars, aside>>

WorkerStarts(w) ==
  \/ Exec(w) \/ ReadDirectory(w) \/ NoMoreDirectories(w) \/ parse_subdirectories(w)

-----------------------------------------------------------------------------
(* The environment: a worker, or jobExecutor, is killed. *)

WorkerDies(w) ==
  /\ Alive(w) /\ deaths < MaxDeaths /\ deaths' = deaths + 1
  /\ Becomes(w, "dead")
  /\ UNCHANGED <<fifos, pipeVars, startFailures, aside>>

JobExecutorDies ==
  /\ jePc \notin {"none", "gone"} /\ deaths < MaxDeaths /\ deaths' = deaths + 1
  /\ jePc' = "gone"
  /\ UNCHANGED <<monitorVars, i, k, deadVars, fifos, fromJob, workerPc, pipeVars, zombies,
                 content, startFailures>>

StartNext ==
  \/ CrawlFinishes \/ init_jobExecutor \/ ForkJobExecutorFails \/ ReadReady
  \/ jobExecutorStarts \/ ForkWorkerFails \/ ChildDiedAtStart
  \/ \E w \in Workers : WorkerStarts(w) \/ ExecFails(w) \/ WorkerDies(w)
  \/ JobExecutorDies

StartSpec == StartInit /\ [][StartNext]_startVars

-----------------------------------------------------------------------------
(* jePc and fromJob, which take more values in CommandChannel, are left to that. *)
StartTypeOK ==
  /\ monitorPc \in {"crawl", "init", "wait", "done"} /\ msg \in {"none", "READY", ""}
  /\ jobExecutorReadyForCommands \in BOOLEAN
  /\ i \in 0..dirfilesize /\ k \in 0..numWorkers
  /\ worker_is_dead \subseteq Workers /\ zombies \subseteq Workers /\ a_worker_died \in BOOLEAN
  /\ fifos \subseteq Fifos
  /\ workerPc \in [Workers -> WorkerPcs]
  /\ sent \in [Workers -> Seq([dir : Dirs, last : BOOLEAN])]
  /\ got \in [Workers -> 0..range] /\ \A w \in Workers : got[w] <= Len(sent[w])
  /\ content \in [Dirs -> Contents]
  /\ deaths \in 0..MaxDeaths /\ startFailures \in 0..MaxStartFailures

subdirectories(w) == [j \in 1..got[w] |-> sent[w][j].dir]
(* Past the reading of its directories. *)
HasShare(w) == workerPc[w] \in {"parse", "endless", "openA", "loop"}

(* Every directory is dealt to one worker, and a worker stops reading exactly when *)
(* it has all of its own, in their order: the mark END_OF_MESSAGES comes with the  *)
(* last one, and nothing is left in the pipe to be taken for a request             *)
(* (jobExecutor.cpp:789,994, worker.cpp:78-90).                                    *)
SharesAreWhole ==
  \A w \in Workers : HasShare(w) =>
    /\ got[w] = Len(sent[w])
    /\ \A d \in Dirs : d % numWorkers = w <=> \E j \in 1..got[w] : subdirectories(w)[j] = d
    /\ \A j \in 1..(got[w] - 1) : subdirectories(w)[j] < subdirectories(w)[j + 1]

(* READY is read only when every page of every directory has been parsed           *)
(* (jobExecutor.cpp:298); the flag that crawling_monitoring.cpp:83 sets all the    *)
(* same stands otherwise for a jobExecutor that is gone with all of its workers.   *)
ReadyMeansParsed ==
  jobExecutorReadyForCommands =>
    IF msg = "READY" THEN \A d \in Dirs : content[d] = "ok" ELSE ~PipeOpen

(* A worker missed the signal that should end it, and jobExecutor waits for it. *)
WaitsForDeaf == jePc = "wait" /\ \E w \in Workers : workerPc[w] = "deaf"

(* jobExecutor was killed, and a worker keeps the pipe to the crawler open for ever. *)
Orphans ==
  jePc = "gone" /\ \E w \in Workers : workerPc[w] \in {"openR", "endless", "openA", "loop", "deaf"}

(* Nobody will ever open the other end, and nobody's death interrupts the open; or *)
(* nobody will ever end.                                                           *)
StartHangs ==
  \/ jePc = "blockedR" /\ workerPc[i] \in {"none", "dead"} /\ zombies = {}
  \/ jePc = "blockedA" /\ workerPc[i] \in {"endless", "dead"} /\ zombies = {}
  \/ WaitsForDeaf \/ Orphans

(* The start comes to an end (crawling_monitoring.cpp:149) unless the worker whose   *)
(* pipe is opened was never forked (jobExecutor.cpp:193), or its death was handled   *)
(* before the open blocked, or it parses a page without a last line for ever; or a   *)
(* worker missed SIGINT; or jobExecutor was killed and left workers behind.  A death *)
(* that comes while the open blocks is no such reason: it interrupts the open        *)
(* (jobExecutor.cpp:234,268), the other workers are killed and the monitor gets its  *)
(* answer, but for the last two.                                                     *)
StartEnds ==
  /\ monitorPc = "wait" ~> (monitorPc = "done" \/ StartHangs)
  /\ (jePc \in Blocked /\ i \in zombies) ~> (monitorPc = "done" \/ WaitsForDeaf \/ Orphans)
=============================================================================
