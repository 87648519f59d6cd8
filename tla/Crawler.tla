------------------------------ MODULE Crawler ------------------------------
(***************************************************************************)
(* The web crawler process: the crawl threads (crawl.cpp), the monitor     *)
(* thread (crawling_monitoring.cpp) and the main thread (webcrawler.cpp)   *)
(* with the queue, the url history, the two condition variables and the    *)
(* unlocked flags they share.  jobExecutor is modelled by the little main  *)
(* and the monitor see of it.                                              *)
(*                                                                         *)
(* A step covers at most one access to a flag that is read without a lock  *)
(* (threads_must_terminate), and everything a thread does while it alone   *)
(* holds the lock of the data it touches.  pthread_cond_wait is two steps: *)
(* release and sleep, then (signalled or spuriously) re-acquire.           *)
(*                                                                         *)
(* AddEveryLinkToHistory, ForcedShutdownUnchecked, ForgetToSignal,         *)
(* ForgetToSignalMonitor, MonitorNotJoined, MonitorWakeUpOnce,             *)
(* NothingLeftOffByOne, NothingLeftTooLate, SearchFindsNothing and         *)
(* WakeUpUncounted are slips in the definition that follows each; no       *)
(* action uses them.                                                       *)
(***************************************************************************)
EXTENDS Integers, Sequences, FiniteSets

CONSTANTS Threads,      \* the crawl threads, num_of_threads of them
          Nobody,       \* holder of a free mutex
          Monitor,      \* the monitor thread as a mutex holder
          Urls,         \* urls as they are queued: root relative or full
          Keys,         \* their root-relative parts, as urlHistory stores them
          KeyOf,        \* KeyOf[u]: findRootRelativeUrl (u itself if malformed)
          Kind,         \* Kind[u]: what parse_url and the address check say of u
          Links,        \* Links[k]: the links crawl_for_links reads in k's file
          DirOf,        \* DirOf[k]: the site directory of k
          Start,        \* starting_url
          MayFail,      \* keys whose download may fail (no connection, not a 200)
          MaySilence,   \* keys for which a server may stop answering for good
          MayStop,      \* ways main may leave its poll loop in this instance
          MaxSpurious,  \* bound on spurious wakeups
          MaxStray      \* bound on the searches of a deleted urlHistory that are followed

Kinds == {"own", "foreign", "malformed"}

ASSUME ThreadsAssumption ==
  IsFiniteSet(Threads) /\ Threads # {} /\ Nobody # Monitor
  /\ Nobody \notin Threads /\ Monitor \notin Threads

(* starting_url has its four (or two) slashes checked by parse_arguments, but *)
(* nobody checks that it names our server; a malformed link is its own key,   *)
(* which starts with no '/', so it is the key of no other kind of link.       *)
ASSUME SiteAssumption ==
  /\ KeyOf \in [Urls -> Keys] /\ Kind \in [Urls -> Kinds]
  /\ Links \in [Keys -> Seq(Urls)] /\ DOMAIN DirOf = Keys
  /\ Start \in Urls /\ Kind[Start] # "malformed"
  /\ \A u, v \in Urls : KeyOf[u] = KeyOf[v] =>
                           (Kind[u] = "malformed" <=> Kind[v] = "malformed")

ASSUME EnvironmentAssumption ==
  MayFail \subseteq Keys /\ MaySilence \subseteq Keys /\ MayStop \subseteq {"SHUTDOWN", "accept"}
  /\ MaxSpurious \in Nat /\ MaxStray \in Nat

VARIABLES
  urlQueue, queueLock, num_of_threads_blocked,      \* under urlQueue->lock
  crawling_has_finished, cfLock,                    \* under crawlingFinishedLock
  urlHistory, alldirs, total_pages_downloaded,      \* each under a lock of its own
  threads_must_terminate, monitor_forced_exit, jobExecutorReadyForCommands, \* unlocked
  pc, url, todo,            \* each crawl thread: where, url popped, links still to add
  silent,                   \* threads whose server will not answer any more
  monitorPc, mainPc,
  job,                      \* the jobExecutor process as the crawler sees it
  exitSent,                 \* main has written "/exit" for jobExecutor
  historyDeleted,           \* main has executed delete urlHistory
  strayUses,                \* uses of urlHistory since then (auxiliary)
  downloaded, dropped,      \* how each recorded key was settled (auxiliary)
  spurious                  \* spurious wakeups so far

queueVars == <<urlQueue, num_of_threads_blocked>>
finishVars == <<crawling_has_finished, cfLock>>
historyVars == <<urlHistory, strayUses>>
pageVars == <<alldirs, total_pages_downloaded, downloaded, dropped>>
flagVars == <<threads_must_terminate, monitor_forced_exit, jobExecutorReadyForCommands>>
threadVars == <<url, todo, silent>>
mainVars == <<mainPc, exitSent, historyDeleted>>
vars == <<queueVars, queueLock, finishVars, historyVars, pageVars, flagVars, threadVars,
          pc, monitorPc, job, mainVars, spurious>>

NumThreads == Cardinality(Threads)

(* Between num_of_threads_blocked++ and the -- after pthread_cond_wait. *)
BlockedPcs == {"count", "sleep", "waiting", "woken"}
(* With a url in hand or about to look for one. *)
WorkingPcs == {"outer", "acquire", "fetch", "stats", "post", "links"}
(* Inside the critical section of the queue's lock. *)
HoldingPcs == {"check", "count", "sleep", "inner"}
ThreadPcs == BlockedPcs \cup WorkingPcs \cup HoldingPcs \cup {"new", "done"}
MonitorPcs == {"lock", "test", "wait", "waiting", "woken", "set", "broadcast",
               "join", "start", "init", "done"}
MainPcs == {"creating", "serving", "asking", "unlock", "cleanup", "join", "exit",
            "waitpid", "exited", "crashed"}
(* "unstarted": init_jobExecutor gave up before there was a process; "stuck": it hangs *)
(* for good in its start, or died and left workers that keep the pipe of READY open;   *)
(* "hung": it hangs for good later on; "dead": it ended unasked; "gone": on "/exit".   *)
JobStates == {"none", "unstarted", "starting", "stuck", "ready", "hung", "dead", "gone"}

At(S) == {t \in Threads : pc[t] \in S}
Elements(s) == {s[i] : i \in 1..Len(s)}

(* The keys that the links on the page of k stand for, links to other servers aside. *)
LinkedKeys == [k \in Keys |-> {KeyOf[u] : u \in {v \in Elements(Links[k]) : Kind[v] # "foreign"}}]

Goto(t, p) == pc' = [pc EXCEPT ![t] = p]

(* pthread_cond_signal(&QueueIsEmpty): the possible pc after it, f before it. *)
ForgetToSignal(f) == {f}
SignalQueueIsEmpty(f) ==
  LET sleepers == {w \in Threads : f[w] = "waiting"}
  IN  IF sleepers = {} THEN {f} ELSE {[f EXCEPT ![w] = "woken"] : w \in sleepers}

(* pthread_cond_broadcast(&QueueIsEmpty), as the set of its one outcome. *)
BroadcastQueueIsEmpty(f) ==
  {[t \in Threads |-> IF f[t] = "waiting" THEN "woken" ELSE f[t]]}

(* pthread_cond_signal(&crawlingFinished): only the monitor ever waits on it. *)
ForgetToSignalMonitor == UNCHANGED monitorPc
SignalCrawlingFinished ==
  monitorPc' = IF monitorPc = "waiting" THEN "woken" ELSE monitorPc

Init ==
  /\ urlQueue = <<Start>> /\ queueLock = Nobody /\ num_of_threads_blocked = 0
  /\ crawling_has_finished = FALSE /\ cfLock = Nobody
  /\ urlHistory = {KeyOf[Start]} /\ alldirs = {} /\ total_pages_downloaded = 0
  /\ threads_must_terminate = FALSE /\ monitor_forced_exit = FALSE
  /\ jobExecutorReadyForCommands = FALSE
  /\ pc = [t \in Threads |-> "new"]
  /\ url = [t \in Threads |-> Start] /\ todo = [t \in Threads |-> <<>>]
  /\ silent = {}
  /\ monitorPc = "lock" /\ mainPc = "creating" /\ job = "none" /\ exitSent = FALSE
  /\ historyDeleted = FALSE /\ strayUses = 0
  /\ downloaded = {} /\ dropped = {} /\ spurious = 0

-----------------------------------------------------------------------------
(* crawl(): the outer loop, the wait for a url, the pop. *)

elsewhere == <<flagVars, monitorPc, job, mainVars, spurious>>

OuterCheck(t) ==
  /\ pc[t] = "outer"
  /\ Goto(t, IF threads_must_terminate THEN "done" ELSE "acquire")
  /\ UNCHANGED <<queueVars, queueLock, finishVars, historyVars, pageVars, threadVars, elsewhere>>

Acquire(t) ==
  /\ pc[t] = "acquire" /\ queueLock = Nobody
  /\ queueLock' = t
  /\ Goto(t, "check")
  /\ UNCHANGED <<queueVars, finishVars, historyVars, pageVars, threadVars, elsewhere>>

(* while (urlQueue->isEmpty() && !threads_must_terminate), and the ++ in it. *)
CheckQueue(t) ==
  /\ pc[t] = "check"
  /\ IF urlQueue = <<>> /\ ~threads_must_terminate
       THEN /\ num_of_threads_blocked' = num_of_threads_blocked + 1
            /\ Goto(t, "count")
       ELSE Goto(t, "inner") /\ UNCHANGED num_of_threads_blocked
  /\ UNCHANGED <<urlQueue, queueLock, finishVars, historyVars, pageVars, threadVars, elsewhere>>

(* Is this the last thread to block, with nothing left in the queue? *)
NothingLeftOffByOne == urlQueue = <<>> /\ num_of_threads_blocked >= NumThreads - 1
NothingLeftTooLate == urlQueue = <<>> /\ num_of_threads_blocked > NumThreads
NothingLeft == urlQueue = <<>> /\ num_of_threads_blocked = NumThreads

CountBlocked(t) ==
  /\ pc[t] = "count" /\ cfLock = Nobody
  /\ cfLock' = t
  /\ crawling_has_finished' = NothingLeft
  /\ IF NothingLeft THEN SignalCrawlingFinished ELSE UNCHANGED monitorPc
  /\ Goto(t, "sleep")
  /\ UNCHANGED <<queueVars, queueLock, historyVars, pageVars, threadVars, flagVars, job,
                 mainVars, spurious>>

(* Unlock crawlingFinishedLock, then release the queue's lock and sleep. *)
Sleep(t) ==
  /\ pc[t] = "sleep"
  /\ cfLock' = Nobody /\ queueLock' = Nobody
  /\ Goto(t, "waiting")
  /\ UNCHANGED <<queueVars, crawling_has_finished, historyVars, pageVars, threadVars, elsewhere>>

SpuriousWakeup(t) ==
  /\ pc[t] = "waiting" /\ spurious < MaxSpurious
  /\ spurious' = spurious + 1
  /\ Goto(t, "woken")
  /\ UNCHANGED <<queueVars, queueLock, finishVars, historyVars, pageVars, threadVars,
                 flagVars, monitorPc, job, mainVars>>

(* pthread_cond_wait returns.  When threads_must_terminate is set the thread *)
(* releases the lock and leaves by the two breaks, for the flag stays set.   *)
WakeUpUncounted(t) ==
  /\ pc[t] = "woken" /\ queueLock = Nobody
  /\ IF threads_must_terminate
       THEN Goto(t, "done") /\ UNCHANGED queueLock
       ELSE Goto(t, "check") /\ queueLock' = t
  /\ UNCHANGED <<queueVars, finishVars, historyVars, pageVars, threadVars, elsewhere>>

WakeUp(t) ==
  /\ pc[t] = "woken" /\ queueLock = Nobody
  /\ num_of_threads_blocked' = num_of_threads_blocked - 1
  /\ IF threads_must_terminate
       THEN Goto(t, "done") /\ UNCHANGED queueLock
       ELSE Goto(t, "check") /\ queueLock' = t
  /\ UNCHANGED <<urlQueue, finishVars, historyVars, pageVars, threadVars, elsewhere>>

(* The second test of threads_must_terminate: its break keeps the lock. *)
InnerBreak(t) ==
  /\ pc[t] = "inner" /\ threads_must_terminate
  /\ Goto(t, "done")
  /\ UNCHANGED <<queueVars, queueLock, finishVars, historyVars, pageVars, threadVars, elsewhere>>

Pop(t) ==
  /\ pc[t] = "inner" /\ ~threads_must_terminate /\ urlQueue # <<>>
  /\ url' = [url EXCEPT ![t] = Head(urlQueue)]
  /\ urlQueue' = Tail(urlQueue)
  /\ queueLock' = Nobody
  /\ Goto(t, "fetch")
  /\ UNCHANGED <<num_of_threads_blocked, finishVars, historyVars, pageVars, todo, silent,
                 elsewhere>>

-----------------------------------------------------------------------------
(* crawl(): what it does with the url it popped. *)

(* No connect or read has a timeout, and a name is looked up again for as long as the *)
(* answer is TRY_AGAIN: before the header or in the middle of the page, which is read *)
(* to its end before it is counted, a server may leave the thread waiting for good.   *)
FallSilent(t) ==
  /\ pc[t] \in {"fetch", "stats"} /\ t \notin silent
  /\ Kind[url[t]] # "malformed" /\ KeyOf[url[t]] \in MaySilence
  /\ silent' = silent \cup {t}
  /\ UNCHANGED <<queueVars, queueLock, finishVars, historyVars, pageVars, url, todo, pc,
                 elsewhere>>

(* Not a url of our server, or the server does not give us the page. *)
Drop(t) ==
  /\ pc[t] = "fetch" /\ t \notin silent
  /\ Kind[url[t]] # "own" \/ KeyOf[url[t]] \in MayFail
  /\ dropped' = IF Kind[url[t]] # "foreign" \/ url[t] = Start
                  THEN dropped \cup {KeyOf[url[t]]} ELSE dropped
  /\ Goto(t, "outer")
  /\ UNCHANGED <<queueVars, queueLock, finishVars, historyVars, alldirs,
                 total_pages_downloaded, downloaded, threadVars, elsewhere>>

(* The header of a 200, and create_subdir_if_necessary; then the page is saved. *)
Download(t) ==
  /\ pc[t] = "fetch" /\ t \notin silent /\ Kind[url[t]] = "own"
  /\ alldirs' = alldirs \cup {DirOf[KeyOf[url[t]]]}
  /\ downloaded' = downloaded \cup {KeyOf[url[t]]}
  /\ Goto(t, "stats")
  /\ UNCHANGED <<queueVars, queueLock, finishVars, historyVars, total_pages_downloaded,
                 dropped, threadVars, elsewhere>>

UpdateStats(t) ==
  /\ pc[t] = "stats" /\ t \notin silent
  /\ total_pages_downloaded' = total_pages_downloaded + 1
  /\ Goto(t, "post")
  /\ UNCHANGED <<queueVars, queueLock, finishVars, historyVars, alldirs, downloaded,
                 dropped, threadVars, elsewhere>>

(* The last test of the flag; else crawl_for_links reads the page's links. *)
PostCheck(t) ==
  /\ pc[t] = "post"
  /\ LET links == Links[KeyOf[url[t]]]
     IN  IF threads_must_terminate
           THEN Goto(t, "done") /\ UNCHANGED todo
           ELSE /\ Goto(t, IF links = <<>> THEN "outer" ELSE "links")
                /\ todo' = [todo EXCEPT ![t] = links]
  /\ UNCHANGED <<queueVars, queueLock, finishVars, historyVars, pageVars, url, silent,
                 elsewhere>>

(* add_link_to_history: links to other servers are not recorded. *)
AddEveryLinkToHistory(u) == TRUE
AddLinkToHistory(u) == Kind[u] # "foreign"

(* urlHistory->search; in freed memory it may answer anything. *)
SearchFindsNothing(k) == {FALSE}
SearchHistory(k) == IF historyDeleted THEN BOOLEAN ELSE {k \in urlHistory}

(* One link of crawl_for_links, under the queue's lock from end to end. *)
AddLink(t) ==
  /\ pc[t] = "links" /\ queueLock = Nobody
  /\ LET u == Head(todo[t])
         next == [pc EXCEPT ![t] = IF Tail(todo[t]) = <<>> THEN "outer" ELSE "links"]
     IN  \E found \in SearchHistory(KeyOf[u]) :
           IF found
             THEN pc' = next /\ UNCHANGED <<urlQueue, urlHistory>>
             ELSE /\ urlHistory' = IF AddLinkToHistory(u) THEN urlHistory \cup {KeyOf[u]}
                                                          ELSE urlHistory
                  /\ urlQueue' = Append(urlQueue, u)
                  /\ pc' \in SignalQueueIsEmpty(next)
  /\ todo' = [todo EXCEPT ![t] = Tail(@)]
  /\ IF historyDeleted THEN strayUses < MaxStray /\ strayUses' = strayUses + 1
                       ELSE UNCHANGED strayUses
  /\ UNCHANGED <<num_of_threads_blocked, queueLock, finishVars, pageVars, url, silent,
                 elsewhere>>

(* ... or the search in freed memory kills the process. *)
CrashInHistory(t) ==
  /\ pc[t] = "links" /\ queueLock = Nobody /\ historyDeleted
  /\ mainPc' = "crashed" /\ strayUses' = strayUses + 1
  /\ UNCHANGED <<queueVars, queueLock, finishVars, urlHistory, pageVars, pc, threadVars,
                 flagVars, monitorPc, job, exitSent, historyDeleted, spurious>>

CrawlStep(t) ==
  \/ OuterCheck(t) \/ Acquire(t) \/ CheckQueue(t) \/ CountBlocked(t) \/ Sleep(t)
  \/ WakeUp(t) \/ InnerBreak(t) \/ Pop(t) \/ Drop(t) \/ Download(t) \/ UpdateStats(t)
  \/ PostCheck(t) \/ AddLink(t) \/ CrashInHistory(t)

-----------------------------------------------------------------------------
(* monitor_crawling() and init_jobExecutor(). *)

monitorUnchanged == <<queueVars, crawling_has_finished, historyVars, pageVars, threadVars, mainVars>>

MonitorLock ==
  /\ monitorPc = "lock" /\ cfLock = Nobody
  /\ cfLock' = Monitor /\ monitorPc' = "test"
  /\ UNCHANGED <<monitorUnchanged, queueLock, flagVars, pc, job, spurious>>

MonitorTest ==
  /\ monitorPc = "test"
  /\ IF crawling_has_finished
       THEN monitorPc' = "set" /\ cfLock' = Nobody
       ELSE monitorPc' = "wait" /\ UNCHANGED cfLock
  /\ UNCHANGED <<monitorUnchanged, queueLock, flagVars, pc, job, spurious>>

MonitorWait ==
  /\ monitorPc = "wait"
  /\ monitorPc' = "waiting" /\ cfLock' = Nobody
  /\ UNCHANGED <<monitorUnchanged, queueLock, flagVars, pc, job, spurious>>

MonitorSpuriousWakeup ==
  /\ monitorPc = "waiting" /\ spurious < MaxSpurious
  /\ spurious' = spurious + 1 /\ monitorPc' = "woken"
  /\ UNCHANGED <<monitorUnchanged, cfLock, queueLock, flagVars, pc, job>>

MonitorWakeUpOnce ==
  /\ monitorPc = "woken" /\ cfLock = Nobody
  /\ monitorPc' = "set"
  /\ UNCHANGED <<monitorUnchanged, cfLock, queueLock, flagVars, pc, job, spurious>>

MonitorWakeUp ==
  /\ monitorPc = "woken" /\ cfLock = Nobody
  /\ IF monitor_forced_exit
       THEN monitorPc' = "set" /\ UNCHANGED cfLock
       ELSE monitorPc' = "test" /\ cfLock' = Monitor
  /\ UNCHANGED <<monitorUnchanged, queueLock, flagVars, pc, job, spurious>>

MonitorSet ==
  /\ monitorPc = "set"
  /\ threads_must_terminate' = TRUE /\ monitorPc' = "broadcast"
  /\ UNCHANGED <<monitorUnchanged, cfLock, queueLock, monitor_forced_exit,
                 jobExecutorReadyForCommands, pc, job, spurious>>

(* Under the queue's lock, so that no thread is between its test and its sleep. *)
MonitorBroadcast ==
  /\ monitorPc = "broadcast" /\ queueLock = Nobody
  /\ pc' \in BroadcastQueueIsEmpty(pc)
  /\ monitorPc' = "join"
  /\ UNCHANGED <<monitorUnchanged, cfLock, queueLock, flagVars, job, spurious>>

AllJoined == \A t \in Threads : pc[t] = "done"

MonitorJoin ==
  /\ monitorPc = "join" /\ AllJoined
  /\ monitorPc' = "start"
  /\ UNCHANGED <<monitorUnchanged, cfLock, queueLock, flagVars, pc, job, spurious>>

(* fork and hand over the directories; pipe or fork may fail. *)
MonitorStartJob ==
  /\ monitorPc = "start" /\ ~monitor_forced_exit /\ alldirs # {}
  /\ job' \in {"starting", "unstarted"}
  /\ monitorPc' = "init"
  /\ UNCHANGED <<monitorUnchanged, cfLock, queueLock, flagVars, pc, spurious>>

MonitorNoJob ==
  /\ monitorPc = "start" /\ (monitor_forced_exit \/ alldirs = {})
  /\ monitorPc' = "done"
  /\ UNCHANGED <<monitorUnchanged, cfLock, queueLock, flagVars, pc, job, spurious>>

(* The read for "READY" returns the message or, if jobExecutor died, nothing; *)
(* the flag is set whatever was read.  It blocks for as long as the start     *)
(* takes, and there is no timeout.                                            *)
MonitorJobReady ==
  /\ monitorPc = "init" /\ job \notin {"starting", "stuck"}
  /\ jobExecutorReadyForCommands' = TRUE /\ monitorPc' = "done"
  /\ UNCHANGED <<monitorUnchanged, cfLock, queueLock, threads_must_terminate,
                 monitor_forced_exit, pc, job, spurious>>

MonitorStep ==
  \/ MonitorLock \/ MonitorTest \/ MonitorWait \/ MonitorWakeUp \/ MonitorSet
  \/ MonitorBroadcast \/ MonitorJoin \/ MonitorStartJob \/ MonitorNoJob \/ MonitorJobReady

(* jobExecutor prints READY once its workers are, and ends once it reads "/exit". *)
JobReady ==
  /\ job = "starting" /\ job' = "ready"
  /\ UNCHANGED <<monitorUnchanged, monitorPc, cfLock, queueLock, flagVars, pc, spurious>>

JobExits ==
  /\ job = "ready" /\ exitSent /\ job' = "gone"
  /\ UNCHANGED <<monitorUnchanged, monitorPc, cfLock, queueLock, flagVars, pc, spurious>>

JobStep == JobReady \/ JobExits

(* Or it gives up its start, is killed, or hangs for good, in an open, in a read or for *)
(* a worker (JobExecutorStart and JobExecutor say when).                                 *)
JobFails ==
  /\ \/ job = "starting" /\ job' \in {"stuck", "dead"}
     \/ job = "ready" /\ job' \in {"hung", "dead"}
  /\ UNCHANGED <<monitorUnchanged, monitorPc, cfLock, queueLock, flagVars, pc, spurious>>

-----------------------------------------------------------------------------
(* main(). *)

mainUnchanged == <<queueVars, queueLock, crawling_has_finished, historyVars, pageVars,
                   threadVars, spurious>>

CreateThread(t) ==
  /\ mainPc = "creating" /\ pc[t] = "new"
  /\ Goto(t, "outer")
  /\ UNCHANGED <<mainUnchanged, cfLock, flagVars, monitorPc, job, mainVars>>

StartServing ==
  /\ mainPc = "creating" /\ \A t \in Threads : pc[t] # "new"
  /\ mainPc' = "serving"
  /\ UNCHANGED <<mainUnchanged, cfLock, flagVars, pc, monitorPc, job, exitSent, historyDeleted>>

(* SEARCH, MAXCOUNT, MINCOUNT, WORDCOUNT: forwarded only when jobExecutor is   *)
(* taken to be ready; every other command is answered on the spot, from state. *)
ForwardCommand ==
  /\ mainPc = "serving"
  /\ crawling_has_finished /\ alldirs # {} /\ jobExecutorReadyForCommands
  /\ mainPc' = "asking"
  /\ UNCHANGED <<mainUnchanged, cfLock, flagVars, pc, monitorPc, job, exitSent, historyDeleted>>

(* The loop that reads the answer ends at "<\n" or on a read error (the pipe was *)
(* never made); on end of file it goes on reading for ever.                      *)
AnswerCommand ==
  /\ mainPc = "asking" /\ job \in {"ready", "unstarted"}
  /\ mainPc' = "serving"
  /\ UNCHANGED <<mainUnchanged, cfLock, flagVars, pc, monitorPc, job, exitSent, historyDeleted>>

(* SHUTDOWN (or a signal that interrupts poll) before the crawl has finished. *)
ForcedShutdownUnchecked ==
  /\ mainPc = "serving" /\ "SHUTDOWN" \in MayStop /\ cfLock = Nobody
  /\ monitor_forced_exit' = TRUE
  /\ SignalCrawlingFinished
  /\ mainPc' = "unlock"
  /\ UNCHANGED <<mainUnchanged, cfLock, threads_must_terminate, jobExecutorReadyForCommands,
                 pc, job, exitSent, historyDeleted>>

ForcedShutdown ==
  /\ mainPc = "serving" /\ "SHUTDOWN" \in MayStop /\ cfLock = Nobody
  /\ ~crawling_has_finished
  /\ monitor_forced_exit' = TRUE
  /\ SignalCrawlingFinished
  /\ mainPc' = "unlock"
  /\ UNCHANGED <<mainUnchanged, cfLock, threads_must_terminate, jobExecutorReadyForCommands,
                 pc, job, exitSent, historyDeleted>>

(* The mutex was unlocked in the if; this second unlock frees it whoever has it. *)
SecondUnlock ==
  /\ mainPc = "unlock"
  /\ cfLock' = Nobody /\ mainPc' = "cleanup"
  /\ UNCHANGED <<mainUnchanged, flagVars, pc, monitorPc, job, exitSent, historyDeleted>>

Shutdown ==
  /\ mainPc = "serving" /\ "SHUTDOWN" \in MayStop /\ cfLock = Nobody
  /\ crawling_has_finished
  /\ mainPc' = "cleanup"
  /\ UNCHANGED <<mainUnchanged, cfLock, flagVars, pc, monitorPc, job, exitSent, historyDeleted>>

(* accept fails: main leaves the poll loop and forces nobody to exit. *)
AcceptFails ==
  /\ mainPc = "serving" /\ "accept" \in MayStop
  /\ mainPc' = "cleanup"
  /\ UNCHANGED <<mainUnchanged, cfLock, flagVars, pc, monitorPc, job, exitSent, historyDeleted>>

DeleteHistory ==
  /\ mainPc = "cleanup"
  /\ historyDeleted' = TRUE /\ mainPc' = "join"
  /\ UNCHANGED <<mainUnchanged, cfLock, flagVars, pc, monitorPc, job, exitSent>>

MonitorNotJoined == TRUE
MonitorJoined == monitorPc = "done"

JoinMonitor ==
  /\ mainPc = "join" /\ MonitorJoined
  /\ mainPc' = "exit"
  /\ UNCHANGED <<mainUnchanged, cfLock, flagVars, pc, monitorPc, job, exitSent, historyDeleted>>

(* urlQueue and the rest are deleted; then "/exit" is written to the pipe, which was *)
(* never made if init_jobExecutor gave up.                                           *)
SendExit ==
  /\ mainPc = "exit"
  /\ IF ~monitor_forced_exit /\ alldirs # {}
       THEN exitSent' = TRUE /\ mainPc' = "waitpid"
       ELSE UNCHANGED exitSent /\ mainPc' = "exited"
  /\ UNCHANGED <<mainUnchanged, cfLock, flagVars, pc, monitorPc, job, historyDeleted>>

(* waitpid blocks until jobExecutor has ended; with no child it returns at once. *)
WaitForJob ==
  /\ mainPc = "waitpid" /\ job \in {"unstarted", "dead", "gone"}
  /\ mainPc' = "exited"
  /\ UNCHANGED <<mainUnchanged, cfLock, flagVars, pc, monitorPc, job, exitSent, historyDeleted>>

MainStep ==
  \/ \E t \in Threads : CreateThread(t)
  \/ StartServing \/ AnswerCommand \/ SecondUnlock \/ DeleteHistory \/ JoinMonitor
  \/ SendExit \/ WaitForJob

(* What a client, the operator, the library, a server or the failure of a process can *)
(* make happen, and nothing has to.                                                   *)
Environment ==
  \/ ForwardCommand \/ ForcedShutdown \/ Shutdown \/ AcceptFails \/ JobFails
  \/ MonitorSpuriousWakeup \/ \E t \in Threads : SpuriousWakeup(t) \/ FallSilent(t)

Next == /\ mainPc # "crashed"
        /\ \/ \E t \in Threads : CrawlStep(t)
           \/ MonitorStep \/ JobStep \/ MainStep \/ Environment

Spec == Init /\ [][Next]_vars

(* Every thread is scheduled and a mutex that stays free is taken; a server that has *)
(* not fallen silent answers (no step of a silent thread is enabled), and so does a   *)
(* jobExecutor that neither hangs nor dies.  Nothing is asked of Environment: no      *)
(* command has to come, no server has to fall silent, no process has to fail.         *)
Fairness ==
  /\ \A t \in Threads : WF_vars(mainPc # "crashed" /\ CrawlStep(t))
  /\ WF_vars(mainPc # "crashed" /\ MonitorStep)
  /\ WF_vars(mainPc # "crashed" /\ JobStep)
  /\ WF_vars(mainPc # "crashed" /\ MainStep)

FairSpec == Spec /\ Fairness

-----------------------------------------------------------------------------
(* Every variable holds a value of its kind and the counter of blocked threads *)
(* never passes the number of threads.                                         *)
TypeOK ==
  /\ urlQueue \in Seq(Urls) /\ queueLock \in Threads \cup {Nobody}
  /\ num_of_threads_blocked \in 0..NumThreads
  /\ crawling_has_finished \in BOOLEAN /\ cfLock \in Threads \cup {Nobody, Monitor}
  /\ urlHistory \subseteq Keys /\ alldirs \subseteq {DirOf[k] : k \in Keys}
  /\ total_pages_downloaded \in Nat
  /\ threads_must_terminate \in BOOLEAN /\ monitor_forced_exit \in BOOLEAN
  /\ jobExecutorReadyForCommands \in BOOLEAN
  /\ pc \in [Threads -> ThreadPcs] /\ url \in [Threads -> Urls]
  /\ todo \in [Threads -> Seq(Urls)] /\ silent \subseteq Threads
  /\ monitorPc \in MonitorPcs /\ mainPc \in MainPcs /\ job \in JobStates
  /\ exitSent \in BOOLEAN /\ historyDeleted \in BOOLEAN /\ strayUses \in Nat
  /\ downloaded \subseteq Keys /\ dropped \subseteq Keys /\ spurious \in 0..MaxSpurious

(* Once crawling_has_finished is set (crawl.cpp:68) nothing is queued and no thread  *)
(* has a url in hand or will pop one: each is counted as blocked, or was woken (for a *)
(* url that another thread took, spuriously or by the broadcast) and finds the queue  *)
(* empty, or leaves because it was told to.                                           *)
FinishedMeansIdle ==
  crawling_has_finished =>
    /\ urlQueue = <<>>
    /\ \A t \in Threads : \/ pc[t] \in BlockedPcs \cup {"check"}
                          \/ threads_must_terminate /\ pc[t] \in {"inner", "done"}

(* crawling_has_finished is assigned, not or-ed, each time a thread is about to *)
(* block (crawl.cpp:68), and main reads it without the lock (webcrawler.cpp:245):*)
(* once set it is never taken back.                                            *)
StaysFinished == [][crawling_has_finished => crawling_has_finished']_vars

(* When the crawl is declared finished every url recorded in urlHistory has     *)
(* been downloaded or given up, and every link of a downloaded page recorded.   *)
CrawlComplete ==
  crawling_has_finished /\ strayUses = 0 =>
    /\ urlHistory = downloaded \cup dropped
    /\ \A k \in downloaded : LinkedKeys[k] \subseteq urlHistory

(* However many threads find however many links to it, a page is downloaded and *)
(* counted for STATS once, and never given up as well (crawl.cpp:556-563).      *)
EachPageOnce ==
  strayUses = 0 =>
    /\ total_pages_downloaded + Cardinality(At({"stats"})) = Cardinality(downloaded)
    /\ downloaded \cap dropped = {}

(* One signal per link pushed is enough: while a thread sleeps there are never  *)
(* more urls queued than threads awake to take them (crawl.cpp:561).            *)
NoIdleWorker ==
  ~threads_must_terminate /\ At({"waiting"}) # {} =>
    Len(urlQueue) <= Cardinality(Threads \ At({"waiting"}))

(* The monitor and main decide separately whether there is a jobExecutor            *)
(* (crawling_monitoring.cpp:80, webcrawler.cpp:382) and decide the same: "/exit" is  *)
(* sent exactly if the monitor went to init_jobExecutor, never before the start is   *)
(* over, and main ends only when jobExecutor, if there is one, has ended.  It is not *)
(* sure that there is one: after a pipe or fork that failed                          *)
(* (crawling_monitoring.cpp:95-100, "unstarted") main writes to the descriptor -1    *)
(* and waits for -1, and passes over that both fail.                                 *)
JobExecutorAgreement ==
  /\ mainPc \in {"waitpid", "exited"} => (exitSent <=> job # "none")
  /\ exitSent => job \notin {"starting", "stuck"}
  /\ mainPc = "exited" => job \in {"none", "unstarted", "dead", "gone"}

(* main deletes urlQueue and destroys its lock, QueueIsEmpty and stat_lock          *)
(* (webcrawler.cpp:371-380) only when no crawl thread is left to use them, whichever *)
(* way it came to stop.  (urlHistory is deleted earlier: see NoUseAfterDelete.)      *)
TeardownSafe ==
  mainPc \in {"exit", "waitpid", "exited"} => \A t \in Threads : pc[t] = "done"

(* jobExecutor is started on a finished crawl only, and is handed the directory *)
(* of every page downloaded (crawling_monitoring.cpp:58-61,80,133-137).         *)
JobGetsWholeSite ==
  job # "none" => crawling_has_finished /\ alldirs = {DirOf[k] : k \in downloaded}

(* The crawler implements CrawlPages, up to the first use of a deleted history. *)
CP == INSTANCE CrawlPages WITH
        StartKey <- KeyOf[Start], LinkedBy <- LinkedKeys,
        known <- urlHistory, got <- downloaded, lost <- dropped,
        finished <- crawling_has_finished
ImplementsCrawlPages == CP!Init /\ [][strayUses' > 0 \/ CP!Next]_CP!vars

-----------------------------------------------------------------------------
(* A thread that has left crawl() by the break of line 84 with the queue's lock. *)
QueueLockLeaked == \E t \in Threads : pc[t] = "done" /\ queueLock = t

(* A thread waits for a server that does not answer (crawl.cpp:128,170,181,260). *)
ServerSilent == silent # {}

(* Unless it is told to stop before, or a server falls silent, the crawl finishes: *)
(* the threads never all sleep with work left, and the last one to block says so.  *)
CrawlEnds ==
  <>(crawling_has_finished \/ ServerSilent \/ mainPc \notin {"creating", "serving"})

(* The second unlock of SHUTDOWN (webcrawler.cpp:226) took the monitor's mutex   *)
(* from it between its test and its sleep, and the last signal came in between.  *)
SignalMissed == monitorPc = "waiting" /\ crawling_has_finished /\ monitor_forced_exit

(* What can stop the crawl threads and the monitor from winding down: the defects *)
(* that ThreadsAreJoined, MonitorIsNotified and NoUseAfterDelete show, and a server *)
(* that falls silent.                                                              *)
WindsDown(p) ==
  p \/ QueueLockLeaked \/ SignalMissed \/ mainPc = "crashed" \/ ServerSilent

(* After the crawl has finished, or a SHUTDOWN has been taken, the monitor joins     *)
(* every thread, starts jobExecutor if it should, and ends; only a jobExecutor that  *)
(* hangs in its start keeps it, in the read of READY (crawling_monitoring.cpp:149).  *)
MonitorEnds ==
  (crawling_has_finished \/ monitor_forced_exit)
     ~> WindsDown(monitorPc = "done" \/ job = "stuck")

(* Once main has left its poll loop, for whatever reason, the process exits, unless *)
(* jobExecutor hangs: in its start, and the monitor with it, or before it has taken *)
(* "/exit" or ended its workers, and main with it in waitpid (webcrawler.cpp:387).   *)
MainExits ==
  mainPc = "cleanup" ~> WindsDown(mainPc = "exited" \/ job \in {"stuck", "hung"})


(* webcrawler.cpp:53-54: the thread that sets crawling_has_finished notifies the  *)
(* monitor, which therefore does not sleep on once it is set.                     *)
MonitorIsNotified == crawling_has_finished => monitorPc # "waiting"

(* webcrawler.cpp:374: what other threads use is deleted after they are joined. *)
NoUseAfterDelete == strayUses = 0
=============================================================================
