----------------------------- MODULE CrawlPages -----------------------------
(***************************************************************************)
(* What the web crawler promises, without its threads, locks and queue:    *)
(* starting from one url it learns the urls that the pages it downloads    *)
(* link to, settles every url it knows exactly once (the page is either    *)
(* downloaded or given up), and declares the crawl finished only when      *)
(* every known url is settled and every link of every downloaded page is   *)
(* known.                                                                  *)
(***************************************************************************)
CONSTANTS Keys,     \* root-relative urls, as urlHistory stores them
          StartKey, \* the root-relative part of the starting url
          LinkedBy  \* LinkedBy[k]: the keys that the page of k links to

VARIABLES known,    \* keys recorded so far
          got,      \* keys whose page has been downloaded
          lost,     \* keys given up: other server, no answer, not a 200
          finished  \* the crawl has been declared finished

vars == <<known, got, lost, finished>>

Settled == got \cup lost

Init == /\ known = {StartKey}
        /\ got = {} /\ lost = {}
        /\ finished = FALSE

Get(k) == /\ k \in known \ Settled
          /\ got' = got \cup {k}
          /\ UNCHANGED <<known, lost, finished>>

Lose(k) == /\ k \in known \ Settled
           /\ lost' = lost \cup {k}
           /\ UNCHANGED <<known, got, finished>>

Learn(k) == /\ k \notin known
            /\ \E p \in got : k \in LinkedBy[p]
            /\ known' = known \cup {k}
            /\ UNCHANGED <<got, lost, finished>>

Finish == /\ known = Settled
          /\ \A p \in got : LinkedBy[p] \subseteq known
          /\ finished' = TRUE
          /\ UNCHANGED <<known, got, lost>>

Next == Finish \/ \E k \in Keys : Get(k) \/ Lose(k) \/ Learn(k)

Spec == Init /\ [][Next]_vars
=============================================================================
