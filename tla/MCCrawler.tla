----------------------------- MODULE MCCrawler -----------------------------
(***************************************************************************)
(* A small site for TLC: a start page s, a page p it links to and a page q *)
(* of another site directory that p links to.  p is also linked by its     *)
(* full url, a page of another server has the same root-relative part, and *)
(* one link is malformed.                                                  *)
(***************************************************************************)
EXTENDS Crawler, TLC

MCUrls == {"/s", "/p", "/q", "http:/p", "other/p", "bad"}
MCKeys == {"s", "p", "q", "bad"}
MCKeyOf == "/s" :> "s" @@ "/p" :> "p" @@ "/q" :> "q" @@ "http:/p" :> "p" @@ "other/p" :> "p" @@ "bad" :> "bad"
MCKind == "/s" :> "own" @@ "/p" :> "own" @@ "/q" :> "own" @@ "http:/p" :> "own"
            @@ "other/p" :> "foreign" @@ "bad" :> "malformed"
MCLinks == "s" :> <<"other/p", "/p", "bad">> @@ "p" :> <<"/s", "/q">>
             @@ "q" :> <<"http:/p">> @@ "bad" :> <<>>
MCDirOf == [k \in MCKeys |-> IF k = "q" THEN "site1" ELSE "site0"]

(* The crawl threads run the same code; no other value is told apart by it. *)
ThreadSymmetry == Permutations(Threads)
=============================================================================
