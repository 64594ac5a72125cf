----------------------- MODULE FocusBlockLoaderProofs -----------------------
(***************************************************************************)
(* Theorems about FocusBlockLoader, for any requests, sites, redirects and *)
(* queue limit: what a loader's parts say of each other, that nothing is   *)
(* fetched or shown unchecked, that a load ends once and for good, and     *)
(* that loaders and service implement FocusBlockGate.                      *)
(***************************************************************************)
EXTENDS FocusBlockLoader, TLAPS

USE ServiceAssumption, LoaderAssumption

(* One loader, and whether the service holds its call.  What LoaderTypeOK    *)
(* lacks to be inductive: the target waits at its redirect while that is     *)
(* checked or pending, a pending redirect has been let through, and only a   *)
(* load that has ended has told its client so.                               *)
Coherent(k, held) ==
    /\ k \in Loaders
    /\ k.check # "none" <=> held
    /\ k.check = "initial" => k.target = "none"
    /\ k.check # "none" => ~k.redirect
    /\ k.check \in {"redirect", "follow"} /\ ~k.completed => k.target = "redirecting"
    /\ k.redirect /\ ~k.completed => k.target = "redirecting" /\ k.url \in k.cleared
    /\ k.made = "no" => k = NoLoader
    /\ k.made = "direct" => k.target = "none" /\ k.check = "none"
    /\ ~k.completed => k.ended = <<>>
    /\ k.fetched \cup k.shown \subseteq k.cleared

(* What a step may do to a loader that has ended, and how a loader may move  *)
(* at the gate while its page is protected or not.                           *)
Moves(g, h, protected) ==
    \/ h = g
    \/ g = "none" /\ h \in {"direct", "held", "passed"}
    \/ g = "held" /\ h \in {"passed", "closed"}
    \/ g = "held" /\ protected /\ h = "refused"
    \/ g = "passed" /\ h \in {"held", "closed"}

Quiet(k, l, protected) ==
    /\ k.completed => l.fetched = k.fetched /\ l.shown = k.shown
    /\ Moves(Standing(k), Standing(l), protected)

Held(r) == answer[r] = "open"

LoaderInv ==
    /\ site \in [Calls -> Sites \cup {NoSite}]
    /\ answer \in [Calls -> {"unasked", "open", "allow", "block"}]
    /\ loader \in [Calls -> Loaders]
    /\ \A r \in Calls : Coherent(loader[r], Held(r))

QuietStep == \A r \in Calls : Quiet(loader[r], loader'[r], Protected(site[r]))

-----------------------------------------------------------------------------
(* The handlers, on one loader. *)

LEMMA FetchFine ==
    ASSUME NEW k \in Loaders, k.url \in k.cleared, k.check = "none", ~k.redirect,
           ~k.completed, k.ended = <<>>, k.made = "proxied", k.fetched \cup k.shown \subseteq k.cleared
    PROVE  Coherent(Fetch(k), FALSE) /\ Standing(Fetch(k)) = "passed"
BY DEF Fetch, Coherent, Loaders, Standing

LEMMA EndFine ==
    ASSUME NEW k, NEW held \in BOOLEAN, Coherent(k, held), ~k.completed, k.made = "proxied",
           NEW status \in {"blocked", "complete", "failed"}
    PROVE  /\ Coherent(End(k, status), held)
           /\ Coherent([End(k, status) EXCEPT !.target = "none"], held)
           /\ Standing(End(k, status)) \in {"refused", "closed"}
           /\ status # "blocked" => Standing(End(k, status)) = "closed"
           /\ Standing([End(k, status) EXCEPT !.target = "none"]) = Standing(End(k, status))
<1>1. Append(<<>>, status) = <<status>>
  OBVIOUS
<1>2. status # "blocked" => <<status>> # <<"blocked">>
  OBVIOUS
<1> DEFINE e == End(k, status)
<1>3. /\ e \in Loaders /\ e.completed /\ e.ended \in {<<>>, <<status>>} /\ e.made = "proxied"
      /\ e.check = k.check /\ e.target = k.target /\ e.redirect = k.redirect
      /\ e.fetched = k.fetched /\ e.shown = k.shown /\ e.cleared = k.cleared
  BY <1>1 DEF End, Coherent, Loaders
<1> HIDE DEF e
<1>4. Coherent(e, held) /\ Coherent([e EXCEPT !.target = "none"], held)
  BY <1>3 DEF Coherent, Loaders
<1>5. /\ Standing(e) = IF e.ended = <<"blocked">> THEN "refused" ELSE "closed"
      /\ Standing([e EXCEPT !.target = "none"]) = Standing(e)
  BY <1>3 DEF Standing, Loaders
<1>6. e.ended = <<"blocked">> => status = "blocked"
  BY <1>2, <1>3
<1> QED BY <1>4, <1>5, <1>6 DEF e

(* The check of a loader comes back, with either answer.                     *)
LEMMA DecidedFine ==
    ASSUME NEW k, NEW block \in BOOLEAN, Coherent(k, TRUE)
    PROVE  /\ Coherent(Decided(k, block), FALSE)
           /\ Quiet(k, Decided(k, block), block)
           /\ Standing(Decided(k, block)) = "passed" \/ block \/ k.completed
<1> DEFINE c == [k EXCEPT !.check = "none",
                          !.cleared = IF block THEN @ ELSE @ \cup {k.url}]
<1>1. c \in Loaders /\ c.check = "none" /\ ~c.redirect /\ c.completed = k.completed
      /\ c.made = k.made /\ c.ended = k.ended /\ c.target = k.target
      /\ c.fetched = k.fetched /\ c.shown = k.shown /\ c.url = k.url /\ c.client = k.client
      /\ (~block => c.url \in c.cleared) /\ k.cleared \subseteq c.cleared
  BY DEF Coherent, Loaders
<1>2. /\ k.check \in {"initial", "redirect", "follow"}
      /\ k.made = "proxied" /\ c.made = "proxied"
  BY <1>1 DEF Coherent, Loaders, NoLoader
<1>3. Coherent(c, FALSE)
  <2> HIDE DEF c
  <2> QED BY <1>1, <1>2 DEF Coherent
<1>4. Decided(k, block) = CASE k.check = "initial"  -> OnInitialDecision(c, block)
                            [] k.check = "redirect" -> OnReceiveRedirectDecision(c, block)
                            [] k.check = "follow"   -> OnFollowRedirectDecision(c, block)
  BY DEF Decided
<1> HIDE DEF c
<1>5. CASE c.completed
  <2>1. Decided(k, block) = c
    BY <1>2, <1>4, <1>5
       DEF OnInitialDecision, OnReceiveRedirectDecision, OnFollowRedirectDecision
  <2>2. Standing(c) = Standing(k)
    BY <1>1, <1>5 DEF Standing
  <2> QED BY <1>1, <1>3, <1>5, <2>1, <2>2 DEF Quiet, Moves
<1>6. CASE ~c.completed
  <2>1. Standing(k) = "held" /\ Standing(c) = "passed" /\ ~k.completed
    BY <1>1, <1>2, <1>6 DEF Standing
  <2>2. CASE block
    <3>1. Decided(k, block) \in {c, BlockRequest(c)}
      BY <1>2, <1>4, <2>2
         DEF OnInitialDecision, OnReceiveRedirectDecision, OnFollowRedirectDecision
    <3>2. /\ Coherent(BlockRequest(c), FALSE)
          /\ Standing(BlockRequest(c)) \in {"refused", "closed"}
      BY <1>2, <1>3, <1>6, EndFine DEF BlockRequest
    <3> QED BY <1>3, <2>1, <2>2, <3>1, <3>2 DEF Quiet, Moves
  <2>3. CASE ~block
    <3>1. Coherent(Fetch(c), FALSE) /\ Standing(Fetch(c)) = "passed"
      BY <1>1, <1>2, <1>3, <1>6, <2>3, FetchFine DEF Coherent
    <3>2. CASE k.check = "redirect"
      <4>1. Decided(k, block) = [c EXCEPT !.redirect = TRUE,
                                          !.shown = IF c.client THEN @ \cup {c.url} ELSE @]
        BY <1>4, <1>6, <2>3, <3>2 DEF OnReceiveRedirectDecision
      <4>2. c.target = "redirecting"
        BY <1>1, <1>6, <3>2 DEF Coherent
      <4> DEFINE d == [c EXCEPT !.redirect = TRUE,
                                !.shown = IF c.client THEN @ \cup {c.url} ELSE @]
      <4>3. /\ d \in Loaders /\ d.shown \subseteq d.cleared /\ d.check = c.check
            /\ d.target = c.target /\ d.url = c.url /\ d.cleared = c.cleared
            /\ d.made = c.made /\ d.ended = c.ended /\ d.fetched = c.fetched
            /\ d.completed = c.completed
        BY <1>1, <1>3, <2>3 DEF Coherent, Loaders
      <4> HIDE DEF d
      <4>4. Coherent(d, FALSE) /\ Standing(d) = "passed"
        BY <1>1, <1>2, <1>3, <1>6, <2>3, <4>2, <4>3 DEF Coherent, Standing
      <4>5. Decided(k, block) = d
        BY <4>1 DEF d
      <4> QED BY <2>1, <4>4, <4>5 DEF Quiet, Moves
    <3>3. CASE k.check # "redirect"
      <4>1. Decided(k, block) \in {c, Fetch(c)}
        BY <1>2, <1>4, <2>3, <3>3 DEF OnInitialDecision, OnFollowRedirectDecision
      <4> QED BY <1>3, <2>1, <3>1, <4>1 DEF Quiet, Moves
    <3> QED BY <3>2, <3>3
  <2> QED BY <2>2, <2>3
<1> QED BY <1>5, <1>6

-----------------------------------------------------------------------------
(* The steps. *)

(* A step that leaves the service alone and changes the loader of r.         *)
LEMMA OneLoader ==
    ASSUME LoaderInv, NEW r \in Calls, NEW k, loader' = [loader EXCEPT ![r] = k],
           answer' \in [Calls -> {"unasked", "open", "allow", "block"}],
           \A q \in Calls \ {r} : answer'[q] = answer[q],
           site' \in [Calls -> Sites \cup {NoSite}],
           Coherent(k, answer'[r] = "open"), Quiet(loader[r], k, Protected(site[r]))
    PROVE  LoaderInv' /\ QuietStep
<1>1. k \in Loaders
  BY DEF Coherent
<1>2. loader' \in [Calls -> Loaders]
  BY <1>1 DEF LoaderInv
<1>3. ASSUME NEW q \in Calls
      PROVE  Coherent(loader'[q], answer'[q] = "open") /\ Quiet(loader[q], loader'[q], Protected(site[q]))
  <2>1. CASE q = r
    BY <2>1 DEF LoaderInv
  <2>2. CASE q # r
    BY <2>2 DEF LoaderInv, Held, Quiet, Moves
  <2> QED BY <2>1, <2>2
<1> QED BY <1>2, <1>3 DEF LoaderInv, QuietStep, Held

LEMMA CheckFine ==
    ASSUME LoaderInv, NEW r \in Calls, NEW k, NEW s \in Sites \cup {NoSite}, NEW exempt,
           CheckRequest(r, k, s, exempt), Coherent(k, TRUE), Standing(k) = "held",
           ~k.completed, ~loader[r].completed, Standing(loader[r]) \in {"none", "passed"}
    PROVE  LoaderInv' /\ QuietStep
<1> DEFINE l == IF answer'[r] = "open" THEN k ELSE Decided(k, FALSE)
<1>1. /\ answer' \in [Calls -> {"unasked", "open", "allow", "block"}]
      /\ \A q \in Calls \ {r} : answer'[q] = answer[q]
      /\ site' \in [Calls -> Sites \cup {NoSite}]
  BY DEF CheckRequest, ShouldBlock, LoaderInv
<1>2. loader' = [loader EXCEPT ![r] = l]
  BY DEF CheckRequest
<1>3. Coherent(l, answer'[r] = "open") /\ Quiet(loader[r], l, Protected(site[r]))
  <2>1. CASE answer'[r] = "open"
    BY <2>1 DEF Quiet, Moves
  <2>2. CASE answer'[r] # "open"
    <3>1. /\ Coherent(Decided(k, FALSE), FALSE) /\ Quiet(k, Decided(k, FALSE), FALSE)
          /\ Standing(Decided(k, FALSE)) = "passed"
      BY DecidedFine
    <3> QED BY <2>2, <3>1 DEF Quiet, Moves
  <2> QED BY <2>1, <2>2
<1> HIDE DEF l
<1> QED BY <1>1, <1>2, <1>3, OneLoader

(* The service runs a callback once for its call, and refuses only what is   *)
(* protected at that moment.                                                 *)
Answers ==
    /\ site' \in [Calls -> Sites \cup {NoSite}]
    /\ answer' \in [Calls -> {"unasked", "open", "allow", "block"}]
    /\ \A r \in Calls : answer'[r] = "open" => answer[r] = "open"
    /\ \A r \in Calls : answer[r] = "open" /\ answer'[r] = "block" => Protected(site[r])

LEMMA AnswersFinal == LoaderInv /\ ServiceStep => Answers
<1> SUFFICES ASSUME LoaderInv, ServiceStep PROVE Answers
  OBVIOUS
<1>1. CASE UNCHANGED <<site, answer>>
  BY <1>1 DEF LoaderInv, Answers
<1>2. ASSUME \E v \in BOOLEAN : SetEnabled(v) \/ \E s \in Sites : SetEnabledForUrl(s, v)
      PROVE  UNCHANGED <<site, answer>>
  BY <1>2 DEF SetEnabled, SetEnabledForUrl
<1>3. ASSUME \E ok \in BOOLEAN : EngineRuns(ok) PROVE UNCHANGED <<site, answer>>
  BY <1>3 DEF EngineRuns
<1>4. CASE OnReply
  <2>1. site' = site
    BY <1>4 DEF OnReply
  <2>2. ASSUME NEW ok, OnEngineReady(ok) PROVE Answers
    BY <2>1, <2>2 DEF LoaderInv, OnEngineReady, Answers
  <2>3. ASSUME NEW c \in Calls, NEW matched, OnMatchCompleted(c, matched) PROVE Answers
    <3>1. answer' = [answer EXCEPT ![c] = IF Verdict(c, matched) THEN "block" ELSE "allow"]
      BY <2>3 DEF OnMatchCompleted
    <3>2. Verdict(c, matched) => Protected(site[c])
      BY DEF Verdict
    <3> QED BY <2>1, <3>1, <3>2 DEF LoaderInv, Answers
  <2> QED BY <1>1, <1>4, <2>1, <2>2, <2>3 DEF OnReply
<1>5. CASE Shutdown
  BY <1>5 DEF LoaderInv, Shutdown, Answers
<1> QED BY <1>1, <1>2, <1>3, <1>4, <1>5 DEF ServiceStep

LEMMA AnswersFine ==
    ASSUME LoaderInv, ServiceAnswers
    PROVE  LoaderInv' /\ QuietStep
<1>1. Answers
  BY AnswersFinal DEF ServiceAnswers
<1>2. ASSUME NEW r \in Calls
      PROVE  /\ Coherent(loader'[r], answer'[r] = "open")
             /\ Quiet(loader[r], loader'[r], Protected(site[r]))
             /\ loader'[r] \in Loaders
  <2>1. CASE answer[r] = "open" /\ answer'[r] # "open"
    <3> DEFINE block == answer'[r] = "block"
    <3>1. block \in BOOLEAN /\ loader'[r] = Decided(loader[r], block)
      BY <2>1 DEF ServiceAnswers
    <3>2. Coherent(loader[r], TRUE)
      BY <2>1 DEF LoaderInv, Held
    <3>3. block => Protected(site[r])
      BY <1>1, <2>1 DEF Answers
    <3> HIDE DEF block
    <3>4. Coherent(loader'[r], FALSE) /\ Quiet(loader[r], loader'[r], block)
      BY <3>1, <3>2, DecidedFine
    <3>5. Quiet(loader[r], loader'[r], Protected(site[r]))
      BY <3>3, <3>4 DEF Quiet, Moves
    <3> QED BY <2>1, <3>4, <3>5 DEF Coherent
  <2>2. CASE ~(answer[r] = "open" /\ answer'[r] # "open")
    <3>1. loader'[r] = loader[r] /\ (answer'[r] = "open" <=> answer[r] = "open")
      BY <1>1, <2>2 DEF ServiceAnswers, Answers
    <3> QED BY <3>1 DEF LoaderInv, Held, Quiet, Moves
  <2> QED BY <2>1, <2>2
<1>3. loader' \in [Calls -> Loaders]
  BY <1>2 DEF ServiceAnswers
<1> QED BY <1>1, <1>2, <1>3 DEF LoaderInv, QuietStep, Held, Answers

LEMMA CreateFine ==
    ASSUME LoaderInv, NEW r \in Calls, NEW s \in Sites \cup {NoSite}, NEW main, NEW exempt,
           CreateLoaderAndStart(r, s, main, exempt)
    PROVE  LoaderInv' /\ QuietStep
<1>1. loader[r] = NoLoader /\ Coherent(loader[r], Held(r)) /\ ~Held(r)
  BY DEF CreateLoaderAndStart, LoaderInv, Coherent, NoLoader
<1>2. CASE main \/ ~Protected(s)
  <2>1. /\ answer' = answer /\ site' = site
        /\ loader' = [loader EXCEPT ![r] = [NoLoader EXCEPT !.made = "direct"]]
    BY <1>1, <1>2 DEF CreateLoaderAndStart, serviceVars
  <2>2. Coherent([NoLoader EXCEPT !.made = "direct"], FALSE)
    BY <1>1 DEF Coherent, Loaders, NoLoader
  <2>3. Quiet(loader[r], [NoLoader EXCEPT !.made = "direct"], Protected(site[r]))
    BY <1>1 DEF Quiet, Moves, Standing, NoLoader
  <2> QED BY <1>1, <2>1, <2>2, <2>3, OneLoader DEF LoaderInv, Held
<1>3. CASE ~(main \/ ~Protected(s))
  <2> DEFINE k == [NoLoader EXCEPT !.made = "proxied", !.check = "initial"]
  <2>1. CheckRequest(r, k, s, exempt)
    BY <1>1, <1>3 DEF CreateLoaderAndStart
  <2>2. Coherent(k, TRUE) /\ ~k.completed /\ Standing(k) = "held"
    BY <1>1 DEF Coherent, Loaders, NoLoader, Standing
  <2>3. ~loader[r].completed /\ Standing(loader[r]) = "none"
    BY <1>1 DEF NoLoader, Standing
  <2> HIDE DEF k
  <2> QED BY <2>1, <2>2, <2>3, CheckFine
<1> QED BY <1>2, <1>3

LEMMA NetworkFine ==
    ASSUME LoaderInv, NEW r \in Calls, Network(r)
    PROVE  LoaderInv' /\ QuietStep
<1>1. Coherent(loader[r], Held(r)) /\ loader[r] \in Loaders /\ Held(r) \in BOOLEAN
  BY DEF LoaderInv, Held
<1>2. ASSUME NEW exempt \in BOOLEAN, OnReceiveRedirect(r, exempt) PROVE LoaderInv' /\ QuietStep
  <2> DEFINE k == [loader[r] EXCEPT !.check = "redirect", !.target = "redirecting",
                                    !.url = @ + 1]
  <2>1. CheckRequest(r, k, site[r], exempt)
    BY <1>2 DEF OnReceiveRedirect
  <2>2. /\ Coherent(k, TRUE) /\ ~k.completed /\ Standing(k) = "held"
        /\ ~loader[r].completed /\ Standing(loader[r]) = "passed"
    <3>1. /\ loader[r].target = "loading" /\ ~loader[r].completed
          /\ loader[r].check = "none" /\ ~loader[r].redirect /\ loader[r].made = "proxied"
      BY <1>1, <1>2 DEF OnReceiveRedirect, Coherent, NoLoader, Loaders
    <3>2. /\ k \in Loaders /\ k.check = "redirect" /\ k.target = "redirecting"
          /\ ~k.redirect /\ k.made = loader[r].made /\ k.ended = loader[r].ended
          /\ k.fetched = loader[r].fetched /\ k.shown = loader[r].shown
          /\ k.cleared = loader[r].cleared /\ k.completed = loader[r].completed
      <4>1. loader[r].url \in Nat /\ loader[r].url + 1 \in Nat
        BY <1>1 DEF Loaders
      <4> QED BY <1>1, <3>1, <4>1 DEF Loaders
    <3> HIDE DEF k
    <3> QED BY <1>1, <3>1, <3>2 DEF Coherent, Standing
  <2>3. site[r] \in Sites \cup {NoSite}
    BY DEF LoaderInv
  <2> HIDE DEF k
  <2> QED BY <2>1, <2>2, <2>3, CheckFine
<1>3. CASE OnComplete(r)
  <2>1. /\ loader' = [loader EXCEPT ![r] = End(loader[r], "complete")]
        /\ answer' = answer /\ site' = site
        /\ ~loader[r].completed /\ loader[r].made = "proxied"
    BY <1>1, <1>3 DEF OnComplete, serviceVars, Coherent, NoLoader, Loaders
  <2>2. /\ Coherent(End(loader[r], "complete"), Held(r))
        /\ Standing(End(loader[r], "complete")) = "closed"
    BY <1>1, <2>1, EndFine
  <2>3. Quiet(loader[r], End(loader[r], "complete"), Protected(site[r]))
    BY <2>1, <2>2 DEF Quiet, Moves, Standing
  <2> QED BY <2>1, <2>2, <2>3, OneLoader DEF LoaderInv, Held
<1>4. CASE OnTargetDisconnected(r)
  <2> DEFINE k == [End(loader[r], "failed") EXCEPT !.target = "none"]
  <2>1. /\ loader' = [loader EXCEPT ![r] = k] /\ answer' = answer /\ site' = site
        /\ ~loader[r].completed /\ loader[r].made = "proxied"
    BY <1>1, <1>4 DEF OnTargetDisconnected, serviceVars, Coherent, NoLoader, Loaders
  <2>2. Coherent(k, Held(r)) /\ Standing(k) = "closed"
    BY <1>1, <2>1, EndFine
  <2> HIDE DEF k
  <2>3. Quiet(loader[r], k, Protected(site[r]))
    BY <2>1, <2>2 DEF Quiet, Moves, Standing
  <2> QED BY <2>1, <2>2, <2>3, OneLoader DEF LoaderInv, Held
<1> QED BY <1>2, <1>3, <1>4 DEF Network

LEMMA ClientFine ==
    ASSUME LoaderInv, NEW r \in Calls, Client(r)
    PROVE  LoaderInv' /\ QuietStep
<1>1. Coherent(loader[r], Held(r)) /\ loader[r] \in Loaders /\ Held(r) \in BOOLEAN
  BY DEF LoaderInv, Held
<1>2. CASE FollowRedirect(r)
  <2> DEFINE c == [loader[r] EXCEPT !.redirect = FALSE]
  <2>1. /\ loader' = [loader EXCEPT ![r] = Fetch(c)] /\ Follows(r)
        /\ answer' = answer /\ site' = site
    BY <1>2 DEF FollowRedirect, serviceVars
  <2>2. ~Held(r) /\ ~loader[r].completed /\ loader[r].made = "proxied" /\ loader[r].check = "none"
    BY <1>1, <2>1 DEF Coherent, Follows, Loaders, NoLoader
  <2>3. Coherent(Fetch(c), FALSE) /\ Standing(Fetch(c)) = "passed"
    <3>1. /\ c \in Loaders /\ c.url \in c.cleared /\ c.check = "none" /\ ~c.redirect
          /\ ~c.completed /\ c.ended = <<>> /\ c.made = "proxied"
          /\ c.fetched \cup c.shown \subseteq c.cleared
      <4>1. loader[r].redirect
        BY <2>1 DEF Follows
      <4>2. /\ c \in Loaders /\ ~c.redirect /\ c.url = loader[r].url
            /\ c.cleared = loader[r].cleared /\ c.check = loader[r].check
            /\ c.completed = loader[r].completed /\ c.ended = loader[r].ended
            /\ c.made = loader[r].made /\ c.fetched = loader[r].fetched
            /\ c.shown = loader[r].shown
        BY <1>1 DEF Loaders
      <4> HIDE DEF c
      <4> QED BY <1>1, <2>2, <4>1, <4>2 DEF Coherent
    <3> HIDE DEF c
    <3> QED BY <3>1, FetchFine
  <2>4. Quiet(loader[r], Fetch(c), Protected(site[r]))
    BY <2>2, <2>3 DEF Quiet, Moves, Standing
  <2> HIDE DEF c
  <2> QED BY <2>1, <2>2, <2>3, <2>4, OneLoader DEF LoaderInv, Held
<1>3. ASSUME NEW exempt \in BOOLEAN, FollowRedirectTo(r, exempt) PROVE LoaderInv' /\ QuietStep
  <2> DEFINE k == [loader[r] EXCEPT !.check = "follow", !.redirect = FALSE, !.url = @ + 1]
  <2>1. CheckRequest(r, k, site[r], exempt) /\ Follows(r)
    BY <1>3 DEF FollowRedirectTo
  <2>2. /\ Coherent(k, TRUE) /\ ~k.completed /\ Standing(k) = "held"
        /\ ~loader[r].completed /\ Standing(loader[r]) = "passed"
    <3>1. /\ ~loader[r].completed /\ loader[r].redirect /\ loader[r].made = "proxied"
          /\ loader[r].target = "redirecting" /\ loader[r].check = "none"
      BY <1>1, <2>1 DEF Follows, Coherent, NoLoader, Loaders
    <3>2. /\ k \in Loaders /\ k.check = "follow" /\ k.target = loader[r].target
          /\ ~k.redirect /\ k.made = loader[r].made /\ k.ended = loader[r].ended
          /\ k.fetched = loader[r].fetched /\ k.shown = loader[r].shown
          /\ k.cleared = loader[r].cleared /\ k.completed = loader[r].completed
      <4>1. loader[r].url \in Nat /\ loader[r].url + 1 \in Nat
        BY <1>1 DEF Loaders
      <4> QED BY <1>1, <3>1, <4>1 DEF Loaders
    <3> HIDE DEF k
    <3> QED BY <1>1, <3>1, <3>2 DEF Coherent, Standing
  <2>3. site[r] \in Sites \cup {NoSite}
    BY DEF LoaderInv
  <2> HIDE DEF k
  <2> QED BY <2>1, <2>2, <2>3, CheckFine
<1>4. CASE OnUpstreamClientDisconnected(r)
  <2> DEFINE k == [loader[r] EXCEPT !.completed = TRUE, !.target = "none", !.client = FALSE]
  <2>1. /\ loader' = [loader EXCEPT ![r] = k] /\ answer' = answer /\ site' = site
        /\ loader[r].made = "proxied"
    BY <1>1, <1>4 DEF OnUpstreamClientDisconnected, serviceVars, LoaderInv, Loaders
  <2>2. Coherent(k, Held(r))
    BY <1>1, <2>1 DEF Coherent, Loaders, NoLoader
  <2>3. /\ k.completed /\ k.made = "proxied" /\ k.ended = loader[r].ended
        /\ k.fetched = loader[r].fetched /\ k.shown = loader[r].shown
    BY <1>1, <2>1 DEF Loaders
  <2>4. ~loader[r].completed => loader[r].ended # <<"blocked">>
    <3>1. <<>> # <<"blocked">>
      OBVIOUS
    <3> QED BY <1>1, <3>1 DEF Coherent
  <2> HIDE DEF k
  <2>5. Quiet(loader[r], k, Protected(site[r]))
    BY <2>1, <2>3, <2>4 DEF Quiet, Moves, Standing
  <2> QED BY <2>1, <2>2, <2>5, OneLoader DEF LoaderInv, Held
<1> QED BY <1>2, <1>3, <1>4 DEF Client

LEMMA LoaderInit == Init => LoaderInv
BY DEF Init, ServiceInit, LoaderInv, Coherent, Held, Loaders, NoLoader

LEMMA LoaderStep == LoaderInv /\ [Next]_vars => LoaderInv' /\ [QuietStep]_vars
<1>1. ASSUME LoaderInv, Next PROVE LoaderInv' /\ QuietStep
  BY <1>1, AnswersFine, CreateFine, NetworkFine, ClientFine DEF Next
<1>2. ASSUME LoaderInv, UNCHANGED vars PROVE LoaderInv'
  BY <1>2 DEF vars, serviceVars, LoaderInv, Held
<1> QED BY <1>1, <1>2

-----------------------------------------------------------------------------
(* A loader keeps its type; a check is outstanding exactly while the service *)
(* holds the call, before the target exists or while it waits at a redirect. *)
THEOREM LoaderTypes == Spec => []LoaderTypeOK
<1>1. LoaderInv => LoaderTypeOK
  BY DEF LoaderInv, LoaderTypeOK, Coherent, Held
<1> QED BY <1>1, LoaderInit, LoaderStep, PTL DEF Spec

(* Nothing reaches the network, and no redirect the renderer, before a check *)
(* has let it through, whatever the engine answers and whenever it does.     *)
THEOREM CheckedFirst == Spec => []ClearedFirst
<1>1. LoaderInv => ClearedFirst
  BY DEF LoaderInv, ClearedFirst, Coherent
<1> QED BY <1>1, LoaderInit, LoaderStep, PTL DEF Spec

(* A client hears of one end, and a load that has ended starts and shows     *)
(* nothing more, whatever answers come back to it.                           *)
THEOREM EndsOnce == Spec => QuietAfterEnd
<1>1. \A e \in {<<>>, <<"blocked">>, <<"complete">>, <<"failed">>} : Len(e) <= 1
  <2>1. Len(<<>>) = 0 /\ Len(<<"blocked">>) = 1 /\ Len(<<"complete">>) = 1
        /\ Len(<<"failed">>) = 1
    OBVIOUS
  <2> SUFFICES ASSUME NEW e \in {<<>>, <<"blocked">>, <<"complete">>, <<"failed">>}
               PROVE  Len(e) <= 1
    OBVIOUS
  <2> DEFINE n == Len(e)
  <2>2. n \in {0, 1}
    BY <2>1, Zenon
  <2> HIDE DEF n
  <2>3. n <= 1
    BY <2>2
  <2> QED BY <2>3, Zenon DEF n
<1>2. LoaderInv /\ [Next]_vars =>
      [\A r \in Calls :
           /\ Len(loader'[r].ended) <= 1
           /\ loader[r].completed =>
                  /\ loader'[r].fetched = loader[r].fetched
                  /\ loader'[r].shown = loader[r].shown]_vars
  <2>1. ASSUME LoaderInv', NEW r \in Calls PROVE Len(loader'[r].ended) <= 1
    <3>1. loader'[r].ended \in {<<>>, <<"blocked">>, <<"complete">>, <<"failed">>}
      BY <2>1 DEF LoaderInv, Loaders
    <3> QED BY <1>1, <3>1
  <2> QED BY <2>1, LoaderStep DEF QuietStep, Quiet
<1> QED BY <1>2, LoaderInit, LoaderStep, PTL DEF Spec, QuietAfterEnd

(* Loaders and service together implement the gate: at most one move of a    *)
(* request at a time and only along its lines, a refusal only of a request   *)
(* that is held while its page is protected, and for good.                   *)
THEOREM GateImplemented == Spec => GateHolds
<1>1. Init => Gate!Init
  BY DEF Init, Gate!Init, Standing, NoLoader
<1>2. ASSUME LoaderInv, LoaderInv', [Next]_vars, [QuietStep]_vars
      PROVE  [Gate!Next]_[r \in Calls |-> Standing(loader[r])]
  <2>1. CASE UNCHANGED vars
    BY <2>1 DEF vars
  <2>2. CASE QuietStep
    <3>1. ASSUME NEW r \in Calls
          PROVE  site[r] \in {s \in Sites \cup {NoSite} : Protected(s)} <=> Protected(site[r])
      <4>1. site[r] \in Sites \cup {NoSite}
        BY <1>2 DEF LoaderInv
      <4> QED BY <4>1
    <3>2. \A r \in Calls : Standing(loader'[r]) \in Gate!Standing
      BY DEF Standing, Gate!Standing
    <3>3. \A r \in Calls : Gate!Legal(r)
      BY <2>2, <3>1 DEF QuietStep, Quiet, Moves, Gate!Legal
    <3> QED BY <3>2, <3>3 DEF Gate!Next
  <2> QED BY <1>2, <2>1, <2>2
<1> QED BY <1>1, <1>2, LoaderInit, LoaderStep, PTL DEF Spec, GateHolds, Gate!Spec
=============================================================================
