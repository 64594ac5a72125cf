-------------------------- MODULE FocusBlockLoader --------------------------
(***************************************************************************)
(* FocusBlockURLLoader and FocusBlockProxyingURLLoaderFactory              *)
(* (focus_block_url_loader_factory.cc) over the service: one loader per    *)
(* request stands between a renderer (its client) and the network (its     *)
(* target).  It holds the request, and then every redirect, until the      *)
(* service has answered; a callback of the service runs inside the step    *)
(* that answers it.                                                        *)
(*                                                                         *)
(* The URLs a request comes to are numbered: a redirect, or the client's   *)
(* new_url, leads to the next one.  Mojo messages are their delivery.      *)
(* DisconnectAfterEnd and FollowUnchecked are slips of the definitions     *)
(* that follow them; PROJECT.json says which property each one breaks.     *)
(***************************************************************************)
EXTENDS FocusBlockService

CONSTANT MaxUrl   \* bound: request -> the last URL it comes to

ASSUME LoaderAssumption == MaxUrl \in [Calls -> Nat]

VARIABLE loader   \* request -> its loader

vars == <<serviceVars, loader>>

(* check: the callback of CheckRequest() that is outstanding.  target: no    *)
(* target loader, one that loads, or one whose redirect is not followed yet. *)
(* redirect: pending_redirect_request_ is set.  ended: the statuses of the   *)
(* OnComplete() messages to the client.  fetched, shown and cleared: the     *)
(* URLs sent to the target, shown to the client, and let through by a check. *)
NoLoader == [made |-> "no", check |-> "none", completed |-> FALSE, target |-> "none",
             redirect |-> FALSE, client |-> TRUE, ended |-> <<>>, url |-> 0,
             fetched |-> {}, shown |-> {}, cleared |-> {}]

Init == ServiceInit /\ loader = [r \in Calls |-> NoLoader]

-----------------------------------------------------------------------------
(* Handlers, as functions of the loader they run on. *)

Fetch(k) == [k EXCEPT !.target = "loading", !.fetched = @ \cup {k.url}]

End(k, status) ==
    [k EXCEPT !.completed = TRUE, !.ended = IF k.client THEN Append(@, status) ELSE @]

BlockRequest(k) == [End(k, "blocked") EXCEPT !.target = "none"]

(* The target loader is created only once the request is let through.        *)
OnInitialDecision(k, block) ==
    IF k.completed THEN k ELSE IF block THEN BlockRequest(k) ELSE Fetch(k)

OnReceiveRedirectDecision(k, block) ==
    IF k.completed THEN k
    ELSE IF block THEN BlockRequest(k)
    ELSE [k EXCEPT !.redirect = TRUE, !.shown = IF k.client THEN @ \cup {k.url} ELSE @]

OnFollowRedirectDecision(k, block) ==
    IF k.completed \/ k.target = "none" THEN k
    ELSE IF block THEN BlockRequest(k) ELSE Fetch(k)

(* The outstanding check of a loader comes back. *)
Decided(k, block) ==
    LET c == [k EXCEPT !.check = "none", !.cleared = IF block THEN @ ELSE @ \cup {k.url}]
    IN  CASE k.check = "initial"  -> OnInitialDecision(c, block)
          [] k.check = "redirect" -> OnReceiveRedirectDecision(c, block)
          [] k.check = "follow"   -> OnFollowRedirectDecision(c, block)

(* CheckRequest(): the service answers at once, with no, or holds the call.  *)
CheckRequest(r, k, s, exempt) ==
    /\ ShouldBlock(r, s, exempt)
    /\ loader' = [loader EXCEPT ![r] = IF answer'[r] = "open" THEN k ELSE Decided(k, FALSE)]

-----------------------------------------------------------------------------
(* CreateLoaderAndStart() of the factory: no loader for main documents and   *)
(* for pages without protection.                                             *)
CreateLoaderAndStart(r, s, main, exempt) ==
    /\ loader[r].made = "no"
    /\ IF main \/ ~Protected(s)
       THEN /\ loader' = [loader EXCEPT ![r].made = "direct"]
            /\ UNCHANGED serviceVars
       ELSE CheckRequest(r, [loader[r] EXCEPT !.made = "proxied", !.check = "initial"],
                         s, exempt)

(* OnReceiveRedirect() from the target. *)
OnReceiveRedirect(r, exempt) ==
    /\ loader[r].target = "loading" /\ ~loader[r].completed /\ loader[r].url < MaxUrl[r]
    /\ CheckRequest(r, [loader[r] EXCEPT !.check = "redirect", !.target = "redirecting",
                                         !.url = @ + 1],
                    site[r], exempt)

(* FollowRedirect() from the client, which may name another URL. *)
Follows(r) ==
    loader[r].client /\ ~loader[r].completed /\ loader[r].target # "none" /\ loader[r].redirect

FollowRedirect(r) ==
    /\ Follows(r)
    /\ loader' = [loader EXCEPT ![r] = Fetch([@ EXCEPT !.redirect = FALSE])]
    /\ UNCHANGED serviceVars

FollowUnchecked(r, exempt) ==
    /\ Follows(r) /\ loader[r].url < MaxUrl[r]
    /\ loader' = [loader EXCEPT ![r] = Fetch([@ EXCEPT !.redirect = FALSE, !.url = @ + 1])]
    /\ UNCHANGED serviceVars

FollowRedirectTo(r, exempt) ==
    /\ Follows(r) /\ loader[r].url < MaxUrl[r]
    /\ CheckRequest(r, [loader[r] EXCEPT !.check = "follow", !.redirect = FALSE, !.url = @ + 1],
                    site[r], exempt)

(* OnComplete() from the target, which then closes its pipes. *)
OnComplete(r) ==
    /\ loader[r].target # "none" /\ ~loader[r].completed
    /\ loader' = [loader EXCEPT ![r] = End(@, "complete")]
    /\ UNCHANGED serviceVars

DisconnectAfterEnd(r) ==
    /\ loader[r].target # "none"
    /\ loader' = [loader EXCEPT ![r] = [End(@, "failed") EXCEPT !.target = "none"]]
    /\ UNCHANGED serviceVars

OnTargetDisconnected(r) ==
    /\ loader[r].target # "none" /\ ~loader[r].completed
    /\ loader' = [loader EXCEPT ![r] = [End(@, "failed") EXCEPT !.target = "none"]]
    /\ UNCHANGED serviceVars

(* OnUpstreamClientDisconnected(), or the loader is deleted with its pipe:   *)
(* what its weak pointer is bound to then does nothing.                      *)
OnUpstreamClientDisconnected(r) ==
    /\ loader[r].made = "proxied" /\ loader[r].client
    /\ loader' = [loader EXCEPT ![r].completed = TRUE, ![r].target = "none",
                                ![r].client = FALSE]
    /\ UNCHANGED serviceVars

(* A step of the service, and the callbacks it runs. *)
ServiceAnswers ==
    /\ ServiceStep
    /\ loader' = [r \in Calls |-> IF answer[r] = "open" /\ answer'[r] # "open"
                                  THEN Decided(loader[r], answer'[r] = "block")
                                  ELSE loader[r]]

Network(r) ==
    \/ \E exempt \in BOOLEAN : OnReceiveRedirect(r, exempt)
    \/ OnComplete(r) \/ OnTargetDisconnected(r)

Client(r) ==
    \/ FollowRedirect(r)
    \/ \E exempt \in BOOLEAN : FollowRedirectTo(r, exempt)
    \/ OnUpstreamClientDisconnected(r)

Next ==
    \/ ServiceAnswers
    \/ \E r \in Calls :
          \/ \E s \in Sites \cup {NoSite}, main, exempt \in BOOLEAN :
                CreateLoaderAndStart(r, s, main, exempt)
          \/ Network(r) \/ Client(r)

Spec == Init /\ [][Next]_vars

(* Both sequences run their tasks; the network ends or redirects a load, and *)
(* a client follows a redirect it is shown or goes away.  A user need not    *)
(* touch a setting, and a profile need not shut down.                        *)
Fairness ==
    /\ WF_vars(ServiceAnswers /\ \E ok \in BOOLEAN : EngineRuns(ok))
    /\ WF_vars(ServiceAnswers /\ OnReply)
    /\ \A r \in Calls : WF_vars(Network(r)) /\ WF_vars(Client(r) /\ Follows(r))

FairSpec == Spec /\ Fairness

-----------------------------------------------------------------------------
(* A loader has its type, and its parts agree: a check is outstanding while *)
(* the service holds the call, no redirect is pending meanwhile, and the    *)
(* client has heard of one end at most.                                     *)
Loaders ==
    [made : {"no", "direct", "proxied"}, check : {"none", "initial", "redirect", "follow"},
     completed : BOOLEAN, target : {"none", "loading", "redirecting"}, redirect : BOOLEAN,
     client : BOOLEAN, ended : {<<>>, <<"blocked">>, <<"complete">>, <<"failed">>}, url : Nat,
     fetched : SUBSET Nat, shown : SUBSET Nat, cleared : SUBSET Nat]

LoaderTypeOK ==
    /\ loader \in [Calls -> Loaders]
    /\ \A r \in Calls : LET k == loader[r] IN
           /\ k.check # "none" <=> answer[r] = "open"
           /\ k.check = "initial" => k.target = "none"
           /\ k.check # "none" => ~k.redirect
           /\ k.redirect /\ ~k.completed => k.target = "redirecting"

(* No URL reaches the network, and no redirect the renderer, before a check *)
(* has let it through ("every redirect target is checked before it reaches  *)
(* the renderer").                                                          *)
ClearedFirst == \A r \in Calls : loader[r].fetched \cup loader[r].shown \subseteq loader[r].cleared

(* The client hears of one end, whatever races (a refusal, the network's    *)
(* end, a disconnect that follows it); and a load that has ended, or whose  *)
(* client has gone, starts and follows nothing more, whatever answers come  *)
(* back to it.                                                              *)
QuietAfterEnd ==
    [][\A r \in Calls :
           /\ Len(loader'[r].ended) <= 1
           /\ loader[r].completed =>
                  /\ loader'[r].fetched = loader[r].fetched
                  /\ loader'[r].shown = loader[r].shown]_vars

Standing(k) ==
    IF k.made # "proxied" THEN (IF k.made = "no" THEN "none" ELSE "direct")
    ELSE IF k.completed THEN (IF k.ended = <<"blocked">> THEN "refused" ELSE "closed")
    ELSE IF k.check # "none" THEN "held" ELSE "passed"

Gate == INSTANCE FocusBlockGate WITH
            Requests <- Calls,
            shield <- {s \in Sites \cup {NoSite} : Protected(s)},
            gate <- [r \in Calls |-> Standing(loader[r])]

(* Loaders and service implement the gate: a request is refused only while  *)
(* it is held and its page is protected, and for good.                      *)
GateHolds == Gate!Spec

(* A request that is held does not hang: it ends, for its client or with it.*)
EveryRequestEnds == \A r \in Calls : loader[r].made = "proxied" ~> loader[r].completed
=============================================================================
