-------------------------- MODULE FocusBlockService --------------------------
(***************************************************************************)
(* FocusBlockService (source_overrides/chrome/browser/focus_block/): the   *)
(* profile service that answers ShouldBlock() for every request.  It lives *)
(* on the UI sequence; the Ghostery engine lives on a sequence of its own, *)
(* reached by tasks and heard from by replies, each in posting order.      *)
(*                                                                         *)
(* A call is one ShouldBlock() and its callback.  URLs are abstracted to   *)
(* the site of their top-level page.  EngineReadyForgetsPending,           *)
(* VerdictNotRechecked, MatchesCounted and ShutdownDropsPending are slips  *)
(* of the definitions that follow them; PROJECT.json says which property   *)
(* each one breaks.                                                        *)
(***************************************************************************)
EXTENDS Integers, Sequences, FiniteSets

CONSTANTS
    Calls,      \* ShouldBlock() calls
    Sites,      \* registrable domains of top-level pages
    NoSite,     \* a request without an observable top-level page
    IsReady,    \* the task that asks the new engine whether it is ready
    Limit       \* kMaxPendingMatchRequests

ASSUME ServiceAssumption ==
    /\ NoSite \notin Sites
    /\ IsReady \notin Calls
    /\ Limit \in Nat

VARIABLES
    alive,      \* prefs_ is set and weak pointers are valid: not Shutdown()
    enabled,    \* pref: protection is on
    disabled,   \* pref: sites with an exception
    ready,      \* engine_ready_
    finished,   \* engine_initialization_finished_
    pending,    \* pending_match_requests_
    tasks,      \* posted to the engine sequence
    replies,    \* posted back to the UI sequence
    site,       \* call -> the site its policy and statistics go by
    answer,     \* call -> whether its callback is held, or what it was run with
    session,    \* blocked_count_session_
    bySite      \* blocked_count_by_site_

prefs == <<alive, enabled, disabled>>
engine == <<ready, finished, tasks, replies>>
stats == <<session, bySite>>
serviceVars == <<prefs, engine, pending, site, answer, stats>>

Protected(s) == alive /\ enabled /\ s \notin disabled

(* StartEngineBuild() either launches the engine or fails on the spot. *)
ServiceInit ==
    /\ alive = TRUE /\ enabled \in BOOLEAN /\ disabled \in SUBSET Sites
    /\ ready = FALSE
    /\ \/ finished = FALSE /\ tasks = <<IsReady>>
       \/ finished = TRUE /\ tasks = <<>>
    /\ replies = <<>> /\ pending = <<>>
    /\ site = [c \in Calls |-> NoSite]
    /\ answer = [c \in Calls |-> "unasked"]
    /\ session = 0 /\ bySite = [s \in Sites |-> 0]

-----------------------------------------------------------------------------
(* The user, through the settings page or the page popup. *)

SetEnabled(v) ==
    /\ alive /\ enabled # v
    /\ enabled' = v
    /\ UNCHANGED <<alive, disabled, engine, pending, site, answer, stats>>

SetEnabledForUrl(s, v) ==
    /\ alive /\ (s \in disabled) = v
    /\ disabled' = (IF v THEN disabled \ {s} ELSE disabled \cup {s})
    /\ UNCHANGED <<alive, enabled, engine, pending, site, answer, stats>>

-----------------------------------------------------------------------------
(* ShouldBlock(): exempt stands for outermost main documents and for URLs    *)
(* that are not HTTP(S).                                                     *)

Enqueues == ~finished /\ Len(pending) < Limit

ShouldBlock(c, s, exempt) ==
    /\ answer[c] # "open"
    /\ site' = [site EXCEPT ![c] = s]
    /\ LET held == ~exempt /\ Protected(s) /\ (ready \/ Enqueues)
       IN  /\ answer' = [answer EXCEPT ![c] = IF held THEN "open" ELSE "allow"]
           /\ tasks' = IF held /\ ready THEN Append(tasks, c) ELSE tasks
           /\ pending' = IF held /\ ~ready THEN Append(pending, c) ELSE pending
    /\ UNCHANGED <<prefs, ready, finished, replies, stats>>

-----------------------------------------------------------------------------
(* The engine sequence runs one task: the answer of Match() or IsReady().    *)
EngineRuns(ok) ==
    /\ tasks # <<>>
    /\ replies' = Append(replies, [of |-> Head(tasks), ok |-> ok])
    /\ tasks' = Tail(tasks)
    /\ UNCHANGED <<prefs, ready, finished, pending, site, answer, stats>>

(* OnEngineReady(): the waiting calls go to the engine, those whose site has *)
(* been excepted meanwhile are let through, all of them if the build failed. *)
(* upto[i] is what the first i waiting calls leave to be matched.            *)
Dispatched(ok) ==
    LET upto[i \in 0..Len(pending)] ==
            IF i = 0 THEN <<>>
            ELSE IF ok /\ Protected(site[pending[i]]) THEN Append(upto[i - 1], pending[i])
            ELSE upto[i - 1]
    IN  upto[Len(pending)]

Waiting == {pending[i] : i \in DOMAIN pending}

EngineReadyForgetsPending(ok) ==
    /\ ready' = ok /\ finished' = TRUE
    /\ tasks' = tasks \o Dispatched(ok)
    /\ pending' = <<>>
    /\ UNCHANGED <<answer, stats>>

OnEngineReady(ok) ==
    /\ ready' = ok /\ finished' = TRUE
    /\ tasks' = tasks \o Dispatched(ok)
    /\ pending' = <<>>
    /\ answer' = [c \in Calls |-> IF c \in Waiting /\ ~(ok /\ Protected(site[c]))
                                  THEN "allow" ELSE answer[c]]
    /\ UNCHANGED stats

(* OnMatchCompleted(): the policy is read again, the block counted, the      *)
(* callback run.                                                             *)
VerdictNotRechecked(c, matched) == matched /\ alive

Verdict(c, matched) == matched /\ Protected(site[c]) /\ ready

MatchesCounted(c, matched) ==
    /\ answer' = [answer EXCEPT ![c] = IF Verdict(c, matched) THEN "block" ELSE "allow"]
    /\ session' = IF matched THEN session + 1 ELSE session
    /\ UNCHANGED <<ready, finished, tasks, pending, bySite>>

OnMatchCompleted(c, matched) ==
    /\ answer' = [answer EXCEPT ![c] = IF Verdict(c, matched) THEN "block" ELSE "allow"]
    /\ session' = IF Verdict(c, matched) THEN session + 1 ELSE session
    /\ bySite' = [s \in Sites |-> IF Verdict(c, matched) /\ site[c] = s
                                  THEN bySite[s] + 1 ELSE bySite[s]]
    /\ UNCHANGED <<ready, finished, tasks, pending>>

(* A reply reaches the UI sequence.  The readiness reply is bound to a weak  *)
(* pointer and dropped after Shutdown(); a match reply then allows.          *)
OnReply ==
    /\ replies # <<>>
    /\ replies' = Tail(replies)
    /\ LET m == Head(replies)
       IN  \/ m.of = IsReady /\ alive /\ OnEngineReady(m.ok)
           \/ m.of = IsReady /\ ~alive
              /\ UNCHANGED <<ready, finished, tasks, pending, answer, stats>>
           \/ m.of \in Calls /\ OnMatchCompleted(m.of, m.ok)
    /\ UNCHANGED <<prefs, site>>

ShutdownDropsPending ==
    /\ alive
    /\ alive' = FALSE /\ finished' = TRUE /\ ready' = FALSE
    /\ pending' = <<>>
    /\ UNCHANGED <<enabled, disabled, tasks, replies, site, answer, stats>>

(* Shutdown(): weak pointers die, waiting calls are let through, the engine  *)
(* is deleted behind the tasks it already has.                               *)
Shutdown ==
    /\ alive
    /\ alive' = FALSE /\ finished' = TRUE /\ ready' = FALSE
    /\ answer' = [c \in Calls |-> IF c \in Waiting THEN "allow" ELSE answer[c]]
    /\ pending' = <<>>
    /\ UNCHANGED <<enabled, disabled, tasks, replies, site, stats>>

ServiceStep ==
    \/ \E v \in BOOLEAN : SetEnabled(v) \/ \E s \in Sites : SetEnabledForUrl(s, v)
    \/ \E ok \in BOOLEAN : EngineRuns(ok)
    \/ OnReply
    \/ Shutdown

(* On its own, the service is asked each call once, about any site.          *)
Ask(c) ==
    /\ answer[c] = "unasked"
    /\ \E s \in Sites \cup {NoSite}, exempt \in BOOLEAN : ShouldBlock(c, s, exempt)

ServiceNext == ServiceStep \/ \E c \in Calls : Ask(c)

ServiceSpec == ServiceInit /\ [][ServiceNext]_serviceVars

(* Both sequences run what is posted to them.                                *)
ServiceFairness ==
    WF_serviceVars(\E ok \in BOOLEAN : EngineRuns(ok)) /\ WF_serviceVars(OnReply)

FairServiceSpec == ServiceSpec /\ ServiceFairness

-----------------------------------------------------------------------------
(* Every variable of the service has its type.                              *)
ServiceTypeOK ==
    /\ alive \in BOOLEAN /\ enabled \in BOOLEAN /\ disabled \in SUBSET Sites
    /\ ready \in BOOLEAN /\ finished \in BOOLEAN
    /\ pending \in Seq(Calls)
    /\ tasks \in Seq(Calls \cup {IsReady})
    /\ replies \in Seq([of : Calls \cup {IsReady}, ok : BOOLEAN])
    /\ site \in [Calls -> Sites \cup {NoSite}]
    /\ answer \in [Calls -> {"unasked", "open", "allow", "block"}]
    /\ session \in Nat /\ bySite \in [Sites -> Nat]

(* The places that hold the callback of c. *)
Holders(c) ==
    {<<"pending", i>> : i \in {j \in DOMAIN pending : pending[j] = c}}
      \cup {<<"tasks", i>> : i \in {j \in DOMAIN tasks : tasks[j] = c}}
      \cup {<<"replies", i>> : i \in {j \in DOMAIN replies : replies[j].of = c}}

(* A callback that has not been run is held in exactly one place, and one   *)
(* that has been run in none: no path of the build, of a shutdown or of a   *)
(* policy change loses it or runs it twice (a OnceCallback).                *)
CallbackHeldOnce ==
    \A c \in Calls : Cardinality(Holders(c)) = IF answer[c] = "open" THEN 1 ELSE 0

(* The startup queue holds at most kMaxPendingMatchRequests calls, and none *)
(* once the build has ended either way.                                     *)
QueueBounded == Len(pending) <= Limit /\ (finished => pending = <<>>)

(* A verdict to block is given only while protection is on for the page,    *)
(* whatever was true when the request was matched or queued, and never      *)
(* after Shutdown().                                                        *)
BlockOnlyProtected ==
    [][\A c \in Calls : answer[c] # "block" /\ answer'[c] = "block" =>
           Protected(site[c]) /\ ready]_serviceVars

(* The statistics are the verdicts: per site for requests that have one.    *)
CountsAreVerdicts ==
    LET blocked(S) == {c \in Calls : answer[c] = "block" /\ site[c] \in S}
    IN  /\ session = Cardinality(blocked(Sites \cup {NoSite}))
        /\ \A s \in Sites : bySite[s] = Cardinality(blocked({s}))

(* Every call is answered: the network stack never waits on a build that    *)
(* failed, on a full queue or on a service that has shut down.              *)
EventuallyAnswered ==
    \A c \in Calls : answer[c] = "open" ~> answer[c] # "open"
=============================================================================
