------------------------------ MODULE ResumeRun ------------------------------
(***************************************************************************)
(* One resumed x86_64 build under supervision: the engine that every       *)
(* resume runner uses (platform/macos/alias_resume_runner.py, here as      *)
(* x64_interrupted_resume_runner.py configures it), the double-forking     *)
(* x64_resume5_detached_launcher.py that may start it, and                 *)
(* alias_resume_recover.py, which turns the evidence of a completed build  *)
(* into the record its runner did not live to publish.                     *)
(*                                                                         *)
(* A runner owns a build in a session of its own, publishes seven evidence *)
(* files with fixed names, none of which is ever replaced, and must not    *)
(* leave the build running or call it successful when it was not.  The     *)
(* processes meet only in those names, in signals and in the launcher's    *)
(* handshake pipe.                                                         *)
(*                                                                         *)
(* DescendantsIgnored, SettledIfLeaderGone, AbsenceAssumed and             *)
(* RecoverStartOfDaemon are not used below: each is the definition after   *)
(* it with a slip, and PROJECT.json names the property it breaks.          *)
(***************************************************************************)
EXTENDS Naturals

CONSTANTS
    Direct,        \* runners started from a shell
    Daemon,        \* the runner the launcher starts
    None,          \* no runner
    MaxMishaps     \* bound: calls that fail or time out, signals from outside
                   \* and processes that die of SIGKILL, together

ASSUME ResumeAssumption ==
    /\ Daemon \notin Direct /\ None \notin Direct \cup {Daemon}
    /\ MaxMishaps \in Nat

Runners == Direct \cup {Daemon}
LiveEvidence == {"primary", "supplement", "revalidation"}
Evidence == {"stdout", "pre", "status", "final"} \cup LiveEvidence

VARIABLES
    evidence,   \* evidence file -> the runner whose run it is about, or None
    temps,      \* private temporaries: "recovery", or a runner's by evidence name
    verdict,    \* what the exit status says
    rpc,        \* runner -> where it is
    end,        \* runner -> how it ended
    sig,        \* runner -> its controlled handler has seen a first signal
    err,        \* runner -> operation_error is set
    build,      \* runner -> its process group: running, "left" without leader, gone
    ok,         \* runner -> the leader exited with 0
    hit,        \* runner -> history: its build was signalled while it lived
    lpc, lres,  \* launcher: where it is, what it reported
    first,      \* the launcher's first child
    pipe,       \* what the handshake pipe holds
    known,      \* whether the launcher holds an identity token of the build
    controller, \* the launcher's own files
    vpc,        \* recovery: where it is
    mishaps

files == <<evidence, temps, verdict>>
runner == <<rpc, end, sig, err>>
builds == <<build, ok, hit>>
launcher == <<lpc, lres, first, pipe, known, controller>>
vars == <<files, runner, builds, launcher, vpc, mishaps>>

Live(r) == rpc[r] \notin {"none", "over"}
BuildLives(r) == build[r] \in {"running", "left"}

Init ==
    /\ evidence = [n \in Evidence |-> None] /\ temps = {} /\ verdict = "none"
    /\ rpc = [r \in Runners |-> "none"] /\ end = [r \in Runners |-> "none"]
    /\ sig = [r \in Runners |-> FALSE] /\ err = [r \in Runners |-> FALSE]
    /\ build = [r \in Runners |-> "none"]
    /\ ok = [r \in Runners |-> FALSE] /\ hit = [r \in Runners |-> FALSE]
    /\ lpc = "idle" /\ lres = "none" /\ first = "none" /\ pipe = "empty"
    /\ known = FALSE /\ controller = {} /\ vpc = "idle"
    /\ mishaps = 0

SpendMishap == mishaps < MaxMishaps /\ mishaps' = mishaps + 1

Goto(r, l) == rpc' = [rpc EXCEPT ![r] = l]
Over(r, how) ==
    /\ Goto(r, "over") /\ end' = [end EXCEPT ![r] = how]
    /\ sig' = [sig EXCEPT ![r] = FALSE] /\ err' = [err EXCEPT ![r] = FALSE]
Go(r, l) == Goto(r, l) /\ UNCHANGED <<end, sig, err>>
Caught(r) == Goto(r, "leaving") /\ err' = [err EXCEPT ![r] = TRUE] /\ UNCHANGED <<end, sig>>

-----------------------------------------------------------------------------
(* Publication: _create_stdout opens the name with O_EXCL;                  *)
(* _publish_json_no_replace writes a temporary with a fixed name and links  *)
(* it.  Whatever exists already is refused.                                 *)
Free(n) == evidence[n] = None /\ n \notin temps

Link(r, n, kept) ==
    /\ evidence' = [evidence EXCEPT ![n] = r]
    /\ temps' = temps \cup kept
    /\ verdict' = IF n # "status" THEN verdict ELSE IF err[r] THEN "failure" ELSE "success"

(* The publication runner r is in the middle of may be at any of its steps. *)
Torn(r) ==
    LET n == rpc[r] IN
    \/ UNCHANGED files
    \/ /\ n \in Evidence \ {"stdout"} /\ Free(n)
       /\ temps' = temps \cup {n} /\ UNCHANGED <<evidence, verdict>>
    \/ n \in Evidence /\ Free(n) /\ Link(r, n, {})

(* The observation and monitoring phase, whose try covers all of it.        *)
Raising == {"armed", "launched"} \cup LiveEvidence \cup {"monitor", "stop"}

(* Where an exception leads runner r. *)
Raise(r) == IF rpc[r] \in Raising \cup {"popen"} THEN Caught(r) ELSE Over(r, "failed")

(* Runner r publishes the evidence file it is at and goes to l.  A failing  *)
(* unlink of the temporary is put up with.                                  *)
Publish(r, l) ==
    LET n == rpc[r] IN
    \/ /\ Free(n) /\ Go(r, l)
       /\ \/ Link(r, n, {}) /\ UNCHANGED mishaps
          \/ n # "stdout" /\ Link(r, n, {n}) /\ SpendMishap
    \/ ~Free(n) /\ Raise(r) /\ UNCHANGED <<files, mishaps>>
    \/ SpendMishap /\ Torn(r) /\ Raise(r)

(* What TERM, HUP or INT does to runner r: before its handlers are in place *)
(* and after they are gone it dies; the first controlled signal raises,     *)
(* unless deferred; later ones are ignored.  "leaving" lies behind the try  *)
(* but before the line that defers: there the first signal leaves execute() *)
(* with nothing settled.                                                    *)
Uncontrolled == {"forked", "plan", "stdout", "pre", "ready", "final", "validate"}
Deferring == {"popen", "settle", "freeze", "status", "confirm", "restore"}

SeeSignal(r) == sig' = [sig EXCEPT ![r] = TRUE]

TermOn(r) ==
    \/ ~Live(r) /\ UNCHANGED <<files, runner>>
    \/ rpc[r] \in Uncontrolled /\ Over(r, "died") /\ Torn(r)
    \/ Live(r) /\ sig[r] /\ rpc[r] \notin Uncontrolled /\ UNCHANGED <<files, runner>>
    \/ /\ rpc[r] \in Raising /\ ~sig[r] /\ SeeSignal(r) /\ Torn(r)
       /\ Goto(r, "leaving") /\ err' = [err EXCEPT ![r] = TRUE] /\ UNCHANGED end
    \/ rpc[r] = "leaving" /\ ~sig[r] /\ Over(r, "escaped") /\ UNCHANGED files
    \/ /\ rpc[r] \in Deferring /\ ~sig[r] /\ SeeSignal(r)
       /\ UNCHANGED <<files, rpc, end, err>>

KillOn(r) == IF Live(r) THEN Over(r, "killed") /\ Torn(r) ELSE UNCHANGED <<files, runner>>

-----------------------------------------------------------------------------
(* A runner: main() and execute().  Its plan is refused when any evidence   *)
(* or temporary of the run exists.                                          *)
StartRunner(r) ==
    /\ r \in Direct /\ rpc[r] = "none"
    /\ Go(r, "plan") /\ UNCHANGED <<files, builds, launcher, vpc, mishaps>>

NothingPublished == \A n \in Evidence : Free(n)

PlanRun(r) ==
    /\ rpc[r] = "plan"
    /\ IF NothingPublished THEN Go(r, "stdout") ELSE Over(r, "refused")
    /\ UNCHANGED <<files, builds, launcher, vpc, mishaps>>

CreateStdout(r) ==
    /\ rpc[r] = "stdout" /\ Publish(r, "pre")
    /\ UNCHANGED <<builds, launcher, vpc>>

PublishPreLaunch(r) ==
    /\ rpc[r] = "pre" /\ Publish(r, "ready")
    /\ UNCHANGED <<builds, launcher, vpc>>

(* _install_owned_signal_handlers, and the deferral around Popen.           *)
InstallHandlers(r) ==
    /\ rpc[r] = "ready" /\ Go(r, "armed")
    /\ UNCHANGED <<files, builds, launcher, vpc, mishaps>>

DeferSignals(r) ==
    /\ rpc[r] = "armed" /\ Go(r, "popen")
    /\ UNCHANGED <<files, builds, launcher, vpc, mishaps>>

Popen(r) ==
    /\ rpc[r] = "popen" /\ build[r] = "none"
    /\ build' = [build EXCEPT ![r] = "running"]
    /\ UNCHANGED <<files, runner, ok, hit, launcher, vpc, mishaps>>

PopenReturned(r) ==
    /\ rpc[r] = "popen" /\ build[r] # "none"
    /\ IF sig[r] THEN Caught(r) ELSE Go(r, "launched")
    /\ UNCHANGED <<files, builds, launcher, vpc, mishaps>>

(* The checks of the new group, then _capture_spine for two of the three    *)
(* observations: a leader that has exited already is an error.              *)
VerifyGroup(r) ==
    /\ rpc[r] = "launched"
    /\ IF build[r] = "running" THEN Go(r, "primary") ELSE Caught(r)
    /\ UNCHANGED <<files, builds, launcher, vpc, mishaps>>

After == [n \in LiveEvidence |->
            IF n = "primary" THEN "supplement"
            ELSE IF n = "supplement" THEN "revalidation" ELSE "monitor"]

Observe(r) ==
    /\ rpc[r] \in LiveEvidence
    /\ \/ Publish(r, After[rpc[r]])
       \/ build[r] # "running" /\ Caught(r) /\ UNCHANGED <<files, mishaps>>
    /\ UNCHANGED <<builds, launcher, vpc>>

(* _monitored_wait: a limit is crossed, or the leader has exited; living    *)
(* descendants, a bad exit and a bad last observation make it a failure.    *)
LimitCrossed(r) ==
    /\ rpc[r] = "monitor"
    /\ Goto(r, "stop") /\ err' = [err EXCEPT ![r] = TRUE] /\ UNCHANGED <<end, sig>>
    /\ UNCHANGED <<files, builds, launcher, vpc, mishaps>>

DescendantsIgnored(r) ==
    /\ rpc[r] = "monitor" /\ build[r] # "running"
    /\ \E failed \in {~ok[r], TRUE} :
         Goto(r, "leaving") /\ err' = [err EXCEPT ![r] = failed] /\ UNCHANGED <<end, sig>>
    /\ UNCHANGED <<files, builds, launcher, vpc, mishaps>>

LeaderExited(r) ==
    /\ rpc[r] = "monitor" /\ build[r] # "running"
    /\ \E failed \in {~ok[r], TRUE} :
         /\ build[r] = "left" => failed
         /\ Goto(r, IF build[r] = "left" THEN "stop" ELSE "leaving")
         /\ err' = [err EXCEPT ![r] = failed]
    /\ UNCHANGED <<end, sig, files, builds, launcher, vpc, mishaps>>

(* The build's group is signalled until it is gone. *)
StopGroup(r) ==
    /\ build' = [build EXCEPT ![r] = "gone"]
    /\ hit' = [hit EXCEPT ![r] = @ \/ BuildLives(r)]
    /\ \E zero \in BOOLEAN :
         ok' = [ok EXCEPT ![r] = IF build[r] = "running" THEN zero ELSE @]

Stop(r) ==
    /\ rpc[r] = "stop"
    /\ StopGroup(r) /\ Go(r, "leaving")
    /\ UNCHANGED <<files, launcher, vpc, mishaps>>

(* What follows the try: signals are deferred, then blocked. *)
Settle(r) ==
    /\ rpc[r] = "leaving" /\ Go(r, "settle")
    /\ UNCHANGED <<files, builds, launcher, vpc, mishaps>>

SettledIfLeaderGone(r) ==
    /\ rpc[r] = "settle"
    /\ IF build[r] = "none" THEN Over(r, "failed") /\ UNCHANGED builds
       ELSE IF build[r] = "running" THEN StopGroup(r) /\ Go(r, "freeze")
       ELSE Go(r, "freeze") /\ UNCHANGED builds
    /\ UNCHANGED <<files, launcher, vpc, mishaps>>

(* Without a Popen there is nothing to settle or to report; without a       *)
(* result of the monitor the group is stopped and its absence proven.       *)
Settled(r) ==
    /\ rpc[r] = "settle"
    /\ IF build[r] = "none" THEN Over(r, "failed") /\ UNCHANGED builds
       ELSE StopGroup(r) /\ Go(r, "freeze")
    /\ UNCHANGED <<files, launcher, vpc, mishaps>>

NotSettled(r) ==
    /\ rpc[r] = "settle" /\ BuildLives(r) /\ SpendMishap
    /\ Over(r, "unsettled")
    /\ UNCHANGED <<files, builds, launcher, vpc>>

(* _complete_owned_run: missing evidence, a signal seen by now and a failed *)
(* snapshot make the run a failure.                                         *)
Freeze(r) ==
    /\ rpc[r] = "freeze" /\ Goto(r, "status")
    /\ LET complete == \A n \in LiveEvidence : evidence[n] = r
           failed == err[r] \/ sig[r] \/ ~complete
       IN  \/ err' = [err EXCEPT ![r] = failed] /\ UNCHANGED mishaps
           \/ err' = [err EXCEPT ![r] = TRUE] /\ ~failed /\ SpendMishap
    /\ UNCHANGED <<end, sig, files, builds, launcher, vpc>>

PublishStatus(r) ==
    /\ rpc[r] = "status" /\ Publish(r, "confirm")
    /\ UNCHANGED <<builds, launcher, vpc>>

(* A signal that came while a success was published takes it back.          *)
Confirm(r) ==
    /\ rpc[r] = "confirm"
    /\ IF sig[r] /\ verdict = "success"
       THEN /\ evidence' = [evidence EXCEPT !["status"] = None] /\ verdict' = "none"
            /\ Goto(r, "status") /\ err' = [err EXCEPT ![r] = TRUE]
            /\ UNCHANGED <<end, sig, temps>>
       ELSE Go(r, "restore") /\ UNCHANGED files
    /\ UNCHANGED <<builds, launcher, vpc, mishaps>>

RestoreHandlers(r) ==
    /\ rpc[r] = "restore"
    /\ IF verdict = "success" THEN Go(r, "final") ELSE Over(r, "failed")
    /\ UNCHANGED <<files, builds, launcher, vpc, mishaps>>

PublishFinal(r) ==
    /\ rpc[r] = "final" /\ Publish(r, "validate")
    /\ UNCHANGED <<builds, launcher, vpc>>

(* _validate_final_or_remove: a contract that fails twice takes it back.    *)
Validate(r) ==
    /\ rpc[r] = "validate"
    /\ \/ Over(r, "recorded") /\ UNCHANGED <<files, mishaps>>
       \/ /\ SpendMishap /\ Over(r, "failed")
          /\ evidence' = [evidence EXCEPT !["final"] = None]
          /\ UNCHANGED <<temps, verdict>>
    /\ UNCHANGED <<builds, launcher, vpc>>

(* Any other call of a runner may fail; what is left of its work stays.     *)
RunnerFault(r) ==
    /\ rpc[r] \in {"plan", "ready", "popen", "launched", "monitor", "stop", "confirm", "validate"}
    /\ rpc[r] = "popen" => build[r] = "none"
    /\ SpendMishap /\ Raise(r)
    /\ UNCHANGED <<files, builds, launcher, vpc>>

-----------------------------------------------------------------------------
(* The build itself, and the outside. *)
BuildExits(r) ==
    /\ build[r] = "running"
    /\ \E left \in {"left", "gone"}, zero \in BOOLEAN :
         build' = [build EXCEPT ![r] = left] /\ ok' = [ok EXCEPT ![r] = zero]
    /\ UNCHANGED <<files, runner, hit, launcher, vpc, mishaps>>

DescendantsExit(r) ==
    /\ build[r] = "left" /\ build' = [build EXCEPT ![r] = "gone"]
    /\ UNCHANGED <<files, runner, ok, hit, launcher, vpc, mishaps>>

Signal(r) ==
    /\ Live(r) /\ SpendMishap
    /\ TermOn(r) /\ UNCHANGED <<builds, launcher, vpc>>

Kill(r) ==
    /\ Live(r) /\ SpendMishap
    /\ KillOn(r) /\ UNCHANGED <<builds, launcher, vpc>>

-----------------------------------------------------------------------------
(* The launcher.  Preflight wants no trace of an earlier launch or run,     *)
(* else it refuses and changes nothing; up to the published intent a        *)
(* failure is undone, after it the launch is one-shot.                      *)
LauncherGoes(l) == lpc' = l /\ UNCHANGED <<lres, first, pipe, known, controller>>
LauncherEnds(how) ==
    lpc' = "idle" /\ lres' = how /\ known' = FALSE /\ UNCHANGED <<first, pipe, controller>>

StartLauncher ==
    /\ lpc = "idle" /\ controller = {} /\ NothingPublished
    /\ LauncherGoes("logs")
    /\ UNCHANGED <<files, runner, builds, vpc, mishaps>>

OpenLogs ==
    /\ lpc = "logs"
    /\ lpc' = "intent" /\ controller' = controller \cup {"out", "err"}
    /\ UNCHANGED <<lres, first, pipe, known, files, runner, builds, vpc, mishaps>>

PublishIntent ==
    /\ lpc = "intent"
    /\ lpc' = "fork" /\ controller' = controller \cup {"intent"}
    /\ UNCHANGED <<lres, first, pipe, known, files, runner, builds, vpc, mishaps>>

(* The second log cannot be opened, or _atomic_json fails, perhaps with the *)
(* intent linked already: the empty logs go again.                          *)
UndoLogs ==
    /\ lpc \in {"logs", "intent"} /\ SpendMishap
    /\ lpc' = "idle" /\ lres' = "undone"
    /\ controller' \in {{}, IF lpc = "intent" THEN {"intent"} ELSE {}}
    /\ UNCHANGED <<first, pipe, known, files, runner, builds, vpc>>

Fork ==
    /\ lpc = "fork"
    /\ lpc' = "handshake" /\ first' = "forked"
    /\ UNCHANGED <<lres, pipe, known, controller, files, runner, builds, vpc, mishaps>>

(* The first child: setsid, fork, PID line, exit.  The second checks the    *)
(* sources again and becomes the runner, which closes the pipe.             *)
FirstSetsid ==
    /\ first = "forked" /\ first' = "session"
    /\ UNCHANGED <<lpc, lres, pipe, known, controller, files, runner, builds, vpc, mishaps>>

FirstForks ==
    /\ first = "session" /\ first' = "parent"
    /\ Go(Daemon, "forked")
    /\ UNCHANGED <<lpc, lres, pipe, known, controller, files, builds, vpc, mishaps>>

FirstExits ==
    /\ first = "parent" /\ first' = "zombie"
    /\ pipe' = IF pipe = "empty" THEN "pid" ELSE pipe
    /\ UNCHANGED <<lpc, lres, known, controller, files, runner, builds, vpc, mishaps>>

FirstFails ==
    /\ first \in {"forked", "session"} /\ first' = "zombie" /\ pipe' = "error"
    /\ SpendMishap
    /\ UNCHANGED <<lpc, lres, known, controller, files, runner, builds, vpc>>

Exec ==
    /\ rpc[Daemon] = "forked" /\ Go(Daemon, "plan")
    /\ UNCHANGED <<files, builds, launcher, vpc, mishaps>>

ExecFails ==
    /\ rpc[Daemon] = "forked" /\ SpendMishap
    /\ Over(Daemon, "failed") /\ pipe' = "error"
    /\ UNCHANGED <<lpc, lres, first, known, controller, files, builds, vpc>>

(* _read_exec_handshake waits for the end of the pipe; the runner it names  *)
(* must then still be found by ps under its exact identity.                 *)
Handshake ==
    /\ lpc = "handshake" /\ pipe = "pid" /\ first = "zombie" /\ rpc[Daemon] # "forked"
    /\ LauncherGoes("token")
    /\ UNCHANGED <<files, runner, builds, vpc, mishaps>>

CaptureToken ==
    /\ lpc = "token" /\ Live(Daemon)
    /\ LauncherGoes("reap")
    /\ UNCHANGED <<files, runner, builds, vpc, mishaps>>

(* An error in the pipe, a timeout, or no token: the session is rolled back.*)
HandshakeFails ==
    /\ \/ lpc = "handshake" /\ pipe = "error" /\ UNCHANGED mishaps
       \/ lpc = "token" /\ ~Live(Daemon) /\ UNCHANGED mishaps
       \/ lpc \in {"handshake", "token"} /\ SpendMishap
    /\ LauncherGoes("rollbackTerm")
    /\ UNCHANGED <<files, runner, builds, vpc>>

(* _rollback_handshake_failure: killpg() reaches whoever is in the session  *)
(* now, and nobody when the first child has not made it yet.                *)
GroupDies == first' = IF first \in {"session", "parent"} THEN "zombie" ELSE first

RollbackTerm ==
    /\ lpc = "rollbackTerm" /\ lpc' = "rollbackKill"
    /\ GroupDies /\ TermOn(Daemon)
    /\ UNCHANGED <<lres, pipe, known, controller, builds, vpc, mishaps>>

RollbackKill ==
    /\ lpc = "rollbackKill" /\ lpc' = "rollbackReap"
    /\ GroupDies /\ KillOn(Daemon)
    /\ UNCHANGED <<lres, pipe, known, controller, builds, vpc, mishaps>>

(* _terminate_unreaped_first_child: a living leader takes its group along.  *)
RollbackReap ==
    /\ lpc = "rollbackReap" /\ lpc' = "rollbackProof" /\ first' = "reaped"
    /\ IF first \in {"session", "parent"} THEN TermOn(Daemon) ELSE UNCHANGED <<files, runner>>
    /\ UNCHANGED <<lres, pipe, known, controller, builds, vpc, mishaps>>

RollbackProof ==
    /\ lpc = "rollbackProof"
    /\ \/ ~Live(Daemon) /\ LauncherEnds("failed")
       \/ Live(Daemon) /\ LauncherEnds("unsettled")
    /\ UNCHANGED <<files, runner, builds, vpc, mishaps>>

Reap ==
    /\ lpc = "reap" /\ lpc' = "verify" /\ first' = "reaped"
    /\ UNCHANGED <<lres, pipe, known, controller, files, runner, builds, vpc, mishaps>>

Verify ==
    /\ lpc = "verify" /\ Live(Daemon)
    /\ LauncherGoes("receipt")
    /\ UNCHANGED <<files, runner, builds, vpc, mishaps>>

PublishReceipt ==
    /\ lpc = "receipt"
    /\ lpc' = "idle" /\ lres' = "launched" /\ controller' = controller \cup {"receipt"}
    /\ UNCHANGED <<first, pipe, known, files, runner, builds, vpc, mishaps>>

(* A failure with the token in hand, the receipt perhaps linked already.    *)
LaunchFails ==
    /\ \/ lpc = "verify" /\ ~Live(Daemon) /\ UNCHANGED mishaps
       \/ lpc \in {"reap", "verify", "receipt"} /\ SpendMishap
    /\ lpc' = "settle" /\ first' = "reaped"
    /\ controller' \in {controller, controller \cup (IF lpc = "receipt" THEN {"receipt"} ELSE {})}
    /\ UNCHANGED <<lres, pipe, known, files, runner, builds, vpc>>

(* _settle_owned_processes: TERM to the runner's session, a long watch over *)
(* all that descends from it, KILL for what is left, and proof of absence.  *)
Seen == known \/ (Live(Daemon) /\ BuildLives(Daemon))
Absent == ~Live(Daemon) /\ (known => ~BuildLives(Daemon))

SettleTerm ==
    /\ lpc = "settle"
    /\ IF Live(Daemon)
       THEN lpc' = "watch" /\ known' = Seen /\ UNCHANGED lres
       ELSE lpc' = "idle" /\ lres' = "failed" /\ known' = FALSE
    /\ TermOn(Daemon)
    /\ UNCHANGED <<first, pipe, controller, builds, vpc, mishaps>>

Watch ==
    /\ lpc = "watch" /\ ~Absent /\ known' = Seen
    /\ lpc' \in {"watch", "kill"}
    /\ UNCHANGED <<lres, first, pipe, controller, files, runner, builds, vpc, mishaps>>

KillOwned ==
    /\ lpc = "kill" /\ LauncherGoes("proof")
    /\ KillOn(Daemon)
    /\ IF known /\ BuildLives(Daemon) THEN StopGroup(Daemon) ELSE UNCHANGED builds
    /\ UNCHANGED <<vpc, mishaps>>

AbsenceAssumed ==
    /\ lpc \in {"watch", "proof"} /\ LauncherEnds("failed")
    /\ UNCHANGED <<files, runner, builds, vpc, mishaps>>

ProveAbsence ==
    /\ lpc \in {"watch", "proof"} /\ Absent
    /\ LauncherEnds("failed")
    /\ UNCHANGED <<files, runner, builds, vpc, mishaps>>

(* ps, killpg or the deadline fails: the exception says what may be left.   *)
NoProof ==
    /\ lpc \in {"rollbackTerm", "rollbackKill", "rollbackReap", "settle", "watch", "kill", "proof"}
    /\ SpendMishap /\ LauncherEnds("unsettled")
    /\ UNCHANGED <<files, runner, builds, vpc>>

LauncherDies ==
    /\ lpc # "idle" /\ SpendMishap
    /\ LauncherEnds("dead")
    /\ UNCHANGED <<files, runner, builds, vpc>>

-----------------------------------------------------------------------------
(* alias_resume_recover.py, run by an operator when no runner is alive (the *)
(* tool does not check that): the complete evidence of one successful run   *)
(* gives the final record.                                                  *)
Recoverable ==
    /\ evidence["final"] = None /\ verdict = "success"
    /\ \E r \in Runners : \A n \in Evidence \ {"final"} : evidence[n] = r

RecoverStartOfDaemon ==
    /\ vpc = "idle" /\ Recoverable /\ \A r \in Runners : ~Live(r)
    /\ "receipt" \in controller
    /\ vpc' = "publish"
    /\ UNCHANGED <<files, runner, builds, launcher, mishaps>>

RecoverStart ==
    /\ vpc = "idle" /\ Recoverable /\ \A r \in Runners : ~Live(r)
    /\ vpc' = "publish"
    /\ UNCHANGED <<files, runner, builds, launcher, mishaps>>

RecoverPublish ==
    /\ vpc = "publish"
    /\ IF "recovery" \in temps
       THEN vpc' = "idle" /\ UNCHANGED evidence
       ELSE vpc' = "check" /\ evidence' = [evidence EXCEPT !["final"] = evidence["status"]]
    /\ UNCHANGED <<temps, verdict, runner, builds, launcher, mishaps>>

(* The contract accepts the record. *)
RecoverDone ==
    /\ vpc = "check" /\ vpc' = "idle"
    /\ UNCHANGED <<files, runner, builds, launcher, mishaps>>

(* Before or after the link: what this call published goes again.           *)
RecoverFails ==
    /\ vpc # "idle" /\ SpendMishap /\ vpc' = "idle"
    /\ evidence' = [evidence EXCEPT !["final"] = None]
    /\ UNCHANGED <<temps, verdict, runner, builds, launcher>>

RecoverDies ==
    /\ vpc # "idle" /\ SpendMishap /\ vpc' = "idle"
    /\ temps' \in {temps, temps \cup (IF vpc = "publish" THEN {"recovery"} ELSE {})}
    /\ UNCHANGED <<evidence, verdict, runner, builds, launcher>>

RunnerStep(r) ==
    \/ PlanRun(r) \/ CreateStdout(r) \/ PublishPreLaunch(r) \/ InstallHandlers(r)
    \/ DeferSignals(r) \/ Popen(r) \/ PopenReturned(r) \/ VerifyGroup(r) \/ Observe(r)
    \/ LeaderExited(r) \/ Stop(r) \/ Settle(r) \/ Settled(r) \/ Freeze(r)
    \/ PublishStatus(r) \/ Confirm(r) \/ RestoreHandlers(r) \/ PublishFinal(r) \/ Validate(r)

LauncherStep ==
    \/ OpenLogs \/ PublishIntent \/ Fork \/ Handshake \/ CaptureToken \/ HandshakeFails
    \/ RollbackTerm \/ RollbackKill \/ RollbackReap \/ RollbackProof
    \/ Reap \/ Verify \/ PublishReceipt \/ LaunchFails
    \/ SettleTerm \/ Watch \/ KillOwned \/ ProveAbsence

ChildStep == FirstSetsid \/ FirstForks \/ FirstExits \/ Exec

RecoveryStep == RecoverStart \/ RecoverPublish \/ RecoverDone

Next ==
    \/ \E r \in Runners :
         \/ StartRunner(r) \/ RunnerStep(r) \/ RunnerFault(r) \/ NotSettled(r)
         \/ LimitCrossed(r) \/ BuildExits(r) \/ DescendantsExit(r) \/ Signal(r) \/ Kill(r)
    \/ StartLauncher \/ LauncherStep \/ ChildStep \/ UndoLogs \/ FirstFails \/ ExecFails
    \/ NoProof \/ LauncherDies
    \/ RecoveryStep \/ RecoverFails \/ RecoverDies

Spec == Init /\ [][Next]_vars

(* A process that is alive runs on, and the operator recovers what is left; *)
(* a build may run for ever.                                                *)
FairSpec ==
    /\ Spec
    /\ \A r \in Runners : WF_vars(RunnerStep(r))
    /\ WF_vars(ChildStep) /\ WF_vars(RecoveryStep)
-----------------------------------------------------------------------------
Places == {"none", "over", "leaving"} \cup Uncontrolled \cup Raising \cup Deferring
Ends == {"none", "refused", "failed", "recorded", "killed", "died", "escaped", "unsettled"}

(* Types of all variables.                                                  *)
ResumeTypeOK ==
    /\ evidence \in [Evidence -> Runners \cup {None}]
    /\ temps \subseteq Evidence \cup {"recovery"}
    /\ verdict \in {"none", "success", "failure"}
    /\ rpc \in [Runners -> Places] /\ end \in [Runners -> Ends]
    /\ sig \in [Runners -> BOOLEAN] /\ err \in [Runners -> BOOLEAN]
    /\ build \in [Runners -> {"none", "running", "left", "gone"}]
    /\ ok \in [Runners -> BOOLEAN] /\ hit \in [Runners -> BOOLEAN]
    /\ lpc \in {"idle", "logs", "intent", "fork", "handshake", "token", "reap", "verify",
               "receipt", "rollbackTerm", "rollbackKill", "rollbackReap", "rollbackProof",
               "settle", "watch", "kill", "proof"}
    /\ lres \in {"none", "undone", "launched", "failed", "unsettled", "dead"}
    /\ first \in {"none", "forked", "session", "parent", "zombie", "reaped"}
    /\ pipe \in {"empty", "pid", "error"} /\ known \in BOOLEAN
    /\ controller \subseteq {"out", "err", "intent", "receipt"}
    /\ vpc \in {"idle", "publish", "check"}
    /\ mishaps \in 0 .. MaxMishaps

(* At most one build of the run is ever started, and as long as a process   *)
(* of it lives, so does its runner; the exceptions are a runner killed      *)
(* outright, one that reports that it could not settle the group, and the   *)
(* first signal between the try and the line that defers.                   *)
BuildIsOwned ==
    /\ \A r, q \in Runners : build[r] # "none" /\ build[q] # "none" => r = q
    /\ \A r \in Runners : BuildLives(r) =>
         Live(r) \/ end[r] \in {"killed", "unsettled", "escaped"}

(* A success, and the final record of one, whoever published it, stand for  *)
(* a build that ended by itself with 0, left no process behind, and whose   *)
(* evidence is all of one runner.                                           *)
SuccessIsEarned ==
    (verdict = "success" \/ evidence["final"] # None) =>
        LET r == evidence["status"] IN
        /\ verdict = "success" /\ r # None
        /\ ok[r] /\ build[r] = "gone" /\ ~hit[r]
        /\ \A n \in Evidence : evidence[n] = r \/ (n = "final" /\ evidence[n] = None)

(* What a launcher reports is so: a reported failure leaves no runner, a    *)
(* reported launch left its receipt, an undone launch at most the intent it *)
(* could not publish properly; and no runner of its exists without the      *)
(* intent and both logs.                                                    *)
LauncherTellsTruth ==
    /\ lres = "failed" /\ lpc = "idle" => ~Live(Daemon)
    /\ lres = "launched" => "receipt" \in controller
    /\ lres = "undone" /\ lpc = "idle" => controller \subseteq {"intent"} /\ rpc[Daemon] = "none"
    /\ rpc[Daemon] # "none" => {"out", "err", "intent"} \subseteq controller

(* A run whose status says success is recorded in the end, by its runner or *)
(* by a recovery; only the temporary of a recovery that died is in the way. *)
CompletedIsRecorded ==
    <>[](verdict = "success" => evidence["final"] # None \/ "recovery" \in temps)
=============================================================================
