------------------------------ MODULE Startup ------------------------------
(***************************************************************************)
(* How QuickFeed starts and stops (main.go): it loads .env, makes sure that   *)
(* there is a secret for its tokens, runs the flow in which a GitHub App is    *)
(* created if there is none (web/manifest), and then serves requests until a   *)
(* signal comes.                                                             *)
(*                                                                          *)
(* The state that outlives the process is three files: .env, its backup and    *)
(* the key of the App.  They are changed by env.Save, in the main goroutine    *)
(* for the secret and in a handler of the flow's web server for the App, and   *)
(* the process may end between any two of its steps.                          *)
(*                                                                          *)
(* Values are numbers, 0 standing for none: the n-th secret, the variables of  *)
(* the n-th App.  What a failing write leaves behind is what an end of the     *)
(* process at that point leaves; lines are written one by one.                *)
(***************************************************************************)
EXTENDS Naturals

CONSTANTS
    Browsers,       \* bound: the requests being handled
    MaxStarts,      \* bound: the times that the process is started
    MaxApps,        \* bound: the Apps that are created
    Forced,         \* whether the flag -secret may be given
    Missing         \* a file that does not exist

(* The flow saves the App's ID and URL ("id"), its client ID and secret         *)
(* ("client") and its webhook secret; only the first two are ever checked.      *)
Checked == {"id", "client"}
AppKeys == Checked \cup {"webhook"}
Keys == {"domain", "secret"} \cup AppKeys
Lines == [Keys -> Nat]
NoLines == [k \in Keys |-> 0]

ASSUME BoundsAssumption == MaxStarts \in Nat /\ MaxApps \in Nat /\ Forced \in BOOLEAN
ASSUME MissingAssumption == Missing \notin Lines

VARIABLES
    envFile,    \* .env
    bak,        \* .env.bak
    keyFile,    \* the private key of the App: which App's
    osEnv,      \* the environment variables of the process
    main,       \* where the main goroutine is
    save,       \* the call of env.Save under way
    at,         \* where each handler is
    result,     \* what the flow's handlers have to report
    starts,     \* how often the process has been started
    force,      \* the flag -secret of this start
    apps,       \* the number of Apps created
    app,        \* the App whose code each handler has converted
    created,    \* history: this flow has created one
    twice,      \* history: a flow has created two
    whole,      \* history: .env had the operator's line when the process started
    grace,      \* the two seconds of gracefulShutdown
    cut         \* history: requests that a graceful stop has cut off in time

files == <<envFile, bak, keyFile>>
proc == <<osEnv, main, starts, force, whole>>
stopping == <<grace, cut>>
flow == <<apps, app, created, twice>>
vars == <<files, proc, save, at, result, flow, stopping>>

NoSave == [stage |-> "none", content |-> NoLines, update |-> NoLines, left |-> {}]
Stages == {"none", "remove", "rename", "open", "write", "saved", "failed"}
Results == {"none", "ok", "error"}

TypeOK ==
    /\ envFile \in Lines \cup {Missing} /\ bak \in Lines \cup {Missing} /\ keyFile \in Nat
    /\ osEnv \in Lines
    /\ main \in {"off", "secret", "saving", "app", "wait", "close", "closing", "check",
                 "running", "stopped"}
    /\ save \in [stage : Stages, content : Lines, update : Lines, left : SUBSET Keys]
    /\ at \in [Browsers -> {"idle", "convert", "key", "store", "save", "report", "serve"}]
    /\ result \in [Browsers -> Results]
    /\ starts \in 0 .. MaxStarts /\ apps \in 0 .. MaxApps
    /\ app \in [Browsers -> 0 .. MaxApps]
    /\ force \in BOOLEAN /\ created \in BOOLEAN /\ twice \in BOOLEAN /\ whole \in BOOLEAN
    /\ grace \in {"none", "running", "over"}
    /\ cut \subseteq Browsers

(* The operator has written a .env with a domain.                            *)
Init ==
    /\ envFile = [NoLines EXCEPT !["domain"] = 1]
    /\ bak = Missing
    /\ keyFile = 0
    /\ osEnv = NoLines
    /\ main = "off"
    /\ save = NoSave
    /\ at = [b \in Browsers |-> "idle"]
    /\ result = [b \in Browsers |-> "none"]
    /\ starts = 0 /\ apps = 0 /\ app = [b \in Browsers |-> 0]
    /\ force = FALSE /\ created = FALSE /\ twice = FALSE /\ whole = TRUE
    /\ grace = "none"
    /\ cut = {}

----------------------------------------------------------------------------
(* internal/env.                                                             *)

(* Load does not override a variable that the environment has.               *)
Load(env) == [k \in Keys |-> IF env[k] # 0 THEN env[k] ELSE envFile[k]]

(* Save begins by loading the lines of the file, if there is one.            *)
Save(update) ==
    save' = [stage |-> "remove", content |-> IF envFile = Missing THEN NoLines ELSE envFile,
             update |-> update, left |-> {}]

(* An older backup is removed, *)
RemoveBackup ==
    /\ save.stage = "remove"
    /\ bak' = Missing
    /\ save' = [save EXCEPT !.stage = "rename"]
    /\ UNCHANGED <<envFile, keyFile, proc, at, result, flow, stopping>>

(* Mutant: the file is copied onto itself, not renamed. *)
NoBackup ==
    /\ save.stage = "rename"
    /\ save' = [save EXCEPT !.stage = "open"]
    /\ UNCHANGED <<files, proc, at, result, flow, stopping>>

(* the file becomes the backup, *)
Rename ==
    /\ save.stage = "rename"
    /\ envFile # Missing
    /\ bak' = envFile
    /\ envFile' = Missing
    /\ save' = [save EXCEPT !.stage = "open"]
    /\ UNCHANGED <<keyFile, proc, at, result, flow, stopping>>

Written(value) == {k \in Keys : value[k] # 0}

(* and an empty file is created, *)
OpenFile ==
    /\ save.stage = "open"
    /\ envFile' = NoLines
    /\ save' = [save EXCEPT !.stage = "write", !.left = Written(save.content) \cup Written(save.update)]
    /\ UNCHANGED <<bak, keyFile, proc, at, result, flow, stopping>>

(* Mutants: a line that exists keeps its value; only the updates are written. *)
KeepsLine(k) == IF save.content[k] # 0 THEN save.content[k] ELSE save.update[k]
UpdateOnly(k) == save.update[k]

(* What is written for a key: its update, or else what it was.               *)
Line(k) == IF save.update[k] # 0 THEN save.update[k] ELSE save.content[k]

(* into which the lines it had are written first, then those that are new.    *)
update ==
    /\ save.stage = "write"
    /\ IF save.left = {} THEN save' = [save EXCEPT !.stage = "saved"] /\ UNCHANGED envFile
       ELSE \E k \in save.left :
            /\ save.content[k] = 0 => save.left \cap Written(save.content) = {}
            /\ envFile' = [envFile EXCEPT ![k] = Line(k)]
            /\ save' = [save EXCEPT !.left = @ \ {k}]
    /\ UNCHANGED <<bak, keyFile, proc, at, result, flow, stopping>>

(* Each of these steps may fail, and then Save returns the error.            *)
SaveFails ==
    /\ save.stage \in {"remove", "rename", "open"}
    /\ save' = [save EXCEPT !.stage = "failed"]
    /\ UNCHANGED <<files, proc, at, result, flow, stopping>>

SaveStep == RemoveBackup \/ Rename \/ OpenFile \/ update \/ SaveFails

----------------------------------------------------------------------------
(* main.                                                                     *)

(* The process ends, in whatever way: what is not in a file is gone.          *)
Ended ==
    /\ main' = "off"
    /\ osEnv' = NoLines
    /\ save' = NoSave
    /\ at' = [b \in Browsers |-> "idle"]
    /\ result' = [b \in Browsers |-> "none"]
    /\ grace' = "none"
    /\ created' = FALSE /\ app' = [b \in Browsers |-> 0]
    /\ UNCHANGED <<files, starts, force, whole, apps, twice>>

(* The process starts and loads .env, without which it ends at once.         *)
Start ==
    /\ main = "off" /\ starts < MaxStarts
    /\ starts' = starts + 1
    /\ force' \in {FALSE, Forced}
    /\ IF envFile = Missing THEN UNCHANGED <<main, osEnv, whole>>
       ELSE main' = "secret" /\ osEnv' = Load(osEnv) /\ whole' = (envFile["domain"] # 0)
    /\ UNCHANGED <<files, save, at, result, flow, stopping>>

Goto(pc) == main' = pc /\ UNCHANGED <<osEnv, starts, force, whole>>

(* EnsureAuthSecret: a new secret is saved if there is none, or if forced ... *)
EnsureAuthSecret ==
    /\ main = "secret"
    /\ IF osEnv["secret"] # 0 /\ ~force THEN Goto("app") /\ UNCHANGED save
       ELSE Save([NoLines EXCEPT !["secret"] = starts]) /\ Goto("saving")
    /\ UNCHANGED <<files, at, result, flow, stopping>>

(* ... and .env is loaded again.                                             *)
SecretSaved ==
    /\ main = "saving" /\ save.stage = "saved"
    /\ save' = NoSave
    /\ main' = "app"
    /\ osEnv' = Load(osEnv)
    /\ UNCHANGED <<files, starts, force, whole, at, result, flow, stopping>>

(* The webhook secret is not asked for.                                      *)
NeedsAppCreation == (\E k \in Checked : osEnv[k] = 0) \/ keyFile = 0

(* The flow's web server is started if the App is missing.                   *)
runAppCreation ==
    /\ main = "app"
    /\ Goto(IF NeedsAppCreation THEN "wait" ELSE "check")
    /\ UNCHANGED <<files, save, at, result, flow, stopping>>

(* CheckAppData, initWebServer, srvFn: the server serves, or the process ends *)
(* (see Exit).                                                               *)
CheckAppData ==
    /\ main = "check" /\ ~NeedsAppCreation
    /\ Goto("running")
    /\ UNCHANGED <<files, save, at, result, flow, stopping>>

----------------------------------------------------------------------------
(* web/manifest: the flow.                                                   *)

(* StartAppCreationFlow receives a result, which a handler is waiting to send *)
(* on the unbuffered channel: an error ends the process, otherwise the server  *)
(* is shut down.                                                             *)
ReceiveResult(b) ==
    /\ main = "wait" /\ at[b] = "report"
    /\ IF result[b] = "error" THEN Ended /\ UNCHANGED cut
       ELSE /\ Goto("close")
            /\ at' = [at EXCEPT ![b] = "idle"]
            /\ result' = [result EXCEPT ![b] = "none"]
            /\ UNCHANGED <<files, save, flow, stopping>>

Shutdown ==
    /\ main = "close"
    /\ Goto("closing")
    /\ UNCHANGED <<files, save, at, result, flow, stopping>>

(* Shutdown returns when no handler is running; .env is loaded again.         *)
FlowDone ==
    /\ main = "closing" /\ \A b \in Browsers : at[b] = "idle"
    /\ envFile # Missing
    /\ main' = "check"
    /\ osEnv' = Load(osEnv)
    /\ created' = FALSE /\ app' = [b \in Browsers |-> 0]
    /\ UNCHANGED <<files, starts, force, whole, save, at, result, apps, twice, stopping>>

Handler(b, pc) == at' = [at EXCEPT ![b] = pc] /\ UNCHANGED result

(* Mutant: an error is not reported. *)
ReportSuccess(b, res) ==
    /\ at' = [at EXCEPT ![b] = IF res = "ok" THEN "report" ELSE "idle"]
    /\ result' = [result EXCEPT ![b] = IF res = "ok" THEN res ELSE "none"]

(* A handler that is done reports on the channel, whatever its result.        *)
Report(b, res) == at' = [at EXCEPT ![b] = "report"] /\ result' = [result EXCEPT ![b] = res]

(* GitHub sends a browser back with a code.  A request without a code, or for *)
(* a form that could not be made (createApp), is an error.                    *)
Callback(b) ==
    /\ main \in {"wait", "close"} /\ at[b] = "idle"
    /\ Handler(b, "convert") \/ Report(b, "error")
    /\ UNCHANGED <<files, proc, save, flow, stopping>>

(* GitHub gives the configuration of an App for its code, once; another tab may *)
(* have created another App.                                                 *)
Convert(b) ==
    /\ at[b] = "convert"
    /\ \/ /\ apps < MaxApps
          /\ apps' = apps + 1
          /\ app' = [app EXCEPT ![b] = apps + 1]
          /\ created' = TRUE /\ twice' = (twice \/ created)
          /\ Handler(b, "key")
       \/ Report(b, "error") /\ UNCHANGED flow
    /\ UNCHANGED <<files, proc, save, stopping>>

(* The key is written,                                                       *)
WriteKey(b) ==
    /\ at[b] = "key"
    /\ \/ keyFile' = app[b] /\ Handler(b, "store")
       \/ Report(b, "error") /\ UNCHANGED keyFile
    /\ UNCHANGED <<envFile, bak, proc, save, flow, stopping>>

(* and Save is called for the rest: here not before another tab's call has      *)
(* returned, although nothing in the code makes it wait.                       *)
SaveApp(b) ==
    /\ at[b] = "store" /\ save.stage = "none"
    /\ Save([k \in Keys |-> IF k \in AppKeys THEN app[b] ELSE 0])
    /\ Handler(b, "save")
    /\ UNCHANGED <<files, proc, flow, stopping>>

(* When it returns, the page is written and the user interface built.        *)
AppSaved(b) ==
    /\ at[b] = "save" /\ save.stage \in {"saved", "failed"}
    /\ save' = NoSave
    /\ Report(b, "error") \/ (save.stage = "saved" /\ Report(b, "ok"))
    /\ UNCHANGED <<files, proc, flow, stopping>>

----------------------------------------------------------------------------
(* Serving, and the end.                                                     *)

Request(b) ==
    /\ main = "running" /\ at[b] = "idle"
    /\ Handler(b, "serve")
    /\ UNCHANGED <<files, proc, save, flow, stopping>>

Respond(b) ==
    /\ at[b] = "serve"
    /\ Handler(b, "idle")
    /\ UNCHANGED <<files, proc, save, flow, stopping>>

(* A signal comes: gracefulShutdown shuts the servers down, waiting at most    *)
(* two seconds for the requests under way.                                    *)
gracefulShutdown ==
    /\ main = "running"
    /\ Goto("stopped")
    /\ grace' = "running"
    /\ UNCHANGED <<files, save, at, result, flow, cut>>

GraceOver ==
    /\ grace = "running"
    /\ grace' = "over"
    /\ UNCHANGED <<files, proc, save, at, result, flow, cut>>

(* Serve returns as soon as the listener is closed, not when Shutdown does,   *)
(* and with it main.                                                         *)
ServeReturns ==
    /\ main = "stopped"
    /\ cut' = IF grace = "over" THEN cut ELSE cut \cup {b \in Browsers : at[b] = "serve"}
    /\ Ended

(* Errors that main does not survive, a kill, a failing machine.              *)
Exit ==
    /\ main # "off"
    /\ Ended
    /\ UNCHANGED cut

(* Save in the main goroutine fails: the process ends.                        *)
SecretFails ==
    /\ main = "saving" /\ save.stage = "failed"
    /\ Ended
    /\ UNCHANGED cut

Main ==
    \/ EnsureAuthSecret \/ SecretSaved \/ SecretFails \/ runAppCreation \/ Shutdown \/ FlowDone
    \/ CheckAppData \/ ServeReturns \/ \E b \in Browsers : ReceiveResult(b)

conversion(b) == Convert(b) \/ WriteKey(b) \/ SaveApp(b) \/ AppSaved(b)

Next ==
    \/ Start \/ Main \/ SaveStep \/ gracefulShutdown \/ GraceOver \/ Exit
    \/ \E b \in Browsers : Callback(b) \/ conversion(b) \/ Request(b) \/ Respond(b)

(* The goroutines run on, and GitHub and the disk answer; nothing makes a     *)
(* browser come, or the process start or end.                                 *)
Fairness ==
    /\ WF_vars(Main)
    /\ WF_vars(SaveStep)
    /\ \A b \in Browsers : WF_vars(conversion(b)) /\ WF_vars(Respond(b))

Spec == Init /\ [][Next]_vars /\ Fairness

----------------------------------------------------------------------------
(* Wherever the process ends, also between two steps of Save, what the         *)
(* operator wrote is in .env or in its backup, if it was in .env when the      *)
(* process started (save.go:42).  A start over a half-written .env may still    *)
(* lose it: Save then replaces the backup; so may two Saves in one flow.        *)
Recoverable ==
    whole /\ ~twice => \E file \in {envFile, bak} \ {Missing} : file["domain"] # 0

(* .env has the App of the key file; at most its webhook secret is missing.     *)
Fits(file) == (\A k \in Checked : file[k] = keyFile) /\ file["webhook"] \in {0, keyFile}

(* A server that runs has left .env and the key file with the same App,        *)
(* whatever flows were cut short before (manifest.go:123), unless one of them   *)
(* created two Apps: each writes the key before the rest of its App, so the     *)
(* ID of one may be left with the key of the other.                           *)
SavedAppMatchesKey == main = "running" /\ ~twice => Fits(envFile)

(* The secret that signs the tokens is the one the next start finds, so       *)
(* sessions survive a restart (doc/deploy.md:192); see RunsAsSaved for -secret.*)
SecretSurvives == main = "running" /\ ~force => envFile["secret"] = osEnv["secret"]

(* Once a browser has been sent back the flow ends, by an error or with the   *)
(* App, unless a second handler waits to report a result that nobody takes:    *)
(* Shutdown then waits for it (manifest.go:89).                                *)
FlowEnds ==
    main = "wait" /\ (\E b \in Browsers : at[b] # "idle")
        ~> \/ main \notin {"wait", "close", "closing"}
           \/ main = "closing" /\ \E b \in Browsers : at[b] = "report"

(* The server runs with the variables that were saved: .env is loaded again   *)
(* after a change "to pick up the new secret" (auth_secret.go:36).             *)
RunsAsSaved == main = "running" => osEnv = envFile

(* A server that runs has the webhook secret of its App.  It may not: a Save    *)
(* that is cut off before that line leaves a .env that passes for complete.     *)
WebhookSecretSaved == main = "running" => envFile["webhook"] # 0

(* A graceful stop cuts no request off within its two seconds (main.go:114).   *)
RequestsDrained == cut = {}
=============================================================================
