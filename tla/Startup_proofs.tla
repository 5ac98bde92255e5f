--------------------------- MODULE Startup_proofs ---------------------------
(***************************************************************************)
(* Proofs about the files that QuickFeed's start-up leaves, for any number of  *)
(* starts, Apps and browsers: whatever step the process ends at.               *)
(***************************************************************************)
EXTENDS Startup, TLAPS

(* What the variables of the main goroutine, the handlers and Save say of each  *)
(* other, as long as only one handler of a flow gets beyond the conversion.      *)
Saving(b) == at[b] \in {"key", "store", "save"}
Phases ==
    /\ main = "off" => osEnv = NoLines
    /\ main \in {"off", "secret", "saving", "app"} => ~created /\ \A b \in Browsers : at[b] = "idle"
    /\ main \in {"check", "running", "stopped"} =>
          ~created /\ \A b \in Browsers : at[b] \in {"idle", "serve"}
    /\ main \in {"close", "closing"} => created /\ \A b \in Browsers : ~ Saving(b)
    /\ main = "saving" => save.stage # "none"
    /\ save.stage # "none" => main = "saving" \/ \E b \in Browsers : at[b] = "save"
    /\ created => apps # 0
    /\ \A b \in Browsers :
          /\ Saving(b) => created /\ \A c \in Browsers : Saving(c) => b = c
          /\ at[b] \in {"key", "store"} => save.stage = "none"
          /\ at[b] = "save" => save.stage # "none"
          /\ result[b] # "none" <=> at[b] = "report"
          /\ result[b] = "ok" => created /\ \A c \in Browsers : ~ Saving(c)

(* Save may still be called: for the secret, or for the App of this flow.      *)
MaySaveApp == (main = "wait" /\ ~created) \/ \E b \in Browsers : at[b] \in {"key", "store"}
MaySave == main \in {"secret", "app"} \/ MaySaveApp

Whole(file) == file \in Lines /\ file["domain"] # 0
Complete(file) == file \in Lines /\ \A k \in Checked : file[k] # 0

(* Where the operator's lines are, at each step of Save.                      *)
Kept ==
    whole =>
        /\ MaySave \/ save.stage \in {"remove", "rename", "saved"} => Whole(envFile)
        /\ save.stage \in {"remove", "rename", "open", "write"} => save.content["domain"] # 0
        /\ save.stage \in {"open", "write"} => Whole(bak)
        /\ save.stage = "write" => "domain" \in save.left \/ envFile["domain"] # 0

(* The App of .env and that of the key, at each step of Save.                 *)
Before == {"remove", "rename", "open", "write"}
Matched ==
    /\ Complete(envFile) => Fits(envFile)
    /\ \A b \in Browsers : at[b] \in {"key", "store"} => app[b] # 0
    /\ \A b \in Browsers : at[b] = "store" => keyFile = app[b]
    /\ MaySave => envFile \in Lines
    /\ MaySaveApp => ~ Complete(envFile)
    /\ main \in {"secret", "app"} => \A k \in AppKeys : osEnv[k] = envFile[k]
    /\ main = "saving" /\ save.stage \in Before => \A k \in AppKeys :
          /\ save.update[k] = 0
          /\ save.content[k] = osEnv[k]
    /\ main = "saving" /\ save.stage \in Before /\ Complete(save.content) => Fits(save.content)
    /\ main = "saving" /\ save.stage = "saved" => \A k \in AppKeys : envFile[k] = osEnv[k]
    /\ \A b \in Browsers : at[b] = "save" => keyFile # 0
    /\ (\E b \in Browsers : at[b] = "save") /\ save.stage \in Before =>
          \A k \in AppKeys : save.update[k] = keyFile
    /\ (\E b \in Browsers : at[b] = "save") /\ save.stage = "saved" =>
          \A k \in AppKeys : envFile[k] = keyFile
    /\ save.stage = "write" => \A k \in AppKeys :
          /\ envFile[k] \in {0, Line(k)}
          /\ k \in save.left \/ envFile[k] = Line(k)
    /\ save.stage \in {"write", "saved"} => envFile \in Lines
    /\ main \in {"close", "closing", "check", "running", "stopped"} => Complete(envFile)
    /\ \A b \in Browsers : result[b] = "ok" => Complete(envFile)

IInv == TypeOK /\ Phases /\ Kept /\ Matched /\ Recoverable

(* The variables of a file, of the environment and of an update.              *)
Saves == [stage : Stages, content : Lines, update : Lines, left : SUBSET Keys]

(* What is made of lines is lines.                                           *)
LEMMA LineTypes ==
  /\ NoLines \in Lines /\ NoSave \in Saves
  /\ \A k \in Keys : NoLines[k] = 0
  /\ Checked \subseteq AppKeys /\ "webhook" \in AppKeys /\ AppKeys \subseteq Keys /\ "domain" \in Keys /\ "secret" \in Keys /\ "secret" \notin AppKeys
  /\ "domain" \notin AppKeys
  /\ \A f \in Lines : \A k \in Keys : f[k] \in Nat
  <1>1. NoLines \in Lines /\ \A k \in Keys : NoLines[k] = 0
    BY DEF NoLines, Lines
  <1>2. NoSave \in Saves
    BY <1>1 DEF NoSave, Saves, Stages
  <1>3. QED
    BY <1>1, <1>2 DEF Lines, Keys, AppKeys, Checked

(* A line is replaced or added.                                              *)
LEMMA LineReplaced ==
  ASSUME NEW f \in Lines, NEW k \in Keys, NEW n \in Nat
  PROVE  /\ [f EXCEPT ![k] = n] \in Lines
         /\ \A l \in Keys : [f EXCEPT ![k] = n][l] = IF l = k THEN n ELSE f[l]
  BY DEF Lines

(* Load keeps what the environment has.                                      *)
LEMMA LoadTypes ==
  ASSUME NEW env \in Lines, envFile \in Lines
  PROVE  /\ Load(env) \in Lines
         /\ \A k \in Keys : Load(env)[k] = IF env[k] # 0 THEN env[k] ELSE envFile[k]
  BY DEF Load, Lines

(* A handler gets the number of the App that it has the code of.              *)
LEMMA ConvertTypes ==
  ASSUME TypeOK, NEW b \in Browsers, Convert(b)
  PROVE  TypeOK'
  <1> USE DEF Convert, Handler, Report, files, proc, flow, stopping
  <1>1. apps' \in 0 .. MaxApps
    BY BoundsAssumption DEF TypeOK
  <1>2. app' \in [Browsers -> 0 .. MaxApps]
    BY <1>1 DEF TypeOK
  <1>3. created' \in BOOLEAN /\ twice' \in BOOLEAN
    BY DEF TypeOK
  <1>4. at' \in [Browsers -> {"idle", "convert", "key", "store", "save", "report", "serve"}]
        /\ result' \in [Browsers -> Results]
    BY DEF TypeOK, Results
  <1>5. QED
    BY <1>1, <1>2, <1>3, <1>4 DEF TypeOK

(* The invariant holds before the first start.                               *)
LEMMA InitIInv == Init => IInv
  <1> SUFFICES ASSUME Init PROVE IInv
    OBVIOUS
  <1> USE DEF Init
  <1>1. /\ envFile \in Lines /\ \A l \in Keys : envFile[l] = IF l = "domain" THEN 1 ELSE 0
    BY DEF NoLines, Lines, Keys, AppKeys, Checked
  <1>2. TypeOK
    <2>1. save \in Saves /\ osEnv \in Lines
      BY LineTypes
    <2>2. starts \in 0 .. MaxStarts /\ apps \in 0 .. MaxApps
      BY BoundsAssumption
    <2>3. QED
      BY <1>1, <2>1, <2>2 DEF TypeOK, Saves, Results
  <1>3. Phases
    BY DEF Phases, Saving, NoSave
  <1>4. Kept /\ Recoverable
    <2>1. envFile \in Lines /\ envFile["domain"] # 0
      BY <1>1, LineTypes
    <2>a. envFile # Missing
      BY <2>1, MissingAssumption
    <2>2. save.stage = "none"
      BY DEF NoSave
    <2>3. QED
      BY <2>1, <2>a, <2>2 DEF Kept, MaySave, MaySaveApp, Whole, Recoverable
  <1>5. Matched
    BY <1>1, LineTypes DEF Matched, MaySave, MaySaveApp, Complete, Fits, NoSave, AppKeys, Checked, Before
  <1>6. QED
    BY <1>2, <1>3, <1>4, <1>5 DEF IInv

(* A start loads .env, or ends at once without one (env.Load).               *)
LEMMA StartKeeps ==
  ASSUME IInv, Start
  PROVE  IInv'
  <1> USE DEF IInv, Start, files, proc, flow, stopping
  <1>0. /\ Load(osEnv) \in Lines \/ envFile = Missing
        /\ envFile # Missing => \A k \in Keys : Load(osEnv)[k] = envFile[k]
    BY LineTypes, LoadTypes DEF TypeOK, Phases
  <1>1. TypeOK'
    <2>1. starts' \in 0 .. MaxStarts
      BY BoundsAssumption DEF TypeOK
    <2>2. force' \in BOOLEAN
      BY BoundsAssumption
    <2>3. osEnv' \in Lines /\ whole' \in BOOLEAN
      BY <1>0 DEF TypeOK
    <2>4. QED
      BY <2>1, <2>2, <2>3 DEF TypeOK
  <1>2. Phases'
    BY DEF TypeOK, Phases, Saving
  <1>3. Kept' /\ Recoverable'
    BY MissingAssumption DEF TypeOK, Kept, MaySave, MaySaveApp, Whole, Recoverable, Saving, Phases
  <1>4. Matched'
    <2>1. CASE envFile = Missing
      BY <2>1 DEF Matched, MaySave, MaySaveApp, Complete, Fits, Before, Line, Phases
    <2>2. CASE envFile # Missing
      <3>1. envFile \in Lines /\ save.stage = "none"
        BY <2>2 DEF TypeOK, Phases
      <3>2. \A k \in AppKeys : osEnv'[k] = envFile'[k]
        BY <1>0, <2>2, LineTypes
      <3>3. QED
        BY <2>2, <3>1, <3>2
        DEF Matched, MaySave, MaySaveApp, Complete, Fits, Before, Line, Phases
    <2>3. QED
      BY <2>1, <2>2
  <1>5. QED
    BY <1>1, <1>2, <1>3, <1>4

(* The update for the secret leaves the App's lines as they are.             *)
LEMMA EnsureAuthSecretKeeps ==
  ASSUME IInv, EnsureAuthSecret
  PROVE  IInv'
  <1> USE DEF IInv, EnsureAuthSecret, Goto, Save, files, proc, flow, stopping
  <1>0. envFile \in Lines /\ starts \in Nat
    BY BoundsAssumption DEF TypeOK, Matched, MaySave
  <1>a. CASE save' = save /\ main' = "app" /\ osEnv' = osEnv
    <2>1. TypeOK' /\ Phases'
      BY <1>a DEF TypeOK, Phases, Saving
    <2>2. Kept' /\ Recoverable'
      BY <1>a DEF Kept, MaySave, MaySaveApp, Whole, Recoverable
    <2>3. Matched'
      BY <1>a DEF Matched, MaySave, MaySaveApp, Complete, Fits, Before, Line
    <2>4. QED
      BY <2>1, <2>2, <2>3
  <1>b. CASE /\ Save([NoLines EXCEPT !["secret"] = starts])
             /\ main' = "saving" /\ osEnv' = osEnv
    <2> DEFINE secret == [NoLines EXCEPT !["secret"] = starts]
    <2>1. secret \in Lines /\ \A k \in AppKeys : secret[k] = 0
      BY <1>0, LineTypes, LineReplaced
    <2> HIDE DEF secret
    <2>2. /\ save' = [stage |-> "remove", content |-> envFile, update |-> secret, left |-> {}]
      BY <1>0, <1>b, MissingAssumption DEF secret, Save
    <2>3. save' \in Saves
      BY <1>0, <2>1, <2>2 DEF Saves, Stages
    <2>4. TypeOK'
      BY <1>b, <2>3 DEF TypeOK, Saves
    <2>5. Phases'
      BY <1>b, <2>2 DEF Phases, Saving
    <2>6. Kept' /\ Recoverable'
      BY <1>0, <1>b, <2>2 DEF Kept, MaySave, MaySaveApp, Whole, Recoverable, Phases
    <2>7. \A b \in Browsers : at[b] = "idle" /\ result[b] = "none"
      BY DEF Phases, TypeOK, Results
    <2>8. Matched'
      <3>1. /\ \A k \in AppKeys : save'.update[k] = 0 /\ save'.content[k] = osEnv'[k]
            /\ (Complete(save.content) => Fits(save.content))'
        <4>1. /\ \A k \in AppKeys : osEnv[k] = envFile[k]
              /\ Complete(envFile) => Fits(envFile)
          BY DEF Matched
        <4>2. save'.update = secret /\ save'.content = envFile /\ keyFile' = keyFile
          BY <2>2
        <4>3. \A k \in AppKeys : save'.update[k] = 0 /\ save'.content[k] = osEnv'[k]
          BY <1>b, <2>1, <4>1, <4>2
        <4>4. (Complete(save.content) => Fits(save.content))' <=> (Complete(envFile) => Fits(envFile))
          BY <4>2 DEF Complete, Fits
        <4>5. QED
          BY <4>1, <4>2, <4>3, <4>4
      <3>2. QED
        BY <1>b, <2>2, <2>7, <3>1 DEF Matched, MaySave, MaySaveApp, Complete, Fits, Before
    <2>9. QED
      BY <2>4, <2>5, <2>6, <2>8
  <1>2. QED
    BY <1>a, <1>b

(* The environment that is loaded again has the App of .env.                 *)
LEMMA SecretSavedKeeps ==
  ASSUME IInv, SecretSaved
  PROVE  IInv'
  <1> USE DEF IInv, SecretSaved, files, proc, flow, stopping
  <1>0. /\ envFile \in Lines /\ osEnv \in Lines
        /\ osEnv' \in Lines
        /\ \A k \in Keys : osEnv'[k] = IF osEnv[k] # 0 THEN osEnv[k] ELSE envFile[k]
        /\ save' \in Saves /\ save'.stage = "none"
    BY LineTypes, LoadTypes DEF TypeOK, Matched, NoSave
  <1>1. TypeOK'
    BY <1>0 DEF TypeOK, Saves
  <1>2. Phases'
    BY <1>0 DEF Phases, Saving
  <1>3. Kept' /\ Recoverable'
    BY <1>0 DEF Kept, MaySave, MaySaveApp, Whole, Recoverable, Phases
  <1>4. Matched'
    <2>1. \A k \in AppKeys : osEnv'[k] = envFile'[k]
      BY <1>0, LineTypes DEF Matched
    <2>2. \A b \in Browsers : at[b] = "idle"
      BY DEF Phases
    <2>3. QED
      BY <1>0, <2>1, <2>2 DEF Matched, MaySave, MaySaveApp, Complete, Fits, Before, Line, Phases
  <1>5. QED
    BY <1>1, <1>2, <1>3, <1>4

(* The flow begins only if .env and the key have no complete App.            *)
LEMMA runAppCreationKeeps ==
  ASSUME IInv, runAppCreation
  PROVE  IInv'
  <1> USE DEF IInv, runAppCreation, Goto, NeedsAppCreation, files, proc, flow, stopping
  <1>1. TypeOK'
    BY BoundsAssumption DEF TypeOK, Stages, Results, Lines
  <1>2. Phases'
    BY DEF TypeOK, Phases, Saving
  <1>3. Kept' /\ Recoverable'
    BY MissingAssumption DEF TypeOK, Kept, MaySave, MaySaveApp, Whole, Recoverable, Saving, Phases
  <1>4. Matched'
    BY MissingAssumption
    DEF TypeOK, Matched, MaySave, MaySaveApp, Complete, Fits, Before, Phases, Saving, AppKeys, Checked, Line
  <1>5. QED
    BY <1>1, <1>2, <1>3, <1>4

(* The flow's server is shut down.                                           *)
LEMMA ShutdownKeeps ==
  ASSUME IInv, Shutdown
  PROVE  IInv'
  <1> USE DEF IInv, Shutdown, Goto, files, proc, flow, stopping
  <1>1. TypeOK'
    BY BoundsAssumption DEF TypeOK, Stages, Results, Lines
  <1>2. Phases'
    BY DEF TypeOK, Phases, Saving
  <1>3. Kept' /\ Recoverable'
    BY MissingAssumption DEF TypeOK, Kept, MaySave, MaySaveApp, Whole, Recoverable, Saving, Phases
  <1>4. Matched'
    BY MissingAssumption
    DEF TypeOK, Matched, MaySave, MaySaveApp, Complete, Fits, Before, Phases, Saving, AppKeys, Checked, Line
  <1>5. QED
    BY <1>1, <1>2, <1>3, <1>4

(* The flow ends with the App saved.                                         *)
LEMMA FlowDoneKeeps ==
  ASSUME IInv, FlowDone
  PROVE  IInv'
  <1> USE DEF IInv, FlowDone, files, proc, flow, stopping
  <1>1. TypeOK'
    <2>1. osEnv' \in Lines /\ app' \in [Browsers -> 0 .. MaxApps]
      BY LoadTypes, BoundsAssumption DEF TypeOK
    <2>2. QED
      BY <2>1 DEF TypeOK
  <1>2. Phases'
    BY DEF TypeOK, Phases, Saving
  <1>3. Kept' /\ Recoverable'
    BY MissingAssumption DEF TypeOK, Kept, MaySave, MaySaveApp, Whole, Recoverable, Saving, Phases
  <1>4. Matched'
    BY MissingAssumption
    DEF TypeOK, Matched, MaySave, MaySaveApp, Complete, Fits, Before, Phases, Saving, AppKeys, Checked, Line
  <1>5. QED
    BY <1>1, <1>2, <1>3, <1>4

(* The server runs with the App that was found or made.                      *)
LEMMA CheckAppDataKeeps ==
  ASSUME IInv, CheckAppData
  PROVE  IInv'
  <1> USE DEF IInv, CheckAppData, Goto, NeedsAppCreation, files, proc, flow, stopping
  <1>1. TypeOK'
    BY BoundsAssumption DEF TypeOK, Stages, Results, Lines
  <1>2. Phases'
    BY DEF TypeOK, Phases, Saving
  <1>3. Kept' /\ Recoverable'
    BY MissingAssumption DEF TypeOK, Kept, MaySave, MaySaveApp, Whole, Recoverable, Saving, Phases
  <1>4. Matched'
    BY MissingAssumption
    DEF TypeOK, Matched, MaySave, MaySaveApp, Complete, Fits, Before, Phases, Saving, AppKeys, Checked, Line
  <1>5. QED
    BY <1>1, <1>2, <1>3, <1>4

(* A signal ends the server.                                                 *)
LEMMA gracefulShutdownKeeps ==
  ASSUME IInv, gracefulShutdown
  PROVE  IInv'
  <1> USE DEF IInv, gracefulShutdown, Goto, files, proc, flow, stopping
  <1>1. TypeOK'
    BY BoundsAssumption DEF TypeOK, Stages, Results, Lines
  <1>2. Phases'
    BY DEF TypeOK, Phases, Saving
  <1>3. Kept' /\ Recoverable'
    BY MissingAssumption DEF TypeOK, Kept, MaySave, MaySaveApp, Whole, Recoverable, Saving, Phases
  <1>4. Matched'
    BY MissingAssumption
    DEF TypeOK, Matched, MaySave, MaySaveApp, Complete, Fits, Before, Phases, Saving, AppKeys, Checked, Line
  <1>5. QED
    BY <1>1, <1>2, <1>3, <1>4

(* The two seconds are over.                                                 *)
LEMMA GraceOverKeeps ==
  ASSUME IInv, GraceOver
  PROVE  IInv'
  <1> USE DEF IInv, GraceOver, files, proc, flow, stopping
  <1>1. TypeOK'
    BY BoundsAssumption DEF TypeOK, Stages, Results, Lines
  <1>2. Phases'
    BY DEF TypeOK, Phases, Saving
  <1>3. Kept' /\ Recoverable'
    BY MissingAssumption DEF TypeOK, Kept, MaySave, MaySaveApp, Whole, Recoverable, Saving, Phases
  <1>4. Matched'
    BY MissingAssumption
    DEF TypeOK, Matched, MaySave, MaySaveApp, Complete, Fits, Before, Phases, Saving, AppKeys, Checked, Line
  <1>5. QED
    BY <1>1, <1>2, <1>3, <1>4

(* Save removes an older backup while .env still is whole.                   *)
LEMMA RemoveBackupKeeps ==
  ASSUME IInv, RemoveBackup
  PROVE  IInv'
  <1> USE DEF IInv, RemoveBackup, files, proc, flow, stopping
  <1>1. TypeOK'
    BY BoundsAssumption DEF TypeOK, Stages, Results, Lines
  <1>2. Phases'
    BY DEF TypeOK, Phases, Saving
  <1>3. Kept' /\ Recoverable'
    BY MissingAssumption DEF TypeOK, Kept, MaySave, MaySaveApp, Whole, Recoverable, Saving, Phases
  <1>4. Matched'
    BY MissingAssumption
    DEF TypeOK, Matched, MaySave, MaySaveApp, Complete, Fits, Before, Phases, Saving, AppKeys, Checked, Line
  <1>5. QED
    BY <1>1, <1>2, <1>3, <1>4

(* Save renames .env, which then is the backup.                              *)
LEMMA RenameKeeps ==
  ASSUME IInv, Rename
  PROVE  IInv'
  <1> USE DEF IInv, Rename, files, proc, flow, stopping
  <1>1. TypeOK'
    BY BoundsAssumption DEF TypeOK, Stages, Results, Lines
  <1>2. Phases'
    BY DEF TypeOK, Phases, Saving
  <1>3. Kept' /\ Recoverable'
    BY MissingAssumption DEF TypeOK, Kept, MaySave, MaySaveApp, Whole, Recoverable, Saving, Phases
  <1>4. Matched'
    BY MissingAssumption
    DEF TypeOK, Matched, MaySave, MaySaveApp, Complete, Fits, Before, Phases, Saving, AppKeys, Checked, Line
  <1>5. QED
    BY <1>1, <1>2, <1>3, <1>4

(* Save begins an empty file; what is still to write is on its list.         *)
LEMMA OpenFileKeeps ==
  ASSUME IInv, OpenFile
  PROVE  IInv'
  <1> USE DEF IInv, OpenFile, Written, files, proc, flow, stopping
  <1>0. /\ envFile' = NoLines
        /\ save' = [save EXCEPT !.stage = "write",
                               !.left = Written(save.content) \cup Written(save.update)]
        /\ save \in Saves /\ save.stage = "open"
    BY DEF TypeOK, Saves
  <1>a. /\ save' \in Saves /\ save'.stage = "write"
        /\ save'.content = save.content /\ save'.update = save.update
        /\ save'.left = Written(save.content) \cup Written(save.update)
    BY <1>0 DEF Saves, Stages
  <1>b. \A k \in Keys : Line(k) # 0 => k \in save'.left
    BY <1>a DEF Line
  <1>c. \A k \in Keys : (Line(k))' = Line(k)
    BY <1>a DEF Line
  <1>1. TypeOK'
    BY <1>a, LineTypes DEF TypeOK, Saves
  <1>2. Phases'
    BY <1>a DEF Phases, Saving
  <1>d. ~ MaySave'
    BY <1>a DEF MaySave, MaySaveApp, Phases, Saving
  <1>3. Kept' /\ Recoverable'
    <2>1. whole => Whole(bak) /\ save.content["domain"] # 0
      BY DEF Kept
    <2>2. whole => "domain" \in save'.left
      BY <1>a, <2>1, LineTypes
    <2>3. QED
      BY <1>a, <1>d, <2>1, <2>2, MissingAssumption DEF Kept, Whole, Recoverable
  <1>4. Matched'
    <2>1. \A k \in AppKeys : envFile'[k] = 0
      BY LineTypes
    <2>2. \A k \in AppKeys : /\ envFile'[k] \in {0, Line(k)'}
                             /\ k \in save'.left \/ envFile'[k] = Line(k)'
      BY <1>b, <1>c, <2>1, LineTypes
    <2>3. ~ Complete(envFile')
      BY <2>1 DEF Complete, Checked, AppKeys
    <2>4. \A b \in Browsers : result[b] # "ok"
      BY DEF Phases, Saving, Matched, Complete, Fits, TypeOK
    <2>5. main \notin {"close", "closing", "check", "running", "stopped", "secret", "app"}
      BY DEF Phases, Saving
    <2>6. QED
      BY <1>a, <1>d, <2>2, <2>3, <2>4, <2>5, LineTypes
      DEF Matched, MaySave, MaySaveApp, Before, Phases, Fits
  <1>5. QED
    BY <1>1, <1>2, <1>3, <1>4

(* Save writes a line, or is done: then every line has been written.         *)
LEMMA updateKeeps ==
  ASSUME IInv, update
  PROVE  IInv'
  <1> USE DEF IInv, files, proc, flow, stopping
  <1>0. /\ save \in Saves /\ save.stage = "write" /\ envFile \in Lines
        /\ UNCHANGED <<bak, keyFile, proc, at, result, flow, stopping>>
    BY DEF update, TypeOK, Saves, Matched
  <1>a. \A k \in Keys : Line(k) \in Nat
    BY <1>0 DEF Line, Saves, Lines
  <1>b. /\ ~ MaySave
        /\ main \notin {"off", "close", "closing", "check", "running", "stopped", "secret", "app"}
        /\ \A b \in Browsers : result[b] # "ok"
    BY <1>0 DEF Phases, Saving, MaySave, MaySaveApp
  <1>1. CASE save.left = {} /\ save' = [save EXCEPT !.stage = "saved"] /\ UNCHANGED envFile
    <2>1. /\ save' \in Saves /\ save'.stage = "saved" /\ save'.content = save.content
      BY <1>0, <1>1 DEF Saves, Stages
    <2>2. TypeOK'
      BY <1>0, <1>1, <2>1 DEF TypeOK, Saves
    <2>3. Phases' /\ ~ MaySave'
      BY <1>0, <1>b, <2>1 DEF Phases, Saving, MaySave, MaySaveApp
    <2>4. Kept' /\ Recoverable'
      BY <1>0, <1>1, <2>1, <2>3 DEF Kept, Whole, Recoverable
    <2>5. \A k \in AppKeys : envFile[k] = Line(k)
      BY <1>0, <1>1 DEF Matched
    <2>6. main = "saving" => \A k \in AppKeys : envFile[k] = osEnv[k]
      BY <1>0, <2>5 DEF Matched, Before, Line
    <2>7. (\E b \in Browsers : at[b] = "save") => \A k \in AppKeys : envFile[k] = keyFile
      BY <1>0, <2>5 DEF Matched, Before, Line
    <2>8. Matched'
      BY <1>0, <1>1, <1>b, <2>1, <2>3, <2>6, <2>7
      DEF Matched, MaySave, MaySaveApp, Complete, Fits, Before
    <2>9. QED
      BY <2>2, <2>3, <2>4, <2>8
  <1>2. ASSUME NEW k \in save.left, envFile' = [envFile EXCEPT ![k] = Line(k)],
               save' = [save EXCEPT !.left = @ \ {k}]
        PROVE  IInv'
    <2>0. k \in Keys
      BY <1>0 DEF Saves
    <2>1. /\ save' \in Saves /\ save'.stage = "write" /\ save'.content = save.content
          /\ save'.update = save.update /\ save'.left = save.left \ {k}
      <3>1. save.left \ {k} \in SUBSET Keys
        BY <1>0 DEF Saves
      <3>2. QED
        BY <1>0, <1>2, <3>1 DEF Saves
    <2>2. /\ envFile' \in Lines
          /\ \A l \in Keys : envFile'[l] = IF l = k THEN Line(k) ELSE envFile[l]
      <3> DEFINE n == Line(k)
      <3>1. n \in Nat
        BY <1>a, <2>0
      <3> HIDE DEF n
      <3>2. envFile' = [envFile EXCEPT ![k] = n]
        BY <1>2 DEF n
      <3>3. /\ envFile' \in Lines
            /\ \A l \in Keys : envFile'[l] = IF l = k THEN n ELSE envFile[l]
        BY <1>0, <2>0, <3>1, <3>2 DEF Lines
      <3>4. QED
        BY <3>3 DEF n
    <2>3. TypeOK'
      BY <1>0, <2>1, <2>2 DEF TypeOK, Saves
    <2>4. Phases' /\ ~ MaySave'
      BY <1>0, <1>b, <2>1 DEF Phases, Saving, MaySave, MaySaveApp
    <2>5. Kept' /\ Recoverable'
      <3>1. whole => Whole(bak) /\ save.content["domain"] # 0
        BY <1>0 DEF Kept
      <3>2. whole => Line("domain") # 0
        BY <1>0, <3>1, LineTypes DEF Line, Saves
      <3>3. whole => "domain" \in save'.left \/ envFile'["domain"] # 0
        BY <1>0, <2>1, <2>2, <3>2, LineTypes DEF Kept
      <3>4. QED
        BY <1>0, <2>1, <2>4, <3>1, <3>3, MissingAssumption DEF Kept, Whole, Recoverable
    <2>6. \A l \in Keys : Line(l)' = Line(l)
      BY <2>1 DEF Line
    <2>7. \A l \in AppKeys : /\ envFile'[l] \in {0, Line(l)'}
                             /\ l \in save'.left \/ envFile'[l] = Line(l)'
      <3>1. \A l \in AppKeys : /\ envFile[l] \in {0, Line(l)}
                               /\ l \in save.left \/ envFile[l] = Line(l)
        BY <1>0 DEF Matched
      <3>2. QED
        BY <2>1, <2>2, <2>6, <3>1, LineTypes
    <2>8. Complete(envFile') => Fits(envFile')
      <3>1. SUFFICES ASSUME Complete(envFile') PROVE Fits(envFile')
        OBVIOUS
      <3>2. /\ \A l \in Checked : envFile'[l] = Line(l) /\ Line(l) # 0
            /\ envFile'["webhook"] \in {0, Line("webhook")}
        BY <2>6, <2>7, <3>1, LineTypes DEF Complete
      <3>3. CASE main = "saving"
        <4>1. \A l \in AppKeys : Line(l) = save.content[l]
          BY <1>0, <3>3 DEF Matched, Before, Line
        <4>2. Complete(save.content)
          BY <1>0, <3>2, <4>1, LineTypes DEF Complete, Saves
        <4>3. Fits(save.content)
          BY <1>0, <3>3, <4>2 DEF Matched, Before
        <4>4. QED
          BY <3>2, <4>1, <4>3, LineTypes DEF Fits
      <3>4. CASE \E b \in Browsers : at[b] = "save"
        <4>1. \A l \in AppKeys : save.update[l] = keyFile /\ keyFile # 0
          BY <1>0, <3>4 DEF Matched, Before
        <4>2. QED
          BY <3>2, <4>1, LineTypes DEF Line, Fits
      <3>5. QED
        BY <1>0, <3>3, <3>4 DEF Phases
    <2>9. Matched'
      BY <1>0, <1>b, <2>1, <2>2, <2>4, <2>7, <2>8
      DEF Matched, MaySave, MaySaveApp, Before, Fits, Phases
    <2>10. QED
      BY <2>3, <2>4, <2>5, <2>9
  <1>3. QED
    BY <1>1, <1>2 DEF update

(* Save returns an error.                                                    *)
LEMMA SaveFailsKeeps ==
  ASSUME IInv, SaveFails
  PROVE  IInv'
  <1> USE DEF IInv, SaveFails, files, proc, flow, stopping
  <1>1. TypeOK'
    BY BoundsAssumption DEF TypeOK, Stages, Results, Lines
  <1>2. Phases'
    BY DEF TypeOK, Phases, Saving
  <1>3. Kept' /\ Recoverable'
    BY MissingAssumption DEF TypeOK, Kept, MaySave, MaySaveApp, Whole, Recoverable, Saving, Phases
  <1>4. Matched'
    BY MissingAssumption
    DEF TypeOK, Matched, MaySave, MaySaveApp, Complete, Fits, Before, Phases, Saving, AppKeys, Checked, Line
  <1>5. QED
    BY <1>1, <1>2, <1>3, <1>4

(* A browser comes back to the flow.                                         *)
LEMMA CallbackKeeps ==
  ASSUME IInv, NEW b \in Browsers, Callback(b)
  PROVE  IInv'
  <1> USE DEF IInv, Callback, Handler, Report, files, proc, flow, stopping
  <1>1. TypeOK'
    BY BoundsAssumption DEF TypeOK, Stages, Results, Lines
  <1>2. Phases'
    BY DEF TypeOK, Phases, Saving
  <1>3. Kept' /\ Recoverable'
    BY MissingAssumption DEF TypeOK, Kept, MaySave, MaySaveApp, Whole, Recoverable, Saving, Phases
  <1>4. Matched'
    BY MissingAssumption
    DEF TypeOK, Matched, MaySave, MaySaveApp, Complete, Fits, Before, Phases, Saving, AppKeys, Checked, Line
  <1>5. QED
    BY <1>1, <1>2, <1>3, <1>4

(* GitHub gives an App's configuration to the first handler of a flow.        *)
LEMMA ConvertKeeps ==
  ASSUME IInv, NEW b \in Browsers, Convert(b), ~ twice'
  PROVE  IInv'
  <1> USE DEF IInv, Convert, Handler, Report, files, proc, flow, stopping
  <1>1. TypeOK'
    BY ConvertTypes
  <1>2. Phases'
    BY DEF TypeOK, Phases, Saving
  <1>3. Kept' /\ Recoverable'
    BY MissingAssumption DEF TypeOK, Kept, MaySave, MaySaveApp, Whole, Recoverable, Saving, Phases
  <1>4. Matched'
    BY MissingAssumption
    DEF TypeOK, Matched, MaySave, MaySaveApp, Complete, Fits, Before, Phases, Saving, AppKeys, Checked, Line
  <1>5. QED
    BY <1>1, <1>2, <1>3, <1>4

(* The key is written while .env has no complete App, or the handler fails.  *)
LEMMA WriteKeyKeeps ==
  ASSUME IInv, NEW b \in Browsers, WriteKey(b)
  PROVE  IInv'
  <1> USE DEF IInv, WriteKey, Handler, Report, files, proc, flow, stopping
  <1>1. TypeOK'
    BY BoundsAssumption DEF TypeOK, Results
  <1>2. Phases'
    BY DEF TypeOK, Phases, Saving
  <1>3. Kept' /\ Recoverable'
    BY DEF TypeOK, Kept, MaySave, MaySaveApp, Recoverable, Phases, Saving
  <1>4. Matched'
    <2>1. /\ at[b] = "key" /\ save.stage = "none" /\ ~ Complete(envFile) /\ envFile' = envFile
          /\ main \notin {"secret", "app", "saving", "close", "closing", "check", "running", "stopped"}
          /\ \A c \in Browsers : c # b => ~ Saving(c)
      BY DEF Phases, Saving, Matched, MaySaveApp
    <2>2. \A c \in Browsers : result'[c] # "ok"
      BY DEF TypeOK, Phases, Saving
    <2>3. QED
      BY <2>1, <2>2 DEF TypeOK, Matched, MaySave, MaySaveApp, Complete, Before, Saving
  <1>5. QED
    BY <1>1, <1>2, <1>3, <1>4

(* Save is called for the App of the key.                                    *)
LEMMA SaveAppKeeps ==
  ASSUME IInv, NEW b \in Browsers, SaveApp(b)
  PROVE  IInv'
  <1> USE DEF IInv, Handler, files, proc, flow, stopping
  <1>0. /\ at[b] = "store" /\ save.stage = "none" /\ created
        /\ app[b] \in Nat /\ app[b] # 0 /\ keyFile = app[b]
        /\ envFile \in Lines /\ ~ Complete(envFile)
        /\ UNCHANGED <<files, proc, flow, stopping>> /\ Handler(b, "save")
    BY BoundsAssumption DEF SaveApp, TypeOK, Phases, Saving, Matched, MaySave, MaySaveApp
  <1> DEFINE lines == [k \in Keys |-> IF k \in AppKeys THEN app[b] ELSE 0]
  <1>1. lines \in Lines /\ \A k \in AppKeys : lines[k] = app[b]
    BY <1>0, LineTypes DEF Lines
  <1>2. save' = [stage |-> "remove", content |-> envFile, update |-> lines, left |-> {}]
    BY <1>0, MissingAssumption DEF SaveApp, Save
  <1> HIDE DEF lines
  <1>3. save' \in Saves
    BY <1>0, <1>1, <1>2 DEF Saves, Stages
  <1>4. TypeOK'
    BY <1>0, <1>3 DEF TypeOK, Saves
  <1>5. Phases' /\ ~ MaySave'
    BY <1>0, <1>2 DEF TypeOK, Phases, Saving, MaySave, MaySaveApp
  <1>6. Kept' /\ Recoverable'
    BY <1>0, <1>2, <1>5, LineTypes DEF Kept, MaySave, MaySaveApp, Whole, Recoverable
  <1>7. main # "saving" /\ \A c \in Browsers : result[c] # "ok"
    BY <1>0 DEF Phases, Saving
  <1>8. main \notin {"close", "closing", "check", "running", "stopped", "secret", "app"}
    BY <1>0 DEF Phases, Saving
  <1>9. \A k \in AppKeys : save'.update[k] = keyFile'
    BY <1>0, <1>1, <1>2
  <1>10. \A c \in Browsers : at'[c] \notin {"key", "store"}
    BY <1>0 DEF Phases, Saving, TypeOK
  <1>11. Matched'
    BY <1>0, <1>2, <1>5, <1>7, <1>8, <1>9, <1>10
    DEF Matched, MaySave, MaySaveApp, Complete, Before, Fits
  <1>12. QED
    BY <1>4, <1>5, <1>6, <1>11

(* The handler that saved the App reports: if it is a success .env has the App. *)
LEMMA AppSavedKeeps ==
  ASSUME IInv, NEW b \in Browsers, AppSaved(b)
  PROVE  IInv'
  <1> USE DEF IInv, files, proc, flow, stopping
  <1>0. /\ at[b] = "save" /\ save.stage \in {"saved", "failed"} /\ save' = NoSave /\ created
        /\ UNCHANGED <<files, proc, flow, stopping>>
        /\ at' = [at EXCEPT ![b] = "report"]
    BY DEF AppSaved, Report, Phases, Saving
  <1>1. PICK res \in {"ok", "error"} :
            /\ result' = [result EXCEPT ![b] = res]
            /\ res = "ok" => save.stage = "saved"
    BY DEF AppSaved, Report
  <1>2. save' \in Saves /\ save'.stage = "none"
    BY <1>0, LineTypes DEF NoSave
  <1>3. TypeOK'
    BY <1>0, <1>1, <1>2 DEF TypeOK, Results, Saves
  <1>4. /\ \A c \in Browsers : ~ Saving(c)' /\ (c # b => at'[c] = at[c] /\ result'[c] = result[c])
        /\ at'[b] = "report" /\ result'[b] = res
    BY <1>0, <1>1 DEF TypeOK, Phases, Saving
  <1>5. main \notin {"off", "secret", "app", "saving", "check", "running", "stopped", "close", "closing"}
    BY <1>0 DEF Phases, Saving
  <1>6. Phases' /\ ~ MaySave'
    BY <1>0, <1>2, <1>4, <1>5 DEF Phases, Saving, MaySave, MaySaveApp
  <1>7. Kept' /\ Recoverable'
    BY <1>0, <1>2, <1>6 DEF Kept, Recoverable
  <1>8. res = "ok" => Complete(envFile)
    <2>1. SUFFICES ASSUME res = "ok" PROVE Complete(envFile)
      OBVIOUS
    <2>2. \A k \in AppKeys : envFile[k] = keyFile /\ keyFile # 0
      BY <1>0, <1>1, <2>1 DEF Matched
    <2>3. envFile \in Lines
      BY <1>0, <1>1, <2>1 DEF Matched
    <2>4. QED
      BY <2>2, <2>3, LineTypes DEF Complete
  <1>9. \A c \in Browsers : result[c] = "ok" => Complete(envFile)
    BY DEF Matched
  <1>10. Matched'
    <2>1. \A c \in Browsers : result'[c] = "ok" => Complete(envFile')
      BY <1>0, <1>4, <1>8, <1>9
    <2>2. Complete(envFile') => Fits(envFile')
      BY <1>0 DEF Matched
    <2>3. \A c \in Browsers : at'[c] # "save"
      BY <1>4 DEF Saving
    <2>4. QED
      BY <1>0, <1>2, <1>4, <1>5, <1>6, <2>1, <2>2, <2>3
      DEF Matched, MaySave, MaySaveApp, Before, Fits, Saving
  <1>11. QED
    BY <1>3, <1>6, <1>7, <1>10

(* A request to the running server.                                          *)
LEMMA RequestKeeps ==
  ASSUME IInv, NEW b \in Browsers, Request(b)
  PROVE  IInv'
  <1> USE DEF IInv, Request, Handler, files, proc, flow, stopping
  <1>1. TypeOK'
    BY BoundsAssumption DEF TypeOK, Stages, Results, Lines
  <1>2. Phases'
    BY DEF TypeOK, Phases, Saving
  <1>3. Kept' /\ Recoverable'
    BY MissingAssumption DEF TypeOK, Kept, MaySave, MaySaveApp, Whole, Recoverable, Saving, Phases
  <1>4. Matched'
    BY MissingAssumption
    DEF TypeOK, Matched, MaySave, MaySaveApp, Complete, Fits, Before, Phases, Saving, AppKeys, Checked, Line
  <1>5. QED
    BY <1>1, <1>2, <1>3, <1>4

(* It is answered.                                                           *)
LEMMA RespondKeeps ==
  ASSUME IInv, NEW b \in Browsers, Respond(b)
  PROVE  IInv'
  <1> USE DEF IInv, Respond, Handler, files, proc, flow, stopping
  <1>1. TypeOK'
    BY BoundsAssumption DEF TypeOK, Stages, Results, Lines
  <1>2. Phases'
    BY DEF TypeOK, Phases, Saving
  <1>3. Kept' /\ Recoverable'
    BY MissingAssumption DEF TypeOK, Kept, MaySave, MaySaveApp, Whole, Recoverable, Saving, Phases
  <1>4. Matched'
    BY MissingAssumption
    DEF TypeOK, Matched, MaySave, MaySaveApp, Complete, Fits, Before, Phases, Saving, AppKeys, Checked, Line
  <1>5. QED
    BY <1>1, <1>2, <1>3, <1>4

(* The process ends: the files stay what they are at any step.               *)
LEMMA EndedKeeps ==
  ASSUME IInv, Ended, cut' \subseteq Browsers
  PROVE  IInv'
  <1> USE DEF IInv, Ended, files
  <1>0. save' \in Saves /\ save'.stage = "none" /\ osEnv' \in Lines
    BY LineTypes DEF NoSave
  <1>1. TypeOK'
    <2>1. app' \in [Browsers -> 0 .. MaxApps]
      BY BoundsAssumption
    <2>2. QED
      BY <1>0, <2>1 DEF TypeOK, Saves, Results
  <1>2. Phases'
    BY <1>0 DEF Phases, Saving
  <1>3. Kept' /\ Recoverable'
    BY <1>0 DEF Kept, MaySave, MaySaveApp, Recoverable
  <1>4. Matched'
    BY <1>0 DEF Matched, MaySave, MaySaveApp, Complete, Fits, Before
  <1>5. QED
    BY <1>1, <1>2, <1>3, <1>4

(* The main goroutine takes a result: after a success nobody saves any more. *)
LEMMA ReceiveResultKeeps ==
  ASSUME IInv, NEW b \in Browsers, ReceiveResult(b)
  PROVE  IInv'
  <1> USE DEF IInv, files, proc, flow, stopping
  <1>1. CASE Ended /\ UNCHANGED cut
    BY <1>1, EndedKeeps DEF TypeOK
  <1>2. CASE /\ result[b] # "error" /\ main = "wait" /\ at[b] = "report" /\ Goto("close")
             /\ at' = [at EXCEPT ![b] = "idle"] /\ result' = [result EXCEPT ![b] = "none"]
             /\ UNCHANGED <<files, save, flow, stopping>>
    <2> USE DEF Goto
    <2>1. result[b] = "ok"
      BY <1>2 DEF Phases, TypeOK, Results
    <2>2. created /\ (\A c \in Browsers : ~ Saving(c)) /\ Complete(envFile)
      BY <2>1 DEF Phases, Matched
    <2>3. TypeOK' /\ Phases'
      BY <1>2, <2>2 DEF TypeOK, Results, Phases, Saving
    <2>4. Kept' /\ Recoverable'
      BY <1>2 DEF TypeOK, Kept, MaySave, MaySaveApp, Recoverable
    <2>5. Matched'
      BY <1>2, <2>2 DEF TypeOK, Matched, MaySave, MaySaveApp, Complete, Fits, Before, Line
    <2>6. QED
      BY <2>3, <2>4, <2>5
  <1>3. QED
    BY <1>1, <1>2 DEF ReceiveResult

(* Every step keeps the invariant, unless it is a flow's second App. *)
LEMMA IInvStep == IInv /\ [Next]_vars /\ ~ twice' => IInv'
  <1> SUFFICES ASSUME IInv, [Next]_vars, ~ twice' PROVE IInv'
    OBVIOUS
  <1>1. CASE Start \/ gracefulShutdown \/ GraceOver
    BY <1>1, StartKeeps, gracefulShutdownKeeps, GraceOverKeeps
  <1>2. CASE EnsureAuthSecret \/ SecretSaved \/ runAppCreation \/ Shutdown \/ FlowDone \/ CheckAppData
    BY <1>2, EnsureAuthSecretKeeps, SecretSavedKeeps, runAppCreationKeeps, ShutdownKeeps,
       FlowDoneKeeps, CheckAppDataKeeps
  <1>3. CASE SaveStep
    BY <1>3, RemoveBackupKeeps, RenameKeeps, OpenFileKeeps, updateKeeps, SaveFailsKeeps DEF SaveStep
  <1>4. ASSUME NEW b \in Browsers, ReceiveResult(b) PROVE IInv'
    BY <1>4, ReceiveResultKeeps
  <1>5. CASE SecretFails \/ ServeReturns \/ Exit
    <2>1. Ended /\ cut' \subseteq Browsers
      BY <1>5 DEF SecretFails, ServeReturns, Exit, IInv, TypeOK
    <2>2. QED
      BY <2>1, EndedKeeps
  <1>6. ASSUME NEW b \in Browsers, Callback(b) \/ conversion(b) \/ Request(b) \/ Respond(b)
        PROVE  IInv'
    BY <1>6, CallbackKeeps, ConvertKeeps, WriteKeyKeeps, SaveAppKeeps, AppSavedKeeps, RequestKeeps,
       RespondKeeps DEF conversion
  <1>7. CASE UNCHANGED vars
    BY <1>7 DEF vars, files, proc, flow, stopping, IInv, TypeOK, Phases, Saving, Kept, MaySave, MaySaveApp,
       Whole, Matched, Complete, Fits, Before, Line, Recoverable
  <1>8. QED
    BY <1>1, <1>2, <1>3, <1>4, <1>5, <1>6, <1>7 DEF Next, Main

-----------------------------------------------------------------------------
(* With two Apps in one flow only the types are left.                        *)

(* A file that Save has begun, or is done with, is there.                    *)
SaveInv == save.stage \in {"write", "saved"} => envFile \in Lines

(* A step of Save. *)
LEMMA SaveStepTypes ==
  ASSUME TypeOK, SaveInv, SaveStep
  PROVE  TypeOK' /\ SaveInv'
  <1> USE DEF files, proc, flow, stopping
  <1>1. /\ save \in Saves /\ \A k \in Keys : Line(k) \in Nat
        /\ UNCHANGED <<keyFile, proc, at, result, flow, stopping>>
    BY DEF TypeOK, Saves, Line, Lines, SaveStep, RemoveBackup, Rename, OpenFile, update, SaveFails
  <1>2. CASE RemoveBackup \/ Rename \/ SaveFails
    <2>1. /\ save' \in Saves /\ save'.stage \in {"rename", "open", "failed"}
          /\ envFile' \in Lines \cup {Missing} /\ bak' \in Lines \cup {Missing}
      BY <1>1, <1>2 DEF TypeOK, Saves, Stages, RemoveBackup, Rename, SaveFails
    <2>2. QED
      BY <1>1, <2>1 DEF TypeOK, SaveInv, Saves
  <1>3. CASE OpenFile
    <2>1. save' \in Saves /\ envFile' \in Lines /\ bak' = bak
      BY <1>1, <1>3, LineTypes DEF Saves, Stages, OpenFile, Written
    <2>2. QED
      BY <1>1, <2>1 DEF TypeOK, SaveInv, Saves
  <1>4. CASE update
    <2>1. envFile \in Lines /\ bak' = bak
      BY <1>4 DEF update, SaveInv
    <2>2. CASE save' = [save EXCEPT !.stage = "saved"] /\ UNCHANGED envFile
      <3>1. save' \in Saves
        BY <1>1, <2>2 DEF Saves, Stages
      <3>2. QED
        BY <1>1, <2>1, <2>2, <3>1 DEF TypeOK, SaveInv, Saves
    <2>3. ASSUME NEW k \in save.left, envFile' = [envFile EXCEPT ![k] = Line(k)],
                 save' = [save EXCEPT !.left = @ \ {k}]
          PROVE  TypeOK' /\ SaveInv'
      <3>1. k \in Keys
        BY <1>1 DEF Saves
      <3>2. Line(k) \in Nat
        BY <1>1, <3>1
      <3>3. PICK n \in Nat : n = Line(k)
        BY <3>2
      <3>4. envFile' = [envFile EXCEPT ![k] = n]
        BY <2>3, <3>3
      <3>5. envFile' \in Lines
        BY <2>1, <3>1, <3>4, LineReplaced
      <3>6. save' \in Saves
        BY <1>1, <2>3 DEF Saves
      <3>7. QED
        BY <1>1, <2>1, <3>5, <3>6 DEF TypeOK, SaveInv, Saves
    <2>4. QED
      BY <1>4, <2>2, <2>3 DEF update
  <1>5. QED
    BY <1>2, <1>3, <1>4 DEF SaveStep

(* A call of Save with lines. *)
LEMMA SaveTypes ==
  ASSUME TypeOK, NEW lines \in Lines, Save(lines)
  PROVE  save' \in Saves /\ save'.stage = "remove"
  <1> DEFINE content == IF envFile = Missing THEN NoLines ELSE envFile
  <1>1. content \in Lines
    BY LineTypes DEF TypeOK
  <1>2. save' = [stage |-> "remove", content |-> content, update |-> lines, left |-> {}]
    BY DEF Save
  <1> HIDE DEF content
  <1>3. QED
    BY <1>1, <1>2 DEF Saves, Stages

(* The end of the process. *)
LEMMA EndedTypes ==
  ASSUME TypeOK, Ended, cut' \subseteq Browsers
  PROVE  TypeOK' /\ SaveInv'
  <1> USE DEF Ended, files
  <1>1. save' \in Saves /\ save'.stage = "none" /\ osEnv' \in Lines
    BY LineTypes DEF NoSave
  <1>2. app' \in [Browsers -> 0 .. MaxApps]
    BY BoundsAssumption
  <1>3. QED
    BY <1>1, <1>2 DEF TypeOK, SaveInv, Saves, Results

(* A step of the main goroutine. *)
LEMMA MainTypes ==
  ASSUME TypeOK, SaveInv, Start \/ Main \/ gracefulShutdown \/ GraceOver \/ Exit
  PROVE  TypeOK' /\ SaveInv'
  <1> USE DEF files, proc, flow, stopping
  <1>1. CASE Start
    <2>0. starts' \in 0 .. MaxStarts
      BY <1>1, BoundsAssumption DEF Start, TypeOK
    <2>1. force' \in BOOLEAN
      BY <1>1, BoundsAssumption DEF Start
    <2>2. osEnv' \in Lines /\ whole' \in BOOLEAN /\ main' \in {main, "secret"}
      BY <1>1, LoadTypes DEF Start, TypeOK
    <2>3. QED
      BY <1>1, <2>0, <2>1, <2>2 DEF Start, TypeOK, SaveInv
  <1>2. CASE EnsureAuthSecret
    <2>1. CASE Goto("app") /\ UNCHANGED save
      BY <1>2, <2>1 DEF EnsureAuthSecret, Goto, TypeOK, SaveInv
    <2>2. CASE Save([NoLines EXCEPT !["secret"] = starts]) /\ Goto("saving")
      <3> DEFINE secret == [NoLines EXCEPT !["secret"] = starts]
      <3>1. secret \in Lines
        BY LineTypes, LineReplaced, BoundsAssumption DEF TypeOK
      <3> HIDE DEF secret
      <3>2. save' \in Saves /\ save'.stage = "remove"
        BY <2>2, <3>1, SaveTypes DEF secret
      <3>3. QED
        BY <1>2, <2>2, <3>2 DEF EnsureAuthSecret, Goto, TypeOK, SaveInv, Saves
    <2>3. QED
      BY <1>2, <2>1, <2>2 DEF EnsureAuthSecret
  <1>3. CASE SecretSaved
    <2>1. osEnv' \in Lines /\ save' \in Saves /\ save'.stage = "none"
      BY <1>3, LoadTypes, LineTypes DEF SecretSaved, SaveInv, TypeOK, NoSave
    <2>2. QED
      BY <1>3, <2>1 DEF SecretSaved, TypeOK, SaveInv, Saves
  <1>4. CASE runAppCreation \/ Shutdown \/ CheckAppData \/ gracefulShutdown \/ GraceOver
    BY <1>4 DEF runAppCreation, Shutdown, CheckAppData, gracefulShutdown, GraceOver, Goto, TypeOK, SaveInv
  <1>5. CASE FlowDone
    <2>1. osEnv' \in Lines /\ app' \in [Browsers -> 0 .. MaxApps]
      BY <1>5, LoadTypes, BoundsAssumption DEF FlowDone, TypeOK
    <2>2. QED
      BY <1>5, <2>1 DEF FlowDone, TypeOK, SaveInv
  <1>6. ASSUME NEW b \in Browsers, ReceiveResult(b) PROVE TypeOK' /\ SaveInv'
    <2>1. CASE Ended /\ UNCHANGED cut
      BY <2>1, EndedTypes DEF TypeOK
    <2>2. CASE /\ Goto("close") /\ at' = [at EXCEPT ![b] = "idle"]
               /\ result' = [result EXCEPT ![b] = "none"]
               /\ UNCHANGED <<files, save, flow, stopping>>
      BY <2>2 DEF Goto, TypeOK, SaveInv, Results
    <2>3. QED
      BY <1>6, <2>1, <2>2 DEF ReceiveResult
  <1>7. CASE SecretFails \/ ServeReturns \/ Exit
    <2>1. Ended /\ cut' \subseteq Browsers
      BY <1>7 DEF SecretFails, ServeReturns, Exit, TypeOK
    <2>2. QED
      BY <2>1, EndedTypes
  <1>8. QED
    BY <1>1, <1>2, <1>3, <1>4, <1>5, <1>6, <1>7 DEF Main

(* A step of a handler. *)
LEMMA HandlerTypes ==
  ASSUME TypeOK, SaveInv, NEW b \in Browsers,
         Callback(b) \/ conversion(b) \/ Request(b) \/ Respond(b)
  PROVE  TypeOK' /\ SaveInv'
  <1> USE DEF files, proc, flow, stopping
  <1>1. CASE Callback(b) \/ Request(b) \/ Respond(b)
    BY <1>1 DEF Callback, Request, Respond, Handler, Report, TypeOK, SaveInv, Results
  <1>2. CASE Convert(b)
    BY <1>2, ConvertTypes DEF Convert, SaveInv
  <1>3. CASE WriteKey(b)
    <2>1. keyFile' \in Nat
      BY <1>3, BoundsAssumption DEF WriteKey, TypeOK
    <2>2. QED
      BY <1>3, <2>1 DEF WriteKey, Handler, Report, TypeOK, SaveInv, Results
  <1>4. CASE SaveApp(b)
    <2> DEFINE lines == [k \in Keys |-> IF k \in AppKeys THEN app[b] ELSE 0]
    <2>1. lines \in Lines
      BY BoundsAssumption DEF TypeOK, Lines
    <2> HIDE DEF lines
    <2>2. save' \in Saves /\ save'.stage = "remove"
      BY <1>4, <2>1, SaveTypes DEF SaveApp, lines
    <2>3. QED
      BY <1>4, <2>2 DEF SaveApp, Handler, TypeOK, SaveInv, Saves
  <1>5. CASE AppSaved(b)
    <2>1. save' \in Saves /\ save'.stage = "none"
      BY <1>5, LineTypes DEF AppSaved, NoSave
    <2>2. QED
      BY <1>5, <2>1 DEF AppSaved, Report, TypeOK, SaveInv, Saves, Results
  <1>6. QED
    BY <1>1, <1>2, <1>3, <1>4, <1>5 DEF conversion

(* Every step. *)
LEMMA TypesStep == TypeOK /\ SaveInv /\ [Next]_vars => TypeOK' /\ SaveInv'
  <1> SUFFICES ASSUME TypeOK, SaveInv, [Next]_vars PROVE TypeOK' /\ SaveInv'
    OBVIOUS
  <1>1. CASE UNCHANGED vars
    BY <1>1 DEF vars, files, proc, flow, stopping, TypeOK, SaveInv
  <1>2. QED
    BY <1>1, MainTypes, SaveStepTypes, HandlerTypes DEF Next

(* An App that was the second of its flow stays so. *)
LEMMA TwiceStays == [Next]_vars /\ twice => twice'
  BY DEF Next, Start, Main, EnsureAuthSecret, SecretSaved, SecretFails, runAppCreation, Shutdown,
     FlowDone, CheckAppData, ServeReturns, ReceiveResult, SaveStep, RemoveBackup, Rename, OpenFile,
     update, SaveFails, gracefulShutdown, GraceOver, Exit, Ended, Callback, conversion, Convert,
     WriteKey, SaveApp, AppSaved, Request, Respond, vars, flow

(* The invariant for good, up to the second App of a flow. *)
UpToTwice == TypeOK /\ SaveInv /\ (twice \/ IInv)

LEMMA UpToTwiceStep == UpToTwice /\ [Next]_vars => UpToTwice'
  BY IInvStep, TypesStep, TwiceStays DEF UpToTwice

LEMMA InitUpToTwice == Init => UpToTwice
  BY InitIInv DEF UpToTwice, Init, NoSave, SaveInv, IInv

(* Wherever a start ends, within a step of Save or of the flow or while serving:  *)
(* the operator's lines are in one of the two files (internal/env/save.go), as   *)
(* long as no flow has created two Apps.                                        *)
THEOREM StartupSafety == Spec => [](TypeOK /\ Recoverable)
  <1>1. UpToTwice => TypeOK /\ Recoverable
    BY DEF UpToTwice, IInv, Recoverable
  <1>2. QED
    BY <1>1, InitUpToTwice, UpToTwiceStep, PTL DEF Spec

(* A server that runs has the key of the App whose ID and client it has, and no   *)
(* other App's webhook secret, whatever flows were cut short at whatever step     *)
(* before (manifest.go:123, save.go), as long as none of them created two Apps.  *)
THEOREM StartupMatches == Spec => []SavedAppMatchesKey
  <1>1. UpToTwice => SavedAppMatchesKey
    BY DEF UpToTwice, IInv, Matched, SavedAppMatchesKey
  <1>2. QED
    BY <1>1, InitUpToTwice, UpToTwiceStep, PTL DEF Spec

-----------------------------------------------------------------------------
(* The secret, whatever the number of Apps in a flow.                        *)

(* Whose call of Save is under way, and which handlers report.               *)
Calls ==
    /\ main = "off" => osEnv = NoLines
    /\ main \in {"off", "secret", "saving", "app"} => \A b \in Browsers : at[b] = "idle"
    /\ main \in {"check", "running", "stopped"} => \A b \in Browsers : at[b] \in {"idle", "serve"}
    /\ main = "saving" => save.stage # "none"
    /\ save.stage # "none" => main = "saving" \/ \E b \in Browsers : at[b] = "save"
    /\ \A b \in Browsers :
          /\ at[b] = "save" => save.stage # "none" /\ \A c \in Browsers : at[c] = "save" => b = c
          /\ result[b] # "none" <=> at[b] = "report"

SameSecret == envFile \in Lines /\ envFile["secret"] = osEnv["secret"]

(* Without -secret the process has the secret of .env, or none to save one in   *)
(* its place, at each step of Save and of the flow.  A Save that fails in the    *)
(* flow may leave no .env for the next one to read, but its error stays to be    *)
(* reported, and the flow does not end with an App.                            *)
Flow == {"wait", "close", "closing"}
Faultless == \A b \in Browsers : result[b] # "error"
Secret ==
    ~ force =>
        /\ main \in {"secret", "app", "check", "running", "stopped"} => SameSecret
        /\ main = "saving" => osEnv["secret"] = 0
        /\ main \in Flow /\ Faultless =>
              /\ save.stage \in {"none", "saved"} => SameSecret
              /\ save.stage \in Before =>
                    save.update["secret"] = 0 /\ save.content["secret"] = osEnv["secret"]
              /\ save.stage = "write" =>
                    "secret" \in save.left \/ envFile["secret"] = Line("secret")

SecretInv == TypeOK /\ SaveInv /\ Calls /\ Secret

(* Nothing is running before the first start. *)
LEMMA InitSecret == Init => SecretInv
  <1>1. Init => TypeOK /\ SaveInv
    BY InitUpToTwice DEF UpToTwice
  <1>2. Init => Calls /\ Secret
    BY DEF Init, Calls, Secret, NoSave, Flow
  <1>3. QED
    BY <1>1, <1>2 DEF SecretInv

(* The end of the process leaves the secret in the file to the next start. *)
LEMMA EndedSecret ==
  ASSUME Ended
  PROVE  Calls' /\ Secret'
  BY DEF Ended, Calls, Secret, NoSave, Flow

(* The steps of main that change neither .env nor a call of Save. *)
LEMMA MainSecret ==
  ASSUME SecretInv, UNCHANGED <<envFile, osEnv, force, save, at, result>>,
         \/ main' = main
         \/ main = "close" /\ main' = "closing"
         \/ main = "check" /\ main' = "running"
         \/ main = "running" /\ main' = "stopped"
         \/ main \in {"secret", "app"} /\ main' \in {"app", "wait", "check"}
  PROVE  Calls' /\ Secret'
  <1>1. SameSecret' <=> SameSecret
    BY DEF SameSecret
  <1>2. Line("secret")' = Line("secret") /\ (Faultless' <=> Faultless)
    BY DEF Line, Faultless
  <1>3. main \in {"secret", "app"} => save.stage = "none"
    BY DEF SecretInv, Calls
  <1>4. Calls'
    BY DEF SecretInv, Calls
  <1>5. Secret'
    BY <1>1, <1>2, <1>3 DEF SecretInv, Secret, Flow, Before
  <1>6. QED
    BY <1>4, <1>5

(* The steps of handlers that change neither .env nor a call of Save. *)
LEMMA HandlerSecret ==
  ASSUME SecretInv, UNCHANGED <<envFile, osEnv, force, save, main>>,
         \A b \in Browsers : result[b] = "error" => result'[b] = "error"
  PROVE  Secret'
  <1>1. SameSecret' <=> SameSecret
    BY DEF SameSecret
  <1>2. Line("secret")' = Line("secret") /\ (Faultless' => Faultless)
    BY DEF Line, Faultless
  <1>3. QED
    BY <1>1, <1>2 DEF SecretInv, Secret

(* .env is loaded when there is no secret in the environment, or the same. *)
LEMMA LoadSecret ==
  ASSUME SecretInv, Start \/ SecretSaved \/ FlowDone
  PROVE  Calls' /\ Secret'
  <1> USE DEF files, proc, flow, stopping
  <1>1. /\ \A b \in Browsers : at[b] = "idle" /\ result[b] = "none"
        /\ UNCHANGED <<at, result, envFile>>
        /\ main' \in {"off", "secret", "app", "check"} /\ save'.stage = "none"
    <2>1. \A b \in Browsers : at[b] = "idle"
      BY DEF Start, SecretSaved, FlowDone, SecretInv, Calls
    <2>2. \A b \in Browsers : result[b] = "none"
      BY <2>1 DEF SecretInv, Calls
    <2>3. main # "saving" => save.stage = "none"
      BY <2>1 DEF SecretInv, Calls
    <2>4. UNCHANGED <<at, result, envFile>> /\ main' \in {"off", "secret", "app", "check"}
      BY DEF Start, SecretSaved, FlowDone
    <2>5. save'.stage = "none"
      <3>1. CASE Start
        BY <2>3, <3>1 DEF Start
      <3>2. CASE SecretSaved
        <4>1. save' = NoSave
          BY <3>2 DEF SecretSaved
        <4>2. QED
          BY <4>1 DEF NoSave
      <3>3. CASE FlowDone
        BY <2>3, <3>3 DEF FlowDone
      <3>4. QED
        BY <3>1, <3>2, <3>3
    <2>6. QED
      BY <2>1, <2>2, <2>4, <2>5
  <1>2. ASSUME main' # "off", ~ force' PROVE SameSecret'
    <2>1. envFile \in Lines /\ osEnv \in Lines /\ osEnv' = Load(osEnv)
      BY <1>2 DEF Start, SecretSaved, FlowDone, SecretInv, TypeOK, SaveInv
    <2>2. osEnv'["secret"] = IF osEnv["secret"] # 0 THEN osEnv["secret"] ELSE envFile["secret"]
      BY <2>1, LoadTypes, LineTypes
    <2>3. osEnv["secret"] = 0 \/ SameSecret
      <3>1. CASE Start
        BY <3>1, LineTypes DEF Start, SecretInv, Calls
      <3>2. CASE SecretSaved
        BY <1>2, <3>2 DEF SecretSaved, SecretInv, Secret
      <3>3. CASE FlowDone
        <4>1. main \in Flow /\ Faultless /\ save.stage = "none" /\ ~ force
          BY <1>1, <1>2, <3>3 DEF FlowDone, Flow, Faultless, SecretInv, Calls
        <4>2. QED
          BY <4>1 DEF SecretInv, Secret
      <3>4. QED
        BY <3>1, <3>2, <3>3
    <2>4. QED
      BY <1>1, <2>1, <2>2, <2>3 DEF SameSecret
  <1>3. main' = "off" => osEnv' = NoLines
    BY DEF Start, SecretSaved, FlowDone, SecretInv, Calls
  <1>4. QED
    BY <1>1, <1>2, <1>3 DEF Calls, Secret, Flow

(* The main goroutine saves a secret only where there is none, or if forced. *)
LEMMA EnsureSecret ==
  ASSUME SecretInv, EnsureAuthSecret
  PROVE  Calls' /\ Secret'
  <1> USE DEF files, proc, flow, stopping, Goto
  <1>1. CASE main' = "app" /\ save' = save
    BY <1>1, MainSecret DEF EnsureAuthSecret
  <1>2. CASE main' = "saving" /\ (osEnv["secret"] = 0 \/ force) /\ save'.stage = "remove"
    <2>1. UNCHANGED <<osEnv, force, at, result>> /\ main = "secret"
      BY DEF EnsureAuthSecret
    <2>2. QED
      BY <1>2, <2>1 DEF SecretInv, Calls, Secret, Flow
  <1>3. QED
    BY <1>1, <1>2 DEF EnsureAuthSecret, Save

(* A step of Save writes the secret it has read, when it saves the App. *)
LEMMA SaveSecret ==
  ASSUME SecretInv, SaveStep
  PROVE  Calls' /\ Secret'
  <1> USE DEF files, proc, flow, stopping
  <1>0. /\ UNCHANGED <<osEnv, force, main, at, result>> /\ save.stage \in Before
        /\ save'.content = save.content /\ save'.update = save.update
        /\ save'.stage \in Stages \ {"none"}
    <2>1. UNCHANGED <<osEnv, force, main, at, result>> /\ save.stage \in Before /\ save \in Saves
      BY DEF SaveStep, RemoveBackup, Rename, OpenFile, update, SaveFails, SecretInv, TypeOK, Before,
         Saves
    <2>2. save'.content = save.content /\ save'.update = save.update
      BY <2>1 DEF SaveStep, RemoveBackup, Rename, OpenFile, update, SaveFails, Saves
    <2>3. save'.stage \in Stages \ {"none"}
      BY <2>1 DEF SaveStep, RemoveBackup, Rename, OpenFile, update, SaveFails, Saves, Stages, Before
    <2>4. QED
      BY <2>1, <2>2, <2>3
  <1>1. Calls'
    BY <1>0 DEF SecretInv, Calls, Before
  <1>2. save \in Saves
    BY DEF SecretInv, TypeOK, Saves
  <1>3. ASSUME ~ force, main \in Flow, Faultless
        PROVE  /\ save.update["secret"] = 0 /\ save.content["secret"] = osEnv["secret"]
               /\ save'.stage = "saved" => SameSecret'
               /\ save'.stage = "write" =>
                     "secret" \in save'.left \/ envFile'["secret"] = Line("secret")'
    <2>1. save.update["secret"] = 0 /\ save.content["secret"] = osEnv["secret"]
      BY <1>0, <1>3 DEF SecretInv, Secret
    <2>2. Line("secret")' = Line("secret") /\ Line("secret") = osEnv["secret"]
      BY <1>0, <2>1 DEF Line
    <2>3. ASSUME save'.stage = "write"
          PROVE  "secret" \in save'.left \/ envFile'["secret"] = Line("secret")'
      <3>1. CASE OpenFile
        <4>1. envFile' = NoLines /\ save'.left = Written(save.content) \cup Written(save.update)
          BY <1>2, <3>1 DEF OpenFile, Saves
        <4>2. CASE Line("secret") = 0
          BY <2>2, <4>1, <4>2, LineTypes
        <4>3. CASE Line("secret") # 0
          BY <2>1, <4>1, <4>3, LineTypes DEF Line, Written
        <4>4. QED
          BY <4>2, <4>3
      <3>2. CASE update
        <4>1. PICK k \in save.left :
                envFile' = [envFile EXCEPT ![k] = Line(k)] /\ save'.left = save.left \ {k}
          BY <1>2, <2>3, <3>2 DEF update, Saves
        <4>2. "secret" \in save.left \/ envFile["secret"] = Line("secret")
          BY <1>3, <3>2 DEF SecretInv, Secret, update
        <4>3. envFile \in Lines
          BY <3>2 DEF update, SecretInv, SaveInv
        <4>4. envFile'["secret"] = IF k = "secret" THEN Line("secret") ELSE envFile["secret"]
          BY <1>2, <4>1, <4>3, LineTypes DEF Lines, Saves
        <4>5. QED
          BY <2>2, <4>1, <4>2, <4>4
      <3>3. QED
        BY <1>2, <2>3, <3>1, <3>2 DEF SaveStep, RemoveBackup, Rename, SaveFails, Saves
    <2>4. ASSUME save'.stage = "saved" PROVE SameSecret'
      <3>1. update /\ save.left = {} /\ envFile' = envFile
        BY <1>2, <2>4 DEF SaveStep, RemoveBackup, Rename, OpenFile, update, SaveFails, Saves
      <3>2. envFile["secret"] = Line("secret") /\ envFile \in Lines
        BY <1>3, <3>1 DEF SecretInv, Secret, update, SaveInv
      <3>3. QED
        BY <1>0, <2>2, <3>1, <3>2 DEF SameSecret
    <2>5. QED
      BY <2>1, <2>3, <2>4
  <1>4. Secret'
    <2>1. Faultless' <=> Faultless
      BY <1>0 DEF Faultless
    <2>2. main \notin {"secret", "app", "check", "running", "stopped"}
      BY <1>0 DEF SecretInv, Calls, Before
    <2>3. QED
      BY <1>0, <1>3, <2>1, <2>2 DEF SecretInv, Secret
  <1>5. QED
    BY <1>1, <1>4

(* The handler that has the App calls Save for its lines. *)
LEMMA SaveAppSecret ==
  ASSUME SecretInv, NEW b \in Browsers, SaveApp(b)
  PROVE  Calls' /\ Secret'
  <1> USE DEF files, proc, flow, stopping
  <1> DEFINE lines == [k \in Keys |-> IF k \in AppKeys THEN app[b] ELSE 0]
  <1>1. /\ at[b] = "store" /\ save.stage = "none" /\ UNCHANGED <<envFile, osEnv, main, force, result>>
        /\ at' = [at EXCEPT ![b] = "save"] /\ Save(lines)
    BY DEF SaveApp, Handler
  <1>2. lines["secret"] = 0
    BY LineTypes
  <1> HIDE DEF lines
  <1>3. main \notin {"off", "secret", "app", "saving", "check", "running", "stopped"}
    BY <1>1 DEF SecretInv, Calls
  <1>4. /\ save'.stage = "remove" /\ save'.update["secret"] = 0
        /\ SameSecret => save'.content["secret"] = osEnv["secret"]
    BY <1>1, <1>2, MissingAssumption DEF Save, SameSecret
  <1>5. at'[b] = "save" /\ \A c \in Browsers : c # b => at'[c] = at[c] /\ at[c] # "save"
    BY <1>1 DEF SecretInv, Calls, TypeOK
  <1>6. Calls'
    BY <1>1, <1>3, <1>4, <1>5 DEF SecretInv, Calls
  <1>7. Secret'
    BY <1>1, <1>3, <1>4 DEF SecretInv, Secret, Faultless
  <1>8. QED
    BY <1>6, <1>7

(* Only with the App saved does a handler report a success. *)
LEMMA AppSavedSecret ==
  ASSUME SecretInv, NEW b \in Browsers, AppSaved(b)
  PROVE  Calls' /\ Secret'
  <1> USE DEF files, proc, flow, stopping
  <1>1. /\ at[b] = "save" /\ UNCHANGED <<envFile, osEnv, main, force>>
        /\ at' = [at EXCEPT ![b] = "report"] /\ save'.stage = "none"
    BY DEF AppSaved, Report, NoSave
  <1>2. PICK res \in {"ok", "error"} :
          result' = [result EXCEPT ![b] = res] /\ (res = "ok" => save.stage = "saved")
    BY DEF AppSaved, Report
  <1>3. main \notin {"off", "secret", "app", "saving", "check", "running", "stopped"}
    BY <1>1 DEF SecretInv, Calls
  <1>4. /\ at'[b] = "report" /\ result'[b] = res /\ result[b] = "none"
        /\ \A c \in Browsers : c # b => at'[c] = at[c] /\ result'[c] = result[c] /\ at[c] # "save"
    BY <1>1, <1>2 DEF SecretInv, Calls, TypeOK
  <1>5. Calls'
    BY <1>1, <1>2, <1>3, <1>4 DEF SecretInv, Calls
  <1>6. Faultless' => Faultless /\ save.stage = "saved"
    BY <1>2, <1>4 DEF Faultless
  <1>7. SameSecret' <=> SameSecret
    BY <1>1 DEF SameSecret
  <1>8. Secret'
    BY <1>1, <1>3, <1>6, <1>7 DEF SecretInv, Secret, Before
  <1>9. QED
    BY <1>5, <1>8

(* The main goroutine goes on after a success. *)
LEMMA ReceiveSecret ==
  ASSUME SecretInv, NEW b \in Browsers, ReceiveResult(b)
  PROVE  Calls' /\ Secret'
  <1>1. CASE Ended
    BY <1>1, EndedSecret
  <1>2. CASE /\ result[b] # "error" /\ Goto("close")
             /\ at' = [at EXCEPT ![b] = "idle"] /\ result' = [result EXCEPT ![b] = "none"]
             /\ UNCHANGED <<files, save, flow, stopping>>
    <2> USE DEF files, proc, Goto
    <2>1. /\ main = "wait" /\ at[b] = "report" /\ main' = "close"
          /\ UNCHANGED <<envFile, osEnv, force, save>>
      BY <1>2 DEF ReceiveResult
    <2>2. /\ at'[b] = "idle" /\ result'[b] = "none"
          /\ \A c \in Browsers : c # b => at'[c] = at[c] /\ result'[c] = result[c]
      BY <1>2 DEF SecretInv, TypeOK
    <2>3. Calls'
      BY <2>1, <2>2 DEF SecretInv, Calls
    <2>4. (SameSecret' <=> SameSecret) /\ Line("secret")' = Line("secret")
      BY <2>1 DEF SameSecret, Line
    <2>5. Faultless' => Faultless
      BY <1>2, <2>2 DEF Faultless
    <2>6. Secret'
      BY <2>1, <2>4, <2>5 DEF SecretInv, Secret, Flow
    <2>7. QED
      BY <2>3, <2>6
  <1>3. QED
    BY <1>1, <1>2 DEF ReceiveResult

(* Every step keeps the secret. *)
LEMMA SecretStep == SecretInv /\ [Next]_vars => SecretInv'
  <1> SUFFICES ASSUME SecretInv, [Next]_vars PROVE Calls' /\ Secret'
    BY TypesStep DEF SecretInv
  <1> USE DEF files, proc, flow, stopping
  <1>1. CASE Start \/ SecretSaved \/ FlowDone
    BY <1>1, LoadSecret
  <1>2. CASE EnsureAuthSecret
    BY <1>2, EnsureSecret
  <1>3. CASE runAppCreation \/ Shutdown \/ CheckAppData \/ gracefulShutdown \/ GraceOver
    BY <1>3, MainSecret DEF runAppCreation, Shutdown, CheckAppData, gracefulShutdown, GraceOver, Goto
  <1>4. CASE SaveStep
    BY <1>4, SaveSecret
  <1>5. CASE SecretFails \/ ServeReturns \/ Exit
    BY <1>5, EndedSecret DEF SecretFails, ServeReturns, Exit
  <1>6. ASSUME NEW b \in Browsers,
               Callback(b) \/ Convert(b) \/ WriteKey(b) \/ Request(b) \/ Respond(b)
        PROVE  Calls' /\ Secret'
    <2> USE DEF Callback, Convert, WriteKey, Request, Respond, Handler, Report
    <2>1. UNCHANGED <<envFile, osEnv, force, save, main>>
      BY <1>6
    <2>2. \A c \in Browsers : result[c] = "error" => result'[c] = "error"
      BY <1>6 DEF SecretInv, TypeOK, Calls
    <2>3. Calls'
      BY <1>6 DEF SecretInv, TypeOK, Calls
    <2>4. QED
      BY <2>1, <2>2, <2>3, HandlerSecret
  <1>7. ASSUME NEW b \in Browsers, SaveApp(b) \/ AppSaved(b) \/ ReceiveResult(b)
        PROVE  Calls' /\ Secret'
    BY <1>7, SaveAppSecret, AppSavedSecret, ReceiveSecret
  <1>8. CASE UNCHANGED vars
    BY <1>8, MainSecret DEF vars
  <1>9. QED
    BY <1>1, <1>2, <1>3, <1>4, <1>5, <1>6, <1>7, <1>8 DEF Next, Main, conversion

(* The secret a server without -secret signs with is the one the next start finds, *)
(* after any number of starts that ended anywhere, with any number of Apps: the     *)
(* flow's Save writes back the one it has read (internal/env/auth_secret.go,        *)
(* save.go).                                                                      *)
THEOREM StartupSecret == Spec => []SecretSurvives
  <1>1. SecretInv => SecretSurvives
    BY DEF SecretInv, Secret, SameSecret, SecretSurvives
  <1>2. QED
    BY <1>1, InitSecret, SecretStep, PTL DEF Spec
=============================================================================
