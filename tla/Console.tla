-------------------------------- MODULE Console --------------------------------
(***************************************************************************)
(* What the operator enters in the dashboard: sources, settings, scans,    *)
(* schedules, and the credentials of each (web/dashboard.py,               *)
(* storage/source_repository.py, storage/machine_secrets.py,               *)
(* application/job_control.py).                                            *)
(*                                                                         *)
(* A credential is a file of the data directory or the name of an          *)
(* environment variable; rows hold a reference, and the reference of a     *)
(* file holds the directory it was written in.  The handlers run on one    *)
(* event loop: one that awaits nothing is a step, and the two that ask a   *)
(* service are two, with other handlers in between.  The terminal's setup  *)
(* is a process of its own.  The process of the dashboard may die within   *)
(* a handler, and the data directory may be moved.                         *)
(***************************************************************************)
EXTENDS Cuts

CONSTANTS
    SourceKinds, Locations,
    Identity,            \* location -> what _source_identity makes of it
    MaxProfiles,         \* bound: ids drawn for profiles
    MaxDrawn,            \* bound: names drawn for the keys of analyses
    SubmissionKeys,      \* idempotency keys of the forms
    MaxWork,             \* bound: jobs and schedules
    MaxForms,            \* bound: what is entered, and faults
    MaxWaiting,          \* bound: handlers between two steps
    Roots                \* the places the data directory may be moved to

ASSUME RootsAssumption == Roots # {}
ASSUME KindsAssumption == "openwebui" \in SourceKinds

VARIABLES
    consolePhase,    \* "off" or "on"
    profiles,        \* the source profiles: a partial function of ids
    secretFiles,     \* the names of the files under secrets/
    settingsRef,     \* ai_credential_ref of the settings
    work,            \* the jobs and schedules submitted, in order
    waiting,         \* the handlers, or the terminal, between two steps
    dataRoot,        \* where the data directory is
    drawnIds,        \* how many ids were drawn for profiles that were kept
    drawn,           \* how many names for the keys of analyses were drawn
    forms,           \* how many forms were sent and faults met
    interrupted      \* history: the process died with something half done

consoleVars == <<consolePhase, profiles, secretFiles, settingsRef, work, waiting, dataRoot, drawnIds, drawn, forms, interrupted>>

NoRef == [type |-> "none", name |-> <<"", 0>>, root |-> 0]
EnvRef == [NoRef EXCEPT !.type = "env"]
FileRef(name) == [type |-> "file", name |-> name, root |-> dataRoot]

SourceSecret(id) == <<"source", id>>
DefaultSecret == <<"ai", 0>>
AnalysisSecret(n) == <<"ai", n>>
-------------------------------------------------------------------------------
Entered == forms' = forms + 1
NothingEntered == UNCHANGED forms

(* MachineSecretStore. *)

(* delete: only of a file directly below the directory as it is now. *)
Deletable(ref) == IF ref.type = "file" /\ ref.root = dataRoot THEN {ref.name} ELSE {}

Resolves(ref) ==
    \/ ref.type = "env"
    \/ ref.type = "file" /\ ref.root = dataRoot /\ ref.name \in secretFiles

(* rebind: the same name, in the directory as it is now. *)
Rebindable(ref) == ref.type = "file" /\ ~Resolves(ref) /\ Resolves(FileRef(ref.name))
-------------------------------------------------------------------------------
(* The repository of the profiles. *)

(* save refuses a second profile of the same source. *)
SameSource(p, q) == p.kind = q.kind /\ Identity[p.location] = Identity[q.location]
IsDuplicate(id, profile) == \E other \in DOMAIN profiles \ {id} : SameSource(profiles[other], profile)

WithProfile(id, profile) == [other \in DOMAIN profiles \cup {id} |-> IF other = id THEN profile ELSE profiles[other]]

Saved(id, profile) == IF IsDuplicate(id, profile) THEN profiles ELSE WithProfile(id, profile)

Removed(id) == [other \in DOMAIN profiles \ {id} |-> profiles[other]]

NewId == drawnIds + 1
CanDraw == drawnIds < MaxProfiles
CanWait == Cardinality(waiting) < MaxWaiting

Credential(kind, name) ==
    CASE kind = "key" -> FileRef(name)
      [] kind = "env" -> EnvRef
      [] OTHER -> NoRef

ProfileOf(kind, location, ref, origin) == [kind |-> kind, location |-> location, ref |-> ref, origin |-> origin]
-------------------------------------------------------------------------------
(* Sources. *)

(* dashboard_add_source, and create_local_administrator with a source: the *)
(* key is stored, then the profile saved, and the key removed again if it  *)
(* was not.                                                                *)
AddsSource(kind, location, credential) ==
    /\ CanDraw
    /\ LET id == NewId
           profile == ProfileOf(kind, location, Credential(credential, SourceSecret(id)), "dashboard")
       IN  /\ profiles' = Saved(id, profile)
           /\ secretFiles' = IF credential = "key" /\ ~IsDuplicate(id, profile)
                             THEN secretFiles \cup {SourceSecret(id)} ELSE secretFiles
           /\ drawnIds' = IF IsDuplicate(id, profile) THEN drawnIds ELSE id
    /\ UNCHANGED <<consolePhase, settingsRef, work, waiting, dataRoot, drawn, interrupted>>

(* dashboard_connect_source up to the question to the service. *)
BeginsConnecting(id, credential) ==
    /\ id \in DOMAIN profiles /\ profiles[id].kind = "openwebui"
    /\ CanWait
    /\ waiting' = waiting \cup {[op |-> "connect", id |-> id, profile |-> profiles[id], credential |-> credential]}
    /\ UNCHANGED <<consolePhase, profiles, secretFiles, settingsRef, work, dataRoot, drawnIds, drawn, interrupted>>

(* Mutant of FilesConnected: the key is stored before it is verified, and  *)
(* removed when it does not work.                                          *)
FilesConnected_Early(w, verified) ==
    IF w.credential # "key" THEN secretFiles
    ELSE IF verified THEN secretFiles \cup {SourceSecret(w.id)} ELSE secretFiles \ {SourceSecret(w.id)}

FilesConnected(w, verified) ==
    IF w.credential = "key" /\ verified THEN secretFiles \cup {SourceSecret(w.id)} ELSE secretFiles

(* The rest of it saves the profile as it was read before the question, so *)
(* one deleted meanwhile is back.                                          *)
EndsConnecting(w, verified) ==
    /\ w \in waiting /\ w.op = "connect"
    /\ waiting' = waiting \ {w}
    /\ secretFiles' = FilesConnected(w, verified)
    /\ profiles' = IF verified
                   THEN Saved(w.id, [w.profile EXCEPT !.ref = Credential(w.credential, SourceSecret(w.id))])
                   ELSE profiles
    /\ UNCHANGED <<consolePhase, settingsRef, work, dataRoot, drawnIds, drawn, interrupted>>

DeletesSource(id) ==
    /\ id \in DOMAIN profiles
    /\ profiles' = Removed(id)
    /\ secretFiles' = secretFiles \ Deletable(profiles[id].ref)
    /\ UNCHANGED <<consolePhase, settingsRef, work, waiting, dataRoot, drawnIds, drawn, interrupted>>

(* The setup of the terminal looks for duplicates and inserts with no      *)
(* transaction around both.                                                *)
TerminalLooks(location, credential) ==
    /\ CanDraw /\ CanWait
    /\ LET profile == ProfileOf("openwebui", location, Credential(credential, NoRef), "terminal")
       IN  /\ ~IsDuplicate(NewId, profile)
           /\ waiting' = waiting \cup {[op |-> "terminal", id |-> NewId, profile |-> profile, credential |-> credential]}
    /\ drawnIds' = NewId
    /\ UNCHANGED <<consolePhase, profiles, secretFiles, settingsRef, work, dataRoot, drawn, interrupted>>

TerminalInserts(w) ==
    /\ w \in waiting /\ w.op = "terminal"
    /\ waiting' = waiting \ {w}
    /\ profiles' = WithProfile(w.id, w.profile)
    /\ UNCHANGED <<consolePhase, secretFiles, settingsRef, work, dataRoot, drawnIds, drawn, interrupted>>

(* render_dashboard: the references that no longer resolve are rebound in  *)
(* turn, until one of them meets a duplicate and the page fails.           *)
RendersPage(rebound) ==
    /\ rebound # {}
    /\ LET stale == {id \in DOMAIN profiles : profiles[id].kind = "openwebui" /\ Rebindable(profiles[id].ref)}
           failing == {id \in stale : IsDuplicate(id, profiles[id])}
       IN  rebound \subseteq stale \ failing /\ (failing = {} => rebound = stale)
    /\ profiles' = [id \in DOMAIN profiles |->
                       IF id \in rebound THEN [profiles[id] EXCEPT !.ref = FileRef(profiles[id].ref.name)] ELSE profiles[id]]
    /\ UNCHANGED <<consolePhase, secretFiles, settingsRef, work, waiting, dataRoot, drawnIds, drawn, interrupted>>
-------------------------------------------------------------------------------
(* Settings. *)

(* dashboard_save_settings: the old credential is removed first.  A key of *)
(* blanks, and settings that are too long, are refused after that.         *)
FilesOfSettings(change) ==
    CASE change = "keep" -> secretFiles
      [] change = "key" -> (secretFiles \ Deletable(settingsRef)) \cup {DefaultSecret}
      [] OTHER -> secretFiles \ Deletable(settingsRef)

SavesSettings(change, fits) ==
    /\ secretFiles' = FilesOfSettings(change)
    /\ settingsRef' = IF ~fits \/ change \in {"keep", "blank"} THEN settingsRef
                      ELSE Credential(change, DefaultSecret)
    /\ UNCHANGED <<consolePhase, profiles, work, waiting, dataRoot, drawnIds, drawn, interrupted>>
-------------------------------------------------------------------------------
(* Scans. *)

(* _ai_config: what the form says, or else what the settings say; a key    *)
(* that is not blank becomes a file of its own.                            *)
AnalysisRef(entered) ==
    CASE entered = "key" -> FileRef(AnalysisSecret(drawn + 1))
      [] entered = "env" -> EnvRef
      [] OTHER -> settingsRef

Draws(entered) == drawn' = IF entered = "key" THEN drawn + 1 ELSE drawn
CanEnter(entered) == entered = "key" => drawn < MaxDrawn

(* What the handler takes for the file it made, also for a key of blanks.  *)
Created(entered) == IF entered \in {"key", "blank"} THEN AnalysisRef(entered) ELSE NoRef

FilesWith(entered) == IF entered = "key" THEN secretFiles \cup {AnalysisSecret(drawn + 1)} ELSE secretFiles

(* validate_source. *)
ValidSource(s) ==
    /\ s.kind = "local" => s.ref = NoRef
    /\ s.kind = "openwebui" => s.ref # NoRef
    /\ s.kind # "local" => s.consent

Submission(mode, key, source, entered) ==
    [mode |-> mode, key |-> key, source |-> source, ai |-> AnalysisRef(entered), own |-> entered = "key",
     alive |-> TRUE]

(* enqueue: the key of a form that was sent before finds the job made then. *)
Earlier(new) == {i \in DOMAIN work : new.mode = "one_time" /\ work[i].mode = "one_time" /\ work[i].key = new.key}
SameRequest(old, new) == old.source = new.source /\ old.ai = new.ai

Accepted(new) ==
    /\ ValidSource(new.source)
    /\ \A i \in Earlier(new) : SameRequest(work[i], new)

(* What the three forms for a scan have in common.  What is refused takes  *)
(* the file it made with it.  A configuration of the analysis that does    *)
(* not hold is refused within _ai_config, which leaves nothing behind.     *)
Submits(mode, key, source, entered) ==
    /\ CanEnter(entered)
    /\ LET new == Submission(mode, key, source, entered)
       IN  /\ Accepted(new) /\ Earlier(new) = {} => Len(work) < MaxWork
           /\ work' = IF Accepted(new) /\ Earlier(new) = {} THEN Append(work, new) ELSE work
           /\ secretFiles' = IF Accepted(new) THEN FilesWith(entered)
                             ELSE FilesWith(entered) \ Deletable(Created(entered))
    /\ Draws(entered)
    /\ UNCHANGED <<consolePhase, profiles, settingsRef, waiting, dataRoot, drawnIds, interrupted>>

SourceOf(kind, ref, consent) == [kind |-> kind, ref |-> ref, consent |-> consent]

SubmitsLocal(mode, key, entered) == Submits(mode, key, SourceOf("local", NoRef, FALSE), entered)

(* The form holds the reference of the profile as the page shows it. *)
SubmitsOpenWebUI(mode, key, id, consent, entered) ==
    /\ profiles[id].kind = "openwebui"
    /\ Submits(mode, key, SourceOf("openwebui", profiles[id].ref, consent), entered)

SubmitsWebsite(mode, key, ref, consent, entered) ==
    Submits(mode, key, SourceOf("website", ref, consent), entered)

(* dashboard_discover_ai_models: the key is stored for the question only. *)
BeginsModels(entered) ==
    /\ CanEnter(entered) /\ CanWait
    /\ secretFiles' = FilesWith(entered)
    /\ waiting' = waiting \cup {[op |-> "models", id |-> 0, temporary |-> Created(entered)]}
    /\ Draws(entered)
    /\ UNCHANGED <<consolePhase, profiles, settingsRef, work, dataRoot, drawnIds, interrupted>>

EndsModels(w) ==
    /\ w \in waiting /\ w.op = "models"
    /\ waiting' = waiting \ {w}
    /\ secretFiles' = secretFiles \ Deletable(w.temporary)
    /\ UNCHANGED <<consolePhase, profiles, settingsRef, work, dataRoot, drawnIds, drawn, interrupted>>

(* The worker finds the credential of the source, then of the analysis;    *)
(* without the second the scan goes on and has no analysis.                *)
Outcome(w) ==
    IF w.source.ref # NoRef /\ ~Resolves(w.source.ref) THEN "refused"
    ELSE IF w.ai = NoRef \/ Resolves(w.ai) THEN "complete"
    ELSE "without analysis"

DeletesSchedule(i) ==
    /\ i \in DOMAIN work /\ work[i].alive /\ work[i].mode = "scheduled"
    /\ work' = [work EXCEPT ![i].alive = FALSE]
    /\ UNCHANGED <<consolePhase, profiles, secretFiles, settingsRef, waiting, dataRoot, drawnIds, drawn, interrupted>>
-------------------------------------------------------------------------------
(* The process dies: what waits is lost, and so is the second half of the  *)
(* handler that runs.                                                      *)

Dies ==
    /\ ~interrupted
    /\ waiting' = {w \in waiting : w.op = "terminal"}
    /\ interrupted' = TRUE

(* The key of a source is stored and the profile is not. *)
DiesAdding ==
    /\ CanDraw /\ Dies
    /\ secretFiles' = secretFiles \cup {SourceSecret(NewId)}
    /\ drawnIds' = NewId
    /\ UNCHANGED <<consolePhase, profiles, settingsRef, work, dataRoot, drawn>>

(* The profile is deleted and its key is not. *)
DiesDeleting(id) ==
    /\ id \in DOMAIN profiles /\ Dies
    /\ profiles' = Removed(id)
    /\ UNCHANGED <<consolePhase, secretFiles, settingsRef, work, dataRoot, drawnIds, drawn>>

(* The key of an analysis is stored and the scan is not queued. *)
DiesSubmitting ==
    /\ CanEnter("key") /\ Dies
    /\ secretFiles' = FilesWith("key") /\ Draws("key")
    /\ UNCHANGED <<consolePhase, profiles, settingsRef, work, dataRoot, drawnIds>>

(* The credential of the settings is replaced and the settings are not saved. *)
DiesSaving(change) ==
    /\ Dies
    /\ secretFiles' = FilesOfSettings(change)
    /\ UNCHANGED <<consolePhase, profiles, settingsRef, work, dataRoot, drawnIds, drawn>>

(* The service is stopped, its data moved and started there. *)
MovesData(root) ==
    /\ waiting = {} /\ root # dataRoot
    /\ dataRoot' = root
    /\ UNCHANGED <<consolePhase, profiles, secretFiles, settingsRef, work, waiting, drawnIds, drawn, interrupted>>
-------------------------------------------------------------------------------
ConsoleFresh ==
    /\ profiles = <<>> /\ secretFiles = {} /\ settingsRef = NoRef /\ work = <<>> /\ waiting = {}
    /\ dataRoot = (CHOOSE root \in Roots : TRUE) /\ drawnIds = 0 /\ drawn = 0 /\ forms = 0 /\ interrupted = FALSE

ConsoleIdle == consolePhase = "off" /\ ConsoleFresh
ConsoleInit == consolePhase = "on" /\ ConsoleFresh

Modes == {"one_time", "scheduled"}
KeyFields == {"none", "env", "key", "blank"}

FormSteps ==
    \/ \E k \in SourceKinds, l \in Locations, c \in {"none", "env", "key"} : AddsSource(k, l, c)
    \/ \E id \in DOMAIN profiles, c \in {"env", "key"} : BeginsConnecting(id, c)
    \/ \E id \in DOMAIN profiles : DeletesSource(id)
    \/ \E l \in Locations, c \in {"none", "env"} : TerminalLooks(l, c)
    \/ \E change \in {"keep", "remove", "key", "env", "blank"}, fits \in BOOLEAN : SavesSettings(change, fits)
    \/ \E m \in Modes, k \in SubmissionKeys, e \in KeyFields : SubmitsLocal(m, k, e)
    \/ \E m \in Modes, k \in SubmissionKeys, id \in DOMAIN profiles, e \in KeyFields : SubmitsOpenWebUI(m, k, id, TRUE, e)
    \/ \E m \in Modes, k \in SubmissionKeys, consent \in BOOLEAN, e \in KeyFields :
           SubmitsWebsite(m, k, IF consent THEN EnvRef ELSE NoRef, consent, e)
    \/ \E e \in KeyFields : BeginsModels(e)
    \/ \E i \in DOMAIN work : DeletesSchedule(i)
    \/ \E root \in Roots : MovesData(root)

AnswerSteps ==
    \/ \E w \in waiting, verified \in BOOLEAN : EndsConnecting(w, verified)
    \/ \E w \in waiting : TerminalInserts(w)
    \/ \E w \in waiting : EndsModels(w)
    \/ \E rebound \in SUBSET DOMAIN profiles : RendersPage(rebound)

FaultSteps ==
    \/ DiesAdding
    \/ \E id \in DOMAIN profiles : DiesDeleting(id)
    \/ DiesSubmitting
    \/ \E change \in {"key", "remove"} : DiesSaving(change)

ConsoleNext ==
    /\ consolePhase = "on"
    /\ \/ forms < MaxForms /\ (FormSteps \/ FaultSteps) /\ Entered
       \/ AnswerSteps /\ NothingEntered
-------------------------------------------------------------------------------
(* Properties. *)

Profile == [kind : SourceKinds, location : Locations, origin : {"dashboard", "terminal"},
            ref : [type : {"none", "env", "file"}, name : {"", "source", "ai"} \X (0..MaxProfiles), root : Roots \cup {0}]]

(* Rows hold what the repositories take, and files have the names of       *)
(* machine_secrets.py.                                                     *)
ConsoleTypeOK ==
    /\ DOMAIN profiles \subseteq 1..drawnIds /\ \A id \in DOMAIN profiles : profiles[id] \in Profile
    /\ secretFiles \subseteq ({"source"} \X (1..MaxProfiles)) \cup ({"ai"} \X (0..MaxDrawn))
    /\ Len(work) <= MaxWork /\ Cardinality(waiting) <= MaxWaiting /\ dataRoot \in Roots

(* A profile that refers to a stored key refers to one that is there, at   *)
(* the latest after it was rebound: the key is written before the row and  *)
(* removed after it, whatever runs or dies in between.                     *)
ProfilesKeepTheirKeys ==
    \A id \in DOMAIN profiles : profiles[id].ref.type = "file" => profiles[id].ref.name \in secretFiles

(* The key entered with a job or a schedule is there when it runs, unless  *)
(* the data was moved: what is cleaned up after another submission or      *)
(* question is not this key.                                               *)
WorkKeepsItsKey ==
    \A i \in DOMAIN work : work[i].own /\ work[i].ai.root = dataRoot => Outcome(work[i]) # "without analysis"

(* A key entered for an analysis is kept for a job or schedule, or for the *)
(* time of a question, unless the process died.                              *)
NoStrayKeys ==
    ~interrupted =>
        \A n \in 1..drawn : AnalysisSecret(n) \in secretFiles =>
            \/ \E i \in DOMAIN work : work[i].ai.name = AnalysisSecret(n)
            \/ \E w \in waiting : w.op = "models" /\ w.temporary.name = AnalysisSecret(n)

(* Two profiles the dashboard made are never of the same source, also when *)
(* one was deleted, another made and the first is back from connecting.    *)
OneProfilePerSource ==
    \A id, other \in DOMAIN profiles :
        id # other /\ SameSource(profiles[id], profiles[other]) =>
            "terminal" \in {profiles[id].origin, profiles[other].origin}

(* What was entered and what it refers to stay together, over handlers     *)
(* that overlap, refused submissions, crashes and a move of the data.      *)
CredentialsAreKept ==
    ProfilesKeepTheirKeys /\ WorkKeepsItsKey /\ NoStrayKeys /\ OneProfilePerSource
===============================================================================
