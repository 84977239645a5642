------------------------------ MODULE Installation ------------------------------
(***************************************************************************)
(* The installed program: its runtime, the service manager's registration  *)
(* and the running service, under install, update, repair and uninstall    *)
(* (host_service.py, cli.py).                                              *)
(*                                                                         *)
(* On Windows every installation makes a generation of its own, and a file *)
(* points at the one to use; elsewhere the one runtime is replaced in      *)
(* place.  Every command of an installer is a step: it may fail, the       *)
(* installer may die, a second one may work at the same time, and the      *)
(* service manager restarts the service whenever it stopped.               *)
(***************************************************************************)
EXTENDS Cuts

CONSTANTS
    Platforms,       \* among "win32", "darwin" and "linux"
    MaxInstalls      \* bound: installers ever begun

VARIABLES
    system,          \* the platform, or "off"
    places,          \* place -> [version, whole] of the runtimes on disk
    pointer,         \* current-generation.txt, or NoPlace
    commandThere,    \* whether the machine command was written
    definitionFile,  \* the place the definition of the service names, or NoPlace
    task,            \* the place the service manager has registered, or NoPlace
    service,         \* [place, version] of the running service, or NotRunning
    installers,      \* the installers begun so far: [kind, step, place]
    removing,        \* whether a removal waits for its command to end
    contended        \* history: two of them were at work at once

installationVars ==
    <<system, places, pointer, commandThere, definitionFile, task, service, installers, removing, contended>>

NoPlace == 99
ASSUME InstallsAssumption == MaxInstalls \in Nat /\ MaxInstalls < NoPlace

NotRunning == [place |-> NoPlace, version |-> 0]
Windows == system = "win32"

Over == {"done", "failed", "dead"}
AtWork == {i \in DOMAIN installers : installers[i].step \notin Over}

RuntimeWhole(place) == place \in DOMAIN places /\ places[place].whole
Runtime(version, whole) == [version |-> version, whole |-> whole]

(* What the service manager starts from a registration. *)
Started(place) ==
    IF RuntimeWhole(place) THEN [place |-> place, version |-> places[place].version] ELSE NotRunning

To(i, step) == installers' = [installers EXCEPT ![i].step = step]
At(i, step) == i \in DOMAIN installers /\ installers[i].step = step
PlaceOf(i) == installers[i].place
With(place, runtime) == [p \in DOMAIN places \cup {place} |-> IF p = place THEN runtime ELSE places[p]]
Gone(place) == [p \in DOMAIN places \ {place} |-> places[p]]
-------------------------------------------------------------------------------
(* install_machine_runtime. A repair takes the steps of an install.        *)

BeginsInstalling(kind) ==
    LET i == Len(installers) + 1
        place == IF Windows THEN i ELSE 0
    IN  /\ i <= MaxInstalls /\ Cardinality(AtWork) < 2
        /\ installers' = Append(installers, [kind |-> kind, step |-> "runtime", place |-> place])
        /\ places' = IF place \in DOMAIN places THEN places ELSE With(place, Runtime(0, FALSE))
        /\ contended' = (contended \/ AtWork # {} \/ removing)
        /\ UNCHANGED <<system, pointer, commandThere, definitionFile, task, service, removing>>

(* The generation of a failed installation is removed. Where the runtime   *)
(* is replaced in place, what the tool left is there.                      *)
FailsUv(i) ==
    /\ At(i, "runtime")
    /\ places' \in IF Windows THEN {Gone(PlaceOf(i))}
                   ELSE {places, [places EXCEPT ![PlaceOf(i)].whole = FALSE]}
    /\ To(i, "failed")
    /\ UNCHANGED <<system, pointer, commandThere, definitionFile, task, service, removing, contended>>

(* Update elsewhere than on Windows only restarts the service. *)
StepAfterRuntime(i) ==
    IF Windows THEN "pointer" ELSE IF installers[i].kind = "update" THEN "restart" ELSE "define"

RunsUv(i) ==
    /\ At(i, "runtime")
    /\ places' = With(PlaceOf(i), Runtime(i, TRUE))
    /\ To(i, StepAfterRuntime(i))
    /\ UNCHANGED <<system, pointer, commandThere, definitionFile, task, service, removing, contended>>

(* The pointer is replaced at once, in a directory that may be gone.       *)
SetsPointer(i) ==
    /\ At(i, "pointer")
    /\ pointer' = IF PlaceOf(i) \in DOMAIN places THEN PlaceOf(i) ELSE pointer
    /\ To(i, IF PlaceOf(i) \in DOMAIN places THEN "define" ELSE "failed")
    /\ UNCHANGED <<system, places, commandThere, definitionFile, task, service, removing, contended>>
-------------------------------------------------------------------------------
(* install_host_service. *)

Defines(i) ==
    /\ At(i, "define")
    /\ definitionFile' = PlaceOf(i)
    /\ To(i, IF Windows THEN "command" ELSE "load")
    /\ UNCHANGED <<system, places, pointer, commandThere, task, service, removing, contended>>

(* install_machine_command. *)
InstallsCommand(i) ==
    /\ At(i, "command")
    /\ commandThere' = TRUE
    /\ To(i, "create")
    /\ UNCHANGED <<system, places, pointer, definitionFile, task, service, removing, contended>>

CreatesTask(i) ==
    /\ At(i, "create")
    /\ task' = PlaceOf(i)
    /\ To(i, "end")
    /\ UNCHANGED <<system, places, pointer, commandThere, definitionFile, service, removing, contended>>

EndsTask(i) ==
    /\ At(i, "end")
    /\ service' = NotRunning
    /\ To(i, "run")
    /\ UNCHANGED <<system, places, pointer, commandThere, definitionFile, task, removing, contended>>

(* A task that runs already is not started a second time. *)
RunsTask(i) ==
    /\ At(i, "run") /\ task # NoPlace
    /\ service' = IF service = NotRunning THEN Started(task) ELSE service
    /\ To(i, "verify")
    /\ UNCHANGED <<system, places, pointer, commandThere, definitionFile, task, removing, contended>>

VerifiesTask(i) ==
    /\ At(i, "verify") /\ task # NoPlace
    /\ To(i, "prune")
    /\ UNCHANGED <<system, places, pointer, commandThere, definitionFile, task, service, removing, contended>>

(* A command that fails takes the definition with it, not the task.        *)
FailsToRegister(i) ==
    /\ i \in DOMAIN installers /\ installers[i].step \in {"command", "create", "run", "verify"}
    /\ definitionFile' = NoPlace
    /\ To(i, "failed")
    /\ UNCHANGED <<system, places, pointer, commandThere, task, service, removing, contended>>

(* Mutant of Kept: what runs now is kept.                                  *)
Kept_Running(place) == {p \in DOMAIN places : p = service.place}

(* prune_machine_runtime_generations keeps what this installer installed.  *)
Kept(place) == DOMAIN places \cap {place}

(* Of a generation that is in use something may be left.                   *)
Prunes(i) ==
    /\ At(i, "prune")
    /\ \E locked \in SUBSET ({service.place} \cap (DOMAIN places \ Kept(PlaceOf(i)))) :
          places' = [p \in Kept(PlaceOf(i)) \cup locked |->
                        IF p \in locked THEN [places[p] EXCEPT !.whole = FALSE] ELSE places[p]]
    /\ To(i, "done")
    /\ UNCHANGED <<system, pointer, commandThere, definitionFile, task, service, removing, contended>>

(* Elsewhere: launchd lets go of the service and starts it anew; systemd   *)
(* starts one that does not run.                                           *)
LoadsService(i) ==
    /\ At(i, "load")
    /\ task' = PlaceOf(i)
    /\ service' = IF system = "darwin" \/ service = NotRunning THEN Started(PlaceOf(i)) ELSE service
    /\ To(i, "done")
    /\ UNCHANGED <<system, places, pointer, commandThere, definitionFile, removing, contended>>

FailsToLoad(i) ==
    /\ At(i, "load")
    /\ task' = IF system = "darwin" THEN NoPlace ELSE task
    /\ service' = IF system = "darwin" THEN NotRunning ELSE service
    /\ To(i, "failed")
    /\ UNCHANGED <<system, places, pointer, commandThere, definitionFile, removing, contended>>

(* restart_host_service does not look at what the command answers.         *)
RestartsService(i) ==
    /\ At(i, "restart")
    /\ service' \in {service, IF task = NoPlace THEN service ELSE Started(task)}
    /\ To(i, "done")
    /\ UNCHANGED <<system, places, pointer, commandThere, definitionFile, task, removing, contended>>
-------------------------------------------------------------------------------
(* remove_host_service, then remove_machine_runtime: on Windows a script   *)
(* removes the runtime a few seconds later.                                *)
Uninstalls ==
    /\ installers # <<>> /\ ~removing
    /\ task' = NoPlace /\ definitionFile' = NoPlace /\ service' = NotRunning /\ commandThere' = FALSE
    /\ places' = IF Windows THEN places ELSE <<>>
    /\ removing' = Windows
    /\ contended' = (contended \/ AtWork # {})
    /\ UNCHANGED <<system, pointer, installers>>

RemovesRuntime ==
    /\ removing
    /\ removing' = FALSE
    /\ places' = <<>> /\ pointer' = NoPlace /\ commandThere' = FALSE
    /\ UNCHANGED <<system, definitionFile, task, service, installers, contended>>
-------------------------------------------------------------------------------
(* An installer dies; the tool it ran may have left half a runtime. *)
InstallerDies(i) ==
    /\ i \in AtWork
    /\ places' \in IF installers[i].step = "runtime" /\ PlaceOf(i) \in DOMAIN places
                   THEN {places, [places EXCEPT ![PlaceOf(i)].whole = FALSE]} ELSE {places}
    /\ To(i, "dead")
    /\ UNCHANGED <<system, pointer, commandThere, definitionFile, task, service, removing, contended>>

ServiceStops ==
    /\ service # NotRunning
    /\ service' = NotRunning
    /\ UNCHANGED <<system, places, pointer, commandThere, definitionFile, task, installers, removing, contended>>

ServiceStarts ==
    /\ task # NoPlace /\ service = NotRunning /\ RuntimeWhole(task)
    /\ service' = Started(task)
    /\ UNCHANGED <<system, places, pointer, commandThere, definitionFile, task, installers, removing, contended>>
-------------------------------------------------------------------------------
InstallationFresh ==
    /\ places = <<>> /\ pointer = NoPlace /\ commandThere = FALSE /\ definitionFile = NoPlace
    /\ task = NoPlace /\ service = NotRunning /\ installers = <<>> /\ removing = FALSE /\ contended = FALSE

InstallationIdle == system = "off" /\ InstallationFresh
InstallationInit == system \in Platforms /\ InstallationFresh

InstallationNext ==
    \/ \E kind \in {"install", "update"} : system # "off" /\ BeginsInstalling(kind)
    \/ \E i \in DOMAIN installers :
          \/ FailsUv(i) \/ RunsUv(i) \/ SetsPointer(i) \/ Defines(i) \/ InstallsCommand(i) \/ CreatesTask(i)
          \/ EndsTask(i) \/ RunsTask(i) \/ VerifiesTask(i) \/ FailsToRegister(i) \/ Prunes(i)
          \/ LoadsService(i) \/ FailsToLoad(i) \/ RestartsService(i) \/ InstallerDies(i)
    \/ Uninstalls
    \/ RemovesRuntime
    \/ ServiceStops
    \/ ServiceStarts

InstallationSpec == InstallationInit /\ [][InstallationNext]_installationVars
-------------------------------------------------------------------------------
(* Properties. *)

InstallationTypeOK ==
    /\ system \in Platforms \cup {"off"}
    /\ \A p \in DOMAIN places : p \in 0..MaxInstalls /\ places[p] \in [version : 0..MaxInstalls, whole : BOOLEAN]
    /\ {pointer, definitionFile, task} \subseteq (0..MaxInstalls) \cup {NoPlace}
    /\ Len(installers) <= MaxInstalls /\ commandThere \in BOOLEAN

(* On Windows, and elsewhere as long as nothing failed halfway, what the   *)
(* service manager has registered can be started: a failed or interrupted  *)
(* update does not take the service away (test_host_service.py:178).       *)
ServiceCanStart ==
    ~contended /\ (Windows \/ \A i \in DOMAIN installers : installers[i].step \notin {"failed", "dead"})
        => (task # NoPlace => RuntimeWhole(task))

(* The machine command of Windows reaches a whole runtime, at any moment   *)
(* of an update (test_host_service.py:114).                                *)
CommandReachesRuntime == ~contended /\ commandThere => RuntimeWhole(pointer)

(* After an update on Windows reported success, the service that runs is   *)
(* the one it installed, however often it stopped and started since        *)
(* (docs/cli.md:154-155).                                                  *)
ReportsWhatRuns ==
    ~contended /\ Windows /\ installers # <<>> /\ At(Len(installers), "done") /\ service # NotRunning
        => service.version = Len(installers)

(* Updates one after the other, broken off or not, leave a service that    *)
(* starts and a command that works.                                        *)
UpdatesAreSafe == ServiceCanStart /\ CommandReachesRuntime /\ ReportsWhatRuns
===============================================================================
