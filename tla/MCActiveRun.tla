------------------------------ MODULE MCActiveRun -----------------------------
(* A library and plans for the run of ActiveRun. *)
EXTENDS ActiveRun

Plain == [safe |-> TRUE, canary |-> TRUE, language |-> "en", renders |-> TRUE]

Ordinary == [enabled |-> TRUE, retrieval |-> FALSE, tools |-> FALSE,
             destructive |-> FALSE, safeDefault |-> TRUE, critical |-> FALSE,
             controlled |-> TRUE, control |-> Plain, payloads |-> <<Plain>>]

TwoLanguages == {"en", "tr"}

(* A case with two variants, one that safe mode blocks in part, one that   *)
(* cannot be rendered, and one that only destructive mode would run.       *)
SmallLibrary == <<
    [Ordinary EXCEPT !.critical = TRUE, !.payloads = <<Plain, [Plain EXCEPT !.language = "tr"]>>],
    [Ordinary EXCEPT !.tools = TRUE, !.control = [Plain EXCEPT !.safe = FALSE]],
    [Ordinary EXCEPT !.control = [Plain EXCEPT !.renders = FALSE],
                     !.payloads = <<[Plain EXCEPT !.renders = FALSE],
                                    [Plain EXCEPT !.language = "tr"]>>],
    [Ordinary EXCEPT !.destructive = TRUE, !.safeDefault = FALSE]>>

AllCapabilities == {"retrieval", "tools", "safe"}

(* Outside of safe mode, with requests for a part of the library. *)
Relaxed == [mode |-> "controlled", production |-> FALSE, runControls |-> TRUE,
            wanted |-> {1, 2, 4}, languages |-> {},
            requests |-> 3, failures |-> 2, duration |-> 1,
            keepAmbiguous |-> TRUE, stopOnCritical |-> FALSE]

(* More requests than the library needs. *)
Generous == [Relaxed EXCEPT !.mode = "safe", !.wanted = {1, 2, 3}, !.languages = {"en"},
                            !.requests = 9, !.failures = 4]

(* Exactly the requests the first case needs. *)
Strict == [Relaxed EXCEPT !.mode = "safe", !.production = TRUE, !.wanted = {1},
                          !.failures = 1, !.stopOnCritical = TRUE, !.keepAmbiguous = FALSE]

(* More requests than the target grants. *)
Ambitious == [Relaxed EXCEPT !.requests = 9, !.failures = 1]

SomePlans == {Relaxed, Generous, Strict, Ambitious}
===============================================================================
