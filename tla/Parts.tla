--------------------------------- MODULE Parts ---------------------------------
(***************************************************************************)
(* The parts that keep no state in common with others while they work, as  *)
(* one specification: a behaviour picks one of them and lets it run, with  *)
(* the others idle.                                                        *)
(***************************************************************************)
EXTENDS FileDiscovery, Listing, Chunking, Normalization, Advisory, StaticSecurity, Quality, Evaluation, Access, Console,
        Installation, Measures, Calibration, Retrieval
-------------------------------------------------------------------------------
AllIdle(but) ==
    /\ but # "Discovery" => DiscoveryIdle
    /\ but # "Listing" => ListingIdle
    /\ but # "Chunking" => ChunkingIdle
    /\ but # "Normalization" => NormalizationIdle
    /\ but # "Advisory" => AdvisoryIdle
    /\ but # "Static" => StaticIdle
    /\ but # "Quality" => QualityIdle
    /\ but # "Evaluation" => EvaluationIdle
    /\ but # "Access" => AccessIdle
    /\ but # "Console" => ConsoleIdle
    /\ but # "Installation" => InstallationIdle
    /\ but # "Measures" => MeasuresIdle
    /\ but # "Calibration" => CalibrationIdle
    /\ but # "Retrieval" => RetrievalIdle

Init ==
    \/ DiscoveryInit /\ AllIdle("Discovery")
    \/ ListingInit /\ AllIdle("Listing")
    \/ ChunkingInit /\ AllIdle("Chunking")
    \/ NormalizationInit /\ AllIdle("Normalization")
    \/ AdvisoryInit /\ AllIdle("Advisory")
    \/ StaticInit /\ AllIdle("Static")
    \/ QualityInit /\ AllIdle("Quality")
    \/ EvaluationInit /\ AllIdle("Evaluation")
    \/ AccessInit /\ AllIdle("Access")
    \/ ConsoleInit /\ AllIdle("Console")
    \/ InstallationInit /\ AllIdle("Installation")
    \/ MeasuresInit /\ AllIdle("Measures")
    \/ CalibrationInit /\ AllIdle("Calibration")
    \/ RetrievalInit /\ AllIdle("Retrieval")

StillIdle(but) ==
    /\ but # "Discovery" => UNCHANGED discoveryVars
    /\ but # "Listing" => UNCHANGED listingVars
    /\ but # "Chunking" => UNCHANGED chunkingVars
    /\ but # "Normalization" => UNCHANGED normVars
    /\ but # "Advisory" => UNCHANGED advisoryVars
    /\ but # "Static" => UNCHANGED staticVars
    /\ but # "Quality" => UNCHANGED qualityVars
    /\ but # "Evaluation" => UNCHANGED evaluationVars
    /\ but # "Access" => UNCHANGED accessVars
    /\ but # "Console" => UNCHANGED consoleVars
    /\ but # "Installation" => UNCHANGED installationVars
    /\ but # "Measures" => UNCHANGED measuresVars
    /\ but # "Calibration" => UNCHANGED calibrationVars
    /\ but # "Retrieval" => UNCHANGED retrievalVars

Next ==
    \/ DiscoveryNext /\ StillIdle("Discovery")
    \/ ListingNext /\ StillIdle("Listing")
    \/ ChunkingNext /\ StillIdle("Chunking")
    \/ NormalizationNext /\ StillIdle("Normalization")
    \/ AdvisoryNext /\ StillIdle("Advisory")
    \/ StaticNext /\ StillIdle("Static")
    \/ QualityNext /\ StillIdle("Quality")
    \/ EvaluationNext /\ StillIdle("Evaluation")
    \/ AccessNext /\ StillIdle("Access")
    \/ ConsoleNext /\ StillIdle("Console")
    \/ InstallationNext /\ StillIdle("Installation")
    \/ MeasuresNext /\ StillIdle("Measures")
    \/ CalibrationNext /\ StillIdle("Calibration")
    \/ RetrievalNext /\ StillIdle("Retrieval")

partsVars == <<discoveryVars, listingVars, chunkingVars, normVars, advisoryVars, staticVars, qualityVars, evaluationVars,
               accessVars, consoleVars, installationVars, measuresVars, calibrationVars, retrievalVars>>

PartsSpec == Init /\ [][Next]_partsVars
-------------------------------------------------------------------------------
(* Every part keeps its variables well typed while it works.               *)
PartsTypeOK ==
    /\ DiscoveryTypeOK
    /\ ListingTypeOK
    /\ ChunkingTypeOK
    /\ NormalizationTypeOK
    /\ AdvisoryTypeOK
    /\ StaticTypeOK
    /\ QualityTypeOK
    /\ EvaluationTypeOK
    /\ AccessTypeOK
    /\ ConsoleTypeOK
    /\ InstallationTypeOK
    /\ MeasuresTypeOK
    /\ CalibrationTypeOK
    /\ RetrievalTypeOK

(* Walks over a source lose nothing that they do not report, and contents  *)
(* and changes are handed out as they are there (connectors/).             *)
SourcesAreComplete == NothingLostSilently /\ WalkIsComplete /\ SourceIsTold

(* What a scan reports and what an active test concludes is true           *)
(* (security/static_scanner.py, evaluation/engine.py).                     *)
FindingsAreTrue == StaticScanIsTrue /\ TestsAreGrounded

(* Scores, comparisons and calibrations say what was found                 *)
(* (scoring.py, history/service.py, quality/calibration.py).               *)
MeasuresAreHonest == HistoryIsHonest /\ CalibrationAddsUp
===============================================================================
