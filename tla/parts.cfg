\* See the README, "Independent parts"
INIT Init
NEXT Next
CONSTANTS
 Entries <- TreeEntries
 Parent <- TreeParent
 Kind <- TreeKind
 Target <- TreeTarget
 Class <- TreeClass
 Walks <- SomeWalks
 Broken = 98
 Outside = 99
 MaxUpsets = 1
 Surveys <- SomeSurveys
 Sources <- SomeSources
 Late = 8
 Malformed = {3}
 PageCap = 2
 ServerPage = 3
 Sitemap <- Maps
 Foreign = {30}
 MaxPages = 5
 NestedCap = 3
 Papers <- SomePapers
 ChunkConfigs <- SomeConfigs
 Scripts <- SomeScripts
 Rules <- SomeRules
 WrapLength = 3
 JoinLength = 2
 Reports <- SomeReports
 AIConfigs <- SomeAIConfigs
 Answers <- SomeAnswers
 Catalog <- SomeCatalog
 Urls <- SomeUrls
 Available = {"keyA"}
 StaticRules = {100}
 Responses <- SomeResponses
 Inventories <- SomeInventories
 MaxGroups = 4
 MaxEvidence = 3
 MaxContext = 17
 MaxRetryContext = 4
 MaxRetryGroups = 2
 MaxBraces = 3
 MaxList = 2
 MaxModels = 2
 ScanDocs <- SomeDocs
 Libraries <- SomeLibraries
 Selections <- SomeSelections
 ScanLimits <- SomeLimits
 ContextWindow = 3
 Symbols <- SomeSymbols
 Collections <- SomeCollections
 QualityConfigs <- SomeQualityConfigs
 Words <- WordClasses
 HashKeys = 4
 Trials <- SomeTrials
 Vocabularies <- SomePhrases
 MaxAnalysis = 3
 Browsers = {"b1", "b2"}
 Passwords = {"p1", "p2", "short"}
 StrongPasswords = {"p1", "p2"}
 ApiKeys <- SomeApiKeys
 ApiTokens = {"", "few", "unknown"}
 ApiScopes = {"scans:write", "jobs:read"}
 SessionAge = 1
 MaxRequests = 2
 RateWindow = 2
 MaxTime = 3
 MaxSecrets = 3
 SourceKinds = {"openwebui"}
 Locations <- SomeLocations
 Identity <- OneIdentity
 MaxProfiles = 2
 MaxDrawn = 1
 SubmissionKeys = {"k"}
 MaxWork = 1
 MaxForms = 4
 MaxWaiting = 2
 Roots = {1, 2}
 Platforms = {"win32", "darwin", "linux"}
 MaxInstalls = 2
 Problems <- SomeProblems
 Settings <- SomeSettings
 Readings = {{1}, {1, 2}}
 Policies <- SomePolicies
 OldReports <- SomeOldReports
 MaxReports = 2
 Manifests <- SomeManifests
 RuleIds = {1, 2, 3}
 RulePack = 7
 FileNames = {"a"}
 Bodies <- SomeBodies
 Encodings <- SomeEncodings
 SizeLimit = 3
 Budget = 3
 MaxTouches = 2
 MaxLooks = 3
INVARIANTS
 PartsTypeOK
 SourcesAreComplete
 
 
 AdvisoryIsHonest
 FindingsAreTrue
 QualityIsAccountable
 
 
 
 
\* A part that has done its work stops.
CHECK_DEADLOCK FALSE
