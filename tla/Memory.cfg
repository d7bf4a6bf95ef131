SPECIFICATION MemorySpec
\* Extractions, verdicts and records are bounded, so the parts come to rest.
CHECK_DEADLOCK FALSE
CONSTANTS
    Store = "postgres"
    Steps = {"planner", "executor"}
    Succeeded = {"planner"}
    Scopes = {"project"}
    Policies = {"taxonomy", "other"}
    Sensitivities = {"internal", "secret"}
    Classes = {"procedural_lesson", "task_subject_fact"}
    Contents <- SmallContents
    Authorities <- OneAuthority
    Proposals <- SomeProposals
    MaxExtractions = 2
    MaxVerdicts = 2
INVARIANTS  LessonsAreShown 
PROPERTY LatestVerdictGoverns
