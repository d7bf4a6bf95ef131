\* A queue worker's loop and a caller that cancels; run_with_recomposition.
SPECIFICATION LoopSpec
CONSTANTS
  Mode = "queue"
  Profiles <- QueueProfiles
  Adapters = {"git-read", "filesystem-read"}
  Validators = 2
  Escapes = TRUE
INVARIANTS TraceIsFaithful SucceededIsValidated BudgetsHold CancellationIsPrompt RecompositionWithinBudget
PROPERTIES ImplementsLifecycle RunSettles
