SPECIFICATION Spec
CONSTANTS
    Bodies <- SomeBodies
    MaxRequests = 2
INVARIANTS
    BadBatchRunsNothing
    AnswerUnderstood
    ItemsMatchQueries
    RQLiteTellsTheSame
    ErrorMeansNothingRan
