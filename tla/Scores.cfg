SPECIFICATION ScoresSpec
CONSTANTS
    Registered <- MCRegistered
    Expected <- MCExpected
    MaxScore <- MCMaxScore
    Weight <- MCWeight
    Task <- MCTask
    Unit = 2
    MaxPrints = 3
CHECK_DEADLOCK FALSE
INVARIANTS
    SumOfExpectedTests
    TaskSumCountsAll
    SumInRange
