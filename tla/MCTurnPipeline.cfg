SPECIFICATION Spec
CONSTANTS
    Docs = {d1, d2}
    OnTopic = {d1}
    Question = "q0"
    Queries = {"q0", "q1"}
    Proposals <- MCProposals
    MaxSteps = 4
    MaxLLM = 4
    MaxRetrieval = 3
    MaxTool = 1
    ReflectionRounds = 2
    ToolRounds = 2
INVARIANTS
    ReleasedIsSound
    StepsWaitTheirTurn
    
PROPERTY TurnEnds
