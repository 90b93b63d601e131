SPECIFICATION ConversationSpec
CONSTANTS
    Turns = {t1, t2, t3}
    Conversations = {c1}
    FreshConversation = c1
    WindowTurns = 1
    CompressTurns = 1
    Events <- MCEvents
    MaxForgotten = 1
    Strangers = {"stranger"}
SYMMETRY TurnSymmetry
INVARIANTS
    AnswersAreLogged
    
    CompressedIsOld
PROPERTY DeletedIsFinal
