SPECIFICATION FairSpec
CONSTANTS
  Handle = {h1, h2, h3}
  NoHandle = NoHandle
  MaxSessions = 2
  MaxTokens = 4
  Troubles = {}
INVARIANTS TypeOK HandlesAccounted CallbacksInSession NothingRemains
PROPERTIES KindKept StopEnds PauseAnswered
