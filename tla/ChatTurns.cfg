\* Two messages, two tool calls, one request cut off.
CONSTANTS
  Request = {r1, r2}
  NoRequest = noRequest
  Mark = {a}
  Blank = blank
  MAX_TOOL_ITERATIONS = 2
  MAX_HISTORY_MESSAGES = 6
  MAX_CONTEXT_CHARS = 4
  MaxParallel = 2
  MaxCalls = 2
  Asked <- Asks
  MaxTouches = 1
  MaxAborts = 1
SPECIFICATION FairSpec
INVARIANTS PromptIsPaired TurnIsRemembered DraftIsAsShown
PROPERTY MessageIsAnswered
CHECK_DEADLOCK FALSE
