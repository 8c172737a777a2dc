SPECIFICATION Spec
CONSTANTS
  a = a
  b = b
  a1 = a1
  a2 = a2
  b1 = b1
  b2 = b2
  keyA = keyA
  keyA1 = keyA1
  keyB = keyB
  r1 = r1
  Runs = {r1}
  Agents = {a, b}
  Keys = {keyA, keyA1, keyB}
  Sessions = {a1, a2, b1, b2}
  AgentOf <- MCAgentOf
  KeyOf <- MCKeyOf
  KeyAgent <- MCKeyAgent
  KeyId <- MCKeyId
  None = None
  Unreadable = Unreadable
  StaleAfter = 1
  Window = 1
  MaxClock = 3
  Scopes <- MCScopes
CHECK_DEADLOCK FALSE
INVARIANTS
  RunsFitTheirEvents
  MatchingIsStable
  MessagesAreAttributed
  RetentionKeepsEdges
  OrderIndependent
PROPERTIES
  OutcomeSettles
  EdgesOnlyGrow
