SPECIFICATION FairSpec
CONSTANTS
  Refs = {1, 2}
  Decls <- WDecls
  Order <- WOrder
  DeclType <- WType
  Nodes <- WNodes
  NodeType <- WNodeType
  Hw <- WHw
  Accepts <- WAccepts
  MaxQueue = 3
  NoNode = NoNode
  NoHw = NoHw
INVARIANTS RemovalIsComing
PROPERTIES NoticesAlternate ArrivalIsHeard
