SPECIFICATION Spec
CONSTANTS
  Decls <- PairDecls
  Order <- PairOrder
  DeclType <- PairType
  Nodes <- PairNodes
  NodeType <- PairNodeType
  Hw <- PairHw
  HwType <- PairHwType
  Accepts <- PairAccepts
  MaxFd = 2
  MaxQueue = 2
  HasOutputs = FALSE
  SelfClose = FALSE
  NoDecl = NoDecl
  NoNode = NoNode
  NoHw = NoHw
INVARIANTS GoneIsNoticed
