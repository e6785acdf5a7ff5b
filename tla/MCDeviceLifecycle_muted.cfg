SPECIFICATION Spec
CONSTANTS
  Decls <- MixedDecls
  Order <- MixedOrder
  DeclType <- MixedType
  Nodes <- MixedNodes
  NodeType <- MixedNodeType
  Hw <- MixedHw
  HwType <- MixedHwType
  Accepts <- MixedAccepts
  MaxFd = 2
  MaxQueue = 1
  HasOutputs = FALSE
  SelfClose = FALSE
  NoDecl = NoDecl
  NoNode = NoNode
  NoHw = NoHw
INVARIANTS AttachedIsHeard
