SPECIFICATION Spec
CONSTANTS
  Devs <- GDevs
  Chars <- GChars
  Notifies <- GNotifies
  Decls <- GDecls
  Order <- GOrder
  Accepts <- GAccepts
  Service <- GService
  Characteristic <- GCharacteristic
  OnEvent <- GOnEvent
  MaxQueue = 2
  NoPath = NoPath
INVARIANTS ReadIsHandled AttachedIsNotified
PROPERTY ImplementsChannel
