SPECIFICATION Spec
CONSTANTS
  RcFrame <- OffRcFrame
  Mailboxes = 2
PROPERTY ZeroForceUnpowered
