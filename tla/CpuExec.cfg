CONSTANTS
  Pages <- MCPages
  PCs <- MCPCs
  PagesOf <- MCPagesOf
  PhysHash <- MCPhysHash
  JmpCacheHash <- MCJmpCacheHash
  Dest <- MCDest
  MaxBlocks = 2
  Contents = {0, 1}
SPECIFICATION Spec
INVARIANTS ExecutesCurrentCode PagesProtected JumpsWithdrawable FollowsGuestPc
PROPERTIES RequestStopsBlocks
