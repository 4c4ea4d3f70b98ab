SPECIFICATION RtlSpec
CONSTANTS
  W = 3
  PkgSize = 16
  DataBits = 12
  Scalers <- MCScalers
  PacketLen = 2
  RowPackets = 2
  Rows = 3
  Base = 1
  RowMin = 2
  AddrBits = 3
  MinGap = 2
  MaxSkew = 3
  MaxResets = 1
  Width = 3
  ModCount = 7
  MultBits = 8
  As <- MCAs
  Bs <- MCBs
  p_sourse <- MCPolynomial
  K = 239
  t = 8
  Models = {"xxbm", "gmult"}
  Places <- MCPlaces
INVARIANT RtlTypeOK
INVARIANT DataIsOneFrame
INVARIANT ColumnsSummed
INVARIANT HandedOverOnce
INVARIANT BatonPassed
INVARIANT SerialProduct
INVARIANT RibmDiscrepancy
INVARIANT RibmCorrects
INVARIANT BmLocates
PROPERTY FramesComplete
PROPERTY GrantReleased
