\* One sock, used again and again, with counters and rings that wrap.
SPECIFICATION SockSpec
CONSTANTS
  Socks = {1}
  GuestPorts = {1}
  BufLen = 2
  PeerBuf = 1
  CntMod = 3
  GenMod = 1
  TxRing = 1
  RxRing = 1
  ReplyRing = 3
  MaxSends = 3
INVARIANTS CreditSound SelectSafe ShutdownSound
CHECK_DEADLOCK FALSE
