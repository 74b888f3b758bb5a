SPECIFICATION KcpSpec
CONSTANTS
 WndRcv=3
 WndSnd=3
 FastLimit=1
 FastResend=1
 Mss=16
 Mtu=4
 PushSize=2
 NetMax=2
 Setups <- MCSetups
CHECK_DEADLOCK FALSE
INVARIANTS
  KcpSound
PROPERTIES
  EverythingComesBack
