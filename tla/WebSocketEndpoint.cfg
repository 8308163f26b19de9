SPECIFICATION EndpointSpec
CONSTANTS
    MaxSends <- MCMaxSends
    Native <- MCNative
    MaxTotal = 4
    Cap = 2
INVARIANTS
  CloseEventOnce
  OrderedDelivery
  NoStuckPause
  NoForgottenSend
CHECK_DEADLOCK FALSE
