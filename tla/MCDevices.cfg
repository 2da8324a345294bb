CONSTANTS
  h0 = h0  h1 = h1  NoHart = NoHart
  Hart <- TwoHarts
  Hart0 = h0
  Environments <- Scenarios
  INPUT_BUF_SIZE = 2
  UART_TX_BUF_SIZE = 1
  UINT = 3
SPECIFICATION Spec
INVARIANTS  SleepersWait OutputGoesOn RingReadable
