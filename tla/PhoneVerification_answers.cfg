SPECIFICATION FairSpec
CONSTANTS
  Calls = {v1, v2}
  MaxPending = 2
  MaxReceipts = 3
  MaxLostSaves = 1
  Nil = Nil
INVARIANTS
  TypeOK
  OnePageOneCall
  WaitersAreServed
  AwaitedReceiptIsPending
  RejectedStaysOut
  OnlyLostSavesBringBack
PROPERTIES
  StaleTimerEndsNoWait
  CallsRunDown
  NeverAtWorkForEver
  KeepsItsPromise
