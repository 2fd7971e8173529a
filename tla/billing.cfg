SPECIFICATION Spec
CONSTANTS
  live1 = live1
  live2 = live2
  test1 = test1
  r1 = r1
  Message <- Messages
  Recharge <- Recharges
  Cost <- Costs
  Amount <- Amounts
  Live <- Lives
  Opening = 2
CHECK_DEADLOCK FALSE
INVARIANTS TypeOK HeadIsBalance LiveChargesCovered AddsUpUnlessCrossed AnnouncedIsCharged
