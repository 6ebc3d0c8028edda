\* Reports of one to three blocks, some of them cut off.
SPECIFICATION Spec
INVARIANTS TsanInv TsanSound TsanExact TsanMissesNone VgInv VgSound VgExact VgMissesNone
CHECK_DEADLOCK FALSE
