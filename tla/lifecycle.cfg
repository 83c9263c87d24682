SPECIFICATION FairSpec
CONSTANTS
  Tasks = {"t1", "t2"}
  Others = {"o1", "o2"}
CONSTRAINT BeforeHaste
INVARIANTS TypeOK Quiet
PROPERTIES ConnectsAsAsked CallsTakeEffect
CHECK_DEADLOCK FALSE
