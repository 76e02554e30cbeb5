SPECIFICATION Spec
CONSTANTS
  GivenNames <- MCNames
  Stale = {"A", " "}
  MaxMade = 2
  Clock <- MCClock
  MaxStores = 3
  Never = Never
INVARIANTS TypeOK OwnEntry ListedOpens MkdirReopens AccessTracked WriterStamps
