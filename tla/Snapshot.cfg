SPECIFICATION Spec
CONSTANTS
  MaxOdometer = 2
  MaxRide = 2
CHECK_DEADLOCK FALSE
INVARIANTS
  TypeOK
  NeverOverAnnounced
  ShowsLatestOdometer
PROPERTIES
  KeepsJournal
  TripNotWiped
  SeenPersists
