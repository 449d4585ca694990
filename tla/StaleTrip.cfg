SPECIFICATION Spec
CONSTANTS
  MaxOdometer = 3
  MaxRide = 3
CHECK_DEADLOCK FALSE
PROPERTY RideShowsItsTrip
