SPECIFICATION Spec
CONSTANT MaxMishaps = 3
INVARIANTS
  PreparedIsWhole
  
  AdoptionIsTrue
  AdoptionGoesOn
  CompatAllOrNothing
  NothingIsLost
  MovesAllOrNothing
  PublishedIsSound
CHECK_DEADLOCK FALSE
