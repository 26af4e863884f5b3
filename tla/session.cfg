SPECIFICATION FairSpec
CONSTANTS
  Masters = {TRUE, FALSE}
  Aborts = TRUE
  MaxEvents = 2
  Uses <- AllUses
  MaxSent = 3
INVARIANTS TypeOK OwnAnswer ToldOfTheEnd
PROPERTIES CallsReturn
CHECK_DEADLOCK FALSE
