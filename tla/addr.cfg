CONSTANTS
  Numerals <- SomeNumerals
  Octets <- SomeOctets
  Ports <- SomePorts
  Colon = Colon
  Dot = Dot
  Other = Other
  End = End
SPECIFICATION Spec
CHECK_DEADLOCK FALSE
INVARIANTS ReadsTheAddress GivesUpRightly ToStringIsTheAddress
