SPECIFICATION Spec
CONSTANTS
  Absent <- MCAbsent
  Corrupt = Corrupt
  NotGiven = NotGiven
  NoCommand = NoCommand
  Documents <- MCDocuments
  Standalones <- MCStandalones
  Environments <- MCEnvironments
  FlagSets <- MCFlagSets
  Assigned <- MCAssigned
  BareIPv6 = {"::", "::1"}
  Bracketed = {"[::]", "[::1]"}
  HostNames = {"localhost"}
  Transports = {"wireguard", "masque", "other", ""}
  Modes = {"socks5", "http", "tun", ""}
INVARIANT TypeOK
INVARIANT SourcesInOrder
INVARIANT OthersUntouched
INVARIANT SavedIsFound
INVARIANT SetChangesOnlyItsPart
INVARIANT ListenersAgree
