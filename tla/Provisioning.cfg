CONSTANTS
  p1 = p1
  p2 = p2
  c1 = c1
  c2 = c2
  b1 = b1
  b2 = b2
  Resolvers = {c1, c2}
  Installers = {c1, c2}
  PluginClis = {c1, c2}
  EngineTypes = {docker}
  MaxVersion = 2
  MaxTime = 4
  Threshold = 2
  Torn = Torn
  Plugins = {p1, p2}
  Commands <- MCCommands
  Configs <- MCConfigs
  Unparsed = Unparsed
  Requests <- MCRequests
  Bodies = {b1, b2}
  Absent = Absent
  Broken = Broken
  MaxExchanges = 3
  SpecLists <- MCSpecLists
SPECIFICATION Spec
SYMMETRY Symmetry
INVARIANTS
  TypeOK
  ServedIsRecent
  FallbackNeedsAnotherWriter
  DamageLasts
  MovedBinaryIsWhole
  ForcedPullRepairs
  MockAnswersAsUpstream
  OnlyFailuresAreMissing
  SuccessCoversSpecs
PROPERTIES
  PluginsAsAsked
  DefaultsAsAsked
  UnforcedKeepsUserFiles
