SPECIFICATION DesktopSpec
CONSTANTS
  Connections = {c1, c2}
  Ids = {i1, i2}
  NoId = NoId
  MaxAdmissions = 1
  o1 = o1
  o2 = o2
  Sources = {o1, o2}
  NoOutput = NoOutput
  Fingers = {f1, f2}
  Slots = 3
  SizeLimit = 3
  ScreenLimit = 5
  Positions <- MCPositions
  Extents = {1, 3}
  w2 = w2
  w3 = w3
  Owner = w1
  Companions = {w2, w3}
  RootWindow = RootWindow
  NoWindow = NoWindow
  LinkLimit = 9
  MemberLimit = 3
  GrabDevices <- MCDevices
  Structures <- MCStructures
  Hosts = {h1, h2}
  NoHost = NoHost
  ShellWindows = {s1, s2}
  ShellLimit = 1
  Pointers <- MCPointers
  NoPointer = NoPointer
  Vblanks = {v1}
  MaxMsc = 3
  MaxFlips = 3
  Views = {o1, o2}
  NoView = NoView
  Bindings <- MCBindings
  MaxChanges = 4
CHECK_DEADLOCK FALSE
INVARIANTS
  RightsAreOwnedOnce
  DevicesMatchTables
  
  
  
  
PROPERTIES
  SleepersAreServed
  ActivationIsOrderly
  
