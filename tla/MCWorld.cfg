SPECIFICATION MCSpec
CONSTANTS
  Entities = {1001, 1002}
  Brushes = {900}
  Identities = {"a", "b"}
  Poses = {"p", "q"}
  SpawnPose = "p"
  MaxOccluders = 1
  MissedBeforeRemove = 1
  MaxMeshes = 2
  MaxSnapshots = 3
  MaxQueued = 2
  Places = {"p", "q"}
  MaxHandles = 7
  MaxEdits = 5
  WalkMaps = {"m", "n"}
  Beings = {"x"}
  LastIndex = 3
  SliceSize = 2
  FewFaults = 1
  MaxHappenings = 5
  SoundBsp <- MCBsp
  HeaderLayouts = {"standard", "rotated"}
  MinPower = 1
  MaxPower = 1
  Far = 99
  MaxDamages = 1
  SolidEnd = 16
  NodePlaces = {10, 12, 14}
  NodeWords <- MCNodeWords
  LedgeVariants <- MCLedges
  Roots = {0, 10, 15}
  MaxLedges = 3
  MaxSolidTriangles = 3
  MaxTreeDepth = 3
  Models = {"m", "n"}
  PhyFiles <- MCPhys
  MdlFiles <- MCMdls
  PropCount = 3
  MaxModelTriangles = 3
  MaxPropTriangles = 15
  Props = {"wood_a", "b", "c"}
  Families = {"metal"}
  Materials = {"c"}
  Aliased = {"b"}
  Hint <- MCHint
  Vmts = {"v"}
  MaxChain = 3
  MaxPatchDepth = 2
  MaxMounts = 1
  Files = {"f", "g"}
  Archives <- MCArchives
  Layouts <- MCLayouts
  FirstWindow = 1
  MaxIndex = 2
  MaxIndexLength = 3
  MaxVersions = 2
  CacheKeys = {"k", "l"}
  ProbeRows = {0, 1, 2}
  RowBlocks <- MCRowBlocks
  PageLimit = 3
  MaxMishaps = 2
  MaxJsonDepth = 2
  MaxKvDepth = 2
  MaxKvNodes = 2
  MaxJsonText = 6
  MaxKvText = 6
VIEW MCView
INVARIANTS WorldInv MapInv ReadInv
CHECK_DEADLOCK FALSE
