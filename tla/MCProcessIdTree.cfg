\* Five processes, started and stopped in any order.
SPECIFICATION Spec
CONSTANTS
  Pids = {1, 2, 3, 4}  MaxPid = 4  Images = {game}  NoImage = NoImage
  Addresses = {a1, a2, a3, a4}  Null = Null
SYMMETRY AddressSymmetry
INVARIANTS SearchTree NothingLost SelfTestPasses
PROPERTY ImplementsRegistry
