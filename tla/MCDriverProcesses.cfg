\* Processes, pid reuse, process-lifetime entries and the switches, next to a create.
SPECIFICATION Spec
CONSTANTS
  p1 = p1  p2 = p2  game = game  tool = tool  dll = dll  d1 = d1  d2 = d2
  c1 = c1  c2 = c2  c3 = c3
  SystemPid = sys  NoImage = NoImage  Dangling = Dangling  Collections = {c1, c2}
  Pids = {p1, p2}  EarlyPids = {}  Executables = {game, tool}  Modules = {dll}
  Devices = {d1, d2}  SessionIds <- OneSession
  Whitelists <- OneWhitelist  Blacklists <- NoBlacklist
  Setters = {t1}  Ops = {"session", "active", "inverse"}  Requests = {r1}
  Faults = {"restart"}
INVARIANTS NothingInherited RegisteredIsExecutable SwitchesConverge
PROPERTIES OnlyOwnerUnhides ImplementsRegistry
