\* A process that was running before the driver was loaded.
SPECIFICATION Spec
CONSTANTS
  p1 = p1  p2 = p2  game = game  tool = tool  dll = dll  d1 = d1  d2 = d2
  c1 = c1  c2 = c2  c3 = c3
  SystemPid = sys  NoImage = NoImage  Dangling = Dangling  Collections = {c1, c2}
  Pids = {p1}  EarlyPids = {p1}  Executables = {game}  Modules = {dll}
  Devices = {d1}  SessionIds <- OneSession
  Whitelists <- GameWhitelists  Blacklists <- ShortBlacklists
  Setters = {}  Ops = {}  Requests = {}
  Faults = {}
INVARIANT RegisteredIsExecutable
