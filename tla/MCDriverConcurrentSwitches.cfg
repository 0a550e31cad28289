\* Two writers of the same switch.
SPECIFICATION Spec
CONSTANTS
  p1 = p1  p2 = p2  game = game  tool = tool  dll = dll  d1 = d1  d2 = d2
  c1 = c1  c2 = c2  c3 = c3
  SystemPid = sys  NoImage = NoImage  Dangling = Dangling  Collections = {c1, c2}
  Pids = {p1}  EarlyPids = {}  Executables = {game}  Modules = {}
  Devices = {d1}  SessionIds <- OneSession
  Whitelists <- GameWhitelists  Blacklists <- ShortBlacklists
  Setters = {t1, t2}  Ops = {"active", "inverse"}  Requests = {}
  Faults = {}
INVARIANT SwitchesConverge
