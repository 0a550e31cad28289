\* One client changing every setting around one file create.
SPECIFICATION VerdictSpec
CONSTANTS
  game = game  d1 = d1
  Pids = {p1}  SystemPid = sys  EarlyPids = {}
  Executables = {game}  Modules = {}  NoImage = NoImage
  Devices = {d1}  SessionIds <- TwoSessions
  Whitelists <- GameWhitelists  Blacklists <- MCBlacklists
  Dangling = Dangling  Collections = {c1, c2}
  Setters = {t1}  Ops = {"whitelist", "blacklist", "active", "inverse", "session"}
  Requests = {r1}
  Faults = {"register", "reload", "restart"}
INVARIANT VerdictInForce
