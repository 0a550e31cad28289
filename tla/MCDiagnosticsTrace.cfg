\* Four capture files and two downloads, and every call may fail.
SPECIFICATION Spec
CONSTANTS
  Files = {f1, f2, f3, f4}  NoFile = NoFile  Getters = {g1, g2}
  Scopes = {"Full", "Userspace"}
  MayFail = {"tune", "restore", "start", "enable", "control", "remove", "exit"}
SYMMETRY FileSymmetry
INVARIANTS TypeOK DownloadsAreComplete ReadyIsComplete RecordingIsLive NothingLeftBehind
