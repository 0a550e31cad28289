\* Three filter devices that come and go around a shutdown; a device may fail to be
\* created, and the load fails only where the driver is prepared for it.
SPECIFICATION FairSpec
CONSTANTS
  Devices = {d1, d2, d3}  Shutdown = Shutdown
  MayFail = {"selftest", "device", "context", "lock", "process", "path"}
INVARIANTS TypeOK ControlDeviceLast CountMatchesDevices DeletedOnce
PROPERTY ShutdownDeletes
\* The unloaded driver, and a system that has shut down, have no next step.
CHECK_DEADLOCK FALSE
