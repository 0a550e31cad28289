SPECIFICATION Spec
CONSTANTS
    script = script
    console = console
    gui = gui
    cliExe = cliExe
    guiExe = guiExe
    gone = gone
    NoClient = NoClient
    Clients = {script, console, gui}
    CommandLines = {script, console}
    Attended = {console}
    Apps = {cliExe, guiExe, gone}
    Own <- MCOwn
    Missing = {gone}
    Paths = {"joystick"}
INVARIANTS TypeOK CacheInForce BoxIsTheWhitelist AppliedPrefix
PROPERTY DeviceReleased
