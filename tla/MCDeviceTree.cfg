SPECIFICATION Spec
CONSTANTS
    pad = pad
    stick = stick
    wheel = wheel
    keyboard = keyboard
    padContainer = padContainer
    Nodes = {pad, stick, wheel, keyboard}
    NoNode = NoNode
    Parent <- MCParent
    ContainerId <- MCContainerId
    NoContainerId = NoContainerId
    HidInterface = {stick, wheel, keyboard}
    XusbInterface = {pad}
    HidXusbClass = {pad}
    Gaming = {stick}
    Foreign = {}
    Removable = {stick}
INVARIANTS TypeOK ParentRowMeansAll TreeShowsBlacklist
PROPERTIES KnownEntriesKept ArrivalShown
