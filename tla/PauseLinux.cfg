SPECIFICATION FairSpec
CONSTANTS
    Calls = {c1, c2}
    Timers = {t1}
    None = None
    Platforms <- LinuxTray
    ChannelSize = 1
    MaxInputs = 2
PROPERTY CoordinatorLearns
CHECK_DEADLOCK FALSE
