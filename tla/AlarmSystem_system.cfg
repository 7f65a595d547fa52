SPECIFICATION FairSystem
CONSTANTS
    center = center
    Operators = {center}
    Priv <- CenterPriv
    Button = Button
    Parser = Parser
    QueueLimit = 2
INVARIANT CameraFollowsLock
INVARIANT AlarmReachesCamera
PROPERTY PanelImplemented
