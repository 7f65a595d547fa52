SPECIFICATION FairSpec
CONSTANTS
    center = center
    user1 = user1
    user3 = user3
    Operators = {center, user1, user3}
    Priv <- AccountPriv
INVARIANT TypeOK
INVARIANT NoSilentAlarm
INVARIANT LedShowsSecurity
PROPERTY OpenDoorAlarms
