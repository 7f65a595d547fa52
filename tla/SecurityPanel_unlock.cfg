SPECIFICATION Spec
CONSTANTS
    center = center
    user1 = user1
    user3 = user3
    Operators = {center, user1, user3}
    Priv <- AccountPriv
PROPERTY NoUnlockUnderAlarm
