SPECIFICATION StartingSpec
CONSTANTS
    Zones = {z1}
    NoZone = NoZone
    Bauds = {b1, b2}
    DefaultBaud = b1
    Noise = Noise
    BootTime = 2
    MaxWait = 2
INVARIANTS TypeOK SettingsSurvive SupplyIsFound
PROPERTIES PortalWhenAsked PortalOnlyWhenAsked StartAdvances ComesUp
