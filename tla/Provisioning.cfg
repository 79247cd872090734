CONSTANTS
    home = home
    office = office
    phone = phone
    tablet = tablet
    NoNetwork = NoNetwork
    Networks = {home, office}
    Offers = {office}
    Clients = {phone, tablet}
    Wish <- MCWish
    Devices <- MCDevices
    MaxRounds = 2
SPECIFICATION Spec
INVARIANTS ProvisioningTypeOK  SuccessMeansJoined StrayIsInCallback ClickSurvives
PROPERTY RequestServed
CHECK_DEADLOCK FALSE
