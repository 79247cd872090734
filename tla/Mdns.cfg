CONSTANTS
    app = app
    wlan = wlan
    http = http
    easylink = easylink
    station = station
    softAP = softAP
    Callers = {app, wlan}
    Services = {http, easylink}
    Interfaces = {station, softAP}
    RecordCount = 2
    Announcements = 2
    MaxCalls = 3
SPECIFICATION Spec
INVARIANTS MdnsTypeOK RecordsWhole
PROPERTY AnnouncementsEnd
CHECK_DEADLOCK FALSE
