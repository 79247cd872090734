--------------------------------- MODULE MCMdns ---------------------------------
EXTENDS Mdns

CONSTANTS app, wlan,       \* callers
          http, easylink,  \* service names
          station, softAP
=============================================================================
