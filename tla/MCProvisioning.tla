----------------------------- MODULE MCProvisioning -----------------------------
EXTENDS Provisioning

CONSTANTS home, office,  \* networks
          phone, tablet  \* clients over the soft AP

New(byp) == [net |-> NoNetwork, configured |-> "unConfigured", bypass |-> byp]
Known(byp) == [net |-> home, configured |-> "wLanUnConfigured", bypass |-> byp]

\* Each mode, each kind of settings, and each value of easyLinkByPass; not all their combinations.
MCDevices == {[mode |-> "EASYLINK", settings |-> Known("NO")],
              [mode |-> "EASYLINK", settings |-> Known("BYPASS")],
              [mode |-> "EASYLINK", settings |-> New("NO")],
              [mode |-> "EASYLINK_WITH_SOFTAP", settings |-> New("SOFT_AP_BYPASS")],
              [mode |-> "SOFT_AP", settings |-> Known("NO")]}

MCWish == [c \in {phone, tablet} |-> IF c = phone THEN office ELSE home]
=============================================================================
