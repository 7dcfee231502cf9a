SPECIFICATION Spec
CONSTANTS
    None = None
    registered = registered
    atProvider = atProvider
    inDirectory = inDirectory
    bob = bob
    issuing = issuing
    again = again
    Registered = {registered}
    Identities = {atProvider, inDirectory}
    Entries = {inDirectory}
    NameOf <- MCNameOf
    MailsOf <- MCMailsOf
    MailOf <- MCMailOf
    ProviderOf <- MCProviderOf
    Called <- MCCalled
    Entered <- MCEntered
    i1 = i1
    i2 = i2
    BaseOf <- MCBaseOf
    Logins = {1, 2}
    Devices = {device}
    MaxAttempts = 3
    Providers = {issuing, again}
    Issuers = {i1, i2}
    Clients = {1, 2}
    Asks = {1}
    Polls = {1, 2}
    Editors = {1, 2}
    MaxGrants = 2
    Servers = {"s1"}
    Scenarios = {{"provider", "time", "agree", "twice", "drop"},
                 {"provider", "time", "agree", "twice", "poll", "delete"},
                 {"provider", "time", "agree", "twice", "oauth2", "toggle"},
                 {"provider", "agree", "twice", "password"},
                 {"provider", "agree", "twice", "poll", "page"},
                 {"provider", "agree", "update", "poll"},
                 {"provider", "agree", "settings"},
                 {"provider", "settings", "update", "move", "drop"},
                 {"provider", "update", "move", "together"},
                 {"provider", "settings", "toggle", "together"},
                 {"password", "directory", "mysql"},
                 {"password", "delete", "disable"}}
INVARIANT OwnAccount
INVARIANT DeliveredOnce
INVARIANT CacheIsCurrent
PROPERTY AuthorizationsEnd
CHECK_DEADLOCK FALSE
