SPECIFICATION FairSpec
CONSTANTS
    auth = auth  caddy = caddy  fail2ban = fail2ban
    Services = {auth, caddy, fail2ban}
    Wallet = Wallet
    Needs <- MCNeeds
    NeedsHealthy <- MCHealthy
    NeedsWallet = {auth, caddy}
    Notify = {auth, caddy}
    RestartLimit = 1
    MaxUps = 2
    MaxStops = 1
    MaxFailures = 2
CHECK_DEADLOCK FALSE
PROPERTIES NoResurrection Settles
