----------------------------- MODULE MCGuiSession ----------------------------
(* The web services of docker-compose.yml with their depends_on; Tor is like   *)
(* auth-session, but without a notification window and nothing depends on it.  *)
EXTENDS GuiSession, TLC

CONSTANTS auth, caddy, fail2ban

MCNeeds   == (auth :> {}) @@ (caddy :> {auth}) @@ (fail2ban :> {caddy})
MCHealthy == (auth :> {}) @@ (caddy :> {}) @@ (fail2ban :> {caddy})
=============================================================================
