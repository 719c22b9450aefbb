--------------------------- MODULE MCCaddyBanCheck --------------------------
(* An instance of CaddyBanCheck: a client seen directly and through a proxy,  *)
(* the proxy, which is on the operator's list or not, and one checking process. *)
EXTENDS CaddyBanCheck

CONSTANTS c1, px, p1, h1

MCEither    == {{}, {px}}
MCLines     == {<<c1, c1>>, <<px, c1>>, <<px, px>>}
\* The proxy's text contains c1's, as 10.0.0.12 contains 10.0.0.1.
MCWithin    == {<<a, a>> : a \in Addr} \cup {<<c1, px>>}
=============================================================================
