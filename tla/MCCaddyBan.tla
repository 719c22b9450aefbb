----------------------------- MODULE MCCaddyBan -----------------------------
(* Small instances of CaddyBan: a client seen directly and through a proxy,  *)
(* and the proxy, which the operator may put on the list or take off it.     *)
EXTENDS CaddyBan

CONSTANTS c1, px, p1, p2

MCTrust     == {{px}}
MCEither    == {{}, {px}}
MCBoth      == {<<c1, c1>>, <<px, c1>>}
MCProxy     == {<<px, px>>, <<px, c1>>}
=============================================================================
