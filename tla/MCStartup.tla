----------------------------- MODULE MCStartup -----------------------------
\* Deployments that differ in every policy, and one that must be refused.
EXTENDS Startup

Env(n, m, t, r, f, c) == [net |-> n, mode |-> m, tor |-> t, rpc |-> r, fusion |-> f, create |-> c]
MCDeployments ==
  {Env("main", "novnc", TRUE, "off", TRUE, FALSE),
   Env("main", "headless", FALSE, "p2", FALSE, FALSE),
   Env("chip", "headless", TRUE, "p1", TRUE, TRUE),
   Env("main", "novnc", TRUE, "off", TRUE, TRUE)}
============================================================================
