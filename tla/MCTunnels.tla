----------------------------- MODULE MCTunnels ------------------------------
(***************************************************************************)
(* Tunnels for TLC: one tunnel of each kind of catalog/tunnels.yaml, with  *)
(* its priority there.                                                     *)
(***************************************************************************)
EXTENDS Tunnels, TLC

CONSTANTS a, b, d, server1, server2, chat1

entry(runtime, transport, scope, browser, priority) ==
    [runtime |-> runtime, transport |-> transport, scope |-> scope, browser |-> browser, priority |-> priority,
     enabled |-> TRUE, automatic |-> runtime # "interactive", extension |-> runtime = "extension",
     install |-> runtime = "playwright", bridge |-> transport \in {"native-messaging", "websocket"},
     host |-> transport = "native-messaging", endpoint |-> IF runtime = "cdp" THEN "http" ELSE "ws"]

MCCatalog ==
    <<entry("cdp", "cdp", "local", "chrome", 40),
      entry("extension", "native-messaging", "local", "chrome", 10),
      entry("interactive", "human", "any", "any", 900),
      entry("playwright", "local-process", "local", "chromium", 60)>>

MCProcessOf == a :> server1 @@ b :> server1 @@ d :> server2

want(t, policy, chat) == [tunnel |-> t, policy |-> policy, chat |-> chat]
MCRequests ==
    a :> {want(None, policy, chat1) : policy \in {"prefer-cdp", "prefer-playwright"}} @@
    b :> {want(2, "auto", None), want(3, "auto", None)} @@
    d :> {want(4, "auto", chat1)}

=============================================================================
