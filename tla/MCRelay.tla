------------------------------ MODULE MCRelay ------------------------------
(* Small instances of Relay for TLC. *)
EXTENDS RelayRefinement, TLC

CONSTANTS s1, d1, client, h1, h2, h3

Msg(type, from, to, spawned, request) ==
    [type |-> type, from |-> from, to |-> to,
     spawned |-> spawned, request |-> request]

FlashRequest(s, spawned) == Msg("REQ", d1, s, spawned, "flash")
TermRequest(s) == Msg("REQ", d1, s, TRUE, "term")
Data(from, to) == Msg("IO", from, to, FALSE, None)

\* Routing: one tab and one shell, every branch of the relay.
TabAndShell == h1 :> client @@ h2 :> s1
RoutingTraffic ==
    {FlashRequest(s1, FALSE), FlashRequest(s1, TRUE), TermRequest(s1),
     Data(d1, s1), Reset(d1, s1),
     Data(s1, d1), Msg("REQ", s1, d1, TRUE, "flash"),
     Data(d1, client)}

\* Takeover: the page is reloaded while a shell registers.
TwoTabsAndShell == h1 :> client @@ h2 :> client @@ h3 :> s1
TakeoverTraffic == {FlashRequest(s1, TRUE), Data(s1, d1)}
TabSymmetry == Permutations({h1, h2})

\* Two requests for the same shell, a flash and a terminal.
TimeoutTraffic == {FlashRequest(s1, TRUE), TermRequest(s1)}
=============================================================================
