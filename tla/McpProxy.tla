------------------------------ MODULE McpProxy ------------------------------
(***************************************************************************)
(* The endpoint /mcpproxy (src/mcp-server/mcpproxy.py) beside /mcp, for    *)
(* clients that send the RFC 8707 parameter `resource`, which Entra        *)
(* refuses (AADSTS9010010).  Its handlers keep no state: they are          *)
(* operators from the request that comes in to the one that goes on to     *)
(* Entra.  Of a request to an authorization server the model keeps which   *)
(* endpoint it is for and whether it carries `resource`.                   *)
(***************************************************************************)

Paths    == {"mcp", "mcpproxy"}
Servers  == {"mcpproxy", "entra"}
Requests == [leg : {"authorize", "token"}, resource : BOOLEAN]

\* GET /mcpproxy/authorize: the request the 302 to Entra carries.
Authorize(params) == [params EXCEPT !.resource = FALSE]

TokenForwards(form) == form        \* seeded bug: the form posted as it came
\* POST /mcpproxy/token: the form posted to Entra, whose answer is relayed.
Token(form) == [form EXCEPT !.resource = FALSE]

\* What reaches Entra of a request that a client sends to a server.
Forwarded(server, q) ==
    CASE server = "entra" -> q
      [] server = "mcpproxy" /\ q.leg = "authorize" -> Authorize(q)
      [] server = "mcpproxy" /\ q.leg = "token" -> Token(q)

\* Entra's answer to `resource`.
Refuses(q) == q.resource
=============================================================================
