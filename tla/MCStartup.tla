------------------------------ MODULE MCStartup ------------------------------
(* Clients and servers to connect. *)
EXTENDS Startup

Config(t, p) == [tls |-> t, feature |-> TRUE, name |-> TRUE, roots |-> TRUE, password |-> p]
Clients ==
    {Config("disable", "none"), Config("disable", "right"), Config("prefer", "right"),
     Config("require", "right"), Config("require", "wrong"),
     [Config("require", "right") EXCEPT !.feature = FALSE],
     [Config("require", "right") EXCEPT !.name = FALSE],
     [Config("prefer", "right") EXCEPT !.roots = FALSE]}

Backend(s, h, c, m, o) == [ssl |-> s, handshake |-> h, certificate |-> c, method |-> m, offers |-> o]
Backends ==
    {Backend("S", TRUE, "Available", m, {"PLUS", "SHA256"}) :
        m \in {"trust", "CleartextPassword", "Md5Password", "sasl", "other"}}
    \cup {Backend("N", FALSE, "Unavailable", "sasl", {"SHA256"}),
          Backend("S", TRUE, "Failed", "sasl", {"PLUS", "SHA256"}),
          Backend("S", TRUE, "Failed", "sasl", {"SHA256"}),
          Backend("S", FALSE, "Unavailable", "sasl", {"other"}),
          Backend("X", TRUE, "Unavailable", "sasl", {"other"})}
=============================================================================
