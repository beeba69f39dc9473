-------------------------- MODULE MCRelayControl --------------------------
(***************************************************************************)
(* Small instances of the control plane.  Slots: an exact host `a' under   *)
(* the wildcard `w', and an SNI name `s'.                                  *)
(***************************************************************************)
EXTENDS RelayControl, TLC

CONSTANTS t1, t2, a, w, s, c1, c2, c3

Http(k) == [proto |-> "http", slot |-> k]
Tls(k) == [proto |-> "tls", slot |-> k]
Tcp == [proto |-> "tcp", slot |-> NoSlot]

MCSlot == {a, w, s}
MCParent == (a :> w) @@ (w :> NoSlot) @@ (s :> NoSlot)
MCPort == {1, 2}

\* Two tunnels that ask for different things; t2's wildcard covers t1's host.
Apart == (t1 :> <<Http(a), Tcp>>) @@ (t2 :> <<Http(w), Tls(s)>>)

\* Two tunnels that ask for the same host, one of them for HTTP and HTTPS.
Contending == (t1 :> <<Http(a), Http(a), Tcp>>) @@ (t2 :> <<Tcp, Http(a)>>)

\* One tunnel with one host.
OneHttp == t1 :> <<Http(a)>>

Symm == Permutations({c1, c2, c3})
=============================================================================
