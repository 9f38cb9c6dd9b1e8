---------------------------- MODULE MCOAuthBroker ----------------------------
(***************************************************************************)
(* Model values for the runs of OAuthBroker: one broker definition that    *)
(* serves two clients, with an issuer host and an API host.                *)
(***************************************************************************)
EXTENDS OAuthBroker, TLC

CONSTANTS k1, k2, c1, c2, issuer, api, h1, h2, h3

TwoKeys   == {k1, k2}
OneKey    == {k1}
BothHosts == {issuer, api}

ClientOfKey == k1 :> c1 @@ k2 :> c2
IssuerOfKey == [k \in {k1, k2} |-> issuer]
ApiOfKey    == [k \in {k1, k2} |-> {api}]
ClientOfOne == k1 :> c1
IssuerOfOne == k1 :> issuer
ApiOfOne    == k1 :> {api}

(* Handlers are interchangeable; used by the safety runs only.             *)
HandlerSymmetry == Permutations(Handlers)
=============================================================================
