----------------------------- MODULE MCMediation -----------------------------
(***************************************************************************)
(* Model values for the run of Mediation: one OAuth broker definition and  *)
(* two secrets, the value of the first a prefix of the second's, scoped so *)
(* that each client and host sees both, one or none of them.               *)
(***************************************************************************)
EXTENDS Mediation, TLC

CONSTANTS k1, c1, c2, issuer, api

OneClient == k1 :> c1
OneIssuer == k1 :> issuer
OneApi    == k1 :> {api}

A == <<"byte", "a", 0>>
B == <<"byte", "b", 0>>
D == <<"byte", "d", 0>>
E == <<"byte", "e", 0>>
X == <<"byte", "x", 0>>
L == Newline

Letters == {A, B, D, E, X}

TwoSecrets == 1..2
ClientsOf  == <<{c1, c2}, {c1}>>
HostsOf    == <<{api}, {api, issuer}>>
ValueOf    == <<<<A, B>>, <<A, B, D, A>>>>
EncodingOf == <<{<<E, E>>}, {}>>

(* Echoes of a token, installed or not; overlapping values, an encoded and *)
(* a masked value, a mask with more around it than the caps allow, a line  *)
(* that fills the read buffer, a value across it, an oversized record, a   *)
(* rune that does not fit, a last record without a newline.                *)
Texts ==
    {<<X, Token(k, g), L, A, Mask, B, Token(k, g)>> : k \in Kinds, g \in Grants}
    \cup {<<A, B, D, A, L, L, A, B>>,
          <<X, A, B, L, L, E, E, L>>,
          <<Virtual("access", 1), Wide, Wide, L, L, X>>,
          <<X, X, X, X, A, B, L>>,
          <<A, B, Mask, A, L, L, Placeholder(2)>>,
          <<A, B, D, Mask, A, L, A, Mask, D, A, L>>}
=============================================================================
