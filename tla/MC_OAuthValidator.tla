------------------------- MODULE MC_OAuthValidator --------------------------
(* Model values for OAuthValidator: two issuers that use the same kids.    *)
EXTENDS OAuthValidator

CONSTANTS i1, i2, k1, k2

MCIssuerSeq == <<i1, i2>>
MCFirst == [i \in Issuer |-> {k1}]
MCPublished == [i \in Issuer |-> {{k2}, {}}]
MCMaxRotations == [i \in Issuer |-> IF i = i1 THEN 1 ELSE 0]
MCAudiences == [i \in Issuer |-> IF i = i1 THEN {"api"} ELSE {}]

Token(kid, signer, iss, aud) ==
    [sound |-> TRUE, asymmetric |-> TRUE, kid |-> kid, signer |-> signer, iss |-> iss, aud |-> aud,
     expired |-> FALSE]

(* A good token of the key that is rotated in, and one without an aud      *)
(* claim; one that names the other issuer, and another audience.           *)
MCTokens ==
    {Token(k2, i1, i1, {"api"}), Token(k2, i1, i1, {}), Token(k1, i2, i1, {"other"})}
=============================================================================
