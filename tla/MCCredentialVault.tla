------------------------- MODULE MCCredentialVault -------------------------
(* A preflight that needs one secret, an execute job that needs two, and a *)
(* job with a reference of an unknown scheme behind a plaintext one.       *)
EXTENDS CredentialVault, TLC

CONSTANTS pre, j1, j2, dsn, key, plain, odd

MCRefsOf == (pre :> <<dsn>>) @@ (j1 :> <<dsn, key>>) @@ (j2 :> <<plain, odd>>)
=============================================================================
