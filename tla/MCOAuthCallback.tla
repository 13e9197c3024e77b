-------------------------- MODULE MCOAuthCallback --------------------------
(* The browser flow with a few requests.                                   *)
EXTENDS OAuthCallback

=============================================================================
