--------------------------- MODULE MCTokenRefresh ---------------------------
(* Two processes renew the token of one login at a server that rotates     *)
(* refresh tokens.                                                         *)
EXTENDS TokenRefresh, TLC
=============================================================================
