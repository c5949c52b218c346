----------------------------- MODULE MCBanners -----------------------------
(* Walks and logs of three items or ops, of two external crates and the    *)
(* user's own.                                                             *)
EXTENDS Banners

=============================================================================
