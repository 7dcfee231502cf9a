---------------------------- MODULE MCWebClient ----------------------------
(***************************************************************************)
(* WebClientGateway for TLC: sockets, grants, relays and logins are        *)
(* interchangeable.                                                        *)
(***************************************************************************)
EXTENDS WebClientGateway, TLC

Symmetry == Permutations(Channels) \union Permutations(Guids)
                \union Permutations(Relays) \union Permutations(Users)
=============================================================================
