--------------------------- MODULE MCAddressBooks ---------------------------
(* Address books on small instances; users and requests are interchangeable. *)
EXTENDS AddressBookContents, TLC

Symmetry == Permutations(Users) \cup Permutations(Requests)
=============================================================================
