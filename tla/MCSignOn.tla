------------------------------- MODULE MCSignOn -------------------------------
(* Sign-in through third parties on small instances: three people who all   *)
(* would be called bob, and may have the same address at a third party.     *)
EXTENDS SignOn

CONSTANTS registered, atProvider, inDirectory, bob, issuing, again, i1, i2

MCNameOf == [w \in {registered, atProvider, inDirectory} |-> bob]
MCMailsOf == [w \in {atProvider, inDirectory} |->
                IF w = atProvider THEN {None, "shared"} ELSE {"own", "shared"}]
MCMailOf == [w \in {registered} |-> "registered"]
MCProviderOf == [w \in {atProvider} |-> issuing]
(* The provider again is entered later. *)
MCCalled == [p \in Providers |-> p]
MCEntered ==
    [p \in Providers |->
        IF p = again THEN Absent
        ELSE [here |-> TRUE, enabled |-> TRUE, client |-> 1, issuer |-> i1]]
MCBaseOf == [s \in Servers |-> <<"base of", s>>]
=============================================================================
