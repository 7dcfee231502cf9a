--------------------------- MODULE MCAccessControl ---------------------------
(* Roles and permissions on small instances: an excerpt of the catalog.     *)
EXTENDS AccessControl, TLC

CONSTANT r1

MCCodes == {"roles.assign", "users.view", "users.status", "devices.view", "devices.edit",
            "strategies.assign"}
MCScoped == {"devices.view", "devices.edit", "strategies.assign"}
MCRequires ==
    [c \in MCCodes |->
        CASE c \in {"roles.assign", "users.status"} -> {"users.view"}
          [] c = "devices.edit" -> {"devices.view"}
          [] OTHER -> {}]
MCDelegate == {"users.view", "roles.assign", "devices.view"}
Row(codes, protected) == [here |-> TRUE, codes |-> codes, protected |-> protected]

MCRoleRows ==
    [r \in Roles |->
        IF r = r1 THEN {Row(MCDelegate, FALSE)}
        ELSE {Row({"users.view", "users.status"}, FALSE), Row({"devices.view"}, TRUE),
              Row({"devices.view", "devices.edit", "strategies.assign"}, FALSE)}]
MCDamaged == {{"devices.edit", "users.view"}}

Symmetry == Permutations(Users) \cup Permutations(DeviceGroups) \cup Permutations(Requests)
=============================================================================
