----------------------------- MODULE MCAccounts -----------------------------
(* Accounts on small instances; requests are interchangeable.  A behaviour *)
(* uses the operations of accounts, or starts the console that keeps them. *)
EXTENDS Accounts, TLC

CONSTANTS Parts,     \* of "requests", "startup"
          Processes, MaxFailures, Nobody

VARIABLES part,
          engine, present, odd, history, recorded, lock, defaultGroup, owners, phase,
          failures, early, cutShort

Boot == INSTANCE Startup
ASSUME LockIsFree == Boot!LockAssumption
consoleVars == <<engine, present, odd, history, recorded, lock, defaultGroup, owners, phase,
                 failures, early, cutShort>>

Calls(operations, shared, sessions, tokens, passwords, secretCount) ==
    [operations |-> operations, shared |-> shared, sessions |-> sessions, tokens |-> tokens,
     passwords |-> passwords, secrets |-> secretCount]

(* Signing in, and what invalidates it ... *)
SigningIn == Calls({"create", "invite", "accept", "login", "second", "security",
                    "reset", "force", "delete"}, FALSE, 1, 2, 1, 0)
(* ... the user's own edits of his row ... *)
OwnEdits == Calls({"create", "profile", "setupTfa", "bindTfa", "disableTfa",
                   "password", "login", "second"}, TRUE, 1, 1, 2, 2)
(* ... passkeys, also of a user who is disabled, and the life of tokens. *)
Passkeys == Calls({"create", "login", "passkey", "second", "credential", "passkeyTfa"},
                  FALSE, 2, 2, 1, 0)
Barring == Calls({"create", "login", "passkey", "second", "credential", "status"},
                 FALSE, 2, 1, 1, 0)
TokenLife == Calls({"create", "login", "validate", "logout", "revoke", "cleanup", "status",
                    "batch"},
                   FALSE, 0, 2, 1, 0)
MCScenarios == {SigningIn, OwnEdits, Passkeys, Barring, TokenLife}

MCDisabling == {Calls({"create", "login", "validate", "profile", "status"}, FALSE, 1, 1, 1, 0)}

PartsInit ==
    /\ part \in Parts /\ Init /\ Boot!Init
    /\ part = "requests" => engine = "sqlite" /\ present = {}
    /\ part = "startup" => scenario = CHOOSE s \in Scenarios : TRUE
PartsNext ==
    \/ part = "requests" /\ Next /\ UNCHANGED <<part, consoleVars>>
    \/ part = "startup" /\ Boot!Next /\ UNCHANGED <<part, vars>>
PartsSpec == PartsInit /\ [][PartsNext]_<<part, vars, consoleVars>>

Symmetry == Permutations(Requests)

(* See Startup: a migration that stopped halfway can be run again.         *)
StaysMigratable == Boot!StaysMigratable

(* See Startup: who serves has the whole schema, one owner, one group.     *)
ServesWhole == Boot!ServesWhole
=============================================================================
