------------------------------ MODULE OidcLogin ------------------------------
(***************************************************************************)
(* Signing in through a provider.  A client asks for an authorization (a   *)
(* row in oidc_auth_states), the user agrees at the provider, the provider *)
(* calls back, and the client that polls gets the token; a page that asked *)
(* for it gets it with the callback, whoever may poll as well.  The        *)
(* configuration of a provider is kept in memory by issuer.  Callbacks and *)
(* administrators write a row back as they read it, by the mapper's save:  *)
(* a row gone meanwhile comes back.                                        *)
(***************************************************************************)
EXTENDS LinkedAccounts, FiniteSets

CONSTANTS Providers,          \* rows of the oidc_providers table
          Called,             \* their names, which a request gives
          Issuers, Clients,   \* the settings an administrator enters
          Entered,            \* the providers there are at first
          ProviderOf,         \* the name of the provider an identity is known to
          Asks,               \* authorizations asked for
          Polls,              \* polls served at the same time
          Editors,            \* administrators served at the same time
          MaxGrants           \* how often a user may agree to one authorization

ASSUME OidcAssumption ==
    /\ MaxGrants \in Nat
    /\ DOMAIN ProviderOf \subseteq Identities
    /\ Editors \subseteq Nat

ASSUME EnteredAssumption ==
    Entered \in [Providers -> [here : BOOLEAN, enabled : BOOLEAN,
                              issuer : Issuers \cup {None}, client : Clients \cup {None}]]

VARIABLES settings,  \* the oidc_providers table
          cache,     \* configCache: the client of the configuration, by issuer
          edits,     \* OidcAdminService in flight: what was read, what is to be written
          lapsed,    \* history: issuers that may be cached as nobody has entered them
          asks,      \* requestAuth: the request and the link it answered with
          rows,      \* the oidc_auth_states table
          age,       \* of an authorization: "fresh", "expired", then "old"
          codes,     \* what the provider handed to the browser
          polls,     \* queryAuth in flight
          shown      \* history: sign-ins whose token a page got with the callback

oidcVars == <<settings, cache, edits, lapsed, asks, rows, age, codes, polls, shown>>
providerVars == <<settings, cache, edits, lapsed>>
stateVars == <<rows, age, codes, polls, shown>>

Absent == [here |-> FALSE, enabled |-> FALSE, issuer |-> None, client |-> None]
NoEdit == [step |-> "idle", provider |-> None, read |-> Absent, put |-> Absent, clear |-> {}]
NoAsk == [step |-> "new", provider |-> None, device |-> None, web |-> FALSE, issuer |-> None,
          client |-> None, link |-> None]
NoState == [status |-> None, token |-> None]
NoPoll == [step |-> "idle", ask |-> None, token |-> None]

(* The providers' type: OAuth 2 alone has no discovery. *)
OAuth2 == "oauth2" \in scenario

(* getProviderWithSecret: names are not unique in the table. *)
Found(name) == {p \in Providers : Called[p] = name /\ settings[p].here /\ settings[p].enabled}

-----------------------------------------------------------------------------
(* A provider that is there, and that no administrator is just deleting,   *)
(* has this client at the issuer. *)
Leaving(p) == \E e \in Editors : edits[e].step = "delete" /\ edits[e].provider = p
Present(issuer, client) ==
    \E p \in Providers :
        /\ settings[p].here /\ settings[p].issuer = issuer /\ settings[p].client = client
        /\ ~Leaving(p)

(* getOidcConfig: the copy of the settings that the request has read is    *)
(* cached under its issuer once discovery answers (or fails: the endpoints *)
(* entered by hand, with the same client), whatever the settings are then. *)
Cached(issuer) == cache[issuer] # None
Fetched(issuer, client) ==
    /\ cache' = [cache EXCEPT ![issuer] = client]
    /\ lapsed' = IF Present(issuer, client) THEN lapsed \ {issuer} ELSE lapsed \cup {issuer}

(* requestAuth: the row is saved, then the link is built.  A request may   *)
(* name the device that polls, a page to go back to, neither or both.      *)
(* Bound: pages only in the scenarios that say so. *)
RequestAuth(a, p, d, web) ==
    /\ asks[a].step = "new" /\ \A b \in Asks : b < a => asks[b].step # "new"
    /\ web => "page" \in scenario
    /\ p \in Found(Called[p])
    /\ asks' = [asks EXCEPT ![a] = [NoAsk EXCEPT !.step = "saved", !.provider = Called[p],
                    !.device = d, !.web = web,
                    !.issuer = settings[p].issuer, !.client = settings[p].client]]
    /\ rows' = [rows EXCEPT ![a] = [status |-> "pending", token |-> None]]
    /\ UNCHANGED <<accountVars, providerVars, age, codes, polls, shown>>

Answered(a, client) ==
    asks' = [asks EXCEPT ![a].step = "linked", ![a].link = client]

LinkFromCache(a) ==
    /\ asks[a].step = "saved" /\ Cached(asks[a].issuer)
    /\ Answered(a, cache[asks[a].issuer])
    /\ UNCHANGED <<accountVars, providerVars, stateVars>>

DiscoverForLink(a) ==
    /\ asks[a].step = "saved" /\ ~Cached(asks[a].issuer) /\ ~OAuth2
    /\ asks' = [asks EXCEPT ![a].step = "discover"]
    /\ UNCHANGED <<accountVars, providerVars, stateVars>>

BuildLink(a) ==
    /\ \/ asks[a].step = "discover"
       \/ asks[a].step = "saved" /\ ~Cached(asks[a].issuer) /\ OAuth2
    /\ Fetched(asks[a].issuer, asks[a].client)
    /\ Answered(a, asks[a].client)
    /\ UNCHANGED <<accountVars, settings, edits, stateVars>>

(* External: a user follows the link and agrees at the provider.  A code   *)
(* belongs to the client it was asked for and is good for one exchange.    *)
(* Bound: a user agrees again only in the scenarios that say so. *)
Grants(a) == Cardinality({c \in codes : c.ask = a})

Grant(a, who) ==
    /\ "agree" \in scenario /\ asks[a].step = "linked" /\ ProviderOf[who] = asks[a].provider
    /\ Grants(a) < MaxGrants /\ (Grants(a) > 0 => "twice" \in scenario)
    /\ codes' = codes \cup {[ask |-> a, nr |-> Grants(a) + 1, who |-> who, used |-> FALSE]}
    /\ UNCHANGED <<accountVars, providerVars, asks, rows, age, polls, shown>>

-----------------------------------------------------------------------------
(* handleCallback: the settings are read again. *)
Callback(l, c) ==
    LET a == c.ask
        found == Found(asks[a].provider)
        q == [NoLogin EXCEPT !.via = "provider", !.asked = a, !.who = c.who,
                             !.device = asks[a].device]
        pending == age[a] = "fresh" /\ rows[a].status = "pending"
    IN /\ Arrives(l) /\ c \in codes
       /\ \/ /\ rows[a].status # None /\ age[a] # "fresh"
             /\ Becomes(l, [q EXCEPT !.step = "expire"])
          \/ /\ (rows[a].status = None \/ (age[a] = "fresh" /\ ~pending) \/ (pending /\ found = {}))
             /\ Becomes(l, [q EXCEPT !.step = "refused"])
          \/ /\ pending
             /\ \E p \in found :
                   Becomes(l, [q EXCEPT !.step = "config", !.code = c.nr,
                       !.issuer = settings[p].issuer, !.client = settings[p].client])
       /\ UNCHANGED <<users, bound, given, oidcVars>>

SaveExpired(l) ==
    /\ logins[l].step = "expire"
    /\ rows' = [rows EXCEPT ![logins[l].asked].status = "expired"]
    /\ GoesTo(l, "refused")
    /\ UNCHANGED <<users, bound, given, providerVars, asks, age, codes, polls, shown>>

ConfigFromCache(l) ==
    LET q == logins[l]
    IN /\ q.step = "config" /\ Cached(q.issuer)
       /\ Becomes(l, [q EXCEPT !.step = "exchange", !.client = cache[q.issuer]])
       /\ UNCHANGED <<users, bound, given, oidcVars>>

Discover(l) ==
    /\ logins[l].step = "config" /\ ~Cached(logins[l].issuer) /\ ~OAuth2
    /\ GoesTo(l, "discover")
    /\ UNCHANGED <<users, bound, given, oidcVars>>

Configure(l) ==
    LET q == logins[l]
    IN /\ \/ q.step = "discover"
          \/ q.step = "config" /\ ~Cached(q.issuer) /\ OAuth2
       /\ Fetched(q.issuer, q.client)
       /\ GoesTo(l, "exchange")
       /\ UNCHANGED <<users, bound, given, settings, edits, asks, stateVars>>

(* authorizationCodeGrant, then who it was; an OAuth 2 provider is read    *)
(* again for its userinfo endpoint. *)
Exchange(l) ==
    LET q == logins[l]
        a == q.asked
        code == [ask |-> a, nr |-> q.code, who |-> q.who, used |-> FALSE]
        good == /\ code \in codes
                /\ asks[a].issuer = q.issuer /\ asks[a].link = q.client
        found == Found(asks[a].provider) # {}
    IN /\ q.step = "exchange"
       /\ codes' = IF good THEN (codes \ {code}) \cup {[code EXCEPT !.used = TRUE]} ELSE codes
       /\ \/ /\ good /\ (OAuth2 => found)
             /\ \E m \in MailsOf[q.who] :
                   Becomes(l, [q EXCEPT !.step = "find", !.mail = m])
          \/ /\ ~(good /\ (OAuth2 => found))
             /\ GoesTo(l, "refused")
       /\ UNCHANGED <<users, bound, given, providerVars, asks, rows, age, polls, shown>>

(* The row is written as authorized, over whatever it is by now; a page    *)
(* that asked is answered with the token, which stays in the row. *)
SaveAuthorized(l) ==
    LET a == logins[l].asked
    IN /\ logins[l].step = "save"
       /\ rows' = [rows EXCEPT ![a] = [status |-> "authorized", token |-> l]]
       /\ shown' = IF asks[a].web THEN shown \cup {l} ELSE shown
       /\ GoesTo(l, "done")
       /\ UNCHANGED <<users, bound, given, providerVars, asks, age, codes, polls>>

-----------------------------------------------------------------------------
(* queryAuth: one UPDATE takes the authorization, then the row is read     *)
(* again, the user is read, the row removed and the token answered. *)
(* Mutant: what was consumed already can be taken again. *)
TakenAgain(a) == rows[a].status \in {"authorized", "consumed"} /\ age[a] = "fresh"
ToTake(a) == rows[a].status = "authorized" /\ age[a] = "fresh"

QueryAuth(p, a) ==
    /\ "poll" \in scenario /\ polls[p].step = "idle" /\ asks[a].device \in Devices /\ ToTake(a)
    /\ rows' = [rows EXCEPT ![a].status = "consumed"]
    /\ polls' = [polls EXCEPT ![p] = [step |-> "reread", ask |-> a, token |-> None]]
    /\ UNCHANGED <<accountVars, providerVars, asks, age, codes, shown>>

Reread(p) ==
    LET row == rows[polls[p].ask]
    IN /\ polls[p].step = "reread"
       /\ polls' = [polls EXCEPT ![p] =
             IF row.status = "consumed" THEN [@ EXCEPT !.step = "user", !.token = row.token]
             ELSE NoPoll]
       /\ UNCHANGED <<accountVars, providerVars, asks, rows, age, codes, shown>>

ReadUser(p) ==
    /\ polls[p].step = "user"
    /\ polls' = [polls EXCEPT ![p] =
          IF Here(logins[polls[p].token].user) THEN [@ EXCEPT !.step = "answer"] ELSE NoPoll]
    /\ UNCHANGED <<accountVars, providerVars, asks, rows, age, codes, shown>>

Answer(p) ==
    /\ polls[p].step = "answer"
    /\ rows' = [rows EXCEPT ![polls[p].ask] = NoState]
    /\ given' = [given EXCEPT ![polls[p].token] = @ + 1]
    /\ polls' = [polls EXCEPT ![p] = NoPoll]
    /\ UNCHANGED <<users, logins, bound, providerVars, asks, age, codes, shown>>

(* Time: three minutes after it was asked for, and a day after it was last *)
(* written, longer than any request takes. *)
Ages(a) ==
    /\ "time" \in scenario /\ rows[a].status # None
    /\ \/ age[a] = "fresh" /\ age' = [age EXCEPT ![a] = "expired"]
       \/ /\ age[a] = "expired" /\ \A l \in Logins : Active(l) => logins[l].asked # a
          /\ \A p \in Polls : polls[p].ask # a
          /\ age' = [age EXCEPT ![a] = "old"]
    /\ UNCHANGED <<accountVars, providerVars, asks, rows, codes, polls, shown>>

(* handleCleanupExpiredAuthStates. *)
(* Mutant: consumed rows are left to the poll that took them. *)
SweepableLess(a) ==
    \/ age[a] # "fresh" /\ rows[a].status \in {"pending", "expired"}
    \/ age[a] = "old" /\ rows[a].status = "authorized"
Sweepable(a) ==
    \/ age[a] # "fresh" /\ rows[a].status \in {"pending", "expired", "consumed"}
    \/ age[a] = "old" /\ rows[a].status = "authorized"

Cleanup ==
    /\ \E a \in Asks : Sweepable(a)
    /\ rows' = [a \in Asks |-> IF Sweepable(a) THEN NoState ELSE rows[a]]
    /\ UNCHANGED <<accountVars, providerVars, asks, age, codes, polls, shown>>

-----------------------------------------------------------------------------
(* OidcAdminService: a request reads the provider, saves the copy it has   *)
(* changed (a row gone meanwhile comes back), then clears the cache.  Only *)
(* names are checked, by a look before the insert. *)
Cleared(issuers) ==
    /\ cache' = [i \in Issuers |-> IF i \in issuers THEN None ELSE cache[i]]
    /\ lapsed' = lapsed \ issuers

(* Requests take the first free place. *)
(* Bound: two at a time only in the scenarios that say so. *)
Begins(e) ==
    /\ edits[e].step = "idle"
    /\ \A f \in Editors : f < e => edits[f].step # "idle" /\ "together" \in scenario

WillSave(e, p, put, clear) ==
    /\ Begins(e)
    /\ edits' = [edits EXCEPT ![e] = [step |-> "save", provider |-> p,
                     read |-> settings[p], put |-> put, clear |-> clear]]
    /\ UNCHANGED <<accountVars, settings, cache, lapsed, asks, stateVars>>

CreateProvider(e, p, i, c) ==
    /\ "settings" \in scenario
    /\ settings[p] = Absent /\ \A f \in Editors : edits[f].provider # p  \* a new guid
    /\ \A o \in Providers : settings[o].here => Called[o] # Called[p]
    /\ WillSave(e, p, [here |-> TRUE, enabled |-> TRUE, issuer |-> i, client |-> c], {})

Outdated(p, i) == {settings[p].issuer, i}

(* Bound: an issuer is replaced only in the scenarios that say so. *)
Editable(p, i) ==
    /\ "update" \in scenario /\ settings[p].here
    /\ i # settings[p].issuer => "move" \in scenario

(* Mutant: the cache is cleared before the settings are saved. *)
UpdateProviderEarly(e, p, i, c) ==
    /\ Editable(p, i) /\ Begins(e)
    /\ Cleared(Outdated(p, i))
    /\ edits' = [edits EXCEPT ![e] = [step |-> "save", provider |-> p, read |-> settings[p],
                     put |-> [settings[p] EXCEPT !.issuer = i, !.client = c], clear |-> {}]]
    /\ UNCHANGED <<accountVars, settings, asks, stateVars>>
UpdateProvider(e, p, i, c) ==
    /\ Editable(p, i)
    /\ WillSave(e, p, [settings[p] EXCEPT !.issuer = i, !.client = c], Outdated(p, i))

ToggleProvider(e, p) ==
    /\ "toggle" \in scenario /\ settings[p].here
    /\ WillSave(e, p, [settings[p] EXCEPT !.enabled = ~@], {})

(* A save over what another administrator entered since the read undoes    *)
(* it, and nobody clears the issuer it had. *)
SaveProvider(e) ==
    LET q == edits[e]
        now == settings[q.provider]
        overtaken == /\ now.here
                     /\ <<now.issuer, now.client>> # <<q.read.issuer, q.read.client>>
    IN /\ q.step = "save"
       /\ settings' = [settings EXCEPT ![q.provider] = q.put]
       /\ lapsed' = IF overtaken THEN lapsed \cup {now.issuer} ELSE lapsed
       /\ edits' = [edits EXCEPT ![e] =
             IF q.clear = {} THEN NoEdit
             ELSE [NoEdit EXCEPT !.step = "clear", !.clear = q.clear]]
       /\ UNCHANGED <<accountVars, cache, asks, stateVars>>

ClearCached(e) ==
    /\ edits[e].step = "clear"
    /\ Cleared(edits[e].clear)
    /\ edits' = [edits EXCEPT ![e] = NoEdit]
    /\ UNCHANGED <<accountVars, settings, asks, stateVars>>

(* remove clears first. *)
RemoveProvider(e, p) ==
    /\ "settings" \in scenario /\ settings[p].here /\ Begins(e)
    /\ Cleared({settings[p].issuer})
    /\ edits' = [edits EXCEPT ![e] = [NoEdit EXCEPT !.step = "delete", !.provider = p]]
    /\ UNCHANGED <<accountVars, settings, asks, stateVars>>

DeleteProvider(e) ==
    /\ edits[e].step = "delete"
    /\ settings' = [settings EXCEPT ![edits[e].provider].here = FALSE]
    /\ edits' = [edits EXCEPT ![e] = NoEdit]
    /\ UNCHANGED <<accountVars, cache, lapsed, asks, stateVars>>

(* testConnection, and CONFIG_CACHE_TTL. *)
DropCached(i) ==
    /\ "drop" \in scenario /\ Cached(i)
    /\ Cleared({i})
    /\ UNCHANGED <<accountVars, settings, edits, asks, stateVars>>

-----------------------------------------------------------------------------
OidcInit ==
    /\ settings = Entered
    /\ cache = [i \in Issuers |-> None]
    /\ edits = [e \in Editors |-> NoEdit] /\ lapsed = {}
    /\ asks = [a \in Asks |-> NoAsk]
    /\ rows = [a \in Asks |-> NoState]
    /\ age = [a \in Asks |-> "fresh"]
    /\ codes = {}
    /\ polls = [p \in Polls |-> NoPoll] /\ shown = {}

CallbackStep(l) ==
    \/ SaveExpired(l) \/ ConfigFromCache(l) \/ Discover(l) \/ Configure(l)
    \/ Exchange(l) \/ SaveAuthorized(l)

LinkStep(a) == LinkFromCache(a) \/ DiscoverForLink(a) \/ BuildLink(a)
PollStep(p) == Reread(p) \/ ReadUser(p) \/ Answer(p)
EditStep(e) == SaveProvider(e) \/ ClearCached(e) \/ DeleteProvider(e)

OidcNext ==
    \/ \E a \in Asks :
          \/ LinkStep(a) \/ Ages(a)
          \/ \E p \in Providers, d \in Devices \cup {None}, web \in BOOLEAN :
                RequestAuth(a, p, d, web)
          \/ \E who \in DOMAIN ProviderOf : Grant(a, who)
          \/ \E p \in Polls : QueryAuth(p, a)
    \/ \E l \in Logins : CallbackStep(l) \/ \E c \in codes : Callback(l, c)
    \/ \E p \in Polls : PollStep(p)
    \/ Cleanup
    \/ \E e \in Editors :
          \/ EditStep(e)
          \/ \E p \in Providers :
                \/ RemoveProvider(e, p) \/ ToggleProvider(e, p)
                \/ \E i \in Issuers, c \in Clients :
                      CreateProvider(e, p, i, c) \/ UpdateProvider(e, p, i, c)
    \/ \E i \in Issuers : DropCached(i)
=============================================================================
