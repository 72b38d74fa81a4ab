----------------------------- MODULE ModelCatalog -----------------------------
(***************************************************************************)
(* Which models there are: the catalog of the library, what the user's     *)
(* GitHub Copilot account is entitled to, which is asked once at boot      *)
(* (server/src/copilot-live-catalog.ts), how a reference is resolved       *)
(* (server/src/models.ts), what the sessions run on, and the credentials,  *)
(* in a file that is shared with the pi CLI (server/src/pi-auth.ts).       *)
(***************************************************************************)
EXTENDS Naturals, FiniteSets

CONSTANTS
    Providers, Copilot,   \* the providers; GitHub Copilot
    Models,               \* models of Copilot and of the others
    ProviderOf,           \* the provider of each
    Static,               \* those that pi-ai's catalog has
    Default,              \* YTSEJAM_DEFAULT_MODEL
    Sibling,              \* the model of Static with the longest prefix in common
                          \* with a model of Copilot, or NoSibling
    NoSibling,
    Sessions, KeyAskers,  \* chat sessions; getApiKey() calls that refresh
    MaxOffers, MaxBoots, MaxLogins  \* bounds: changes of the entitlement; boots; logins, logouts

ASSUME CatalogAssumption ==
    /\ Copilot \in Providers /\ ProviderOf \in [Models -> Providers]
    /\ "none" \notin Models
    /\ Static \subseteq Models /\ Default \in Models
    /\ Sibling \in [Models -> Static \cup {NoSibling}] /\ NoSibling \notin Models
    /\ {MaxOffers, MaxBoots, MaxLogins} \subseteq Nat

VARIABLES
    offered,   \* what Copilot's /models returns as enabled and in the picker
    atBoot,    \* history: what it returned at boot, {} if it could not be asked
    catalog,   \* liveCopilotCatalog
    boots,
    pinned,    \* the model in each session's file
    runsOn,    \* the model of each session that is open
    auth,      \* auth.json: the credentials of each provider
    askers,    \* getApiKey() calls between their read and their write
    offers, logins

catVars == <<offered, atBoot, catalog, boots, pinned, runsOn, auth, askers, offers, logins>>

OfCopilot == {m \in Models : ProviderOf[m] = Copilot}
NoModel == "none"
EmptyCatalog == [overlay |-> {}, prunedIds |-> {}]
NoAsker == [at |-> "idle"]

\* A model that only Copilot has takes its settings from its sibling, or from a
\* template.
Template(m) == [model |-> m, like |-> Sibling[m]]

\* mergeCatalogs(): such models are added, and one of the catalog that Copilot
\* does not offer is pruned.
Merged(live) ==
    [overlay |-> {Template(m) : m \in live \ Static},
     prunedIds |-> (OfCopilot \cap Static) \ live]

-----------------------------------------------------------------------------
(* resolveModel() and what depends on it.                                  *)

InOverlay(m) == \E t \in catalog.overlay : t.model = m
Resolves(m) ==
    /\ m \notin catalog.prunedIds
    /\ InOverlay(m) \/ m \in Static

\* A slip of SessionModel: the pinned model is resolved, whatever comes of it.
SessionModelPinned(m) == IF m # NoModel THEN m ELSE Default

\* What resolveSessionModel() gives: the pinned model, or else the default.
SessionModel(m) == IF m # NoModel /\ Resolves(m) THEN m ELSE Default

Opens(s) == pinned[s] # NoModel /\ Resolves(SessionModel(pinned[s]))

\* listAvailableModels(): pi-ai's catalog for the providers with credentials.
Picker == {m \in Static : auth[ProviderOf[m]] # 0}

CatalogInit ==
    /\ offered \in SUBSET OfCopilot
    /\ atBoot = {} /\ catalog = EmptyCatalog /\ boots = 0
    /\ pinned = [s \in Sessions |-> NoModel] /\ runsOn = [s \in Sessions |-> NoModel]
    /\ auth \in [Providers -> {0, 1}]
    /\ askers = [c \in KeyAskers |-> NoAsker]
    /\ offers = 0 /\ logins = 0

-----------------------------------------------------------------------------
(* The server.                                                             *)

\* loadLiveCopilotModels(): without credentials, a key, an answer in 5 s or data
\* that can be read, the static catalog is all there is.
Load ==
    \/ /\ auth[Copilot] # 0
       /\ atBoot' = offered /\ catalog' = Merged(offered)
    \/ atBoot' = {} /\ catalog' = EmptyCatalog

Boot ==
    /\ boots < MaxBoots
    /\ boots' = boots + 1
    /\ Load
    /\ runsOn' = [s \in Sessions |-> NoModel]
    /\ askers' = [c \in KeyAskers |-> NoAsker]
    /\ UNCHANGED <<offered, pinned, auth, offers, logins>>

Up == boots > 0

\* createSession(): a model that does not resolve makes no session.
CreateSession(s, m) ==
    /\ Up /\ pinned[s] = NoModel /\ Resolves(m)
    /\ pinned' = [pinned EXCEPT ![s] = m]
    /\ runsOn' = [runsOn EXCEPT ![s] = m]
    /\ UNCHANGED <<offered, atBoot, catalog, boots, auth, askers, offers, logins>>

\* openSession().
OpenPinned(s) ==
    /\ Up /\ runsOn[s] = NoModel /\ Opens(s)
    /\ runsOn' = [runsOn EXCEPT ![s] = SessionModel(pinned[s])]
    /\ UNCHANGED <<offered, atBoot, catalog, boots, pinned, auth, askers, offers, logins>>

\* setModel(), from the picker or by hand.
PickModel(s, m) ==
    /\ Up /\ runsOn[s] # NoModel /\ Resolves(m) /\ runsOn[s] # m
    /\ pinned' = [pinned EXCEPT ![s] = m]
    /\ runsOn' = [runsOn EXCEPT ![s] = m]
    /\ UNCHANGED <<offered, atBoot, catalog, boots, auth, askers, offers, logins>>

\* getApiKey() of expired credentials: the file is read ...
ReadAuth(c, p) ==
    /\ Up /\ askers[c] = NoAsker /\ auth[p] # 0
    /\ askers' = [askers EXCEPT ![c] = [at |-> "refreshing", provider |-> p, file |-> auth]]
    /\ UNCHANGED <<offered, atBoot, catalog, boots, pinned, runsOn, auth, offers, logins>>

\* ... and written back whole with what the provider answers, if it answers.
WriteAuth(c) ==
    /\ askers[c] # NoAsker
    /\ askers' = [askers EXCEPT ![c] = NoAsker]
    /\ \/ auth' = askers[c].file
       \/ UNCHANGED auth
    /\ UNCHANGED <<offered, atBoot, catalog, boots, pinned, runsOn, offers, logins>>

-----------------------------------------------------------------------------
(* The account and the pi CLI.                                             *)

OfferChanges ==
    /\ offers < MaxOffers
    /\ offers' = offers + 1
    /\ offered' \in SUBSET OfCopilot \ {offered}
    /\ UNCHANGED <<atBoot, catalog, boots, pinned, runsOn, auth, askers, logins>>

\* The user logs in or out with the pi CLI; a login is one of its own.
CliLogs(p, login) ==
    /\ logins < MaxLogins
    /\ logins' = logins + 1
    /\ auth' = [auth EXCEPT ![p] = IF login THEN logins + 2 ELSE 0]
    /\ UNCHANGED <<offered, atBoot, catalog, boots, pinned, runsOn, askers, offers>>

CatalogNext ==
    \/ Boot
    \/ \E s \in Sessions : OpenPinned(s) \/ \E m \in Models : CreateSession(s, m) \/ PickModel(s, m)
    \/ \E c \in KeyAskers : WriteAuth(c) \/ \E p \in Providers : ReadAuth(c, p)
    \/ OfferChanges
    \/ \E p \in Providers, login \in BOOLEAN : CliLogs(p, login)

CatalogSpec == CatalogInit /\ [][CatalogNext]_catVars

-----------------------------------------------------------------------------
(* Properties.                                                             *)

CatalogTypeOK ==
    /\ offered \subseteq OfCopilot /\ atBoot \subseteq OfCopilot
    /\ \A t \in catalog.overlay : t.model \in OfCopilot \ Static
    /\ catalog.prunedIds \subseteq OfCopilot \cap Static
    /\ pinned \in [Sessions -> Models \cup {NoModel}]
    /\ runsOn \in [Sessions -> Models \cup {NoModel}]
    /\ auth \in [Providers -> 0..(MaxLogins + 1)]

\* A pinned model that has vanished "must NOT brick the session"
\* (manager.ts:340-346): across restarts and changes of the account, every
\* session can be opened as long as the default resolves; and what it runs on
\* is, for a model of Copilot, what the account had at boot, whenever it could
\* be asked.
SessionsStayUsable ==
    /\ Up /\ Resolves(Default) => \A s \in Sessions : pinned[s] = NoModel \/ Opens(s)
    /\ catalog # EmptyCatalog =>
          \A s \in Sessions : runsOn[s] \in OfCopilot => runsOn[s] \in atBoot

\* Not so: "the picker only shows models backed by credentials ytsejam can
\* actually use" (docs/USAGE.md:125-126).  It knows nothing of the live catalog:
\* a pruned model is shown and cannot be set, one that only Copilot has is not
\* shown.
PickerIsUsable == Up => \A m \in Picker : Resolves(m)

\* Not so: of two writers of auth.json "the loser self-heals by refreshing again
\* on its next request" (pi-auth.ts:51-53).  The whole file is written back: a
\* login with the pi CLI during a refresh is undone, also another provider's.
LoginsStay == [][\A p \in Providers : auth'[p] >= auth[p] \/ logins' # logins]_catVars
===============================================================================
