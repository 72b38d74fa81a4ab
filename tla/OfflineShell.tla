----------------------------- MODULE OfflineShell -----------------------------
(***************************************************************************)
(* The installed web client: the service worker that keeps its shell for   *)
(* offline use (web/public/sw.js), one page that it serves, the server's   *)
(* static files (server/src/server.ts) and the deploys that replace them.  *)
(*                                                                         *)
(* A build is an index.html and the bundle whose hashed name stands in it. *)
(* A file that is not there is answered with index.html and status 200.    *)
(* A worker has a cache of its own for each version of its policy.         *)
(***************************************************************************)
EXTENDS Naturals, FiniteSets

CONSTANTS
    Builds,       \* of the web client; the first deployed is 1
    Policies,     \* the CACHE_VERSIONs; the first is 1
    MaxVisits, MaxOutages  \* bounds: navigations; changes of the network

ASSUME ShellAssumption ==
    /\ Builds \subseteq Nat \ {0} /\ Policies \subseteq Nat \ {0}
    /\ 1 \in Builds \cap Policies
    /\ MaxVisits \in Nat /\ MaxOutages \in Nat

VARIABLES
    deployed,   \* the build in webDistDir, and the policy of its sw.js
    past,       \* history: the builds that were replaced
    online,     \* the browser reaches the server
    worker,     \* the policy of the active worker, 0 without one
    installing, \* the policy of a worker that is being installed, 0 without one
    precached,  \* it has its shell, or has failed to get it
    caches,     \* per policy: the shell, and what is kept under each bundle's name
    putting,    \* the builds of the cache.put("/") calls under way
    page,       \* the page: its build and what it got as its bundle
    visits, outages

net == <<deployed, past, online, outages>>
shellVars == <<net, worker, installing, precached, caches, putting, page, visits>>

Bodies == {"none", "bundle", "html"}
Empty == [shell |-> 0, bundle |-> [b \in Builds |-> "none"]]
NoPage == [build |-> 0, got |-> "none", steady |-> FALSE]

ShellInit ==
    /\ deployed = [build |-> 1, policy |-> 1] /\ past = {} /\ online = TRUE
    /\ worker = 0 /\ installing = 0 /\ precached = FALSE
    /\ caches = [p \in Policies |-> Empty] /\ putting = {} /\ page = NoPage
    /\ visits = 0 /\ outages = 0

-----------------------------------------------------------------------------
(* The server and the network.                                             *)

\* What the server answers under the name of a bundle.
Served(b) == IF b = deployed.build THEN "bundle" ELSE "html"

\* Another build replaces the one that is deployed, whose bundle is gone: a new
\* one, or one of before that is rolled back to.  It may bring another sw.js along.
DeployBuild ==
    /\ \E b \in Builds \ {deployed.build}, p \in Policies :
          deployed' = [build |-> b, policy |-> p]
    /\ past' = past \cup {deployed.build}
    /\ page' = [page EXCEPT !.steady = FALSE]
    /\ UNCHANGED <<online, worker, installing, precached, caches, putting, visits, outages>>

NetworkChanges ==
    /\ outages < MaxOutages
    /\ outages' = outages + 1
    /\ online' = ~online
    /\ page' = [page EXCEPT !.steady = FALSE]
    /\ UNCHANGED <<deployed, past, worker, installing, precached, caches, putting, visits>>

-----------------------------------------------------------------------------
(* install and activate.                                                   *)

\* The page registers /sw.js, which is revalidated: a worker of another policy
\* is installed.
Register ==
    /\ online /\ page # NoPage /\ deployed.policy # worker
    /\ installing = 0
    /\ installing' = deployed.policy /\ precached' = FALSE
    /\ UNCHANGED <<net, worker, caches, putting, page, visits>>

\* cache.addAll("/"); that it fails does not stop the installation.
Precache ==
    /\ installing # 0 /\ ~precached
    /\ precached' = TRUE
    /\ caches' = IF online THEN [caches EXCEPT ![installing].shell = deployed.build]
                 ELSE caches
    /\ UNCHANGED <<net, worker, installing, putting, page, visits>>

\* A slip of Activate: the caches of earlier policies stay.
ActivateKeepsCaches ==
    /\ installing # 0 /\ precached
    /\ worker' = installing /\ installing' = 0
    /\ putting' = {}
    /\ UNCHANGED <<net, precached, caches, page, visits>>

\* skipWaiting(): the worker takes over, and drops the other policies' caches;
\* what is being put into them is lost.
Activate ==
    /\ installing # 0 /\ precached
    /\ worker' = installing /\ installing' = 0
    /\ caches' = [p \in Policies |-> IF p = installing THEN caches[p] ELSE Empty]
    /\ putting' = {}
    /\ UNCHANGED <<net, precached, page, visits>>

-----------------------------------------------------------------------------
(* fetch.                                                                  *)

Shows(b, steady) == page' = [build |-> b, got |-> "none", steady |-> steady]
Put == putting' = IF worker = 0 THEN putting ELSE putting \cup {deployed.build}

\* A slip of Navigate: stale while it revalidates.
NavigateCacheFirst ==
    /\ visits < MaxVisits
    /\ visits' = visits + 1
    /\ IF worker # 0 /\ caches[worker].shell # 0
       THEN /\ Shows(caches[worker].shell, online)
            /\ IF online THEN Put ELSE UNCHANGED putting
       ELSE online /\ Shows(deployed.build, TRUE) /\ Put
    /\ UNCHANGED <<net, worker, installing, precached, caches>>

\* A navigation goes to the network first and its answer is kept as the shell;
\* offline the kept shell is shown, if there is one.
Navigate ==
    /\ visits < MaxVisits
    /\ visits' = visits + 1
    /\ \/ online /\ Shows(deployed.build, TRUE) /\ Put
       \/ /\ ~online
          /\ IF worker # 0 /\ caches[worker].shell # 0
             THEN Shows(caches[worker].shell, FALSE)
             ELSE page' = NoPage
          /\ UNCHANGED putting
    /\ UNCHANGED <<net, worker, installing, precached, caches>>

\* cache.put("/") is not awaited.
ShellKept ==
    \E b \in putting :
        /\ putting' = putting \ {b}
        /\ caches' = [caches EXCEPT ![worker].shell = b]
        /\ UNCHANGED <<net, worker, installing, precached, page, visits>>

\* The page asks for its bundle.  A hit is answered at once, and refreshed with
\* what the server has under that name by now; a miss is fetched and kept.
LoadBundle ==
    /\ page.build # 0 /\ page.got = "none"
    /\ LET b == page.build
           kept == IF worker = 0 THEN "none" ELSE caches[worker].bundle[b]
       IN /\ page' = [page EXCEPT !.got = IF kept # "none" THEN kept
                                          ELSE IF online THEN Served(b) ELSE "failed"]
          /\ caches' = IF worker # 0 /\ online
                       THEN [caches EXCEPT ![worker].bundle[b] = Served(b)] ELSE caches
    /\ UNCHANGED <<net, worker, installing, precached, putting, visits>>

-----------------------------------------------------------------------------
ShellNext ==
    \/ DeployBuild \/ NetworkChanges
    \/ Register \/ Precache \/ Activate
    \/ Navigate \/ ShellKept \/ LoadBundle

ShellSpec == ShellInit /\ [][ShellNext]_shellVars

-----------------------------------------------------------------------------
(* Properties.                                                             *)

ShellTypeOK ==
    /\ deployed.build \in Builds /\ deployed.policy \in Policies
    /\ past \cup putting \subseteq Builds /\ (worker = 0 => putting = {})
    /\ {worker, installing} \subseteq Policies \cup {0} /\ precached \in BOOLEAN
    /\ \A p \in Policies : /\ caches[p].shell \in Builds \cup {0}
                           /\ caches[p].bundle \in [Builds -> Bodies]
    /\ page.build \in Builds \cup {0} /\ page.got \in Bodies \cup {"failed"}
    /\ worker = 0 \/ \A p \in Policies \ {worker, installing} : caches[p] = Empty

\* "An online client gets the fresh index.html immediately" (sw.js:104-114):
\* a page that is loaded while the server is reached and no deploy comes in
\* between is the deployed build, whatever the worker kept on earlier visits,
\* offline or under builds and policies of before; and it gets its own bundle --
\* unless the build had been replaced and was rolled back to, when index.html may
\* be kept under its bundle's name (HitIsCorrect below).
FreshPageWorks ==
    page.steady => /\ page.build = deployed.build
                   /\ deployed.build \in past \/ page.got \in {"none", "bundle"}

\* Not so: "Hashed asset URLs are immutable, so a cache hit is always correct"
\* (sw.js:137-138).  When the bundle is refreshed, or fetched, after the deploy
\* that took it away, the server's index.html is kept under its name: the kept
\* shell of that build does not run offline any more, nor, online, the build
\* itself after a rollback to it, on the first load.
HitIsCorrect == \A p \in Policies, b \in Builds : caches[p].bundle[b] # "html"

\* Nor does a kept shell stay: a worker of a new policy that could not precache
\* drops the shell of the old one (sw.js:58-68, 83-91).
ShellStays == [][worker # 0 /\ caches[worker].shell # 0 => caches'[worker'].shell # 0]_shellVars
===============================================================================
