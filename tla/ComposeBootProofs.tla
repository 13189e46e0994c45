-------------------------- MODULE ComposeBootProofs -------------------------
(***************************************************************************)
(* What survives any stop and any failure of the two boot scripts, for     *)
(* any set of steps at which containers are stopped and any number of      *)
(* faults.                                                                 *)
(***************************************************************************)
EXTENDS ComposeBoot, TLAPS

Data == [system: {"none", "partly", "whole"}, database: BOOLEAN, user: BOOLEAN,
         grant: BOOLEAN, root: BOOLEAN, site: BOOLEAN, subscriber: BOOLEAN]

Types ==
    /\ db \in DbSteps \cup {"down"} /\ wp \in WpSteps \cup {"down"}
    /\ data \in Data /\ html \in 0 .. 3

\* The steps of a first boot are taken only on a volume that lacks what they
\* make.
OnlyWhatLacks ==
    /\ db = "install" => data.system = "none"
    /\ db = "bootstrap" => data.system = "partly"
    /\ wp \in {"salts", "first"} => html = 0
    /\ wp = "second" => html = 1
    /\ wp = "third" => html = 2

\* What comes after the installation runs on an installed site.
SiteFirst == wp \in {"wp_user", "plugin", "wp_serving"} => data.site

IInv == Types /\ OnlyWhatLacks /\ SiteFirst /\ ServedSiteIsInstalled

\* One step of the invariant, and what the step does to the volumes.
Sound == IInv' /\ /\ html' = html \/ (html' = html + 1 /\ html' <= 3)
                  /\ data.system = "whole" => data'.system = "whole" /\ db' # "install"

LEMMA InitSound == Init => IInv
  BY DEF Init, IInv, Types, Data, DbSteps, WpSteps, OnlyWhatLacks, SiteFirst,
         ServedSiteIsInstalled

\* The database's script leaves WordPress's volume alone and takes nothing away.
LEMMA DbSound == IInv /\ DbNext => Sound
  <1> SUFFICES ASSUME IInv, DbNext PROVE Sound
    OBVIOUS
  <1> USE DEF IInv, Types, Data, DbSteps, WpSteps, OnlyWhatLacks, SiteFirst,
              ServedSiteIsInstalled, Sound, Db
  <1>1. CASE DbCheck
    BY <1>1 DEF DbCheck
  <1>2. CASE DbInstall
    BY <1>2 DEF DbInstall
  <1>3. CASE DbBootstrap
    BY <1>3 DEF DbBootstrap
  <1>4. CASE DbPing
    BY <1>4 DEF DbPing
  <1>5. CASE DbStatements
    BY ZenonT(40), <1>5 DEF DbStatements
  <1>6. CASE DbKill
    BY <1>6 DEF DbKill
  <1>7. CASE DbExec
    BY <1>7 DEF DbExec
  <1> QED
    BY <1>1, <1>2, <1>3, <1>4, <1>5, <1>6, <1>7 DEF DbNext

LEMMA WpSound == IInv /\ WpNext => Sound
  <1> SUFFICES ASSUME IInv, WpNext PROVE Sound
    OBVIOUS
  <1> USE DEF IInv, Types, Data, DbSteps, WpSteps, OnlyWhatLacks, SiteFirst,
              ServedSiteIsInstalled, Sound, Wp
  <1>1. CASE WpWait
    BY <1>1 DEF WpWait
  <1>2. CASE WpConfig
    BY <1>2 DEF WpConfig
  <1>3. CASE WpSalts
    BY <1>3 DEF WpSalts
  <1>4. CASE WpWrite
    BY <1>4 DEF WpWrite
  <1>5. CASE WpCore
    BY <1>5 DEF WpCore, Works
  <1>6. CASE WpInstall
    BY <1>6 DEF WpInstall, Works
  <1>7. CASE WpUser
    BY <1>7 DEF WpUser, Works
  <1>8. CASE WpPlugin
    BY <1>8 DEF WpPlugin, Works
  <1> QED
    BY <1>1, <1>2, <1>3, <1>4, <1>5, <1>6, <1>7, <1>8 DEF WpNext

\* Stops and restarts leave the volumes as they are.
LEMMA StepSound == IInv /\ [Next]_vars => Sound
  <1> SUFFICES ASSUME IInv, [Next]_vars PROVE Sound
    OBVIOUS
  <1>1. CASE DbNext
    BY <1>1, DbSound
  <1>2. CASE WpNext
    BY <1>2, WpSound
  <1>3. CASE DbStop \/ WpStop \/ DbRestart \/ WpRestart
    BY <1>3 DEF DbStop, WpStop, DbRestart, WpRestart, IInv, Types, Data, DbSteps, WpSteps,
                OnlyWhatLacks, SiteFirst, ServedSiteIsInstalled, Sound
  <1>4. CASE UNCHANGED vars
    BY <1>4 DEF vars, IInv, Types, Data, OnlyWhatLacks, SiteFirst, ServedSiteIsInstalled, Sound
  <1> QED
    BY <1>1, <1>2, <1>3, <1>4 DEF Next

\* WordPress answers only for an installed site, with a whole configuration, on
\* a database that knows its user (set -e, wp core is-installed).
THEOREM SiteInstalled == Spec => []ServedSiteIsInstalled
  <1>1. IInv /\ [Next]_vars => IInv'
    BY StepSound DEF Sound
  <1>2. IInv => ServedSiteIsInstalled
    BY DEF IInv
  <1> QED
    BY InitSound, <1>1, <1>2, PTL DEF Spec

\* The configuration is not appended to once it is made, and nothing is taken
\* from the database: init.sh's tests hold across every stop.
THEOREM NothingSetUpTwice == Spec => SetUpOnce
  <1> DEFINE Step == /\ html' = html \/ (html' = html + 1 /\ html' <= 3)
                     /\ data.system = "whole" => data'.system = "whole" /\ db' # "install"
  <1>1. IInv /\ [Next]_vars => IInv' /\ [Step]_vars
    BY StepSound DEF Sound
  <1> HIDE DEF Step
  <1>2. Spec => [][Step]_vars
    BY InitSound, <1>1, PTL DEF Spec
  <1> QED
    BY <1>2 DEF SetUpOnce, Step
=============================================================================
