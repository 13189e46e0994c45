---------------------------- MODULE ComposeBoot -----------------------------
(***************************************************************************)
(* The first boot of the database and of WordPress                         *)
(* (srcs/requirements/mariadb/tools/init.sh and                            *)
(* srcs/requirements/wordpress/tools/init.sh): two scripts that set up     *)
(* what their volumes lack and then become the server.  Both run under     *)
(* "set -e" and "restart: unless-stopped" (docker-compose.yml): a command  *)
(* that fails ends its container, which starts over with its volume as it  *)
(* is.  A container may also be stopped between any two commands (make     *)
(* down, a reboot of the host) and started again later.                    *)
(***************************************************************************)
EXTENDS Integers

CONSTANTS
    StopsAt,      \* the steps before which a container may be stopped
    MaxFaults     \* bound: stops and downloads that fail

DbSteps == {"check", "install", "bootstrap", "ping", "database", "user", "grant", "root",
            "kill", "exec", "serving"}
WpSteps == {"wait", "config", "salts", "first", "second", "third", "core", "wp_install",
            "wp_user", "plugin", "wp_serving"}

ASSUME BootAssumption == StopsAt \subseteq DbSteps \cup WpSteps /\ MaxFaults \in Nat

VARIABLES
    db, wp,      \* the step each container is at, "down" if it does not run
    data,        \* the volume db_data
    html,        \* the volume wp_data: how much of wp-config.php there is
    faults

vars == <<db, wp, data, html, faults>>

Init ==
    /\ db = "check" /\ wp = "wait" /\ html = 0 /\ faults = 0
    /\ data = [system |-> "none", database |-> FALSE, user |-> FALSE, grant |-> FALSE,
               root |-> FALSE, site |-> FALSE, subscriber |-> FALSE]

-----------------------------------------------------------------------------
(* mariadb/tools/init.sh.                                                  *)

Db(from, to) == db = from /\ db' = to /\ UNCHANGED <<wp, html, faults>>

\* Variant: the test is for the directory of the site's own database.
DbCheckDatabase ==
    Db("check", IF data.database THEN "exec" ELSE "install") /\ UNCHANGED data

\* The directory of the system tables is what the script tells a first boot by.
DbCheck == Db("check", IF data.system = "none" THEN "install" ELSE "exec") /\ UNCHANGED data

\* mariadb-install-db makes the directory, then fills it.
DbInstall == Db("install", "bootstrap") /\ data' = [data EXCEPT !.system = "partly"]
DbBootstrap == Db("bootstrap", "ping") /\ data' = [data EXCEPT !.system = "whole"]

\* The server for the set-up answers: it takes no connections from outside.
DbPing == Db("ping", "database") /\ UNCHANGED data

\* The statements, each durable as it is done.
DbStatements ==
    \/ Db("database", "user") /\ data' = [data EXCEPT !.database = TRUE]
    \/ Db("user", "grant") /\ data' = [data EXCEPT !.user = TRUE]
    \/ Db("grant", "root") /\ data' = [data EXCEPT !.grant = TRUE]
    \/ Db("root", "kill") /\ data' = [data EXCEPT !.root = TRUE]

DbKill == Db("kill", "exec") /\ UNCHANGED data

\* A server on half of its system tables may or may not start.
DbExec == \/ Db("exec", "serving") /\ data.system # "none" /\ UNCHANGED data
          \/ Db("exec", "down") /\ data.system # "whole" /\ UNCHANGED data

DbNext == DbCheck \/ DbInstall \/ DbBootstrap \/ DbPing \/ DbStatements \/ DbKill \/ DbExec

-----------------------------------------------------------------------------
(* wordpress/tools/init.sh.                                                *)

Wp(from, to) == wp = from /\ wp' = to /\ UNCHANGED <<db, faults>>

\* mariadb-admin ping is content with a server that refuses the user.
WpWait == Wp("wait", "config") /\ db = "serving" /\ UNCHANGED <<data, html>>

\* Variant: the test is the wrong way round.
WpConfigInverted ==
    Wp("config", IF html > 0 THEN "salts" ELSE "core") /\ UNCHANGED <<data, html>>

WpConfig == Wp("config", IF html = 0 THEN "salts" ELSE "core") /\ UNCHANGED <<data, html>>

\* A download that fails ends the script.
WpSalts == \/ Wp("salts", "first") /\ UNCHANGED <<data, html>>
           \/ /\ wp = "salts" /\ wp' = "down"
              /\ faults < MaxFaults /\ faults' = faults + 1 /\ UNCHANGED <<db, data, html>>

\* Each "cat" and "echo" opens the file and appends to it; the first makes it.
WpWrite ==
    /\ \/ Wp("first", "second") /\ html' = 1
       \/ Wp("second", "third") /\ html' = 2
       \/ Wp("third", "core") /\ html' = 3
    /\ UNCHANGED data

\* A wp command works with a whole configuration and a database that takes
\* its user.
Works == html = 3 /\ db = "serving" /\ data.database /\ data.user /\ data.grant

WpCore ==
    /\ Wp("core", IF Works /\ data.site THEN "plugin" ELSE "wp_install")
    /\ UNCHANGED <<data, html>>

\* Variant: without "set -e" the script goes on.
WpInstallRegardless ==
    /\ Wp("wp_install", "wp_user")
    /\ data' = [data EXCEPT !.site = @ \/ Works]
    /\ UNCHANGED html

WpInstall ==
    /\ Wp("wp_install", IF Works THEN "wp_user" ELSE "down")
    /\ data' = [data EXCEPT !.site = @ \/ Works]
    /\ UNCHANGED html

\* An account that is there is an error, as it is after wp core is-installed
\* has failed for want of the database alone: wp core install does not mind.
WpUser ==
    /\ Wp("wp_user", IF Works /\ ~data.subscriber THEN "plugin" ELSE "down")
    /\ data' = [data EXCEPT !.subscriber = @ \/ Works]
    /\ UNCHANGED html

\* The plugin is fetched and enabled on every start.
WpPlugin == \/ Wp("plugin", IF Works THEN "wp_serving" ELSE "down") /\ UNCHANGED <<data, html>>
            \/ /\ wp = "plugin" /\ wp' = "down"
               /\ faults < MaxFaults /\ faults' = faults + 1 /\ UNCHANGED <<db, data, html>>

WpNext == WpWait \/ WpConfig \/ WpSalts \/ WpWrite \/ WpCore \/ WpInstall \/ WpUser \/ WpPlugin

-----------------------------------------------------------------------------
(* The containers.                                                         *)

DbStop == /\ db \in StopsAt /\ faults < MaxFaults
          /\ db' = "down" /\ faults' = faults + 1 /\ UNCHANGED <<wp, data, html>>

WpStop == /\ wp \in StopsAt /\ faults < MaxFaults
          /\ wp' = "down" /\ faults' = faults + 1 /\ UNCHANGED <<db, data, html>>

DbRestart == db = "down" /\ db' = "check" /\ UNCHANGED <<wp, data, html, faults>>
WpRestart == wp = "down" /\ wp' = "wait" /\ UNCHANGED <<db, data, html, faults>>

Next == DbNext \/ WpNext \/ DbStop \/ WpStop \/ DbRestart \/ WpRestart

Spec == Init /\ [][Next]_vars

\* A script goes on, and a container that has ended is started again.
LiveSpec == Spec /\ WF_vars(DbNext \/ DbRestart) /\ WF_vars(WpNext \/ WpRestart)

-----------------------------------------------------------------------------
(* Properties.                                                             *)

\* Whatever is stopped and whatever fails, WordPress answers only for a site
\* that is installed, with a whole configuration, on a database that knows its
\* user (set -e, wp core is-installed).
ServedSiteIsInstalled ==
    wp = "wp_serving" => data.site /\ html = 3 /\ data.user /\ data.grant

\* What has been set up is not set up again: the configuration, once made, is
\* not appended to, and nothing is taken from the database (init.sh's tests).
SetUpOnce ==
    [][/\ html' = html \/ (html' = html + 1 /\ html' <= 3)
       /\ data.system = "whole" => data'.system = "whole" /\ db' # "install"]_vars

\* A stop that no restart is sure to make good: between the first step of
\* making the database and the last statement of its set-up, whose tables are
\* then taken for a database in use; while the configuration is written, whose
\* file is then taken for whole; or between wp core install and wp user create,
\* be it that the database goes away, after which the site is taken for one that
\* has its subscriber.
HalfMade == \/ db = "down" /\ data.system # "none" /\ ~data.root
            \/ wp = "down" /\ html \in {1, 2}
            \/ wp = "down" /\ data.site /\ ~data.subscriber

\* However often containers are stopped anywhere else and downloads fail, both
\* servers come up in the end, on a database and a configuration that are
\* whole and with the two accounts a first boot makes, the administrator's with
\* the site and the subscriber's: each waits for what it needs of the other or
\* starts over.
BootCompletes ==
    []~HalfMade =>
        <>[](/\ db = "serving" /\ data.system = "whole" /\ data.root
             /\ wp = "wp_serving" /\ Works /\ data.site /\ data.subscriber)
=============================================================================
