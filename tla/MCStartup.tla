----------------------------- MODULE MCStartup -----------------------------
(***************************************************************************)
(* Startup with two daemons and two host key files.  The command lines and *)
(* files differ in every setting that decides how far a daemon gets and    *)
(* with what, and two daemons may be given different ports.                *)
(***************************************************************************)
EXTENDS Startup

CONSTANTS d1, d2

TwoDaemons == {d1, d2}
DefaultPath == Defaults.hostkey
OtherPath == "/srv/host_key"
TwoPaths == {DefaultPath, OtherPath}

Launched(flags, foreground, positional, fileState, overlay) ==
    [flags |-> flags, foreground |-> foreground, positional |-> positional,
     file |-> fileState, overlay |-> overlay]

\* On the default path: in the background, also with an argument that hides
\* the appended -D, and in the foreground on another port with TLS.
\* On the other path, from a file whose certificate has no key unless a flag
\* adds it, and whose proxies an empty flag does not clear.
SomeLaunches ==
    LET Half == [hostkey |-> OtherPath, cert |-> "cert", addr |-> ":1",
                 trusted_proxies |-> {"10.0.0.0/8"}]
    IN  {Launched([addr |-> ":8080"], FALSE, TRUE, "none", NoOverlay),
         Launched([addr |-> ":9090", cert |-> "cert", key |-> "key"],
                  TRUE, FALSE, "none", NoOverlay),
         Launched([key |-> "key", trusted_proxies |-> {}, addr |-> ":2"],
                  FALSE, FALSE, "good", Half),
         Launched([rate |-> 0], TRUE, FALSE, "good", Half),
         Launched(NoOverlay, TRUE, FALSE, "bad", NoOverlay)}
=============================================================================
