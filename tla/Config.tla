------------------------------- MODULE Config -------------------------------
(***************************************************************************)
(* internal/config/config.go: how the configuration of wsshd is put        *)
(* together from defaults, file and flags.  An overlay, a partial          *)
(* configuration, is a function on the fields that are set; a nil overlay  *)
(* sets none.  The empty string and the empty list are None and {}.        *)
(***************************************************************************)
EXTENDS Integers

Fields == {"addr", "path", "hostkey", "cert", "key", "rate", "trusted_proxies"}
None == ""

Defaults == [addr |-> ":8080", path |-> "/ws", hostkey |-> "/etc/wssh/host_key",
             cert |-> None, key |-> None, rate |-> 1, trusted_proxies |-> {}]

NoOverlay == [f \in {} |-> None]

\* The fields set in overlay o replace those of c.
Layer(c, o) == [f \in Fields |-> IF f \in DOMAIN o THEN o[f] ELSE c[f]]

\* Mutant: the file is layered over the flags.
Merge_Swapped(base, file, cli) == Layer(Layer(base, cli), file)

\* As main calls it: the file, then the flags.
Merge(base, file, cli) == Layer(Layer(base, file), cli)

Validate(c) == (c.cert = None) = (c.key = None)

\* The overlay of the flags that were given (main of cmd/wsshd): splitList makes
\* a list without entries nil, which no longer differs from an absent flag.
CliOverlay(flags) ==
    LET Set == {f \in DOMAIN flags : f # "trusted_proxies" \/ flags[f] # {}}
    IN  [f \in Set |-> flags[f]]
=============================================================================
