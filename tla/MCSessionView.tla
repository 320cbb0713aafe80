--------------------------- MODULE MCSessionView ---------------------------
EXTENDS SessionView, TLC
CONSTANTS k1, k2, k3, h1, h2, h3

Ask(rpc, method, says, revision) ==
    [rpc |-> rpc, method |-> method, says |-> says, ref |-> [id |-> 1, revision |-> revision]]
Rename == Ask(k1, "title", "a", 0)
MCAsks ==
    h1 :> {Rename}
    @@ h2 :> {Rename, Ask(k2, "complete", "", 1), Ask(k2, "edit", "", 1), Ask(k2, "preset", "b", 0)}
    @@ h3 :> {Rename, Ask(k2, "pause", "", 1), Ask(k3, "clear", "", 1), Ask(k3, "create", "", 0),
              Ask(k3, "resume", "", 2), Ask(k3, "model", "m", 0), Ask(k3, "policy", "wide", 0),
              Ask(k3, "plan", "on", 0)}

\* One request before a browser, or two without.
Watched == ViewInit(TRUE, {h1})
Unwatched == ViewInit(FALSE, {h2, h3})
MCSpec == (Watched \/ Unwatched) /\ [][ViewNext]_viewVars
=============================================================================
