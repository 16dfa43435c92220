--------------------------- MODULE MC_RegistryCache ---------------------------
(***************************************************************************)
(* Two names, of which a redeployment drops the one and adds the other,    *)
(* and one URL of every kind, for TLC.                                     *)
(***************************************************************************)
EXTENDS RegistryCache

CONSTANTS r1, r2, send, sync, other, encoded, alias

MCWEBHOOKS == [v \in 0 .. 1 |-> IF v = 0 THEN {send} ELSE {sync}]

Interchangeable == Permutations({r1, r2})

MCDecodes == encoded :> send

MCUrls == {<<Prefix, send>>, <<Prefix, Slash, send, Slash>>, <<Prefix, sync, Query, Slash, send>>,
           <<Prefix, other, Slash, send>>, <<Prefix, send, Fragment>>, <<other, send>>,
           <<Prefix, Slash>>, <<Prefix, encoded>>, <<alias, send>>, <<Prefix, send, Slash, Dot>>,
           <<Prefix, other, Slash, DotDot, Slash, send>>,
           <<Prefix, DotDot, Slash, Webhooks, Slash, sync>>}

(* What each of these URLs runs, of either version, as httpx, uvicorn and
   Starlette read it.                                                       *)
ASSUME UrlsRun ==
  LET runs == [u \in MCUrls |-> Runs(u, {send, sync})]
  IN  /\ {u \in MCUrls : send \in runs[u]} =
            {<<Prefix, send>>, <<Prefix, send, Fragment>>, <<Prefix, encoded>>, <<alias, send>>,
             <<Prefix, send, Slash, Dot>>, <<Prefix, other, Slash, DotDot, Slash, send>>}
      /\ {u \in MCUrls : sync \in runs[u]} =
            {<<Prefix, sync, Query, Slash, send>>, <<Prefix, DotDot, Slash, Webhooks, Slash, sync>>}
===============================================================================
