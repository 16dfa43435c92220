----------------------------- MODULE WebhookNames -----------------------------
(***************************************************************************)
(* What assert_webhook_allowed makes of a webhook_url, and what the        *)
(* executor's router makes of the same URL when it is called.  The two     *)
(* read it differently: the scheduler compares the text, cuts the query    *)
(* off and strips the slashes; on the way to the router httpx removes dot  *)
(* segments and uvicorn decodes the percent-encoding, and Starlette        *)
(* matches "/webhooks/{name}" against what is left.  A URL is a sequence:  *)
(* Prefix ("{executor_base_url}/webhooks/") or another beginning, then     *)
(* Slash, Query ("?"), Fragment ("#") and runs of other characters, the    *)
(* names of WEBHOOKS among them.  The base has no path of its own.         *)
(*                                                                         *)
(* <Def>_<Slip> is <Def> with a plausible slip, for the mutation runs.     *)
(***************************************************************************)
EXTENDS Integers, SequencesExt

CONSTANTS
  Prefix, Slash, Query, Fragment,
  Dot, DotDot,  \* the segments "." and ".."
  Webhooks,     \* the segment "webhooks"
  Aliases,      \* other spellings of Prefix: host in capitals, default port, ...
  Decodes       \* what a percent-encoded text stands for

Under(u) == u # <<>> /\ Head(u) = Prefix

(* The part of s before the first of the separators.                        *)
Before(s, seps) == LET i == SelectInSeq(s, LAMBDA x : x \in seps)
                   IN  IF i = 0 THEN s ELSE SubSeq(s, 1, i - 1)

(* Python's strip("/").                                                     *)
Strip(s) == LET first == SelectInSeq(s, LAMBDA x : x # Slash)
                last  == SelectLastInSeq(s, LAMBDA x : x # Slash)
            IN  IF first = 0 THEN <<>> ELSE SubSeq(s, first, last)

ParseWebhookName_LastSegment(u) ==
  LET path == IF Under(u) THEN Strip(Before(Tail(u), {Query})) ELSE <<>>
      last == SelectLastInSeq(path, LAMBDA x : x = Slash)
  IN  SubSeq(path, last + 1, Len(path))

ParseWebhookName_QueryKept(u) == IF Under(u) THEN Strip(Tail(u)) ELSE <<>>

(* parse_webhook_name; the empty sequence for its None.                     *)
ParseWebhookName(u) == IF Under(u) THEN Strip(Before(Tail(u), {Query})) ELSE <<>>

(* "name not in registry", negated.                                         *)
Allowed(u, registry) == \E n \in registry : ParseWebhookName(u) = <<n>>

(* The segments of a path, and a path of segments.                          *)
Segments(p) ==
  LET cuts == SetToSortSeq({0, Len(p) + 1} \cup {i \in DOMAIN p : p[i] = Slash}, <)
  IN  [k \in 1 .. Len(cuts) - 1 |-> SubSeq(p, cuts[k] + 1, cuts[k + 1] - 1)]

Join(segments) ==
  FoldLeft(LAMBDA p, seg : IF p = <<>> THEN seg ELSE p \o <<Slash>> \o seg, <<>>, segments)

(* httpx's normalize_path: dot segments go, ".." with the segment before.   *)
Dotless(p) == \A i \in DOMAIN p : p[i] \notin {Dot, DotDot}

Normal(p) ==
  IF Dotless(p) THEN p
  ELSE Join(FoldLeft(LAMBDA out, seg :
                       IF seg = <<Dot>> THEN out
                       ELSE IF seg # <<DotDot>> THEN Append(out, seg)
                       ELSE IF out = <<>> THEN out ELSE Front(out),
                     <<>>, Segments(p)))

(* uvicorn's unquote of the path.                                           *)
Decoded(p) == [i \in DOMAIN p |-> IF p[i] \in DOMAIN Decodes THEN Decodes[p[i]] ELSE p[i]]

(* The webhooks that a POST to u runs: one or none.  The client drops the
   fragment; the router matches one segment.  Any other path is a 404 or, if
   slashes at its end are all that is wrong, a 307 the client does not follow. *)
Runs(u, registry) ==
  {n \in registry :
     /\ u # <<>> /\ Head(u) \in {Prefix} \cup Aliases
     /\ Decoded(Normal(<<Webhooks, Slash>> \o Before(Tail(u), {Query, Fragment})))
          = <<Webhooks, Slash, n>>}

(* A URL spelled the way the scheduler spells it: nothing in it that client or
   server would rewrite.                                                    *)
Plain(u) ==
  /\ Under(u)
  /\ LET path == Before(Tail(u), {Query})
     IN  /\ Dotless(path)
         /\ \A i \in DOMAIN path : path[i] # Fragment /\ path[i] \notin DOMAIN Decodes
===============================================================================
