SPECIFICATION CSpec
CONSTANTS
  r1 = r1
  r2 = r2
  send = send
  sync = sync
  other = other
  encoded = encoded
  alias = alias
  Prefix = Prefix
  Slash = Slash
  Query = Query
  Fragment = Fragment
  Dot = Dot
  DotDot = DotDot
  Webhooks = Webhooks
  Aliases = {alias}
  Decodes <- MCDecodes
  Requests = {r1, r2}
  Urls <- MCUrls
  WEBHOOKS <- MCWEBHOOKS
  TTL = 2
  MaxTime = 5
  MaxVersion = 1
SYMMETRY Interchangeable
INVARIANTS DecisionIsRecent CacheInv RunsWhatWasValidated RunnableIsAccepted
