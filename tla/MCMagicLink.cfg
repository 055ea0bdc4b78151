SPECIFICATION Spec
CONSTANTS
  Emails = {e1, e2}
  Disposable = {e2}
  NoEmail = NoEmail
  IPs = {ip}
  Tokens = {t1, t2}
  NoToken = NoToken
  Requests = {r1, r2}
  Verifiers = {v1, v2}
  MaxRequestsPerHour = 2
  Hour = 3
  ResendCooldown = 2
  MagicLinkTTL = 2
  SessionTTL = 1
  MaxDelay = 1
  MaxClock = 3
  MaxFailures = 1
SYMMETRY Symmetry
CHECK_DEADLOCK FALSE
INVARIANTS LinkNotBurnt SuppressedWasMailed MailsSpaced
PROPERTIES LinkIsOneTime
