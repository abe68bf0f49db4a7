SPECIFICATION PSpec
CONSTANTS
  Nil = Nil
  Bad = Bad
  BadZone = 99
  NoAddr = NoAddr
  Dimensions = {"country", "browser", "asn"}
  MaxPathLen = 20
  Files <- McFiles
  Envs <- McEnvs
  Requests <- McRequests
  Browsers <- McBrowsers
  Opaque <- McOpaque
INVARIANTS Precedence OneLabelPerPage RecordedAsSent OneKeyPerPrefix
