CONSTANTS
  Nodes <- MCNodes
  MaxSent = 2
  MaxMsgs = 2
  MaxTrace = 2
  Data = {d1}
SPECIFICATION NetSpec
INVARIANT NetTypeOK
PROPERTY ChannelRefinement
