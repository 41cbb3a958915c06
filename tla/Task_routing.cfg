SPECIFICATION FairSpec
CONSTANTS
    founder = founder
    agent = agent
    other = other
    Peers = {founder, agent, other}
    Founder = founder
    Members = {founder, agent, other}
    Readers = {agent}
    Writers = {founder, other}
    Unchecked = {founder}
    Rotates = {other}
    Contents <- MCContents
    PageSize = 2
    MaxEventFailures = 2
    MaxEvents = 2
    MaxChanges = 2
    MaxThrows = 1
CHECK_DEADLOCK FALSE
INVARIANTS AcceptedReachesMembers
PROPERTIES WorkIsAuthorised EveryCursorMoves
