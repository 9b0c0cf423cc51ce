SPECIFICATION Spec
CONSTANTS
  a = a
  b = b
  Slot = {s1, s2}
  Account = {a, b, c}
  Nobody = Nobody
  InitUsers = {a, b}
  InitFriends <- MCFriends
  InitGroups <- MCGroups
  InitMembers <- MCMembers
  Mixes <- MCMixes
  Deployments = {TRUE, FALSE}
  MaxStamp = 2
  MaxRequests = 3
  MaxFaults = 1
  MaxTimeouts = 1
SYMMETRY Sym
INVARIANTS TablesConsistent AnswersTrue LostOnlyByOverlap FriendsByConsent DecisionsHold MessagesTrue
PROPERTIES ReverseRefused
CHECK_DEADLOCK FALSE
