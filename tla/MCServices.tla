---- MODULE MCServices ----
EXTENDS Services, TLC
CONSTANTS a, b
\* One pending request from a to b; one group, of a.
MCFriends == {FriendRow(1, a, b, "PENDING")}
MCGroups == {GroupRow(1, a)}
MCMembers == {MemberRow(1, a, "OWNER")}
\* The requests of a behaviour concern users, friends with registrations, or groups.
MCMixes == {{"register", "login", "update"}, {"register", "befriend", "respond"},
            {"create", "join", "leave", "send"}}
\* Slots are interchangeable.
Sym == Permutations(Slot)
====
