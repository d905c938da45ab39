CONSTANTS
    p = p
    q = q
    c = c
    alice = alice
    bob = bob
    general = general
    NoUser = NoUser
    Calls <- ThreeCalls
    Users <- TwoUsers
    RoomIds <- OneRoom
    Asked <- NoneOrMany
    DefaultListLimit = 1
    MaxListLimit = 2
    s1 = s1
    s2 = s2
    Senders <- TwoSenders
    Ids <- FourIds
    Limits <- OneOrTwo
    Micro = 2
    MaxTime = 3
SYMMETRY Symmetry
SPECIFICATION ChatSpec
INVARIANTS AckedAreMembers SendersWereMembers CreatorLostOnlyByFailure ReadersSeeAcked
INVARIANTS NothingMissed RepositoriesAgree
PROPERTIES WalksBack
