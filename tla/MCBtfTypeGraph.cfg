SPECIFICATION Spec
INVARIANTS
    TypeOK
    FollowIsCanonical
    TypeSizeMatchesSpec
    MemberLookupsAgree
    MapTypeMatchesSpec
