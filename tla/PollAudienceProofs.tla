------------------------- MODULE PollAudienceProofs -------------------------
(***************************************************************************)
(* Proofs about PollAudience.  That the listing, the opened poll, the flag *)
(* and the gate agree needs one fact of the edits: a poll with a saved     *)
(* audience has no rules of its own.                                       *)
(***************************************************************************)
EXTENDS PollAudience, TLAPS

SavedAlone ==
    poll.saved => poll.allowed = {} /\ poll.demographic = NoDemographic

IInv == TypeOK /\ SavedAlone

-----------------------------------------------------------------------------
\* What is stored of a demographic audience is one.
LEMMA StoredType ==
    ASSUME NEW d \in Demographic
    PROVE  Stored(d) \in Demographic
  BY AudienceAssumption DEF Stored, Demographic

\* So is the absence of one.
LEMMA NoDemographicType == NoDemographic \in Demographic
  BY DEF NoDemographic, Demographic

\* Without a demographic audience everyone meets it, in PHP and in SQL.
LEMMA NoDemographicMet ==
    ASSUME poll.demographic = NoDemographic, NEW u
    PROVE  MeetsAges(u) /\ MeetsRules(u) /\ ListsAges(u)
  <1>1. Ages = {}
    BY DEF Ages, NoDemographic
  <1>2. \A c \in Criteria : Rules(c) = {}
    BY DEF Rules, NoDemographic
  <1> QED
    BY <1>1, <1>2 DEF MeetsAges, MeetsRules, ListsAges

-----------------------------------------------------------------------------
\* The initial polls and profiles are of their types, and saved ones bare.
LEMMA InitInv == Init => IInv
  <1> SUFFICES ASSUME Init PROVE IInv
    OBVIOUS
  <1>1. \A d \in Demographics : Stored(d) \in Demographic
    BY AudienceAssumption, StoredType
  <1>2. poll \in Poll /\ SavedAlone
    <2>1. CASE poll \in
            [creator : Users \cup {Nothing}, audience_only : BOOLEAN,
             saved : {TRUE}, allowed : {{}}, demographic : {NoDemographic}]
      BY <2>1, NoDemographicType DEF Poll, SavedAlone
    <2>2. CASE poll \in
            [creator : Users \cup {Nothing}, audience_only : BOOLEAN,
             saved : {FALSE}, allowed : SUBSET Users,
             demographic : {NoDemographic}]
      BY <2>2, NoDemographicType DEF Poll, SavedAlone
    <2>3. CASE poll \in
            [creator : Users \cup {Nothing}, audience_only : BOOLEAN,
             saved : {FALSE}, allowed : {{}},
             demographic : {Stored(d) : d \in Demographics}]
      BY <2>3, <1>1 DEF Poll, SavedAlone
    <2> QED
      BY <2>1, <2>2, <2>3 DEF Init
  <1>3. profile \in [Users -> Profile]
    BY AudienceAssumption DEF Init
  <1>4. now \in 0..Horizon
    BY AudienceAssumption DEF Init
  <1>5. audience \in Audience /\ voters \subseteq Users
    BY DEF Init, Audience
  <1> QED
    BY <1>2, <1>3, <1>4, <1>5 DEF IInv, TypeOK

\* An edit leaves a poll of its type, bare when it has a saved audience.
LEMMA EditInv ==
    ASSUME IInv, NEW only \in BOOLEAN \cup {Unsent},
           NEW attach \in {"unsent", "attach", "detach"},
           NEW d \in Demographics \cup {Unsent}, Edit(only, attach, d)
    PROVE  IInv'
  <1> DEFINE saved == (poll.saved \/ attach = "attach") /\ attach # "detach"
             rebuilt == attach # "unsent" \/ d # Unsent
             inline == ~saved /\ d # Unsent
             one == IF only = Unsent THEN poll.audience_only ELSE only
             named == IF rebuilt /\ saved THEN {} ELSE poll.allowed
             asked == IF ~rebuilt THEN poll.demographic
                      ELSE IF inline THEN Stored(d) ELSE NoDemographic
  <1>1. poll \in Poll
    BY DEF IInv, TypeOK
  <1>2. poll' = [poll EXCEPT !.audience_only = one, !.saved = saved,
                             !.allowed = named, !.demographic = asked]
    BY DEF Edit
  <1>3. one \in BOOLEAN /\ saved \in BOOLEAN /\ named \in SUBSET Users
    BY <1>1 DEF Poll
  <1>4. asked \in Demographic
    <2>1. CASE inline
      <3>1. d \in Demographic
        BY <2>1, AudienceAssumption
      <3> QED
        BY <3>1, <1>1, StoredType, NoDemographicType DEF Poll
    <2>2. CASE ~inline
      BY <2>2, <1>1, NoDemographicType DEF Poll
    <2> QED
      BY <2>1, <2>2
  <1>5. poll' \in Poll
    <2> HIDE DEF one, saved, named, asked
    <2> QED
      BY <1>1, <1>2, <1>3, <1>4 DEF Poll
  <1>6. saved => named = {} /\ asked = NoDemographic
    BY DEF IInv, SavedAlone
  <1>7. SavedAlone'
    <2>1. poll'.saved = saved /\ poll'.allowed = named /\ poll'.demographic = asked
      <3> HIDE DEF one, saved, named, asked
      <3> QED
        BY <1>1, <1>2 DEF Poll
    <2>2. NoDemographic' = NoDemographic
      BY DEF NoDemographic
    <2> QED
      BY <1>6, <2>1, <2>2 DEF SavedAlone
  <1> QED
    BY <1>5, <1>7 DEF Edit, IInv, TypeOK

\* Every step keeps the invariant.
LEMMA NextInv == IInv /\ [Next]_vars => IInv'
  <1> SUFFICES ASSUME IInv, [Next]_vars PROVE IInv'
    OBVIOUS
  <1>1. ASSUME NEW only \in BOOLEAN \cup {Unsent},
               NEW attach \in {"unsent", "attach", "detach"},
               NEW d \in Demographics \cup {Unsent}, Edit(only, attach, d)
        PROVE  IInv'
    BY <1>1, EditInv
  <1>2. ASSUME NEW u \in Users, Vote(u) PROVE IInv'
    BY <1>2 DEF Vote, IInv, TypeOK, SavedAlone, NoDemographic
  <1>3. ASSUME NEW u \in Users, UpdateProfile(u) PROVE IInv'
    BY <1>3, AudienceAssumption
    DEF UpdateProfile, IInv, TypeOK, SavedAlone, NoDemographic
  <1>4. CASE EditEntries
    BY <1>4 DEF EditEntries, IInv, TypeOK, SavedAlone, NoDemographic, Audience
  <1>5. CASE DeleteAudience
    BY <1>5 DEF DeleteAudience, IInv, TypeOK, SavedAlone, NoDemographic, Audience
  <1>6. CASE Tick
    BY <1>6, AudienceAssumption DEF Tick, IInv, TypeOK, SavedAlone, NoDemographic
  <1>7. CASE UNCHANGED vars
    BY <1>7 DEF vars, IInv, TypeOK, SavedAlone, NoDemographic
  <1> QED
    BY <1>1, <1>2, <1>3, <1>4, <1>5, <1>6, <1>7 DEF Next

\* The invariant holds in every behaviour.
LEMMA Invariant == Spec => []IInv
  BY InitInv, NextInv, PTL DEF Spec

\* The poll, the profiles and the audience keep their types, whatever edits do.
THEOREM TypeCorrect == Spec => []TypeOK
  <1>1. IInv => TypeOK
    BY DEF IInv
  <1> QED
    BY <1>1, Invariant, PTL

-----------------------------------------------------------------------------
\* Born before now, nobody has an age above zero in the listing.
LEMMA ListedAgeNegative ==
    ASSUME IInv, NEW u \in Users, profile[u].birth # Nothing,
           profile[u].birth <= now
    PROVE  ListedAge(u) \in Int /\ ListedAge(u) <= 0
  <1>1. profile[u].birth \in Int /\ now \in Int
    BY AudienceAssumption DEF IInv, TypeOK, Profile
  <1>2. Lived(u) \in Nat
    BY <1>1 DEF Lived
  <1>3. Lived(u) \div Year \in Nat
    BY <1>2, AudienceAssumption
  <1> QED
    BY <1>2, <1>3 DEF ListedAge

\* Whoever may open a poll finds it in the listing, for every set of criteria,
\* values, profiles and ages: the SQL of the listing and the PHP of the check
\* agree in this direction but for mixed rules and lower age limits.
THEOREM ListingShows == Spec => []ListsTheVisible
  <1>1. IInv => ListsTheVisible
    <2> SUFFICES ASSUME IInv, ~Mixed, poll.demographic.min = Nothing,
                        NEW v \in Viewers, Born(v), IsVisibleTo(v)
                 PROVE  Listed(v)
      BY DEF ListsTheVisible
    <2>1. CASE ~poll.audience_only \/ (v # Guest /\ v = poll.creator)
      BY <2>1 DEF Listed
    <2>2. CASE v # Guest /\ IsInAudience(v)
      <3>1. v \in Users
        BY <2>2 DEF Viewers
      <3>2. CASE poll.demographic = NoDemographic
        <4>1. poll.allowed = {} \/ v \in poll.allowed
          BY <2>2 DEF IsInAudience, IInv, SavedAlone
        <4> QED
          BY <4>1, <3>2, <2>2, NoDemographicMet DEF Listed
      <3>3. CASE poll.demographic # NoDemographic
        <4>1. ~poll.saved /\ poll.allowed = {}
          BY <3>3 DEF Mixed, IInv, SavedAlone
        <4>2. MeetsAges(v) /\ MeetsRules(v)
          BY <4>1, <2>2 DEF IsInAudience
        <4>3. ListsAges(v)
          <5>1. ASSUME Ages # {}
                PROVE  /\ profile[v].birth # Nothing
                       /\ poll.demographic.max # Nothing
                            => poll.demographic.max >= ListedAge(v)
            <6>1. profile[v].birth # Nothing
              BY <5>1, <4>2 DEF MeetsAges
            <6>2. ListedAge(v) \in Int /\ ListedAge(v) <= 0
              BY <6>1, <3>1, <2>2, ListedAgeNegative DEF Born
            <6>3. poll.demographic.max \in Nat \cup {Nothing}
              BY DEF IInv, TypeOK, Poll, Demographic
            <6> QED
              BY <6>1, <6>2, <6>3
          <5> QED
            BY <5>1 DEF ListsAges
        <4> QED
          BY <4>1, <4>2, <4>3, <2>2 DEF Listed
      <3> QED
        BY <3>2, <3>3
    <2> QED
      BY <2>1, <2>2 DEF IsVisibleTo
  <1> QED
    BY <1>1, Invariant, PTL

\* Whatever the listing shows its reader may open: the other direction, but for
\* saved audiences and upper age limits alone.
THEOREM ListingHides == Spec => []HidesTheRest
  <1>1. IInv => HidesTheRest
    <2> SUFFICES ASSUME IInv, ~poll.saved,
                        poll.demographic.max # Nothing
                            => poll.demographic.min # Nothing,
                        NEW v \in Viewers, Born(v), Listed(v)
                 PROVE  IsVisibleTo(v)
      BY DEF HidesTheRest
    <2>1. CASE ~poll.audience_only \/ (v # Guest /\ v = poll.creator)
      BY <2>1 DEF IsVisibleTo
    <2>2. CASE /\ v # Guest
               /\ poll.allowed = {} \/ v \in poll.allowed
               /\ ListsAges(v)
               /\ MeetsRules(v)
      <3>1. v \in Users
        BY <2>2 DEF Viewers
      <3>2. Ages = {}
        <4> SUFFICES ASSUME Ages # {} PROVE FALSE
          OBVIOUS
        <4>1. poll.demographic.min # Nothing
          BY DEF Ages
        <4>2. profile[v].birth # Nothing /\ poll.demographic.min <= ListedAge(v)
          BY <4>1, <2>2 DEF ListsAges
        <4>3. ListedAge(v) \in Int /\ ListedAge(v) <= 0
          BY <4>2, <3>1, <2>2, ListedAgeNegative DEF Born
        <4>4. poll.demographic.min \in Nat \ {0}
          BY <4>1 DEF IInv, TypeOK, Poll, Demographic
        <4> QED
          BY <4>2, <4>3, <4>4
      <3>3. MeetsAges(v)
        BY <3>2 DEF MeetsAges
      <3> QED
        BY <3>3, <2>2 DEF IsVisibleTo, IsInAudience
    <2> QED
      BY <2>1, <2>2 DEF Listed
  <1> QED
    BY <1>1, Invariant, PTL

\* Users who are not the creator see of a poll without a saved audience exactly
\* whether they may vote in it.
THEOREM FlagTrue == Spec => []FlagIsGate
  <1>1. IInv => FlagIsGate
    <2> SUFFICES ASSUME IInv, ~poll.saved, NEW u \in Users \ {poll.creator}
                 PROVE  AudienceCheckFor(u) <=> IsInAudience(u)
      BY DEF FlagIsGate
    <2>1. u # Guest
      BY AudienceAssumption
    <2>2. CASE HasRules
      BY <2>1, <2>2 DEF AudienceCheckFor
    <2>3. CASE ~HasRules
      <3>1. poll.allowed = {} /\ Ages = {} /\ \A c \in Criteria : Rules(c) = {}
        BY <2>3 DEF HasRules
      <3>2. IsInAudience(u)
        BY <3>1 DEF IsInAudience, MeetsAges, MeetsRules
      <3> QED
        BY <3>2, <2>3 DEF AudienceCheckFor
    <2> QED
      BY <2>2, <2>3
  <1> QED
    BY <1>1, Invariant, PTL

-----------------------------------------------------------------------------
\* What a user may open depends on the poll, the audience, the time and that
\* user's own profile alone.
LEMMA VisibilityLocal ==
    ASSUME NEW u, UNCHANGED <<poll, audience, now>>, profile'[u] = profile[u]
    PROVE  IsVisibleTo(u)' <=> IsVisibleTo(u)
  <1>1. Ages' = Ages /\ \A c : Rules(c)' = Rules(c)
    BY DEF Ages, Rules
  <1>2. Lived(u)' = Lived(u)
    BY DEF Lived
  <1>3. MeetsAges(u)' <=> MeetsAges(u)
    BY <1>1, <1>2 DEF MeetsAges
  <1>4. MeetsRules(u)' <=> MeetsRules(u)
    BY <1>1 DEF MeetsRules
  <1> QED
    BY <1>3, <1>4 DEF IsVisibleTo, IsInAudience

\* No edit of the poll shuts out anyone who has voted in it.
THEOREM VotersKept == Spec => EditsShutNobodyOut
  <1> DEFINE Kept ==
        \A u \in voters :
          IsVisibleTo(u) /\ ~IsVisibleTo(u)'
              => \/ profile'[u] # profile[u]
                 \/ audience' # audience
                 \/ now' # now
  <1>1. [Next]_vars => [Kept]_vars
    <2> SUFFICES ASSUME [Next]_vars, NEW u \in voters, IsVisibleTo(u),
                        ~IsVisibleTo(u)', profile'[u] = profile[u],
                        audience' = audience, now' = now
                 PROVE  FALSE
      OBVIOUS
    <2>1. poll' # poll
      BY VisibilityLocal
    <2>2. PICK only \in BOOLEAN \cup {Unsent},
               attach \in {"unsent", "attach", "detach"},
               d \in Demographics \cup {Unsent} : Edit(only, attach, d)
      BY <2>1 DEF Next, Vote, UpdateProfile, EditEntries, DeleteAudience, Tick, vars
    <2> QED
      BY <2>2 DEF Edit, Editable
  <1> QED
    BY <1>1, PTL DEF Spec, EditsShutNobodyOut

=============================================================================
