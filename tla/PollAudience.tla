---------------------------- MODULE PollAudience ----------------------------
(***************************************************************************)
(* Who a poll is for.  Three pieces of code answer from the same rules:    *)
(* the SQL of the listing (Poll::scopeVisibleTo), the check of a poll that *)
(* is opened (Poll::isVisibleTo), and the flag shown with it               *)
(* (Poll::audienceCheckFor); the gate of a vote (User::isInAudience) is    *)
(* what all three announce.  The module states each one and changes        *)
(* underneath them all they depend on: the poll's rules, the profiles, the *)
(* saved audience, and the time, by which people grow older.               *)
(*                                                                         *)
(* An edit is one step here; its interleaving with votes is the subject of *)
(* PollVoting.                                                             *)
(***************************************************************************)
EXTENDS Integers

CONSTANTS
    Users,
    Guest,          \* a visitor who is not signed in
    Criteria,       \* gender, country, ... : the demographic questions
    Values,         \* their answers
    Nothing,        \* null: an answer, a birth date or a limit not given
    Unsent,         \* a field absent from an update
    Year,           \* units of time in a year
    DefaultMin,     \* the ages that clients send for "any age"
    DefaultMax,
    Demographics,   \* demographic audiences clients send in a run
    Profiles,       \* profiles users have in a run
    Horizon         \* bound on the time of a run

Answers == [Criteria -> Values \cup {Nothing}]
Profile == [birth : Int \cup {Nothing}, answers : Answers]
Demographic == [min : (Nat \ {0}) \cup {Nothing}, max : Nat \cup {Nothing},
                rules : [Criteria -> SUBSET Values]]

ASSUME AudienceAssumption ==
    /\ Guest \notin Users \cup {Nothing}
    /\ Nothing \notin Users \cup Values \cup Int
    /\ Unsent \notin BOOLEAN \cup Demographics
    /\ Year \in Nat \ {0}
    /\ DefaultMin \in Nat
    /\ DefaultMax \in Nat
    /\ Demographics \subseteq Demographic
    /\ Profiles \subseteq Profile
    /\ Horizon \in Nat

VARIABLES
    now,
    poll,       \* the poll with its rules, as polls and poll_audience_rules keep them
    profile,    \* the columns of each user that the rules are about
    audience,   \* the saved audience of the poll's creator
    voters      \* who voted

vars == <<now, poll, profile, audience, voters>>

-----------------------------------------------------------------------------
(***************************************************************************)
(* Tables.  "allowed" are the users an allowed_voter rule names and        *)
(* "members" those an entry of the saved audience identifies.              *)
(***************************************************************************)
Poll == [creator : Users \cup {Nothing}, audience_only : BOOLEAN,
         saved : BOOLEAN, allowed : SUBSET Users, demographic : Demographic]

Audience == [live : BOOLEAN, members : SUBSET Users]

NoDemographic ==
    [min |-> Nothing, max |-> Nothing, rules |-> [c \in Criteria |-> {}]]

\* insertAudienceRules: the default limits mean none and are not stored.
Stored(d) == [d EXCEPT !.min = IF @ = DefaultMin THEN Nothing ELSE @,
                       !.max = IF @ = DefaultMax THEN Nothing ELSE @]

TypeOK ==
    /\ now \in 0..Horizon
    /\ poll \in Poll
    /\ profile \in [Users -> Profile]
    /\ audience \in Audience
    /\ voters \subseteq Users

-----------------------------------------------------------------------------
(***************************************************************************)
(* The gate: User::isInAudience                                            *)
(***************************************************************************)
Ages == {poll.demographic.min, poll.demographic.max} \ {Nothing}
Rules(c) == poll.demographic.rules[c]

\* Time lived, which the gate compares with fractions of a year and all.
Lived(u) == now - profile[u].birth

MeetsAges(u) ==
    Ages # {} =>
        /\ profile[u].birth # Nothing
        /\ poll.demographic.min # Nothing => Lived(u) >= poll.demographic.min * Year
        /\ poll.demographic.max # Nothing => Lived(u) <= poll.demographic.max * Year

MeetsRules_KnownOnly(u) ==
    \A c \in Criteria :
        Rules(c) # {} /\ profile[u].answers[c] # Nothing
            => profile[u].answers[c] \in Rules(c)
MeetsRules(u) ==
    \A c \in Criteria : Rules(c) # {} => profile[u].answers[c] \in Rules(c)

\* A saved audience decides alone, then a list of allowed voters.
IsInAudience(u) ==
    \/ poll.saved /\ audience.live /\ u \in audience.members
    \/ ~poll.saved /\ poll.allowed # {} /\ u \in poll.allowed
    \/ ~poll.saved /\ poll.allowed = {} /\ MeetsAges(u) /\ MeetsRules(u)

-----------------------------------------------------------------------------
(***************************************************************************)
(* What viewers, guests included, are shown                                *)
(***************************************************************************)
Viewers == Users \cup {Guest}

\* Poll::isVisibleTo
IsVisibleTo(v) ==
    \/ ~poll.audience_only
    \/ v # Guest /\ v = poll.creator
    \/ v # Guest /\ IsInAudience(v)

HasRules == poll.allowed # {} \/ Ages # {} \/ \E c \in Criteria : Rules(c) # {}

\* Poll::audienceCheckFor, which looks at the rules and not at audience_id
AudienceCheckFor_RulesOnly(v) == v # Guest /\ MeetsAges(v) /\ MeetsRules(v)
AudienceCheckFor(v) ==
    \/ ~HasRules
    \/ v # Guest /\ v = poll.creator
    \/ v # Guest /\ IsInAudience(v)

\* (int) now()->diffInYears(birth_date): signed, so negative for the past,
\* and cut towards zero.
ListedAge(u) ==
    IF Lived(u) >= 0 THEN -(Lived(u) \div Year) ELSE (-Lived(u)) \div Year

ListsAges_MaxOnly(u) ==
    Ages # {} =>
        /\ profile[u].birth # Nothing
        /\ poll.demographic.max # Nothing => poll.demographic.max >= ListedAge(u)
ListsAges(u) ==
    Ages # {} =>
        /\ profile[u].birth # Nothing
        /\ poll.demographic.min # Nothing => poll.demographic.min <= ListedAge(u)
        /\ poll.demographic.max # Nothing => poll.demographic.max >= ListedAge(u)

\* Poll::scopeVisibleTo, which asks for the allowed voters and the rest
Listed_OwnerByRules(v) ==
    \/ ~poll.audience_only
    \/ /\ v # Guest
       /\ poll.allowed = {} \/ v \in poll.allowed
       /\ ListsAges(v)
       /\ MeetsRules(v)
Listed(v) ==
    \/ ~poll.audience_only
    \/ v # Guest /\ v = poll.creator
    \/ /\ v # Guest
       /\ poll.allowed = {} \/ v \in poll.allowed
       /\ ListsAges(v)
       /\ MeetsRules(v)

-----------------------------------------------------------------------------
\* A poll of the old kind has allowed voters, one of the new kind has not.
Init ==
    /\ now = 0
    /\ poll \in
          [creator : Users \cup {Nothing}, audience_only : BOOLEAN, saved : {TRUE},
           allowed : {{}}, demographic : {NoDemographic}]
          \cup [creator : Users \cup {Nothing}, audience_only : BOOLEAN,
                saved : {FALSE}, allowed : SUBSET Users,
                demographic : {NoDemographic}]
          \cup [creator : Users \cup {Nothing}, audience_only : BOOLEAN,
                saved : {FALSE}, allowed : {{}},
                demographic : {Stored(d) : d \in Demographics}]
    /\ profile \in [Users -> Profiles]
    /\ audience \in [live : {TRUE}, members : SUBSET Users]
    /\ voters = {}

(***************************************************************************)
(* updatePoll.  The rules are rebuilt when a criterion or the audience is  *)
(* sent: none with a saved audience, otherwise the criteria sent, with the *)
(* allowed voters kept.                                                    *)
(***************************************************************************)
HasValue(d) == d \notin {Unsent, NoDemographic}

Editable_AfterVotes == TRUE
Editable == voters = {}

Edit(only, attach, d) ==
    /\ Editable
    /\ HasValue(d) => attach # "attach" /\ (poll.saved => attach = "detach")
    /\ attach = "attach" => audience.live
    /\ LET saved == (poll.saved \/ attach = "attach") /\ attach # "detach"
           rebuilt == attach # "unsent" \/ d # Unsent
           inline == ~saved /\ d # Unsent
       IN  poll' = [poll EXCEPT
              !.audience_only = IF only = Unsent THEN @ ELSE only,
              !.saved = saved,
              !.allowed = IF rebuilt /\ saved THEN {} ELSE @,
              !.demographic = IF ~rebuilt THEN @
                              ELSE IF inline THEN Stored(d) ELSE NoDemographic]
    /\ UNCHANGED <<now, profile, audience, voters>>

Vote(u) ==
    /\ u \notin voters
    /\ IsInAudience(u)
    /\ voters' = voters \cup {u}
    /\ UNCHANGED <<now, poll, profile, audience>>

\* updateBasicInfo and updateCensusData
UpdateProfile(u) ==
    /\ \E p \in Profiles : profile' = [profile EXCEPT ![u] = p]
    /\ UNCHANGED <<now, poll, audience, voters>>

EditEntries ==
    /\ audience.live
    /\ \E us \in SUBSET Users : audience' = [audience EXCEPT !.members = us]
    /\ UNCHANGED <<now, poll, profile, voters>>

\* Refused while an active poll refers to it.  Whether this poll is active
\* depends on dates that are not modelled here, so it may happen or not.
DeleteAudience ==
    /\ audience.live
    /\ audience' = [audience EXCEPT !.live = FALSE]
    /\ UNCHANGED <<now, poll, profile, voters>>

Tick ==
    /\ now < Horizon
    /\ now' = now + 1
    /\ UNCHANGED <<poll, profile, audience, voters>>

Next ==
    \/ \E only \in BOOLEAN \cup {Unsent}, attach \in {"unsent", "attach", "detach"},
          d \in Demographics \cup {Unsent} : Edit(only, attach, d)
    \/ \E u \in Users : Vote(u) \/ UpdateProfile(u)
    \/ EditEntries
    \/ DeleteAudience
    \/ Tick

Spec == Init /\ [][Next]_vars

-----------------------------------------------------------------------------
(***************************************************************************)
(* What should hold                                                        *)
(***************************************************************************)
\* Both mechanisms of old and new polls at once: the gate then asks for the
\* allowed voters alone, the listing for them and for the criteria.
Mixed == poll.allowed # {} /\ poll.demographic # NoDemographic

Born(v) == v # Guest /\ profile[v].birth # Nothing => profile[v].birth <= now

\* The listing shows every poll its reader may open, for polls with neither
\* mixed rules nor a lower age limit, with which the listing, for which ages
\* are negative, shows too little.
ListsTheVisible ==
    ~Mixed /\ poll.demographic.min = Nothing
        => \A v \in Viewers : Born(v) /\ IsVisibleTo(v) => Listed(v)

\* The listing hides every poll its reader may not open, for polls without a
\* saved audience, of which the listing knows nothing, and without an upper
\* age limit alone, which a negative age always meets.
HidesTheRest ==
    ~poll.saved /\ (poll.demographic.max # Nothing => poll.demographic.min # Nothing)
        => \A v \in Viewers : Born(v) /\ Listed(v) => IsVisibleTo(v)

\* A user is shown as in the audience exactly when a vote of theirs would pass
\* the gate.  Not so the creator, who is always shown as in it, nor anyone
\* with a saved audience, where everyone is.
FlagIsGate ==
    ~poll.saved =>
        \A u \in Users \ {poll.creator} : AudienceCheckFor(u) <=> IsInAudience(u)

\* Nobody who voted in a poll is shut out of it by an edit: only by a change
\* of their own profile or of the audience's entries, or by growing older.
EditsShutNobodyOut ==
    [][\A u \in voters :
          IsVisibleTo(u) /\ ~IsVisibleTo(u)'
              => \/ profile'[u] # profile[u]
                 \/ audience' # audience
                 \/ now' # now]_vars

=============================================================================
