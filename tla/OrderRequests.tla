--------------------------- MODULE OrderRequests ---------------------------
(***************************************************************************)
(* AddOrder of the api gateway, for the calls that carry one request id:   *)
(* who claims the placeholder idempotent:<id> in Redis submits a saga under *)
(* a gid of its own and leaves the gid in order:mapping:<id>; the others    *)
(* are answered that gid, or that the request is being or was processed.    *)
(* A gid is named by the call it was generated for.                         *)
(***************************************************************************)
EXTENDS Integers, FiniteSets

CONSTANTS
    Askers,      \* the calls
    Malformed,   \* those whose request fails the validation
    NoAsker,
    MaxTroubles  \* bound: failed or unanswered calls to Redis and DTM, crashes

ASSUME RequestAssumption ==
    /\ IsFiniteSet(Askers) /\ Malformed \subseteq Askers /\ NoAsker \notin Askers
    /\ MaxTroubles \in Nat

VARIABLES
    placeholder, \* who set idempotent:<id>, NoAsker if it is not set
    mapping,     \* the gid in order:mapping:<id>
    place,       \* per call: where it is, or how it ended
    answer,      \* per call: the gid it was answered
    submitted,   \* the gids of which DTM has a saga
    unsure,      \* history: those of which AddOrder was told otherwise
    orphaned,    \* history: calls that ended without a saga or a release
    lapsed,      \* history: the placeholder has expired
    troubles     \* how often something failed

requestVars == <<placeholder, mapping, place, answer, submitted, unsure, orphaned,
                 lapsed, troubles>>

UnderWay == {"claimed", "valid", "failed", "accepted"}
Ended == {"done", "told", "busy", "invalid", "error", "dead"}

RequestTypeOK ==
    /\ placeholder \in Askers \cup {NoAsker} /\ mapping \in Askers \cup {NoAsker}
    /\ place \in [Askers -> {"new", "taken"} \cup UnderWay \cup Ended]
    /\ answer \in [Askers -> Askers \cup {NoAsker}]
    /\ \A c \in Askers : answer[c] # NoAsker <=> place[c] \in {"done", "told"}
    /\ submitted \subseteq Askers /\ unsure \subseteq submitted
    /\ orphaned \subseteq Askers /\ orphaned \cap submitted \subseteq unsure
    /\ lapsed \in BOOLEAN /\ troubles \in 0 .. MaxTroubles

RequestInit ==
    /\ placeholder = NoAsker /\ mapping = NoAsker
    /\ place = [c \in Askers |-> "new"] /\ answer = [c \in Askers |-> NoAsker]
    /\ submitted = {} /\ unsure = {} /\ orphaned = {}
    /\ lapsed = FALSE /\ troubles = 0

Go(c, p) == place' = [place EXCEPT ![c] = p]
Reply(c, g) == answer' = [answer EXCEPT ![c] = g]
Trouble == troubles < MaxTroubles /\ troubles' = troubles + 1

\* Mutant: the placeholder is read and written, but not compared.
FreeAlways == TRUE

\* SETNX finds no placeholder.
Free == placeholder = NoAsker

\* The placeholder is set. Without the answer the client asks again and is
\* told that it is there, or gives up: nobody will release it.
Claim(c) ==
    /\ place[c] = "new" /\ Free
    /\ placeholder' = c
    /\ \/ Go(c, "claimed") /\ UNCHANGED <<orphaned, troubles>>
       \/ /\ Trouble /\ orphaned' = orphaned \cup {c}
          /\ Go(c, "taken") \/ Go(c, "error")
    /\ UNCHANGED <<mapping, answer, submitted, unsure, lapsed>>

ClaimRefused(c) ==
    /\ place[c] = "new"
    /\ \/ ~Free /\ Go(c, "taken") /\ UNCHANGED troubles
       \/ Trouble /\ Go(c, "error")
    /\ UNCHANGED <<placeholder, mapping, answer, submitted, unsure, orphaned, lapsed>>

\* There is a gid under order:mapping:<id>.
Mapped == mapping # NoAsker

\* The gid the caller is told.
GidKnown(c) == mapping

LookUp(c) ==
    /\ place[c] = "taken"
    /\ \/ Mapped /\ Go(c, "told") /\ Reply(c, GidKnown(c)) /\ UNCHANGED troubles
       \/ ~Mapped /\ Go(c, "busy") /\ UNCHANGED <<answer, troubles>>
       \/ Mapped /\ Trouble /\ Go(c, "busy") /\ UNCHANGED answer
    /\ UNCHANGED <<placeholder, mapping, submitted, unsure, orphaned, lapsed>>

\* A malformed request is refused and its placeholder stays.
Validate(c) ==
    /\ place[c] = "claimed"
    /\ Go(c, IF c \in Malformed THEN "invalid" ELSE "valid")
    /\ orphaned' = orphaned \cup ({c} \cap Malformed)
    /\ UNCHANGED <<placeholder, mapping, answer, submitted, unsure, lapsed, troubles>>

\* Submit is told of an error although DTM may have taken the saga.
Submit(c) ==
    /\ place[c] = "valid"
    /\ \/ /\ Go(c, "accepted") /\ submitted' = submitted \cup {c}
          /\ UNCHANGED <<unsure, troubles>>
       \/ /\ Trouble /\ Go(c, "failed")
          /\ \/ submitted' = submitted \cup {c} /\ unsure' = unsure \cup {c}
             \/ UNCHANGED <<submitted, unsure>>
    /\ UNCHANGED <<placeholder, mapping, answer, orphaned, lapsed>>

\* Mutant: the placeholder is not released.
ReleasedNot == placeholder

\* DEL removes the placeholder, whoever set it.
Released == NoAsker

Release(c) ==
    /\ place[c] = "failed" /\ Go(c, "error")
    /\ \/ placeholder' = Released /\ UNCHANGED <<orphaned, troubles>>
       \/ Trouble /\ orphaned' = orphaned \cup {c} /\ UNCHANGED placeholder
    /\ UNCHANGED <<mapping, answer, submitted, unsure, lapsed>>

\* The mapping is written, or is not and the caller gets its gid all the same.
Remember(c) ==
    /\ place[c] = "accepted" /\ Go(c, "done") /\ Reply(c, c)
    /\ \/ mapping' = c /\ UNCHANGED troubles
       \/ Trouble /\ UNCHANGED mapping
    /\ UNCHANGED <<placeholder, submitted, unsure, orphaned, lapsed>>

\* The process dies, or MustGenGid panics: nobody releases the placeholder.
AskerDies(c) ==
    /\ place[c] \in {"taken"} \cup UnderWay /\ Trouble /\ Go(c, "dead")
    /\ orphaned' = IF place[c] \in {"claimed", "valid", "failed"}
                     THEN orphaned \cup {c} ELSE orphaned
    /\ UNCHANGED <<placeholder, mapping, answer, submitted, unsure, lapsed>>

\* Both keys live for a day; the mapping of a call outlives its placeholder.
PlaceholderLapses ==
    /\ placeholder # NoAsker
    /\ placeholder' = NoAsker /\ lapsed' = TRUE
    /\ UNCHANGED <<mapping, place, answer, submitted, unsure, orphaned, troubles>>

MappingLapses ==
    /\ mapping \notin {NoAsker, placeholder}
    /\ mapping' = NoAsker
    /\ UNCHANGED <<placeholder, place, answer, submitted, unsure, orphaned, lapsed, troubles>>

RequestNext ==
    \/ \E c \in Askers :
         \/ Claim(c) \/ ClaimRefused(c) \/ LookUp(c) \/ Validate(c) \/ Submit(c)
         \/ Release(c) \/ Remember(c) \/ AskerDies(c)
    \/ PlaceholderLapses \/ MappingLapses

RequestSpec == RequestInit /\ [][RequestNext]_requestVars

\* While its placeholder has not expired, one request id leads to one order at
\* most, but for sagas that DTM took while AddOrder was told they failed.
OneSagaPerRequest == ~lapsed => Cardinality(submitted \ unsure) <= 1

\* Whoever is told a gid is told that of a submitted saga, and all who ask
\* before the placeholder expires are told the same.
GidNamesSaga ==
    \A c \in Askers : answer[c] # NoAsker =>
        /\ answer[c] \in submitted
        /\ ~lapsed => \A d \in Askers : answer[d] \in {NoAsker, answer[c]}

\* One request id is one order, for DTM and for everyone who asks.
OneOrderPerRequest == OneSagaPerRequest /\ GidNamesSaga

\* A caller turned away with "being processed or processed" meets a saga or a
\* call on its way to one, unless the call that holds the placeholder was
\* refused as malformed, died, or lost touch with Redis.
PlaceholderTruthful ==
    placeholder # NoAsker =>
        \/ place[placeholder] \in UnderWay
        \/ placeholder \in submitted \cup orphaned

=============================================================================
