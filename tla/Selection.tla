----------------------------- MODULE Selection ------------------------------
(***************************************************************************)
(* Choosing an update (update/selection.rs): select_applicable goes        *)
(* through a catalog of manifests in the order it was given and returns    *)
(* the release, asset and compatibility to offer, or why there is none.    *)
(* The catalog is any sequence of manifests that parse_manifest accepts.   *)
(***************************************************************************)
EXTENDS Manifest

CONSTANTS Manifests,   \* manifests that may be published, sound or not
          Inputs,      \* hosts and policies that may ask
          MaxCatalog   \* bound: length of the catalog

SelectionInput ==
    [os : TargetOperatingSystem, arch : STRING, codex : Nat, surface : STRING,
     mode : {"automatic", "strict"}, installed : StableVersion,
     runtime : [kind : TargetOperatingSystem \cup {"unknown"}, numbers : Seq(Nat)]]

ASSUME SelectionAssumption ==
    Manifests \subseteq ReleaseManifest /\ Inputs \subseteq SelectionInput

VARIABLES catalog, input, outcome

offerVars == <<catalog, input, outcome>>
Nothing == [found |-> FALSE, reason |-> "none", reasons |-> {}, release |-> <<>>,
            minimum |-> <<>>, status |-> "none"]
Because(reason) == [Nothing EXCEPT !.reason = reason]

Elements(s) == {s[i] : i \in DOMAIN s}
Least(s) == CHOOSE i \in s : \A j \in s : i <= j

\* Checks are made in order: the first that holds gives the reason.
FirstReason(checks) ==
    LET holds == {i \in DOMAIN checks : checks[i][1]}
    IN  IF holds = {} THEN "none" ELSE checks[Least(holds)][2]

\* Versions and runtimes are compared number by number.
Before(a, b) ==
    \E i \in DOMAIN a : a[i] < b[i] /\ \A j \in 1 .. i - 1 : a[j] = b[j]
AtMost(a, b) == a = b \/ Before(a, b)
-----------------------------------------------------------------------------
\* runtime_meets, before the numbers are compared.
Runtime(in) ==
    FirstReason(<< <<in.runtime.kind = "unknown", "UnknownRuntime">>,
                   <<in.runtime.kind # in.os, "UnsupportedRuntime">>,
                   <<in.runtime.kind = "windows" /\ in.runtime.numbers[3] \notin {1, 2},
                     "UnknownRuntime">> >>)

Meets(in, asset) == Runtime(in) = "none" /\ AtMost(Numbers(asset.minimum), in.runtime.numbers)

\* The most demanding floors.
Highest(assets) ==
    {a \in assets : \A b \in assets : AtMost(Numbers(b.minimum), Numbers(a.minimum))}

\* select_asset: the platform, the architecture, the runtime, in this order.
SelectAsset(manifest, in) ==
    LET platform == {a \in Elements(manifest.assets) : a.os = in.os}
        machine  == {a \in platform : a.arch = in.arch}
        parsed   == {a \in machine : ParsesMinimum(a)}
        fits     == {a \in parsed : Meets(in, a)}
        reason   == FirstReason(
            << <<platform = {}, "UnsupportedPlatform">>,
               <<machine = {}, "UnsupportedArchitecture">>,
               <<parsed # {} /\ Runtime(in) # "none", Runtime(in)>>,
               <<fits = {} /\ parsed # machine, "MalformedRuntimeRequirement">>,
               <<fits = {}, "RuntimeBelowMinimum">>,
               <<Cardinality(Highest(fits)) > 1, "AmbiguousAsset">> >>)
    IN  IF reason # "none" THEN Because(reason)
        ELSE [Nothing EXCEPT !.found = TRUE,
                             !.minimum = CHOOSE m \in {Numbers(a.minimum) : a \in Highest(fits)} : TRUE]

\* tuple_matches, which does not look at the hook fields.
Matches(tuple, in) ==
    /\ tuple.codex = in.codex /\ tuple.os = in.os /\ tuple.surface = in.surface
    /\ tuple.arch = "x86_64" /\ in.arch = "x86_64"

\* select_compatibility: an exclusion wins, then there must be one verdict.
SelectCompatibility(manifest, in) ==
    LET matching == {i \in DOMAIN manifest.records : Matches(manifest.records[i].tuple, in)}
        status == {manifest.records[i].status : i \in matching}
        reason == FirstReason(
            << <<"excluded" \in status, "CompatibilityExcluded">>,
               <<matching = {}, "CompatibilityUnavailable">>,
               <<Cardinality(matching) > 1, "AmbiguousCompatibility">>,
               <<status = {"experimental"} /\ in.mode # "automatic", "StrictRequiresReviewed">> >>)
    IN  IF reason # "none" THEN Because(reason)
        ELSE [Nothing EXCEPT !.found = TRUE, !.status = CHOOSE s \in status : TRUE]

\* One candidate of select_applicable's loop.
Candidate(manifest, in) ==
    LET asset == SelectAsset(manifest, in)
        compatibility == SelectCompatibility(manifest, in)
    IN  IF AtMost(manifest.version, in.installed) THEN Because("NotNewerThanInstalled")
        ELSE IF ~asset.found THEN asset
        ELSE IF ~compatibility.found THEN compatibility
        ELSE [asset EXCEPT !.release = manifest.version, !.status = compatibility.status]

\* validate_manifest_ambiguity: the selector's own identities, which also
\* name the libc.
ManifestAmbiguity(manifest) ==
    LET names == [i \in DOMAIN manifest.assets |-> manifest.assets[i].name]
        identities == [i \in DOMAIN manifest.assets |->
            <<AssetIdentity(manifest.assets[i]), manifest.assets[i].libc>>]
    IN  FirstReason(
            << <<~(Distinct(names) /\ Distinct(identities)), "ConflictingAssetIdentity">>,
               <<~DistinctRecords(manifest), "AmbiguousCompatibility">> >>)

\* validate_catalog_ambiguity: the first defect in catalog order.
Ambiguity(manifests) ==
    LET repeated(i) == \E j \in 1 .. i - 1 : manifests[j].version = manifests[i].version
    IN  FirstReason([i \in DOMAIN manifests |->
            <<repeated(i) \/ ManifestAmbiguity(manifests[i]) # "none",
              IF repeated(i) THEN "DuplicateReleaseVersion"
                             ELSE ManifestAmbiguity(manifests[i])>>])

\* The candidates that may be offered.
Selected(results) == {r \in Elements(results) : r.found}

\* Mutant: the last applicable candidate wins.
NewestLast(results) ==
    results[CHOOSE i \in DOMAIN results :
                results[i].found /\ \A j \in DOMAIN results : j > i => ~results[j].found]

\* The greatest version, by number.
Newest(results) ==
    CHOOSE c \in Selected(results) :
        \A d \in Selected(results) : AtMost(d.release, c.release)

SelectApplicable(manifests, in) ==
    LET results == [i \in DOMAIN manifests |-> Candidate(manifests[i], in)]
    IN  IF manifests = <<>> THEN Because("EmptyCatalog")
        ELSE IF Ambiguity(manifests) # "none" THEN Because(Ambiguity(manifests))
        ELSE IF Selected(results) = {}
        THEN [Because("NoApplicable") EXCEPT !.reasons = {r.reason : r \in Elements(results)}]
        ELSE Newest(results)
-----------------------------------------------------------------------------
OfferInit == catalog = <<>> /\ input \in Inputs /\ outcome = Nothing

Publish(manifest) ==
    /\ Len(catalog) < MaxCatalog
    /\ ParseManifest(manifest)
    /\ catalog' = Append(catalog, manifest)
    /\ outcome' = Nothing /\ UNCHANGED input

Select == outcome' = SelectApplicable(catalog, input) /\ UNCHANGED <<catalog, input>>

OfferNext == (\E m \in Manifests : Publish(m)) \/ Select

OfferSpec == OfferInit /\ [][OfferNext]_offerVars
-----------------------------------------------------------------------------
\* What a release offers this host, without regard to any order: floors the
\* host meets, and the verdict of the only record for the host's tuple.
Fits(manifest) ==
    {Numbers(a.minimum) : a \in {b \in Elements(manifest.assets) :
        b.os = input.os /\ b.arch = input.arch /\ AtMost(Numbers(b.minimum), input.runtime.numbers)}}
Verdicts(manifest) ==
    {r.status : r \in {s \in Elements(manifest.records) : Matches(s.tuple, input)}}
Applicable ==
    {m \in Elements(catalog) :
        /\ Before(input.installed, m.version)
        /\ Runtime(input) = "none" /\ Fits(m) # {}
        /\ Verdicts(m) \in {{"reviewed"}} \cup
             (IF input.mode = "automatic" THEN {{"experimental"}} ELSE {})}

\* "Numeric newest, not input order": whenever something applicable is in the
\* catalog, in whatever order and beside whatever else, the newest of it is
\* offered, with the most demanding floor the host meets and a verdict the
\* policy admits; otherwise nothing is (select_applicable).
SelectionIsBest ==
    outcome # Nothing /\ outcome.reason # "DuplicateReleaseVersion" =>
        /\ outcome.found <=> Applicable # {}
        /\ outcome.found => \E m \in Applicable :
              /\ outcome.release = m.version /\ Verdicts(m) = {outcome.status}
              /\ outcome.minimum \in Fits(m)
              /\ \A n \in Fits(m) : AtMost(n, outcome.minimum)
              /\ \A other \in Applicable : AtMost(other.version, m.version)

\* The selector's second look finds nothing in manifests the parser accepted:
\* no accepted text has a floor that cannot be read, or two assets or records
\* that are equal to the selector but not to the parser, so no accepted
\* release can block a host by being ambiguous (validate_manifest against
\* validate_catalog_ambiguity and select_asset).
ValidatedIsUnambiguous ==
    /\ outcome.reason \notin {"ConflictingAssetIdentity", "AmbiguousAsset",
                              "AmbiguousCompatibility", "MalformedRuntimeRequirement"}
    /\ outcome.reason = "NoApplicable" =>
         {"AmbiguousAsset", "AmbiguousCompatibility", "MalformedRuntimeRequirement"}
            \cap outcome.reasons = {}
=============================================================================
