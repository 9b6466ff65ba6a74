------------------------------ MODULE Manifest ------------------------------
(***************************************************************************)
(* The release manifest (update/manifest.rs): what parse_manifest accepts. *)
(*                                                                         *)
(* A manifest is what its JSON decodes to.  Versions are triples of        *)
(* numbers.  A runtime floor keeps its text: a prefix and its numbers as   *)
(* written, since two spellings of a number are two identities.  Strings   *)
(* no decision looks into (notes, URLs, provenance) are sound or not, and  *)
(* the five hook fields of a tuple are one, of which one value is known.   *)
(***************************************************************************)
EXTENDS Naturals, Sequences, FiniteSets

CONSTANTS MaxAssets, MaxRecords   \* MAX_ASSET_COUNT, ..._RECORD_COUNT

StableVersion == [1 .. 3 -> Nat]
TargetOperatingSystem == {"linux", "windows"}
Token == [value : Nat, leadingZero : BOOLEAN]
ReleaseAsset ==
    [name : STRING, os : TargetOperatingSystem, arch : STRING, libc : {"none", "glibc"},
     format : {"zip", "tar-gz"}, sound : BOOLEAN,
     minimum : [prefix : STRING, tokens : Seq(Token)]]
CompatibilityRecord ==
    [tuple : [codex : Nat, os : STRING, arch : STRING, surface : STRING, hook : STRING],
     status : {"reviewed", "experimental", "excluded"}, sound : BOOLEAN]
ReleaseManifest ==
    [sound : BOOLEAN, schema : Nat, version : StableVersion,
     assets : Seq(ReleaseAsset), records : Seq(CompatibilityRecord)]

\* Mutant: a leading zero is not looked for.
DecimalAnyZero(token) == TRUE

\* parse_decimal_u16 and _u8: one spelling for each number.
Decimal(token) == ~token.leadingZero

Numbers(minimum) == [i \in DOMAIN minimum.tokens |-> minimum.tokens[i].value]

\* parse_runtime_minimum: windows-<major>-<yy>h<half> without a libc, or
\* glibc-<major>.<minor> with glibc.
ParsesMinimum(asset) ==
    LET m == asset.minimum
    IN  /\ \A i \in DOMAIN m.tokens : Decimal(m.tokens[i])
        /\ \/ /\ asset.os = "windows" /\ asset.libc = "none"
              /\ m.prefix = "windows" /\ Len(m.tokens) = 3 /\ m.tokens[3].value \in {1, 2}
           \/ /\ asset.os = "linux" /\ asset.libc = "glibc"
              /\ m.prefix = "glibc" /\ Len(m.tokens) = 2

\* validate_asset, validate_runtime: a libc is named exactly on Linux.
ValidAsset(asset) ==
    /\ asset.sound                  \* name, length, origin, provenance
    /\ ParsesMinimum(asset)
    /\ \/ asset.os = "windows" /\ asset.format = "zip" /\ asset.libc = "none"
       \/ asset.os = "linux" /\ asset.format = "tar-gz" /\ asset.libc = "glibc"

\* validate_compatibility: one hook, tool and response schema is known.
ValidRecord(record) == record.sound /\ record.tuple.hook = "known"

AssetIdentity(asset) == <<asset.os, asset.arch, asset.minimum, asset.format>>

Distinct(keys) == \A i, j \in DOMAIN keys : keys[i] = keys[j] => i = j

DistinctAssets(manifest) ==
    LET assets == manifest.assets
    IN  /\ Distinct([i \in DOMAIN assets |-> assets[i].name])
        /\ Distinct([i \in DOMAIN assets |-> AssetIdentity(assets[i])])

\* compatibility_identity: one verdict for each tuple, its hook fields included.
DistinctRecords(manifest) ==
    Distinct([i \in DOMAIN manifest.records |-> manifest.records[i].tuple])

\* parse_manifest: small, no duplicate key, decodable, then validate_manifest.
ParseManifest(manifest) ==
    /\ manifest.sound               \* size, keys, types, target name, notes
    /\ manifest.schema = 1
    /\ Len(manifest.assets) \in 1 .. MaxAssets
    /\ Len(manifest.records) \in 1 .. MaxRecords
    /\ \A i \in DOMAIN manifest.assets : ValidAsset(manifest.assets[i])
    /\ DistinctAssets(manifest)
    /\ \A i \in DOMAIN manifest.records : ValidRecord(manifest.records[i])
    /\ DistinctRecords(manifest)
=============================================================================
