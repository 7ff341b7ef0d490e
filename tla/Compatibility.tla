--------------------------- MODULE Compatibility ---------------------------
(***************************************************************************)
(* The compatibility checks (internal/compatibility, internal/invoke): the *)
(* Codex binary and the invocation service are compared with the           *)
(* requirements of the driver's manifest, and the first mismatch is what   *)
(* the diagnostic code names.  With them, what doctor and run ask of the   *)
(* install record and of the daemon (cmd/driver, internal/control).        *)
(*                                                                         *)
(* A version is a record: "v" and a number, a bare number, or odd.  Feature *)
(* names, routes, files, methods and digests are plain values; "odd" is    *)
(* one of no digest's form, a blank name, or an absolute path.  What keeps *)
(* the driver itself from checking, such as a full disk, is left out.      *)
(***************************************************************************)
EXTENDS Integers, Sequences, FiniteSets, SequencesExt, FiniteSetsExt

VersionNumber(version) == version.number
Odd(version) == version.form = "odd"

\* Verify and its parts stop at the first check that fails: <<holds, code>>.
FirstFailure(checks) ==
    LET failed == {i \in DOMAIN checks : ~checks[i][1]}
    IN IF failed = {} THEN "compatible" ELSE checks[Min(failed)][2]

\* ValidateRoutes and Metadata.Validate.
ValidRoutes(published, routes) ==
    /\ routes # <<>>
    /\ ToSet(routes) \subseteq published
    /\ IsInjective(routes)

ValidMetadata(published, metadata) ==
    /\ ValidRoutes(published, metadata.routes)
    /\ Len(metadata.routes) = Cardinality(published)
    /\ published \subseteq ToSet(metadata.routes)

\* Seeded fault: the version is compared with the newest accepted one only.
CheckContractVersionOfNewest(required, version) ==
    LET newest == Max({VersionNumber(v) : v \in required.versions})
    IN IF version \in required.versions THEN "compatible"
       ELSE IF Odd(version) THEN "metadata_malformed"
       ELSE IF VersionNumber(version) < newest THEN "contract_too_old"
       ELSE "contract_too_new"

\* A version between two accepted ones is too new as well.
CheckContractVersion(required, version) ==
    LET oldest == Min({VersionNumber(v) : v \in required.versions})
    IN IF version \in required.versions THEN "compatible"
       ELSE IF Odd(version) THEN "metadata_malformed"
       ELSE IF VersionNumber(version) < oldest THEN "contract_too_old"
       ELSE "contract_too_new"

RequireDigest(digest) == digest # "odd"
RequireFeatures(known, features) == features # {} /\ features \subseteq known.features

RequireVersions(versions) == versions # {} /\ \A v \in versions : v.form = "v"
RequireDigests(digests) == digests # {} /\ \A d \in digests : RequireDigest(d)
RequireRecord(required) == required.minimum \in 1..required.current
RequireNonEmpty(names) == names # {} /\ "odd" \notin names

\* What else has a single valid value: the evidence for the version of Codex, the way
\* schemas are brought into one form, the control surface.
RequireFixed(required) == required.fixed

\* Requirements.Validate; whatever fails is malformed.
Validate(required, known) ==
    /\ RequireVersions(required.versions)
    /\ RequireDigests(required.digests)
    /\ RequireFeatures(known, required.features)
    /\ ValidRoutes(known.routes, required.routes)
    /\ RequireRecord(required)
    /\ RequireFixed(required)
    /\ \A names \in {required.files, required.methods, required.notifications} :
          RequireNonEmpty(names)

CheckMetadata(required, known, metadata) ==
    LET version == CheckContractVersion(required, metadata.version)
    IN FirstFailure(<<
         <<ValidMetadata(known.routes, metadata), "metadata_malformed">>,
         <<version = "compatible", version>>,
         <<RequireDigest(metadata.digest), "metadata_malformed">>,
         <<metadata.digest \in required.digests, "schema_digest_unaccepted">>,
         <<RequireFeatures(known, metadata.features), "metadata_malformed">>,
         <<required.features \subseteq metadata.features, "feature_missing">>,
         <<ToSet(required.routes) \subseteq ToSet(metadata.routes), "route_missing">>>>)

\* CommandAppMetadata: the binary says its version, and generates its schemas, of which
\* the required ones are looked for and all are read.
AppMetadata(known, codex) ==
    FirstFailure(<<
        <<codex.bin, "codex_missing">>,
        <<codex.version = "named", "codex_missing">>,
        <<codex.generates, "app_protocol_drift">>,
        <<known.files \subseteq codex.files, "app_protocol_drift">>,
        <<codex.wellFormed, "app_protocol_drift">>>>)

\* CheckApp looks at what AppMetadata has put in: the names of the required files, and
\* methods and notifications that are not read from the schemas.
CheckApp(required, known) ==
    IF /\ required.files \subseteq known.files
       /\ required.methods \subseteq known.methods
       /\ required.notifications \subseteq known.notifications
    THEN "compatible" ELSE "app_protocol_drift"

\* Client.Metadata: any answer but a success is no endpoint; anything but the expected
\* JSON is malformed, an unknown field included.
ReadMetadata(known, service) ==
    FirstFailure(<<
        <<service.answer # "none", "endpoint_unavailable">>,
        <<service.answer = "metadata", "metadata_malformed">>,
        <<ValidMetadata(known.routes, service.metadata), "metadata_malformed">>>>)

\* Verifier.Verify: only valid requirements are compared with anything.
Verify(required, known, codex, service) ==
    LET codes == <<AppMetadata(known, codex), CheckApp(required, known),
                   ReadMetadata(known, service),
                   CheckMetadata(required, known, service.metadata)>>
    IN IF ~Validate(required, known) THEN "metadata_malformed"
       ELSE FirstFailure([i \in DOMAIN codes |-> <<codes[i] = "compatible", codes[i]>>])

\* daemonCommand: the control socket must be in the Codex home; then the binary is run.
DaemonCommand(daemon, action) == daemon.safe /\ action \in daemon.obeys

\* EnsureDaemon: whatever the start command leaves behind, its success is enough.
EnsureDaemon(daemon) == daemon.ready \/ DaemonCommand(daemon, "start")

StoredVersion(record) == IF record.version = 0 THEN 1 ELSE record.version
Readable(required, record) == StoredVersion(record) \in required.minimum..required.current
Current(required, record) == record.present /\ StoredVersion(record) = required.current

\* diagnose and runDiagnostic, by the error they end with: what a daemon lacks has no code
\* and falls to the default.  DefaultRequirements has validated the manifest before.
Doctor(required, known, record, codex, daemon, service) ==
    LET verified == Verify(required, known, codex, service)
        app == FirstFailure(<<
            <<AppMetadata(known, codex) = "compatible", AppMetadata(known, codex)>>,
            <<CheckApp(required, known) = "compatible", CheckApp(required, known)>>>>)
    IN FirstFailure(<<
         <<record.present, "install_record_upgrade_required">>,
         <<Validate(required, known), "metadata_malformed">>,
         <<Readable(required, record), "install_record_upgrade_required">>,
         <<app = "compatible", app>>,
         <<daemon.ready /\ DaemonCommand(daemon, "version"), "metadata_malformed">>,
         <<verified = "compatible", verified>>>>)

\* runCommand, as far as its first claim.
RunClaims(required, known, record, codex, daemon, service) ==
    /\ Current(required, record) /\ Validate(required, known)
    /\ EnsureDaemon(daemon)
    /\ Verify(required, known, codex, service) = "compatible"

-----------------------------------------------------------------------------
(* The values that are compared: nothing is asked of them but their shape. *)
(* Only a "v" and digits match versionPattern, while Atoi also takes a     *)
(* sign.                                                                   *)

Versions == [form : {"v"}, number : Nat] \cup [form : {"bare", "odd"}, number : Int]

Shaped(required, known, service, Routes) ==
    /\ IsFiniteSet(known.routes)
    /\ required.versions \subseteq Versions
    /\ required.routes \in Seq(Routes)
    /\ required.minimum \in Int /\ required.current \in Int
    /\ service.answer \in {"none", "odd", "metadata"}
    /\ service.metadata.version \in Versions
    /\ service.metadata.routes \in Seq(Routes)

-----------------------------------------------------------------------------
(* What may be wrong, each for itself.                                     *)

Numbers(required) == {VersionNumber(v) : v \in required.versions}

WrongWithMetadata(required, known, metadata) ==
    LET version == metadata.version
        unaccepted == version \notin required.versions /\ ~Odd(version)
        below == \A n \in Numbers(required) : VersionNumber(version) < n
    IN UNION {
         IF \/ Odd(version) \/ metadata.digest = "odd"
            \/ metadata.features = {} \/ metadata.features \ known.features # {}
            \/ ~\E p \in SetToSeqs(known.routes) : p = metadata.routes
         THEN {"metadata_malformed"} ELSE {},
         IF unaccepted /\ below THEN {"contract_too_old"} ELSE {},
         IF unaccepted /\ ~below THEN {"contract_too_new"} ELSE {},
         IF metadata.digest \notin required.digests THEN {"schema_digest_unaccepted"} ELSE {},
         IF required.features \ metadata.features # {} THEN {"feature_missing"} ELSE {}}

Wrong(required, known, codex, service) ==
    UNION {
        IF ~codex.bin \/ codex.version # "named" THEN {"codex_missing"} ELSE {},
        IF \/ ~codex.generates \/ ~codex.wellFormed \/ known.files \ codex.files # {}
           \/ required.files \ known.files # {} \/ required.methods \ known.methods # {}
           \/ required.notifications \ known.notifications # {}
        THEN {"app_protocol_drift"} ELSE {},
        IF ~Validate(required, known) THEN {"metadata_malformed"} ELSE {},
        IF service.answer = "none" THEN {"endpoint_unavailable"} ELSE {},
        IF service.answer = "odd" THEN {"metadata_malformed"} ELSE {},
        IF service.answer = "metadata"
        THEN WrongWithMetadata(required, known, service.metadata) ELSE {}}

\* Any record but a current one is refused by run.
WrongAtHome(required, record, daemon) ==
    UNION {
        IF ~Current(required, record) THEN {"install_record_upgrade_required"} ELSE {},
        IF ~daemon.ready \/ ~daemon.safe \/ "version" \notin daemon.obeys
        THEN {"metadata_malformed"} ELSE {}}

\* What doctor overlooks: that a record it can read is not current.
Overlooked(required, record) ==
    IF record.present /\ Readable(required, record)
    THEN {"install_record_upgrade_required"} ELSE {}

Names(code, wrong) == IF wrong = {} THEN code = "compatible" ELSE code \in wrong

\* Verify calls compatible what nothing is wrong with, and the code it gives otherwise is
\* one of something that is; a missing route never has a code of its own (Verify).  Doctor
\* does the same for the whole home, a daemon that is not there having no code of its own,
\* but for what it overlooks (diagnose).  Where nothing at all is wrong, run comes as far
\* as to a claim (runCommand).
Diagnoses(required, known, record, codex, daemon, service) ==
    LET wrong == Wrong(required, known, codex, service)
        all == wrong \cup WrongAtHome(required, record, daemon)
        doctor == Doctor(required, known, record, codex, daemon, service)
    IN /\ Names(Verify(required, known, codex, service), wrong)
       /\ Names(doctor, all \ Overlooked(required, record))
       /\ all = {} => RunClaims(required, known, record, codex, daemon, service)

\* What doctor calls compatible is run as far as to a claim.
Foretells(required, known, record, codex, daemon, service) ==
    Doctor(required, known, record, codex, daemon, service) = "compatible"
        => RunClaims(required, known, record, codex, daemon, service)
=============================================================================
