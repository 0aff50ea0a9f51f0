--------------------------- MODULE ReleaseBundle ---------------------------
(***************************************************************************)
(* The release bundle: runs of .github/workflows/cd.yaml build an image,   *)
(* prepare a candidate manifest (scripts/prepare_release_candidate.py),    *)
(* bind the files together (scripts/write_release_evidence.py) and sign    *)
(* them.  verify_signed_delivery of deploy_gitops_validation.py later      *)
(* verifies a downloaded bundle with scripts/verify_release_bundle.py,     *)
(* which reads one file after the other while they may be replaced.        *)
(* A SHA-256 is abstracted to the content it is of.                        *)
(***************************************************************************)
EXTENDS Integers, FiniteSets

CONSTANTS
  CdRuns,   \* runs of the workflow that may happen
  RevOf,    \* the source revision each of them builds
  ByHand,   \* those where somebody runs the scripts, who cannot sign
  MaxRuns,  \* bound: runs that do happen in a behaviour
  MaxReplaced  \* bound: replacements of files during the verification

ASSUME ReleaseAssumption ==
  /\ CdRuns \subseteq Nat \ {0} /\ ByHand \subseteq CdRuns
  /\ RevOf \in [CdRuns -> Nat \ {0}] /\ MaxRuns \in Nat /\ MaxReplaced \in Nat

VARIABLES
  registry,   \* ECR: the digest under the immutable tag of a revision
  cd,         \* progress of each run, and whether its candidate was rendered
  signed,     \* attestations of images and of evidence
  bundle,     \* the files as they are on the verifier's disk
  approved,   \* the overlay's kustomization.yaml in the reviewed checkout
  check,      \* one verification
  replaced    \* how often the content of each file changed during it

releaseVars == <<registry, cd, signed, bundle, approved, check, replaced>>

SourceRevs == {RevOf[b] : b \in CdRuns}
Digests == CdRuns \union {0}

(* base: everything but the image; image: tag and digest.                  *)
Manifests == [base : SourceRevs \union {0}, tag : SourceRevs \union {0}, digest : Digests]
SourceManifest(r) == [base |-> r, tag |-> 0, digest |-> 0]

(* build_candidate_manifest: only the image changes.                       *)
Candidate(m, r, d) == [m EXCEPT !.tag = r, !.digest = d]

(* release-candidate.json as prepare_release_candidate writes it.          *)
Metadata(r, d, isRendered) ==
  [revision |-> r, digest |-> d, source |-> SourceManifest(r),
   candidate |-> Candidate(SourceManifest(r), r, d), rendered |-> isRendered]

(* The evidence of run b: generated_at and the SBOM are new in every run.  *)
Evidence(b, r, d, metadata) ==
  [run |-> b, revision |-> r, digest |-> d, manifest |-> SourceManifest(r),
   metadata |-> metadata, sbom |-> b]

NoMetadata == Metadata(0, 0, FALSE)
NoEvidence == Evidence(0, 0, 0, NoMetadata)
NoBundle == [metadata |-> NoMetadata, manifest |-> SourceManifest(0),
             evidence |-> NoEvidence, sbom |-> 0]

NoCheck == [pc |-> "idle", rev |-> 0, digest |-> 0, round |-> 1, read |-> NoBundle,
            evidence |-> NoEvidence, sbom |-> 0, bytes |-> SourceManifest(0)]

Reads == {"metadata", "manifest", "evidence", "sbom"}
NeverReplaced == [file \in Reads |-> 0]
Metadatas == {Metadata(r, d, b) : r \in SourceRevs \union {0}, d \in Digests, b \in BOOLEAN}
Evidences == {NoEvidence} \union
  {Evidence(b, RevOf[b], d, Metadata(RevOf[b], d, x)) : b \in CdRuns, d \in Digests, x \in BOOLEAN}
Bundles == [metadata : Metadatas, manifest : Manifests, evidence : Evidences, sbom : Digests]

ReleaseTypeOK ==
  /\ registry \in [SourceRevs -> Digests]
  /\ cd \in [CdRuns -> [pc : {"image", "prepare", "render", "evidence", "sign", "signed",
                              "published", "stopped"}, rendered : BOOLEAN]]
  /\ signed \in [images : SUBSET (SourceRevs \X Digests), evidence : SUBSET CdRuns]
  /\ bundle \in Bundles /\ approved \in Manifests
  /\ check \in [pc : {"idle", "begin", "judge", "evidence again", "sbom again", "attest evidence",
                      "attest image", "compare", "approve", "refused", "verified"} \union Reads,
                rev : SourceRevs \union {0}, digest : Digests, round : 1..2, read : Bundles,
                evidence : Evidences, sbom : Digests, bytes : Manifests]
  /\ replaced \in [Reads -> 0..MaxReplaced]

ReleaseInit ==
  /\ registry = [r \in SourceRevs |-> 0]
  /\ cd = [b \in CdRuns |-> [pc |-> "image", rendered |-> FALSE]]
  /\ signed = [images |-> {}, evidence |-> {}]
  /\ bundle = NoBundle
  /\ approved = SourceManifest(0)
  /\ check = NoCheck
  /\ replaced = NeverReplaced

(***************************************************************************)
(* cd.yaml                                                                 *)
(***************************************************************************)
Digest(b) == registry[RevOf[b]]
MetadataOf(b) == Metadata(RevOf[b], Digest(b), cd[b].rendered)
EvidenceOf(b) == Evidence(b, RevOf[b], Digest(b), MetadataOf(b))
FilesOf(b) == [metadata |-> MetadataOf(b), manifest |-> MetadataOf(b).candidate,
               evidence |-> EvidenceOf(b), sbom |-> b]

CdGoto(b, from, to) == cd[b].pc = from /\ cd' = [cd EXCEPT ![b].pc = to]

Happened == {b \in CdRuns : cd[b].pc # "image"}

(* The image of the revision is built and pushed, or the tag is reused.    *)
BuildImage(b) ==
  /\ Cardinality(Happened) < MaxRuns
  /\ CdGoto(b, "image", "prepare")
  /\ b \in ByHand => Digest(b) # 0
  /\ registry' = [registry EXCEPT ![RevOf[b]] = IF @ = 0 THEN b ELSE @]
  /\ UNCHANGED <<signed, bundle, approved, check, replaced>>

(* The candidate is prepared from the manifest alone, then once more with  *)
(* the rendered one.                                                       *)
PrepareCandidate(b) ==
  /\ \/ CdGoto(b, "prepare", "render")
     \/ CdGoto(b, "prepare", "evidence") /\ b \in ByHand
     \/ cd[b].pc = "render" /\ cd' = [cd EXCEPT ![b] = [pc |-> "evidence", rendered |-> TRUE]]
  /\ UNCHANGED <<registry, signed, bundle, approved, check, replaced>>

WriteEvidence(b) ==
  /\ \/ CdGoto(b, "evidence", "sign") /\ b \notin ByHand
     \/ CdGoto(b, "evidence", "published") /\ b \in ByHand
  /\ UNCHANGED <<registry, signed, bundle, approved, check, replaced>>

(* validate_bundle on what was read, for the expected source revision.     *)
Valid(files, r) ==
  /\ files.metadata.revision = r /\ files.evidence.revision = r
  /\ files.metadata.digest = files.evidence.digest
  /\ files.metadata.rendered
  /\ files.evidence.manifest = SourceManifest(r)
  /\ files.evidence.metadata = files.metadata
  /\ files.evidence.sbom = files.sbom
  /\ files.metadata.candidate = files.manifest
  /\ files.metadata.source = SourceManifest(r)
  /\ files.manifest = Candidate(SourceManifest(r), r, files.evidence.digest)

(* The image with its SBOM is signed, then the evidence; both are verified *)
(* before the upload.                                                      *)
SignImage(b) ==
  /\ Valid(FilesOf(b), RevOf[b])
  /\ CdGoto(b, "sign", "signed")
  /\ signed' = [signed EXCEPT !.images = @ \union {<<RevOf[b], Digest(b)>>}]
  /\ UNCHANGED <<registry, bundle, approved, check, replaced>>

SignEvidence(b) ==
  /\ CdGoto(b, "signed", "published")
  /\ signed' = [signed EXCEPT !.evidence = @ \union {b}]
  /\ UNCHANGED <<registry, bundle, approved, check, replaced>>

CdStops(b) ==
  /\ \E pc \in {"prepare", "render", "evidence", "sign", "signed"} :
       CdGoto(b, pc, "stopped")
  /\ UNCHANGED <<registry, signed, bundle, approved, check, replaced>>

Verifying == check.pc \notin {"idle", "begin", "refused", "verified"}
Replacements ==
  replaced["metadata"] + replaced["manifest"] + replaced["evidence"] + replaced["sbom"]

(* A file of any run that published, an older one as well, replaces the    *)
(* one on the verifier's disk at any time.                                 *)
Download(b, file) ==
  /\ cd[b].pc = "published"
  /\ bundle[file] # FilesOf(b)[file]
  /\ bundle' = [bundle EXCEPT ![file] = FilesOf(b)[file]]
  /\ \/ /\ Verifying
        /\ Replacements < MaxReplaced
        /\ replaced' = [replaced EXCEPT ![file] = @ + 1]
     \/ ~Verifying /\ UNCHANGED replaced
  /\ UNCHANGED <<registry, cd, signed, approved, check>>

(* A pull request is merged: the candidate of a run, or something else of  *)
(* the same revision as well.                                              *)
Approve(b) ==
  /\ cd[b].pc = "published"
  /\ approved' \in {MetadataOf(b).candidate, [MetadataOf(b).candidate EXCEPT !.base = 0]}
  /\ UNCHANGED <<registry, cd, signed, bundle, check, replaced>>

(***************************************************************************)
(* verify_signed_delivery and verify_release_bundle.py                     *)
(***************************************************************************)
Moves(from, to) == check.pc = from /\ check' = to

Check(from, to) ==
  /\ Moves(from, to)
  /\ UNCHANGED <<registry, cd, signed, bundle, approved, replaced>>

CheckGoes(from, to) == Check(from, [check EXCEPT !.pc = to])

(* validate_workload: the checkout pins the requested image.               *)
PinsImage ==
  /\ approved.tag # 0
  /\ Check("idle", [NoCheck EXCEPT !.pc = "begin", !.rev = approved.tag,
                                   !.digest = approved.digest])

(* The candidate of the bundle is the reviewed manifest.                   *)
VerifyBegins ==
  /\ bundle.manifest = approved
  /\ Moves("begin", [check EXCEPT !.pc = "metadata", !.bytes = approved])
  /\ replaced' = NeverReplaced
  /\ UNCHANGED <<registry, cd, signed, bundle, approved>>

(* validate_bundle reads one file after the other; the current manifest is *)
(* the one of the source revision, from Git.                               *)
ReadsFile(file, next) ==
  Check(file, [check EXCEPT !.pc = next, !.read[file] = bundle[file]])

Validates ==
  /\ Valid(check.read, check.rev)
  /\ CheckGoes("judge", IF check.round = 1 THEN "evidence again" ELSE "compare")

(* The evidence is hashed again, then the SBOM.                            *)
HashesEvidence ==
  /\ bundle.evidence = check.read.evidence
  /\ Check("evidence again", [check EXCEPT !.pc = "sbom again", !.evidence = bundle.evidence])

HashesSbom ==
  Check("sbom again", [check EXCEPT !.pc = "attest evidence", !.sbom = bundle.sbom])

(* gh reads the evidence and looks for its attestation.                    *)
AttestsEvidence ==
  /\ bundle.evidence.run \in signed.evidence /\ bundle.evidence.revision = check.rev
  /\ CheckGoes("attest evidence", "attest image")

(* The SPDX attestation of the image; then everything is read again.       *)
AttestsImage ==
  /\ <<check.rev, check.read.evidence.digest>> \in signed.images
  /\ Check("attest image", [check EXCEPT !.pc = "metadata", !.round = 2])

(* Faulty variant: what was read again is not compared.                    *)
ComparesNothing == CheckGoes("compare", "approve")

Compares ==
  /\ check.read.evidence = check.evidence /\ bundle.sbom = check.sbom
  /\ CheckGoes("compare", "approve")

(* Faulty variant: without the last look at the checkout.                  *)
ApprovesCandidate ==
  /\ check.read.evidence.digest = check.digest
  /\ bundle.manifest = check.bytes
  /\ CheckGoes("approve", "verified")

(* The digest is the requested one and the checkout and the candidate are  *)
(* what they were.                                                         *)
Approves ==
  /\ check.read.evidence.digest = check.digest
  /\ bundle.manifest = check.bytes /\ approved = check.bytes
  /\ CheckGoes("approve", "verified")

(* A check, a read, gh or its timeout fails.                               *)
CheckFails ==
  /\ check.pc \notin {"idle", "refused", "verified"}
  /\ Check(check.pc, [NoCheck EXCEPT !.pc = "refused"])

----------------------------------------------------------------------------
Verification ==
  \/ PinsImage \/ VerifyBegins
  \/ ReadsFile("metadata", "manifest") \/ ReadsFile("manifest", "evidence")
  \/ ReadsFile("evidence", "sbom") \/ ReadsFile("sbom", "judge")
  \/ Validates \/ HashesEvidence \/ HashesSbom \/ AttestsEvidence \/ AttestsImage
  \/ Compares \/ Approves \/ CheckFails

ReleaseNext ==
  \/ \E b \in CdRuns :
       \/ BuildImage(b) \/ PrepareCandidate(b) \/ WriteEvidence(b)
       \/ SignImage(b) \/ SignEvidence(b) \/ CdStops(b) \/ Approve(b)
       \/ \E file \in Reads : Download(b, file)
  \/ Verification

ReleaseSpec == ReleaseInit /\ [][ReleaseNext]_releaseVars

----------------------------------------------------------------------------
(* A verified delivery names the image that the workflow pushed and signed *)
(* for the source revision, however the files were replaced.  If neither   *)
(* the evidence nor the SBOM was replaced twice, a single replacement      *)
(* between any two of the reads cannot mix releases: the evidence in use   *)
(* was signed by a run on that revision, and the SBOM that was hashed is   *)
(* the one of that run.  (A file that is replaced and put back between two *)
(* equal hashes is not noticed.)                                           *)
VerifiedIsOneRelease ==
  check.pc = "verified" =>
    /\ check.digest = registry[check.rev]
    /\ <<check.rev, check.digest>> \in signed.images
    /\ RevOf[check.read.evidence.run] = check.rev
    /\ replaced["evidence"] < 2 => check.read.evidence.run \in signed.evidence
    /\ replaced["sbom"] < 2 => check.sbom = check.read.evidence.run

(* When a delivery is declared verified, the reviewed manifest is the      *)
(* manifest of the source revision with the image of the release and no    *)
(* other change, whatever was checked out in the meantime, unless the      *)
(* candidate file was replaced and put back.                               *)
OnlyTheImageChanges ==
  [][check'.pc = "verified" /\ check.pc # "verified" /\ replaced["manifest"] < 2 =>
       approved = Candidate(SourceManifest(check'.rev), check'.rev, check'.digest)]_releaseVars
=============================================================================
