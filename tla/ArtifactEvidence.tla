-------------------------- MODULE ArtifactEvidence --------------------------
(***************************************************************************)
(* The artifacts of a workflow on the disk, the manifest of their digests  *)
(* (orchestration/artifacts.py), and the audits and evidence bundles made  *)
(* of them (evidence.py).                                                  *)
(*                                                                         *)
(* Files are written in place: opened, which truncates them, and written.  *)
(* A call can fail and a process can die between any two writes.  The      *)
(* manifest is a file like the others: no path is kept for it.             *)
(***************************************************************************)
EXTENDS Integers, Sequences, FiniteSets, Functions

CONSTANTS
  Paths,        \* relative paths inside the output directory, as segments
  Contents,     \* what artifacts contain, once redacted; no JSON
  Blank,        \* content that is not persisted
  Escaping,     \* a path that is refused: absolute, "..", or through a link
  Absent,       \* no such file, no such entry
  Torn,         \* a file that was truncated and not yet written
  MaxCalls,     \* bound: calls of persist_artifacts
  MaxStops,     \* bound: calls cut short by a failure or a crash
  MaxUnread,    \* bound: manifests that could not be read
  MaxTampers    \* bound: edits of persisted artifacts by somebody else

ManifestAt == <<"artifacts_manifest.json">>

ASSUME ArtifactAssumption ==
  /\ {MaxCalls, MaxStops, MaxUnread, MaxTampers} \subseteq Nat
  /\ {Blank, Absent, Torn} \cap Contents = {} /\ Escaping \notin Paths
  /\ Absent # Torn
  /\ Paths \subseteq Seq(STRING) /\ ManifestAt \in Paths

VARIABLES
  output,     \* the files of the output directory, the manifest among them
  call,       \* the locals of persist_artifacts
  persisted,  \* what the calls that returned last persisted at each path
  forgotten,  \* persisted paths whose entries a call went on without
  written,    \* everything ever written at each path
  bundle,     \* the files of an exported evidence bundle, and its summary
  spent        \* how much of the bounds is used up

artifactVars == <<output, call, persisted, forgotten, written, bundle, spent>>

Entries == [Paths -> Contents \cup {Absent}]
NoEntries == [p \in Paths |-> Absent]
File == Contents \cup Entries \cup {Absent, Torn}

\* No artifact can be read as a manifest, nor can a file that is torn or missing.
ASSUME SentinelAssumption == (Contents \cup {Absent, Torn}) \cap Entries = {}

Artifacts == (Paths \cup {Escaping}) \X (Contents \cup {Blank})
Batches == {<<a>> : a \in Artifacts} \cup {<<a, b>> : a, b \in Artifacts}

ArtifactTypeOK ==
  /\ output \in [Paths -> File]
  /\ \A p \in Paths \ {ManifestAt} : output[p] \notin Entries
  /\ call.pc \in {"idle", "artifacts", "writing", "manifest"}
  /\ call.todo \in {<<>>} \cup Batches /\ call.done \in Entries /\ call.entries \in Entries
  /\ persisted \in Entries /\ forgotten \subseteq Paths
  /\ written \in [Paths -> SUBSET Contents]
  /\ bundle = Absent \/ bundle.passed \in BOOLEAN

NoCall == [pc |-> "idle", todo |-> <<>>, done |-> NoEntries, entries |-> NoEntries]

ArtifactInit ==
  /\ output = [p \in Paths |-> Absent]
  /\ call = NoCall
  /\ persisted = NoEntries /\ forgotten = {} /\ written = [p \in Paths |-> {}]
  /\ bundle = Absent
  /\ spent = [calls |-> 0, stops |-> 0, unread |-> 0, edits |-> 0]

\* The entries of g over those of f.
Updated(f, g) == [p \in Paths |-> IF g[p] = Absent THEN f[p] ELSE g[p]]

-----------------------------------------------------------------------------
(* persist_artifacts                                                       *)

Persist(batch) ==
  /\ call.pc = "idle" /\ spent.calls < MaxCalls
  /\ call' = [NoCall EXCEPT !.pc = "artifacts", !.todo = batch]
  /\ spent' = [spent EXCEPT !.calls = @ + 1]
  /\ UNCHANGED <<output, persisted, forgotten, written, bundle>>

Artifact == Head(call.todo)

SkipBlank ==
  /\ call.pc = "artifacts" /\ call.todo # <<>> /\ Artifact[2] = Blank
  /\ call' = [call EXCEPT !.todo = Tail(@)]
  /\ UNCHANGED <<output, persisted, forgotten, written, bundle, spent>>

\* A path outside of the directory raises; what was written so far stays.
Refuse ==
  /\ call.pc = "artifacts" /\ call.todo # <<>>
  /\ Artifact[2] # Blank /\ Artifact[1] = Escaping
  /\ call' = NoCall
  /\ UNCHANGED <<output, persisted, forgotten, written, bundle, spent>>

\* mutant: a write that fails is passed over
OpenArtifact_IgnoresErrors ==
  /\ call.pc = "artifacts" /\ call.todo # <<>>
  /\ Artifact[2] # Blank /\ Artifact[1] # Escaping
  /\ output' = [output EXCEPT ![Artifact[1]] = Torn]
  /\ call' \in {[call EXCEPT !.pc = "writing"],
                [call EXCEPT !.todo = Tail(@), !.done[Artifact[1]] = Artifact[2]]}
  /\ UNCHANGED <<persisted, forgotten, written, bundle, spent>>

OpenArtifact ==
  /\ call.pc = "artifacts" /\ call.todo # <<>>
  /\ Artifact[2] # Blank /\ Artifact[1] # Escaping
  /\ output' = [output EXCEPT ![Artifact[1]] = Torn]
  /\ call' = [call EXCEPT !.pc = "writing"]
  /\ UNCHANGED <<persisted, forgotten, written, bundle, spent>>

WriteArtifact ==
  /\ call.pc = "writing"
  /\ output' = [output EXCEPT ![Artifact[1]] = Artifact[2]]
  /\ written' = [written EXCEPT ![Artifact[1]] = @ \cup {Artifact[2]}]
  /\ call' = [call EXCEPT !.pc = "artifacts", !.todo = Tail(@), !.done[Artifact[1]] = Artifact[2]]
  /\ UNCHANGED <<persisted, forgotten, bundle, spent>>

Return ==
  /\ call' = NoCall
  /\ persisted' = Updated(persisted, call.done)

NothingToList ==
  /\ call.pc = "artifacts" /\ call.todo = <<>> /\ call.done = NoEntries
  /\ Return
  /\ UNCHANGED <<output, forgotten, written, bundle, spent>>

\* What is at ManifestAt parses as a manifest.
Intact == output[ManifestAt] \in Entries

\* mutant: the manifest lists the artifacts of this call only
KnownEntries_None == NoEntries

\* The entries to update: none if there is no manifest or it cannot be parsed.
KnownEntries == IF Intact THEN output[ManifestAt] ELSE NoEntries

Lasting == {p \in Paths : persisted[p] # Absent}

\* The call goes on with these entries and its own, and truncates the manifest.
ListOver(entries) ==
  /\ call.pc = "artifacts" /\ call.todo = <<>> /\ call.done # NoEntries
  /\ call' = [call EXCEPT !.pc = "manifest", !.entries = Updated(entries, call.done)]
  /\ output' = [output EXCEPT ![ManifestAt] = Torn]
  /\ UNCHANGED <<persisted, written, bundle>>

ListedNow == {p \in Paths : call.done[p] # Absent}

OpenManifest ==
  /\ ListOver(KnownEntries)
  /\ forgotten' = (IF Intact THEN forgotten ELSE Lasting) \ ListedNow
  /\ UNCHANGED spent

\* A manifest that exists but cannot be read counts for nothing, and the call goes on.
OpenUnread ==
  /\ output[ManifestAt] # Absent /\ spent.unread < MaxUnread
  /\ ListOver(NoEntries)
  /\ forgotten' = Lasting \ ListedNow
  /\ spent' = [spent EXCEPT !.unread = @ + 1]

WriteManifest ==
  /\ call.pc = "manifest"
  /\ output' = [output EXCEPT ![ManifestAt] = call.entries]
  /\ Return
  /\ UNCHANGED <<forgotten, written, bundle, spent>>

\* The call fails or its process dies.
Stop ==
  /\ call.pc # "idle" /\ spent.stops < MaxStops
  /\ call' = NoCall
  /\ spent' = [spent EXCEPT !.stops = @ + 1]
  /\ UNCHANGED <<output, persisted, forgotten, written, bundle>>

\* Somebody replaces or removes an artifact.
Tamper(p, content) ==
  /\ spent.edits < MaxTampers /\ call.pc = "idle"
  /\ output' = [output EXCEPT ![p] = content]
  /\ spent' = [spent EXCEPT !.edits = @ + 1]
  /\ UNCHANGED <<call, persisted, forgotten, written, bundle>>

-----------------------------------------------------------------------------
(* verify_evidence and export_evidence_bundle.  A tree is a function from  *)
(* locations, sequences of segments, to files.                             *)

\* _check_artifact_manifest over the files in dir.
VerifyArtifacts(tree, dir) ==
  /\ dir \o ManifestAt \in DOMAIN tree
  /\ tree[dir \o ManifestAt] \in Entries
  /\ \A p \in Paths :
       tree[dir \o ManifestAt][p] # Absent =>
         /\ dir \o p \in DOMAIN tree
         /\ tree[dir \o p] = tree[dir \o ManifestAt][p]

\* mutant: the bundle keeps the file names and not the directories
Archived_Flat(p) == <<"artifacts", p[Len(p)]>>

\* Where a bundle keeps an artifact.
Archived(p) == <<"artifacts">> \o p

Listed == {p \in Paths : Intact /\ output[ManifestAt][p] # Absent}

\* The manifest and the artifacts it lists and that exist.
BundleTree ==
  LET archived == {p \in Listed : output[p] # Absent}
      manifests == IF output[ManifestAt] = Absent THEN {} ELSE {ManifestAt}
  IN  [l \in manifests \cup {Archived(p) : p \in archived} |->
         IF l = ManifestAt THEN output[l]
         ELSE output[CHOOSE p \in archived : Archived(p) = l]]

\* Between two calls of persist_artifacts.
Export ==
  /\ call.pc = "idle" /\ bundle = Absent
  /\ bundle' = [tree |-> BundleTree, passed |-> VerifyArtifacts(output, <<>>),
                manifest |-> output[ManifestAt]]
  /\ UNCHANGED <<output, call, persisted, forgotten, written, spent>>

ArtifactNext ==
  \/ \E batch \in Batches : Persist(batch)
  \/ SkipBlank \/ Refuse \/ OpenArtifact \/ WriteArtifact \/ NothingToList
  \/ OpenManifest \/ OpenUnread \/ WriteManifest \/ Stop
  \/ \E p \in Paths \ {ManifestAt}, content \in Contents \cup {Absent} : Tamper(p, content)
  \/ Export

ArtifactSpec == ArtifactInit /\ [][ArtifactNext]_artifactVars

-----------------------------------------------------------------------------
\* docs/evidence.md:34, "Artifact substitution is detectable": between two calls, if
\* none was cut short, the audit passes exactly when every artifact is what was last
\* persisted there, over all the calls, but for those whose entries were forgotten.
AuditIsExact ==
  call.pc = "idle" /\ spent.stops = 0 /\ Intact =>
    (VerifyArtifacts(output, <<>>) <=>
       \A p \in Lasting \ forgotten : output[p] = persisted[p])

\* While no call is cut short, entries are forgotten only if a manifest could not be
\* read or an artifact was written over it: otherwise the audit misses no
\* substitution and cries no wolf.
EntriesAreKept ==
  spent.unread = 0 /\ spent.stops = 0 /\ written[ManifestAt] = {} => forgotten = {}

\* Whatever is cut short, an entry of the manifest is the digest of something that
\* was written at that path: files come before entries.
EntriesWereWritten ==
  \A p \in Listed : output[ManifestAt][p] \in written[p]

\* Together: entries are honest whatever is cut short, and exact if nothing was.
EvidenceIsExact ==
  ArtifactTypeOK /\ AuditIsExact /\ EntriesAreKept /\ EntriesWereWritten

\* A bundle with a good summary holds every listed artifact, each under a place of
\* its own and with the content that the manifest vouches for.
BundleIsComplete ==
  bundle # Absent /\ bundle.passed =>
    \A p \in Paths : bundle.manifest[p] # Absent =>
      /\ Archived(p) \in DOMAIN bundle.tree
      /\ bundle.tree[Archived(p)] = bundle.manifest[p]
=============================================================================
