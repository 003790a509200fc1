----------------------------- MODULE Executables -----------------------------
(***************************************************************************)
(* Which files the program is willing to start: the pinned Codex release   *)
(* (contracts/codex/executable.rs), and an official Claude Code release    *)
(* checked against its published manifest (contracts/claude_executable.rs).*)
(*                                                                         *)
(* A file is a record: whether it is there, is a regular file and may be   *)
(* executed, its size when it is opened and how much is read from it (an   *)
(* update may grow it meanwhile), its header and its digest.               *)
(***************************************************************************)
EXTENDS Naturals, Sequences
LOCAL INSTANCE SequencesExt

CONSTANTS
  MaxExecutable,   \* MAX_CODEX_EXECUTABLE_BYTES, MAX_CLAUDE_EXECUTABLE_BYTES
  MaxManifest,     \* MAX_MANIFEST_BYTES
  CodexDigest      \* CODEX_NATIVE_SHA256

ASSUME ExecutablesAssumption == MaxExecutable \in Nat /\ MaxManifest \in Nat

\* Opened, and a regular file with an execute bit.
ExecutableFile(file) == file.present /\ file.regular /\ file.runnable

NativeHeader(file) == file.header = "native"

\* validate_native_path.
PinnedCodex(file) ==
  /\ ExecutableFile(file)
  /\ file.size <= MaxExecutable
  /\ NativeHeader(file)
  /\ file.read <= MaxExecutable
  /\ file.digest = CodexDigest

-----------------------------------------------------------------------------
\* canonical_executable and release_version: three runs of digits after the
\* last slash of the resolved path.
ReleasePath(path) ==
  /\ path.absolute
  /\ path.resolves
  /\ path.printable
  /\ Len(path.version) = 3
  /\ ToSet(path.version) \subseteq Nat

\* bounded_manifest: the announced length, where there is one, and what the
\* chunks add up to.
ManifestIsRead(reply) ==
  /\ reply.status \in 200..299
  /\ reply.announced = {} \/ reply.announced \subseteq 0..MaxManifest
  /\ FoldLeft(LAMBDA total, chunk : total + chunk, 0, reply.chunks) <= MaxManifest

\* verify_release.
DescribesRelease(manifest, version) ==
  /\ manifest.parses
  /\ manifest.version = version
  /\ manifest.artifact \in {"claude"}
  /\ manifest.checksum.wellFormed
  /\ manifest.size <= MaxExecutable

OfficialClaude(path, reply, file) ==
  /\ ReleasePath(path)
  /\ ManifestIsRead(reply)
  /\ DescribesRelease(reply.manifest, path.version)
  /\ ExecutableFile(file)
  /\ file.size = reply.manifest.size
  /\ NativeHeader(file)
  /\ file.digest = reply.manifest.checksum.digest
=============================================================================
