------------------------------ MODULE Release ------------------------------
(***************************************************************************)
(* The public archive: build_public_artifact and audit_artifact of         *)
(* claude_obsidian/release.py.                                             *)
(*                                                                         *)
(* A build asks Git three things, one command after the other: is the      *)
(* worktree clean, which commit is HEAD, which blobs are in the index.  It *)
(* reads the files, packs them, and asks the same again before it puts the *)
(* archive in place.  The developer saves, stages, commits, checks out and *)
(* resets meanwhile.  An audit reads an archive that builds may replace,   *)
(* and knows it by its inode.  The kernel may give a new file the inode of *)
(* one that is gone: a build writes its archive beside the one in place,   *)
(* so the two differ, but the next build may use the first one's again.    *)
(*                                                                         *)
(* A blob id stands for its content and a commit for its tree.  Which      *)
(* files the configuration selects is fixed here.                          *)
(***************************************************************************)
EXTENDS Integers, FiniteSets

CONSTANTS
  Tracked,        \* the tracked files that the configuration selects
  Blobs,
  OverlayOf,      \* archive_overlays: the source of an archive path
  NoArchive,
  Inodes,         \* those the file system gives the archives
  MaxMoves,       \* bound: what the developer does
  MaxBuilds       \* bound: archives put in place

Trees    == [Tracked -> Blobs]
Names    == Tracked \cup DOMAIN OverlayOf
Archives == [commit : Trees, files : [Names -> Blobs]]
Asking   == {"status", "head", "index"}

ASSUME ReleaseAssumption ==
  /\ Tracked # {} /\ Blobs # {}
  /\ \A d \in DOMAIN OverlayOf : OverlayOf[d] \in Tracked
  /\ NoArchive \notin Archives
  /\ Inodes # {}
  /\ MaxMoves \in Nat /\ MaxBuilds \in Nat

VARIABLES
  worktree, staged, head,   \* the files, the index, and HEAD
  history,                  \* the commits there are
  build,                    \* where a build is, and what it has read
  output,                   \* the archive in place, and how many were built
  audit,
  indexes,                  \* history: what the index has been since a build began
  moves

releaseVars == <<worktree, staged, head, history, build, output, audit, indexes,
                 moves>>

Snapshots == [commit : Trees, oids : Trees]

ReleaseTypeOK ==
  /\ worktree \in Trees /\ staged \in Trees /\ head \in Trees
  /\ history \subseteq Trees
  /\ build \in [at : {"idle", "collect", "pack"} \cup Asking, second : BOOLEAN,
                first : Snapshots, now : Snapshots, todo : SUBSET Tracked,
                payload : Trees, moved : 0..MaxMoves]
  /\ output \in [archive : Archives \cup {NoArchive}, inode : Inodes,
                 number : 0..MaxBuilds]
  /\ audit \in [at : {"idle", "open", "judge"}, inode : Inodes,
                archive : Archives \cup {NoArchive}, ok : BOOLEAN,
                replaced : 0..MaxBuilds, byHand : BOOLEAN]
  /\ indexes \subseteq Trees
  /\ moves \in 0..MaxMoves

SomeTree == CHOOSE t \in Trees : TRUE
NoBuild  == [at |-> "idle", second |-> FALSE,
             first |-> [commit |-> SomeTree, oids |-> SomeTree],
             now |-> [commit |-> SomeTree, oids |-> SomeTree],
             todo |-> {}, payload |-> SomeTree, moved |-> 0]
\* replaced and byHand are history: what became of the archive since it was read.
NoAudit  == [at |-> "idle", inode |-> CHOOSE i \in Inodes : TRUE,
             archive |-> NoArchive, ok |-> FALSE, replaced |-> 0, byHand |-> FALSE]

\* The archive of an earlier commit.
ReleaseOf(c) == [commit |-> c,
                 files |-> [n \in Names |-> IF n \in DOMAIN OverlayOf
                                            THEN c[OverlayOf[n]] ELSE c[n]]]

ReleaseInit ==
  /\ worktree \in Trees
  /\ staged = worktree /\ head = worktree
  /\ \E c \in Trees : history = {head, c}
  /\ build = NoBuild
  /\ \E a \in {NoArchive} \cup {ReleaseOf(c) : c \in history} :
       output = [archive |-> a, inode |-> CHOOSE i \in Inodes : TRUE, number |-> 0]
  /\ audit = NoAudit
  /\ indexes = {}
  /\ moves = 0

-----------------------------------------------------------------------------
(***************************************************************************)
(* The build                                                               *)
(***************************************************************************)
repository == <<worktree, staged, head, history, moves>>

StartRelease ==
  /\ build.at = "idle" /\ output.number < MaxBuilds
  /\ build' = [NoBuild EXCEPT !.at = "status"]
  /\ indexes' = {staged}
  /\ UNCHANGED <<repository, output, audit>>

\* _git_snapshot: three commands.
AskStatus ==
  /\ build.at = "status"
  /\ build' = IF worktree = staged /\ staged = head
              THEN [build EXCEPT !.at = "head"] ELSE NoBuild
  /\ UNCHANGED <<repository, output, audit, indexes>>

AskHead ==
  /\ build.at = "head"
  /\ build' = [build EXCEPT !.at = "index", !.now.commit = head]
  /\ UNCHANGED <<repository, output, audit, indexes>>

\* The second answer must be the first.
SameTwo(first, second) == first = second

AskIndex ==
  /\ build.at = "index"
  /\ LET now == [build.now EXCEPT !.oids = staged]
     IN  build' = IF ~build.second
                  THEN [build EXCEPT !.at = "collect", !.first = now, !.now = now,
                                     !.todo = Tracked]
                  ELSE IF SameTwo(build.first, now)
                       THEN [build EXCEPT !.at = "pack", !.now = now]
                       ELSE NoBuild
  /\ UNCHANGED <<repository, output, audit, indexes>>

\* Wrong variant: the bytes are packed as they are found.
AnyBytes(blob, oid) == TRUE
\* _read_source_file and _git_blob_oid: the bytes must be those of the blob.
BlobIs(blob, oid) == blob = oid

Collect(f) ==
  /\ build.at = "collect" /\ f \in build.todo
  /\ build' = IF BlobIs(worktree[f], build.first.oids[f])
              THEN [build EXCEPT !.todo = @ \ {f}, !.payload[f] = worktree[f]]
              ELSE NoBuild
  /\ UNCHANGED <<repository, output, audit, indexes>>

\* _apply_archive_overlays: a tracked file in an overlay's place must be its copy.
PackedFiles == [n \in Names |-> IF n \in Tracked THEN build.payload[n]
                                ELSE build.payload[OverlayOf[n]]]
NoDrift == \A d \in DOMAIN OverlayOf \cap Tracked :
             build.payload[d] = build.payload[OverlayOf[d]]

\* The archive is packed and audited under a name that nobody else has.
PackAndAudit ==
  /\ build.at = "collect" /\ build.todo = {}
  /\ build' = IF NoDrift THEN [build EXCEPT !.at = "status", !.second = TRUE]
              ELSE NoBuild
  /\ UNCHANGED <<repository, output, audit, indexes>>

\* mkstemp and os.replace: the new file is there before the old one is gone.
Publish ==
  /\ build.at = "pack"
  /\ \E i \in Inodes :
       /\ output.archive = NoArchive \/ i # output.inode
       /\ output' = [archive |-> [commit |-> build.first.commit,
                                  files |-> PackedFiles],
                     inode |-> i, number |-> output.number + 1]
  /\ build' = NoBuild
  /\ audit' = IF audit.at = "judge" THEN [audit EXCEPT !.replaced = @ + 1] ELSE audit
  /\ UNCHANGED <<repository, indexes>>

\* A command fails, a limit is exceeded, or the process dies: the output stays.
BuildFails ==
  /\ build.at # "idle"
  /\ build' = NoBuild
  /\ UNCHANGED <<repository, output, audit, indexes>>

-----------------------------------------------------------------------------
(***************************************************************************)
(* The audit: identity first, then the bytes, then the identity once more  *)
(***************************************************************************)
LookAtArchive ==
  /\ audit.at = "idle" /\ output.archive # NoArchive
  /\ audit' = [NoAudit EXCEPT !.at = "open", !.inode = output.inode]
  /\ UNCHANGED <<repository, build, output, indexes>>

\* Wrong variant: the archive is not looked at again.
Unlooked(inode)   == TRUE
\* Device and inode alone: what has become of the bytes is not asked.
StillThere(inode) == output.archive # NoArchive /\ output.inode = inode

\* The bytes are read from one descriptor, which is closed.
OpenArchive ==
  /\ audit.at = "open"
  /\ audit' = IF output.archive # NoArchive /\ output.inode = audit.inode
              THEN [audit EXCEPT !.at = "judge", !.archive = output.archive]
              ELSE NoAudit
  /\ UNCHANGED <<repository, build, output, indexes>>

Judge ==
  /\ audit.at = "judge"
  /\ audit' = [NoAudit EXCEPT !.ok = StillThere(audit.inode)]
  /\ UNCHANGED <<repository, build, output, indexes>>

-----------------------------------------------------------------------------
(***************************************************************************)
(* The developer                                                           *)
(***************************************************************************)
Move ==
  /\ moves < MaxMoves
  /\ moves' = moves + 1
  /\ build' = IF build.at = "idle" THEN build
              ELSE [build EXCEPT !.moved = @ + 1]
  /\ indexes' = IF build.at = "idle" THEN indexes ELSE indexes \cup {staged'}
  /\ UNCHANGED <<output, audit>>

EditFile(f) ==
  /\ \E b \in Blobs : b # worktree[f] /\ worktree' = [worktree EXCEPT ![f] = b]
  /\ UNCHANGED <<staged, head, history>>
  /\ Move

StageAll ==
  /\ staged # worktree
  /\ staged' = worktree
  /\ UNCHANGED <<worktree, head, history>>
  /\ Move

CommitStaged ==
  /\ head # staged
  /\ head' = staged
  /\ history' = history \cup {staged}
  /\ UNCHANGED <<worktree, staged>>
  /\ Move

\* git checkout, and git reset --hard.
CheckOut ==
  /\ \E c \in history : /\ <<worktree, staged, head>> # <<c, c, c>>
                        /\ worktree' = c /\ staged' = c /\ head' = c
  /\ UNCHANGED history
  /\ Move

\* git reset, --soft or --mixed: HEAD moves, with the index or without it.
ResetHead ==
  /\ \E c \in history \ {head} : head' = c /\ staged' \in {staged, c}
  /\ UNCHANGED <<worktree, history>>
  /\ Move

\* The archive is deleted, or another is copied over it, into the same file.
ArchiveByHand ==
  /\ moves < MaxMoves /\ output.archive # NoArchive
  /\ moves' = moves + 1
  /\ \E a \in ({NoArchive} \cup {ReleaseOf(c) : c \in history}) \ {output.archive} :
       output' = [output EXCEPT !.archive = a]
  /\ audit' = IF audit.at = "judge" THEN [audit EXCEPT !.byHand = TRUE] ELSE audit
  /\ UNCHANGED <<worktree, staged, head, history, build, indexes>>

ReleaseNext ==
  \/ StartRelease \/ AskStatus \/ AskHead \/ AskIndex
  \/ \E f \in Tracked : Collect(f) \/ EditFile(f)
  \/ PackAndAudit \/ Publish \/ BuildFails
  \/ LookAtArchive \/ OpenArchive \/ Judge
  \/ StageAll \/ CommitStaged \/ CheckOut \/ ResetHead \/ ArchiveByHand

ReleaseSpec == ReleaseInit /\ [][ReleaseNext]_releaseVars

-----------------------------------------------------------------------------
\* The files of an archive are of one index that there was during the build,
\* never some of before a commit and some of after it, and an overlay is the copy
\* of its source; and they are the files of the commit that the manifest names,
\* unless the developer moves twice or more during the build: HEAD and the index are
\* read by two commands, and a checkout between them in the first look goes unseen
\* when a reset takes HEAD back between the same commands of the second.
ArchiveIsOneCommit ==
  [][Publish =>
       LET files == output'.archive.files
       IN /\ \E t \in indexes : \A f \in Tracked : files[f] = t[f]
          /\ \A d \in DOMAIN OverlayOf : files[d] = files[OverlayOf[d]]
          /\ build.moved <= 1 =>
               \A f \in Tracked : files[f] = output'.archive.commit[f]]_releaseVars

\* What an audit calls good is the archive that is in place when it says so, unless
\* two builds or more have replaced it since its bytes were read, and the last one's
\* file may have the inode of the first, or somebody copied over it or deleted it.
AuditedIsInPlace ==
  [][Judge /\ audit'.ok =>
       \/ audit.archive = output.archive
       \/ audit.replaced >= 2 \/ audit.byHand]_releaseVars

-----------------------------------------------------------------------------
(***************************************************************************)
(* The inductive invariant behind the two.                                 *)
(***************************************************************************)
\* What a build has packed is of the index it has read, which was one.
PackInv ==
  /\ build.moved <= moves
  /\ build.at # "idle" => staged \in indexes /\ output.number < MaxBuilds
  /\ build.second \/ build.at \in {"collect", "pack"} =>
       /\ build.first.oids \in indexes
       /\ \A f \in Tracked \ build.todo : build.payload[f] = build.first.oids[f]
  /\ build.second \/ build.at = "pack" => build.todo = {} /\ NoDrift

\* How the commit that a build has read can be another than the index it has read,
\* and how many moves that has taken by now: one makes the first look see the two
\* differ, and the second look, which asks for a clean tree first, takes one more.
Tidy == worktree = staged /\ staged = head

LookInv ==
  LET commit == build.first.commit
      oids   == build.first.oids
      now    == build.now.commit
      m      == build.moved
  IN /\ build.at = "head" /\ ~build.second => Tidy \/ m >= 1
     /\ build.at = "index" /\ ~build.second => (Tidy /\ now = head) \/ m >= 1
     /\ build.at = "collect" \/ (build.at = "status" /\ build.second) =>
          commit = oids \/ (m >= 1 /\ staged = oids) \/ m >= 2
     /\ build.at = "head" /\ build.second =>
          commit = oids \/ (m >= 1 /\ Tidy /\ staged = oids) \/ m >= 2
     /\ build.at = "index" /\ build.second =>
          commit = oids \/ (m >= 1 /\ now = oids) \/ m >= 2
     /\ build.at = "pack" => commit = oids \/ m >= 2

\* While nobody replaces it the archive in place is the one that was read, and the
\* first to replace it has another inode.
AuditInv ==
  /\ audit.replaced <= output.number
  /\ audit.at # "judge" => audit.replaced = 0
  /\ audit.at = "judge" /\ ~audit.byHand =>
       /\ audit.replaced = 0 =>
            /\ audit.archive = output.archive /\ audit.inode = output.inode
            /\ audit.archive # NoArchive
       /\ audit.replaced = 1 => output.inode # audit.inode

ReleaseInv == ReleaseTypeOK /\ PackInv /\ LookInv /\ AuditInv
=============================================================================
