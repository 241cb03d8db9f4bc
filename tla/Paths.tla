------------------------------- MODULE Paths --------------------------------
(***************************************************************************)
(* Paths, symbolic links and the roots a skill's tools may reach           *)
(* (llm/workspace.go), and where the artifacts a handoff declares are      *)
(* (runner/workspace.go, runner/handoff.go, runner/handoff_artifacts.go).  *)
(* An absolute path is the sequence of its elements.  A path that somebody *)
(* wrote down is [abs, segs], with "." and ".." still in it.  A file       *)
(* system is [dirs, files, links]: a set of paths, and what a path holds   *)
(* or points to.                                                           *)
(***************************************************************************)
EXTENDS Integers, Sequences, FiniteSets, FiniteSetsExt, SequencesExt, TLC

Nowhere == <<"?">>

Rel(segs) == [abs |-> FALSE, segs |-> segs]
Abs(segs) == [abs |-> TRUE, segs |-> segs]

\* filepath.Clean: "." goes, and ".." takes the element before it away.
Clean(segs) ==
    FoldLeft(LAMBDA done, s : CASE s = "." -> done
                                [] s = ".." /\ done # << >> /\ Last(done) # ".." -> Front(done)
                                [] OTHER -> Append(done, s),
             << >>, segs)

Escapes(clean) == clean # << >> /\ Head(clean) = ".."

PathWithinRoot(root, target) == IsPrefix(root, target)

\* Lstat and Stat of a path whose directories are real ones
Exists(fs, p) == p \in fs.dirs \/ p \in DOMAIN fs.files \/ p \in DOMAIN fs.links

\* filepath.EvalSymlinks.  The links of a workspace point at files, which are
\* no links themselves.
Real(fs, p) ==
    LET via == {q \in Prefixes(p) : q \in DOMAIN fs.links}
        to  == IF via = {} THEN p
               ELSE LET q == CHOOSE q \in via : TRUE IN fs.links[q] \o SubSeq(p, Len(q) + 1, Len(p)) IN
    IF to \in fs.dirs \/ to \in DOMAIN fs.files THEN to ELSE Nowhere

\* Walks up to what exists, resolves that, and puts the rest back.
ResolvePathExistingPrefix(fs, p) ==
    LET found == {q \in Prefixes(p) : Exists(fs, q)} IN
    IF found = {} THEN Nowhere
    ELSE LET q == CHOOSE q \in found : \A r \in found : Len(r) <= Len(q)
             real == Real(fs, q) IN
         IF real = Nowhere THEN Nowhere ELSE real \o SubSeq(p, Len(q) + 1, Len(p))

\* A skill's roots: its temporary directory, its source directory and the
\* directories it was given
Roots(w) == {r \in {w.temp, w.skill} : r # Nowhere} \cup w.extra

ResolveAbsolutePath(fs, w, p) ==
    LET real == ResolvePathExistingPrefix(fs, p) IN
    IF real # Nowhere /\ \E r \in Roots(w) : PathWithinRoot(r, real) THEN real ELSE Nowhere

ResolveWorkspacePath(fs, root, segs) ==
    LET real == ResolvePathExistingPrefix(fs, root \o Clean(segs)) IN
    IF segs = << >> \/ Escapes(Clean(segs)) \/ real = Nowhere \/ ~PathWithinRoot(root, real) THEN Nowhere ELSE real

ResolvePath(fs, w, path) ==
    IF path.abs THEN ResolveAbsolutePath(fs, w, Clean(path.segs)) ELSE ResolveWorkspacePath(fs, w.temp, path.segs)

-----------------------------------------------------------------------------
\* The artifacts of a handoff

\* validateHandoffArtifactPath
ValidateHandoffArtifactPath(path) ==
    ~path.abs /\ path.segs # << >> /\ Clean(path.segs) # << >> /\ ~Escapes(Clean(path.segs))

RewriteLeadingPathSegment(p, old, new) == IF p # << >> /\ Head(p) = old THEN <<new>> \o Tail(p) ELSE p

NormalizeLegacyWorkspacePath(p) ==
    RewriteLeadingPathSegment(
        RewriteLeadingPathSegment(
            RewriteLeadingPathSegment(p, "outbox", "downstream"), "inbox", "upstream"), "workspace", "scratch")

ResolveHandoffArtifactPath(root, path) ==
    LET clean == NormalizeLegacyWorkspacePath(Clean(path.segs)) IN
    IF path.abs \/ path.segs = << >> \/ clean = << >> \/ Escapes(clean) THEN Nowhere ELSE root \o clean

CanonicalExistingDir(fs, p) == IF Real(fs, p) \in fs.dirs THEN Real(fs, p) ELSE Nowhere

DirUnderAllowedRoots(dir, roots) == roots = {} \/ \E r \in roots : PathWithinRoot(r, dir)

\* Mutant: a file is taken for the directory it is in.
HandoffArtifactDirOfFile(fs, type, p, roots) ==
    LET dir == CanonicalExistingDir(fs, p) IN
    IF dir # Nowhere /\ DirUnderAllowedRoots(dir, roots) THEN dir ELSE Nowhere

\* The directory that gives access to an artifact: of a directory it is that
\* directory, of a file the one it is in.
HandoffArtifactDir(fs, type, p, roots) ==
    LET isDir == IF type \in {"dir", "file"} THEN type = "dir" ELSE Real(fs, p) \in fs.dirs
        there == type \in {"dir", "file"} \/ Real(fs, p) # Nowhere
        dir   == CanonicalExistingDir(fs, IF isDir THEN p ELSE Front(p)) IN
    IF there /\ dir # Nowhere /\ DirUnderAllowedRoots(dir, roots) THEN dir ELSE Nowhere

\* The directories a node may reach for the artifacts of the handoffs it was
\* given; a handoff is [from, artifacts], and rootOf the root of a node that
\* has a workspace.
HandoffArtifactDirs(fs, handoffs, rootOf, roots) ==
    {d \in {HandoffArtifactDir(fs, a.type, ResolveHandoffArtifactPath(rootOf[h.from], a.path), roots) :
              <<h, a>> \in {<<h, a>> \in handoffs \X UNION {h.artifacts : h \in handoffs} :
                              /\ h.from \in DOMAIN rootOf /\ a \in h.artifacts
                              /\ ResolveHandoffArtifactPath(rootOf[h.from], a.path) # Nowhere}} : d # Nowhere}

-----------------------------------------------------------------------------
\* The tree of a runner's workspace

ValidateNodeID(id) == id \notin {"", ".", ".."}

SkillRoot(root, n) == root \o <<"skills", n>>
ChannelDir(root, n, channel) == Append(SkillRoot(root, n), channel)

\* ProvisionWorkspace, for a runner whose directory is not there yet
ProvisionWorkspace(fs, root, nodes) ==
    [fs EXCEPT !.dirs = @ \cup {root, Append(root, "exchange"), Append(root, "skills"), Append(root, "archive")}
                          \cup UNION {{SkillRoot(root, n)} \cup
                                      {ChannelDir(root, n, c) : c \in {"memo", "upstream", "downstream", "scratch"}} : n \in nodes}]

\* What a node may reach of it
AccessibleDirs(root, n) ==
    {ChannelDir(root, n, c) : c \in {"memo", "upstream", "downstream", "scratch"}} \cup {Append(root, "exchange")}

Below(p, paths) == {q \in paths : IsPrefix(p, q)}
Without(f, keys) == [k \in DOMAIN f \ keys |-> f[k]]

\* symlinkFileIfExists and symlinkTreeIfExists: a link for each file, real
\* directories in between
SymlinkFileIfExists(fs, src, dst) ==
    IF src \in DOMAIN fs.files THEN [fs EXCEPT !.links = (dst :> src) @@ @] ELSE fs

SymlinkTreeIfExists(fs, src, dst) ==
    LET at(p) == dst \o SubSeq(p, Len(src) + 1, Len(p))
        files == Below(src, DOMAIN fs.files) IN
    [fs EXCEPT !.dirs = @ \cup {at(d) : d \in Below(src, fs.dirs)},
               !.links = [l \in {at(p) : p \in files} |-> src \o SubSeq(l, Len(dst) + 1, Len(l))] @@ @]

\* Workspace.Handoff: the successor's directory for the producer is made anew,
\* with links to the handoff and the artifacts.
Handoff(fs, root, producer, successor) ==
    LET dst == Append(ChannelDir(root, successor, "upstream"), producer)
        src == ChannelDir(root, producer, "downstream")
        new == [fs EXCEPT !.dirs = (@ \ Below(dst, @)) \cup {dst}, !.links = Without(@, Below(dst, DOMAIN @))] IN
    SymlinkTreeIfExists(SymlinkFileIfExists(new, Append(src, "handoff.md"), Append(dst, "handoff.md")),
                        Append(src, "artifacts"), Append(dst, "artifacts"))
=============================================================================
