------------------------------ MODULE FileTools -----------------------------
(***************************************************************************)
(* The built-in tools that change files (llm/internal/builtin).  Each is   *)
(* an operator from the files to the files; a call that returns an error   *)
(* to the model gives what the error leaves behind.  A call is             *)
(* [tool, path, to, old, body, recursive].                                 *)
(***************************************************************************)
EXTENDS Paths

\* MkdirAll, which fails where a file is in the way
Obstructed(fs, p) == \E q \in Prefixes(p) : q \in DOMAIN fs.files
MkdirAll(fs, p) == [fs EXCEPT !.dirs = @ \cup Prefixes(p)]
RemoveAll(fs, p) ==
    [dirs |-> fs.dirs \ Below(p, fs.dirs), files |-> Without(fs.files, Below(p, DOMAIN fs.files)),
     links |-> Without(fs.links, Below(p, DOMAIN fs.links))]

\* Opening a path follows a link; removing and renaming do not.
Opened(fs, p) == IF p \in DOMAIN fs.links THEN fs.links[p] ELSE p

WriteFile(fs, w, c) ==
    LET p == Opened(fs, ResolvePath(fs, w, c.path)) IN
    IF p = Nowhere \/ p \in fs.dirs \/ Obstructed(fs, Front(p)) THEN fs
    ELSE [MkdirAll(fs, Front(p)) EXCEPT !.files = (p :> c.body) @@ @]

\* old_string stands for the one body that has it, once.
EditFile(fs, w, c) ==
    LET p == Opened(fs, ResolvePath(fs, w, c.path)) IN
    IF p \notin DOMAIN fs.files \/ fs.files[p] # c.old THEN fs ELSE [fs EXCEPT !.files[p] = c.body]

NotEmpty(fs, p) == Below(p, fs.dirs \cup DOMAIN fs.files \cup DOMAIN fs.links) \notin {{p}, {}}

DeleteFile(fs, w, c) ==
    LET p == ResolvePath(fs, w, c.path) IN
    IF p = Nowhere \/ (~c.recursive /\ NotEmpty(fs, p)) THEN fs ELSE RemoveAll(fs, p)

\* rename(2) moves a tree, not into itself, and replaces a file by a file and an
\* empty directory by a directory.
Renames(fs, src, dst) ==
    /\ Exists(fs, src)
    /\ IF src \in fs.dirs THEN dst \notin DOMAIN fs.files /\ ~NotEmpty(fs, dst) /\ ~IsPrefix(src, dst)
       ELSE dst \notin fs.dirs

MoveFile(fs, w, c) ==
    LET src == ResolvePath(fs, w, c.path)
        dst == ResolvePath(fs, w, c.to)
        at(p) == dst \o SubSeq(p, Len(src) + 1, Len(p))
        moved(f) == [q \in {at(p) : p \in Below(src, DOMAIN f)} |-> f[src \o SubSeq(q, Len(dst) + 1, Len(q))]] IN
    IF src = Nowhere \/ dst = Nowhere \/ Obstructed(fs, Front(dst)) THEN fs
    ELSE LET made == MkdirAll(fs, Front(dst))
             gone == RemoveAll(made, src) IN
         IF ~Renames(made, src, dst) THEN made
         ELSE [dirs |-> gone.dirs \cup {at(p) : p \in Below(src, made.dirs)},
               files |-> moved(made.files) @@ gone.files, links |-> moved(made.links) @@ gone.links]

UseTool(fs, w, c) ==
    CASE c.tool = "write_file"  -> WriteFile(fs, w, c)
      [] c.tool = "edit_file"   -> EditFile(fs, w, c)
      [] c.tool = "delete_file" -> DeleteFile(fs, w, c)
      [] c.tool = "move_file"   -> MoveFile(fs, w, c)
=============================================================================
