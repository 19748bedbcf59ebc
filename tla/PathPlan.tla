----------------------------- MODULE PathPlan -----------------------------
(***************************************************************************)
(* How a batch plans its files (internal/core/files.go): the channel list   *)
(* is trimmed, checked and freed of duplicates, and the output pattern is   *)
(* expanded to one path per channel, checked before anything is written.    *)
(*                                                                          *)
(* A path is the sequence of its names from the root.  What trimming makes  *)
(* of a raw channel and what a segment of a pattern expands to are tables.  *)
(* A file tree maps the real path of everything that exists to what it is.  *)
(***************************************************************************)
EXTENDS SeqFolds

CONSTANTS
    Words,        \* the names that paths, patterns and what they expand to consist of
    Trim,         \* [raw channels -> names]: strings.TrimSpace and the BOM; "" when blank
    BadNames,     \* names with a separator or a control character
    Fill,         \* Fill[segment][channel]: a segment with {channel} or {base} expanded
    DefaultName,  \* the segment "{channel}-{base}.apk"
    Links         \* [paths -> real paths]: symbolic links to directories

Raws == DOMAIN Trim

Channels == {Trim[raw] : raw \in Raws}

(* No path has more than one link on it.                                    *)
ASSUME PlanAssumption ==
    /\ Fill \in [DOMAIN Fill -> [Channels -> Words]]
    /\ DefaultName \in Words
    /\ DOMAIN Links \subseteq Seq(Words)
    /\ Links \in [DOMAIN Links -> Seq(Words)]
    /\ \A l, m \in DOMAIN Links : IsPrefix(l, m) => l = m

-----------------------------------------------------------------------------
(* Channels.                                                                *)

AddOnce(seen, raw) ==
    IF Trim[raw] \in ToSet(seen) \cup {""} THEN seen ELSE Append(seen, Trim[raw])

Normalized(raws) == FoldLeft(AddOnce, <<>>, raws)

(* Mutant: names are not validated.                                         *)
OnlyBlank(raws) == Normalized(raws) = <<>>

ChannelsRefused(raws) ==
    Normalized(raws) = <<>> \/ \E raw \in ToSet(raws) : Trim[raw] \in BadNames

-----------------------------------------------------------------------------
(* Paths.                                                                   *)

Segment(segment, channel) ==
    IF segment \in DOMAIN Fill THEN Fill[segment][channel] ELSE segment

Expanded(pattern, channel) == [k \in DOMAIN pattern |-> Segment(pattern[k], channel)]

(* Empty, or absolute: filepath.Join would drop the leading separator.      *)
InvalidName(name) == name[1] = ""

Down(path, name) ==
    CASE name \in {"", "."} -> path
      [] name = ".." /\ path # <<>> -> Front(path)
      [] name = ".." /\ path = <<>> -> path
      [] OTHER -> Append(path, name)

(* filepath.Clean of filepath.Join.                                         *)
Joined(dir, name) == FoldLeft(Down, dir, name)

PlannedPath(dir, pattern, channel) == Joined(dir, Expanded(pattern, channel))

(* Mutant: the texts are compared, and "out2" begins like "out".            *)
WithinSibling(dir, path) == Len(path) >= Len(dir) /\ IsPrefix(Front(dir), path)

(* withinDir: no ".." leads from dir to path; dir itself counts.            *)
WithinDir(dir, path) == IsPrefix(dir, path)

-----------------------------------------------------------------------------
(* The file tree.                                                           *)

Directory == [kind |-> "directory"]

Real(path) ==
    IF \E link \in DOMAIN Links : IsPrefix(link, path)
    THEN LET link == CHOOSE l \in DOMAIN Links : IsPrefix(l, path)
         IN  Links[link] \o SubSeq(path, Len(link) + 1, Len(path))
    ELSE path

IsDirectory(tree, path) == path \in DOMAIN tree /\ tree[path] = Directory

Present(tree, path) == Real(path) \in DOMAIN tree

(* A name on the way is a file: os.Stat and os.MkdirAll fail with ENOTDIR.  *)
Blocked(tree, path) ==
    \E p \in Prefixes(Real(path)) \ {Real(path)} : p \in DOMAIN tree /\ tree[p] # Directory

CanMake(tree, dir) ==
    \A p \in Prefixes(Real(dir)) : p \in DOMAIN tree => tree[p] = Directory

(* os.MkdirAll.                                                             *)
WithDirectory(tree, dir) ==
    [p \in DOMAIN tree \cup Prefixes(Real(dir)) |-> IF p \in DOMAIN tree THEN tree[p] ELSE Directory]

-----------------------------------------------------------------------------
(* The checks of the planning loop; none of them changes anything, so that  *)
(* their order decides only which error is reported.                        *)

(* Mutant: the map of paths that were seen is not looked up.                *)
NoCollisions(paths) == FALSE

Collides(paths) == \E i, j \in DOMAIN paths : i # j /\ paths[i] = paths[j]

(* Mutant: the base is not compared.                                        *)
NoBaseCheck(paths, base) == FALSE

HitsBase(paths, base) == base \in ToSet(paths)

Escapes(dir, paths) == \E k \in DOMAIN paths : ~WithinDir(dir, paths[k])

(* Mutant: os.Stat is asked whatever Overwrite says.                        *)
AnyOccupied(tree, paths, overwrite) ==
    \E k \in DOMAIN paths : Present(tree, paths[k]) \/ Blocked(tree, paths[k])

Occupied(tree, paths, overwrite) ==
    ~overwrite /\ \E k \in DOMAIN paths : Present(tree, paths[k]) \/ Blocked(tree, paths[k])

PatternRefused(pattern, channels) ==
    \/ Len(pattern) > 1 /\ InvalidName(pattern)
    \/ \E k \in DOMAIN channels : InvalidName(Expanded(pattern, channels[k]))

PathsRefused(tree, base, dir, paths, overwrite) ==
    \/ Escapes(dir, paths)
    \/ HitsBase(paths, base)
    \/ Collides(paths)
    \/ Occupied(tree, paths, overwrite)
=============================================================================
