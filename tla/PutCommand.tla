---------------------------- MODULE PutCommand ----------------------------
(***************************************************************************)
(* Successive `apktag put` commands (cmd/apktag/main.go, runPut) over one   *)
(* file tree: the channel list comes from the command line or from a file   *)
(* of that name, --out is a directory or one file, and PackFiles plans the  *)
(* paths and writes the artifacts, its jobs in flight at the same time.     *)
(*                                                                          *)
(* The base is an APK without a channel that can be packed; failing file    *)
(* operations and concurrent batches are PackFiles' own subject.            *)
(***************************************************************************)
EXTENDS PathPlan, FiniteSets

CONSTANTS
    Requests,   \* the commands that may be given
    Cwd,        \* the working directory
    Base,       \* the path of the base APK
    Apks,       \* names with the extension .apk
    Binary,     \* what splitting an APK's bytes into channels yields
    TempNames,  \* a sequence of names .apktag-*, one per job: the bound on jobs
    Pool,       \* number of workers
    Disk,       \* the tree before the first command
    MaxCalls    \* bound on the number of commands

FileType ==
    {[kind |-> "base"], [kind |-> "foreign"], Directory}
    \cup [kind : {"text"}, fields : Seq(Raws \cup {""})]
    \cup [kind : {"apk", "temp"}, channel : Channels]

RequestType ==
    [spec : [name : Words, fields : Seq(Raws \cup {""})], out : Seq(Words),
     pattern : Seq(Words) \ {<<>>}, overwrite : BOOLEAN]

(* os.CreateTemp picks names that nothing else has.                         *)
ASSUME PutAssumption ==
    /\ Requests \subseteq RequestType
    /\ Cwd \in Seq(Words) /\ Apks \subseteq Words /\ Binary \in Seq(Raws)
    /\ DOMAIN Disk \subseteq Seq(Words)
    /\ Disk \in [DOMAIN Disk -> FileType]
    /\ Base \in DOMAIN Disk /\ Disk[Base] = [kind |-> "base"]
    /\ \A i \in DOMAIN TempNames : TempNames[i] \notin Words
    /\ \A i, j \in DOMAIN TempNames : TempNames[i] = TempNames[j] => i = j
    /\ Pool \in Nat \ {0} /\ MaxCalls \in Nat

VARIABLES
    tree,     \* the file tree
    call,     \* the command in progress
    history   \* the commands that have ended, and how

vars == <<tree, call, history>>

ApkFile(channel) == [kind |-> "apk", channel |-> channel]

TempFile(channel) == [kind |-> "temp", channel |-> channel]

Idle == [phase |-> "idle"]

Init ==
    /\ tree = Disk
    /\ call = Idle
    /\ history = <<>>

-----------------------------------------------------------------------------
(* From the command line to PackFiles' arguments.                           *)

(* strings.FieldsFunc over commas and line ends: empty fields vanish.       *)
SplitChannels(fields) == Kept(fields, Raws \ {""})

SpecFile(r) == Real(Joined(Cwd, <<r.spec.name>>))

(* channelsFromSpec: a file of that name is read, a directory is not.       *)
RawChannels(r) ==
    IF SpecFile(r) \notin DOMAIN tree \/ tree[SpecFile(r)] = Directory
    THEN SplitChannels(r.spec.fields)
    ELSE IF tree[SpecFile(r)].kind = "text" THEN SplitChannels(tree[SpecFile(r)].fields)
    ELSE Binary

(* --out is the exact path of the one artifact.                             *)
ExactOutput(r) == Len(RawChannels(r)) = 1 /\ r.out # Cwd /\ Last(r.out) \in Apks

OutputDir(r) == IF ExactOutput(r) THEN Front(r.out) ELSE r.out

OutputPattern(r) ==
    IF ExactOutput(r) THEN <<Last(r.out)>>
    ELSE IF r.pattern = <<"">> THEN <<DefaultName>>
    ELSE r.pattern

PathsFor(r, channels) ==
    [k \in DOMAIN channels |-> PlannedPath(OutputDir(r), OutputPattern(r), channels[k])]

-----------------------------------------------------------------------------
(* The call of PackFiles.                                                   *)

Ended(r, raws, channels, paths, status) ==
    history' = Append(history, [request |-> r, raws |-> raws, channels |-> channels,
                                paths |-> paths, status |-> status])

MayBegin == call = Idle /\ Len(history) < MaxCalls

(* Nothing has been touched yet.                                            *)
RefuseEarly(r) ==
    /\ MayBegin
    /\ ChannelsRefused(RawChannels(r)) \/ ~CanMake(tree, OutputDir(r))
    /\ Ended(r, RawChannels(r), <<>>, <<>>, "refused")
    /\ UNCHANGED <<tree, call>>

Plan(r) ==
    LET channels == Normalized(RawChannels(r))
        paths    == PathsFor(r, channels)
        made     == WithDirectory(tree, OutputDir(r))
    IN  /\ MayBegin
        /\ ~ChannelsRefused(RawChannels(r)) /\ CanMake(tree, OutputDir(r))
        /\ tree' = made
        /\ IF \/ PatternRefused(OutputPattern(r), channels)
              \/ PathsRefused(made, Base, OutputDir(r), paths, r.overwrite)
           THEN Ended(r, RawChannels(r), channels, paths, "refused") /\ UNCHANGED call
           ELSE /\ call' = [phase |-> "run", request |-> r, dir |-> OutputDir(r),
                            raws |-> RawChannels(r), channels |-> channels, paths |-> paths,
                            next |-> 1, open |-> {}, ok |-> {}, failed |-> {}]
                /\ UNCHANGED history

(* The feeder hands out job indexes in order; atomicWrite makes the         *)
(* directory of the path and a temporary file in it.                        *)
TempPath(i) == Append(Real(Front(call.paths[i])), TempNames[i])

OpenTemp ==
    /\ call.phase = "run"
    /\ LET i == call.next
           dir == Front(call.paths[i])
       IN  /\ i \in DOMAIN call.paths \cap DOMAIN TempNames
           /\ Cardinality(call.open) < Pool
           /\ IF CanMake(tree, dir)
              THEN /\ tree' = [p \in DOMAIN WithDirectory(tree, dir) \cup {TempPath(i)} |->
                                 IF p = TempPath(i) THEN TempFile(call.channels[i])
                                 ELSE WithDirectory(tree, dir)[p]]
                   /\ call' = [call EXCEPT !.next = i + 1, !.open = @ \cup {i}]
              ELSE /\ call' = [call EXCEPT !.next = i + 1, !.failed = @ \cup {i}]
                   /\ UNCHANGED tree
    /\ UNCHANGED history

(* Mutant: the last look is made whatever Overwrite says.                   *)
CannotReplaceAnyway(i) ==
    \/ Occupied(tree, <<call.paths[i]>>, FALSE)
    \/ IsDirectory(tree, Real(call.paths[i]))

(* The last look and the rename, which a directory in its way fails.  That  *)
(* a rename replaces a link at the path itself is left out.                 *)
CannotReplace(i) ==
    \/ Occupied(tree, <<call.paths[i]>>, call.request.overwrite)
    \/ IsDirectory(tree, Real(call.paths[i]))

Publish(i) ==
    /\ call.phase = "run"
    /\ i \in call.open
    /\ IF CannotReplace(i)
       THEN /\ tree' = Restrict(tree, DOMAIN tree \ {TempPath(i)})
            /\ call' = [call EXCEPT !.open = @ \ {i}, !.failed = @ \cup {i}]
       ELSE /\ tree' = [p \in (DOMAIN tree \ {TempPath(i)}) \cup {Real(call.paths[i])} |->
                          IF p = Real(call.paths[i]) THEN ApkFile(call.channels[i]) ELSE tree[p]]
            /\ call' = [call EXCEPT !.open = @ \ {i}, !.ok = @ \cup {i}]
    /\ UNCHANGED history

Return ==
    /\ call.phase = "run"
    /\ call.ok \cup call.failed = DOMAIN call.paths
    /\ Ended(call.request, call.raws, call.channels, call.paths,
             IF call.failed = {} THEN "ok" ELSE "failed")
    /\ call' = Idle
    /\ UNCHANGED tree

Next ==
    \/ \E r \in Requests : RefuseEarly(r) \/ Plan(r)
    \/ OpenTemp
    \/ \E i \in DOMAIN TempNames : Publish(i)
    \/ Return

Spec == Init /\ [][Next]_vars

-----------------------------------------------------------------------------
(* Properties.                                                              *)

Kinds == {"directory", "base", "foreign", "text", "apk", "temp"}

(* Every job handed out is in flight or has reported, and no channel that   *)
(* is packed is blank or has a separator or a control character.            *)
TypeOK ==
    /\ \A p \in DOMAIN tree : tree[p].kind \in Kinds
    /\ Len(history) <= MaxCalls
    /\ call.phase = "run" =>
          /\ DOMAIN call.paths = DOMAIN call.channels
          /\ call.open \cup call.ok \cup call.failed = 1 .. call.next - 1
          /\ call.open \cap (call.ok \cup call.failed) = {} /\ call.ok \cap call.failed = {}
          /\ ToSet(call.channels) \cap (BadNames \cup {""}) = {}

(* "The base APK is [...] never modified" (files.go:16): no command, with   *)
(* whatever pattern, channels and directory, replaces the base.             *)
BaseUntouched == tree[Base] = Disk[Base]

Fresh == call = Idle /\ history # <<>> /\ Last(history).status = "ok"

FirstMention(raws, channel) ==
    CHOOSE k \in DOMAIN raws :
        Trim[raws[k]] = channel /\ \A j \in 1 .. k - 1 : Trim[raws[j]] # channel

(* When a command succeeds, each channel it was asked for has one file that *)
(* holds this channel, in the order of first mention: no two jobs shared a  *)
(* path, however names with dots and nested patterns were cleaned.          *)
EachChannelHasItsFile ==
    Fresh =>
        LET h == Last(history)
        IN  /\ ToSet(h.channels) = {Trim[raw] : raw \in ToSet(h.raws)} \ {""}
            /\ \A i, j \in DOMAIN h.channels :
                  i < j => FirstMention(h.raws, h.channels[i]) < FirstMention(h.raws, h.channels[j])
            /\ \A k \in DOMAIN h.paths :
                  /\ Real(h.paths[k]) \in DOMAIN tree
                  /\ tree[Real(h.paths[k])] = ApkFile(h.channels[k])

Changed == {p \in DOMAIN tree \cup DOMAIN tree' :
              p \notin DOMAIN tree \/ p \notin DOMAIN tree' \/ tree[p] # tree'[p]}

Running == IF call.phase = "run" THEN call ELSE call'

(* "output path escapes output directory" (files.go:64) is refused: but for *)
(* making the output directory itself, a step changes nothing outside it,   *)
(* not even for the time of a temporary file, unless withinDir let the      *)
(* directory itself pass as an artifact's path.                             *)
Confined ==
    [][Running.phase = "run" /\ Running.dir \notin ToSet(Running.paths) =>
          LET dir == Real(Running.dir)
          IN  \A p \in Changed :
                 \/ IsStrictPrefix(dir, p)
                 \/ p \in Prefixes(dir) /\ IsDirectory(tree', p)]_vars

(* "makes retries [...] safe" (docs/adr/0003): a command with --overwrite   *)
(* that succeeded succeeds again, for the same channels and files, unless   *)
(* an artifact took the name under which the channel list is looked for.    *)
RepeatSucceeds ==
    \A k \in 2 .. Len(history) :
        LET first == history[k - 1]
        IN  /\ first.request = history[k].request /\ first.request.overwrite
            /\ first.status = "ok"
            /\ \A i \in DOMAIN first.paths : Real(first.paths[i]) # SpecFile(first.request)
            => history[k] = first

(* "unsafe or colliding output pattern was accepted"                        *)
(* (apktag_test.go:589): a plan that passes the checks fails half-way only  *)
(* when one artifact's path leads through another one's, or, overwriting,   *)
(* when a directory stands at a path or a file on the way to it.            *)
Obstructed(h) ==
    \/ \E i, j \in DOMAIN h.paths : IsStrictPrefix(h.paths[i], h.paths[j])
    \/ /\ h.request.overwrite
       /\ \E i \in DOMAIN h.paths :
              IsDirectory(tree, Real(h.paths[i])) \/ Blocked(tree, h.paths[i])

FailsOnlyObstructed ==
    \A k \in DOMAIN history : history[k].status = "failed" => Obstructed(history[k])
=============================================================================
