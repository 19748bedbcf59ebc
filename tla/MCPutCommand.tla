--------------------------- MODULE MCPutCommand ---------------------------
(* A small tree for PutCommand: the base and a channel file in the directory *)
(* "in", an empty directory "out" beside it, and a link to "in".             *)
EXTENDS PutCommand, TLC

MCRaws == {"a", " a", "a ", " ", "b", "base", "list", "..", ".", "x/y", "@"}

MCTrim == [raw \in MCRaws |->
              CASE raw \in {" a", "a "} -> "a" [] raw = " " -> "" [] OTHER -> raw]

MCBad == {"x/y", "@"}

MCBinary == <<"a", "@">>

MCChannels == {"a", "b", "base", "list", "..", ".", "x/y", "@", ""}

(* The base is base.apk.                                                     *)
MCFill ==
    [seg \in {"{channel}", "{channel}.apk", "{base}.apk", "{channel}-{base}.apk"} |->
        [c \in MCChannels |->
            CASE seg = "{channel}" -> c
              [] seg = "{base}.apk" -> "base.apk"
              [] seg = "{channel}.apk" -> c \o ".apk"
              [] OTHER -> c \o "-base.apk"]]

MCCwd == <<"in">>

MCBase == <<"in", "base.apk">>

MCApks == {"base.apk", "one.apk", "{channel}.apk"}

MCTemps == <<".apktag-1", ".apktag-2">>

MCDisk ==
    (<<>> :> Directory) @@ (<<"in">> :> Directory) @@ (<<"out">> :> Directory)
    @@ (MCBase :> [kind |-> "base"])
    @@ (<<"in", "list">> :> [kind |-> "text", fields |-> <<"a", "", "", "b", " a">>])
    @@ (<<"out", "a-base.apk">> :> [kind |-> "foreign"])

MCLinks == <<"link">> :> <<"out">>

MCAlias == <<"link">> :> <<"in">>

Spelled(name, fields) == [name |-> name, fields |-> fields]

One == Spelled("a", <<"a">>)
Two == Spelled("a,b", <<"a", "b">>)

Lists ==
    {One, Two, Spelled("b", <<"b">>), Spelled("base", <<"base">>), Spelled("b, ,b", <<"b", " ", "b">>),
     Spelled("..,a", <<"..", "a">>), Spelled("x/y", <<"x/y">>), Spelled("list", <<"list">>), Spelled(" ", <<" ">>)}

Request(spec, out, pattern, overwrite) ==
    [spec |-> spec, out |-> out, pattern |-> pattern, overwrite |-> overwrite]

Plain ==
    {Request(spec, out, pattern, overwrite) :
        spec \in Lists, out \in {<<"in">>, <<"out">>},
        pattern \in {<<"">>, <<"{channel}.apk">>}, overwrite \in BOOLEAN}

(* Patterns that collide, leave the directory or come back into it, and      *)
(* directories that are linked, missing or named like an artifact.           *)
Odd ==
    {Request(spec, out, pattern, TRUE) :
        spec \in {One, Two, Spelled("..,a", <<"..", "a">>)},
        out \in {<<"out">>, <<"link">>, <<"out", "deep">>, <<"out", "one.apk">>, MCBase},
        pattern \in {<<"{base}.apk">>, <<"..", "{channel}.apk">>, <<"", "out", "{channel}.apk">>,
                     <<"sub", "{channel}", "..", "{channel}.apk">>}}

(* The artifact is named like its channel, in the working directory: given   *)
(* again, the command reads it as its channel list.                          *)
Named == {Request(One, <<"in">>, <<"{channel}">>, overwrite) : overwrite \in BOOLEAN}

(* The directory itself as an artifact's path.                               *)
Itself ==
    {Request(Spelled(".", <<".">>), <<"out">>, <<"{channel}">>, overwrite) : overwrite \in BOOLEAN}

(* One artifact's path is a directory on the way to another one's, and a     *)
(* directory or a file stands in an overwriting command's way.               *)
Obstructing ==
    {Request(Spelled("..,a", <<"..", "a">>), <<"out">>, <<"q", "{channel}", "q">>, overwrite) :
        overwrite \in BOOLEAN}
    \cup {Request(Two, <<"out">>, pattern, TRUE) :
            pattern \in {<<"{channel}", "in">>, <<"{channel}">>, <<"a-base.apk", "{channel}">>}}

MCRequests == Plain \cup Odd \cup Named \cup Itself \cup Obstructing

MCWords ==
    UNION {ToSet(p) : p \in DOMAIN MCDisk \cup {<<"link">>}}
    \cup UNION {ToSet(r.out) \cup ToSet(r.pattern) \cup {r.spec.name} : r \in MCRequests}
    \cup {MCFill[seg][c] : seg \in DOMAIN MCFill, c \in MCChannels}
    \cup MCApks \cup {"{channel}-{base}.apk"}

(* The base is reached by another name.                                      *)
AliasRequests == {Request(Spelled("base", <<"base">>), <<"link">>, <<"{channel}.apk">>, TRUE)}
=============================================================================
