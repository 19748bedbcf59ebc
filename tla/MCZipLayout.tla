---------------------------- MODULE MCZipLayout ----------------------------
(* Files of a few bytes around every boundary that loadArchive checks: an    *)
(* EOCD has 2 bytes, a directory header 1, the sentinel is 9.                *)
EXTENDS ZipLayout

Entry(header, local, length) ==
    [header |-> header, local |-> local, data |-> local + 1, length |-> length]

Entries == {Entry(header, local, length) : header \in 0 .. 2, local \in {0, 3, 6}, length \in {0, 2, 4}}

EntryLists == {<<>>} \cup {<<e>> : e \in Entries} \cup {<<e, f>> : e, f \in Entries}

Layout(entries, cdStart, cdSize, gap, eocdLen, rest, plain, block, start) ==
    [entries |-> entries, cdStart |-> cdStart, cdSize |-> cdSize, eocd |-> cdStart + cdSize + gap,
     eocdLen |-> eocdLen, size |-> cdStart + cdSize + gap + eocdLen + rest,
     plain |-> plain, block |-> block, start |-> start]

Blocks == {<<"none", 0>>, <<"looks", 0>>, <<"found", 3>>, <<"found", 5>>, <<"found", 8>>}

(* Every list of entries with every block, and every fault of the EOCD.      *)
MCLayouts ==
    {Layout(entries, cdStart, cdSize, 0, 2, 0, TRUE, b[1], b[2]) :
        entries \in EntryLists, cdStart \in {3, 7}, cdSize \in 0 .. 3, b \in Blocks}
    \cup
    {Layout(entries, cdStart, cdSize, gap, eocdLen, rest, plain, "found", 3) :
        entries \in {<<>>, <<Entry(1, 0, 2)>>}, cdStart \in {7, 9}, cdSize \in 0 .. 1,
        gap \in 0 .. 1, eocdLen \in 1 .. 3, rest \in 0 .. 1, plain \in BOOLEAN}
=============================================================================
