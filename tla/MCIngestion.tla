---------------------------- MODULE MCIngestion ----------------------------
(***************************************************************************)
(* Instances of Ingestion for TLC: one file for each thing a loader has to *)
(* tell from the others, and three states.                                 *)
(***************************************************************************)
EXTENDS Ingestion

MCModules == {"a", "b", "c", "d"}

Tree(root, a, b, modes) ==
    [root |-> root,
     children |-> [m \in MCModules |-> CASE m = "a" -> a [] m = "b" -> b [] OTHER -> <<>>],
     modes |-> [m \in MCModules |-> IF m = "d" THEN <<>> ELSE modes]]

Empty  == Tree(Nil, <<>>, <<>>, <<>>)
Nested == Tree("a", <<"b", "c">>, <<"d">>, <<"managed", "data">>)
Chain  == Tree("a", <<"b">>, <<"c", "d">>, <<"data", "managed", "managed">>)
Single == Tree("c", <<>>, <<>>, <<"managed">>)

MCTrees == {Empty, Nested, Chain, Single}

Text(form, keys, fits, version, body) ==
    [form |-> form, keys |-> keys, fits |-> fits, version |-> version, body |-> body]

BothKeys == {"format_version", "resource_changes"}

\* No object: the other fields say nothing.
Formless(form) == Text(form, {}, FALSE, "1", Nil)

Objects ==
    {Text("object", {"resource_changes"}, TRUE, "1", Nested),
     Text("object", {"format_version"}, TRUE, "1", Nested),
     Text("object", BothKeys, FALSE, "1.2", Chain),
     Text("object", BothKeys, TRUE, "10.0", Chain),
     Text("object", BothKeys, TRUE, "1.2", Chain)}

Bodies == {Text("object", BothKeys, TRUE, "1", t) : t \in {Empty, Single}}

MCTexts == {Formless(form) : form \in Forms \ {"object"}} \cup Objects \cup Bodies

Thing(node, bytes, text) == [node |-> node, size |-> bytes, text |-> text]

MCThings ==
    {Thing(node, 0, Formless("garbage")) : node \in {"absent", "denied", "directory"}}
        \cup {Thing("locked", 1, Formless("garbage"))}
        \cup {Thing("file", 1, text) : text \in MCTexts}
        \cup {Thing("file", 2, text) : text \in {Formless("nothing")} \cup Bodies}

Unremarkable ==
    {thing \in MCThings : thing.node = "file" /\ thing.text.form \in {"unbuildable", "object"}}
=============================================================================
